----------------------- MODULE StructuredOutputProofs -----------------------
(***************************************************************************)
(* Machine-checked proofs about StructuredOutput: its type invariant and   *)
(* its four safety invariants, for every grammar, every vocabulary, every  *)
(* number of drafts and every max_tokens.                                  *)
(*                                                                         *)
(* The invariant Inv says where the matcher stands between the engine's    *)
(* calls (Committed), and what is known of the drafts and of the masks of  *)
(* the step that is under way (Prepared).  The steps need what a walk of   *)
(* the matcher over drafts does and what its rollback undoes: Walked is    *)
(* the matcher after it, WalkAt the walk after some positions.             *)
(***************************************************************************)
EXTENDS StructuredOutput, FoldLemmas, SequenceTheorems

---------------------------------------------------------------------------
(* Sequences of tokens.                                                  *)

Words == Seq(Vocabulary)

\* The tokens of a sequence.
LEMMA Elements ==
  ASSUME NEW A, NEW s \in Seq(A)
  PROVE  \A x : x \in ToSet(s) <=> \E i \in 1 .. Len(s) : s[i] = x
  BY DEF ToSet

\* The place SelectInSeq finds for one token.
LEMMA FirstPlace ==
  ASSUME NEW A, NEW s \in Seq(A), NEW x,
         NEW f, f = SelectInSeq(s, LAMBDA t : t = x)
  PROVE  /\ x \notin ToSet(s) => f = 0
         /\ x \in ToSet(s) => /\ f \in 1 .. Len(s) /\ s[f] = x
                              /\ \A j \in 1 .. Len(s) : j < f => s[j] # x
<1> DEFINE I == {i \in 1 .. Len(s) : s[i] = x}
<1>1. f = IF I # {} THEN Min(I) ELSE 0
  BY DEF SelectInSeq
<1>2. x \in ToSet(s) <=> I # {}
  BY Elements
<1>3. ASSUME I # {} PROVE Min(I) \in I /\ \A i \in I : Min(I) <= i
  <2>1. I \in SUBSET Nat
    OBVIOUS
  <2>2. PICK m \in I : \A k \in I : m <= k
    BY <2>1, <1>3, LeastNat
  <2>3. QED BY <2>2 DEF Min
<1>4. CASE I = {}
  BY <1>1, <1>2, <1>4
<1>5. CASE I # {}
  <2>1. f \in I /\ \A i \in I : f <= i
    BY <1>1, <1>3, <1>5
  <2>2. ASSUME NEW j \in 1 .. Len(s), j < f PROVE s[j] # x
    <3>1. f \in Nat /\ j \in Nat
      BY <2>1
    <3>2. s[j] = x => j \in I
      OBVIOUS
    <3>3. j \in I => f <= j
      BY <2>1
    <3>4. QED BY <2>2, <3>1, <3>2, <3>3
  <2>3. QED BY <2>1, <2>2, <1>2, <1>5
<1>6. QED BY <1>4, <1>5

\* The tokens of a concatenation.
LEMMA ConcatElements ==
  ASSUME NEW A, NEW s \in Seq(A), NEW t \in Seq(A)
  PROVE  ToSet(s \o t) = ToSet(s) \cup ToSet(t)
<1>1. s \o t \in Seq(A) /\ Len(s \o t) = Len(s) + Len(t)
  BY ConcatProperties
<1>2. \A i \in 1 .. Len(s) + Len(t) :
        (s \o t)[i] = IF i <= Len(s) THEN s[i] ELSE t[i - Len(s)]
  BY ConcatProperties
<1>3. Len(s) \in Nat /\ Len(t) \in Nat
  OBVIOUS
<1>4. ASSUME NEW x, x \in ToSet(s \o t) PROVE x \in ToSet(s) \/ x \in ToSet(t)
  <2>1. PICK i \in 1 .. Len(s) + Len(t) : (s \o t)[i] = x
    BY <1>1, <1>4, Elements
  <2>2. CASE i <= Len(s)
    <3>1. i \in 1 .. Len(s) /\ s[i] = x
      BY <2>1, <2>2, <1>2, <1>3
    <3>2. QED BY <3>1, Elements
  <2>3. CASE ~ (i <= Len(s))
    <3>1. i - Len(s) \in 1 .. Len(t) /\ t[i - Len(s)] = x
      BY <2>1, <2>3, <1>2, <1>3
    <3>2. QED BY <3>1, Elements
  <2>4. QED BY <2>2, <2>3
<1>5. ASSUME NEW x, x \in ToSet(s) PROVE x \in ToSet(s \o t)
  <2>1. PICK i \in 1 .. Len(s) : s[i] = x
    BY <1>5, Elements
  <2>2. i \in 1 .. Len(s) + Len(t) /\ (s \o t)[i] = x
    BY <2>1, <1>2, <1>3
  <2>3. QED BY <2>2, <1>1, Elements
<1>6. ASSUME NEW x, x \in ToSet(t) PROVE x \in ToSet(s \o t)
  <2>1. PICK i \in 1 .. Len(t) : t[i] = x
    BY <1>6, Elements
  <2>2. i + Len(s) \in 1 .. Len(s) + Len(t) /\ ~ (i + Len(s) <= Len(s)) /\ (i + Len(s)) - Len(s) = i
    BY <1>3
  <2>4. (s \o t)[i + Len(s)] = x
    BY <2>1, <2>2, <1>2
  <2>3. QED BY <2>2, <2>4, <1>1, Elements
<1>7. QED BY <1>4, <1>5, <1>6

\* The two parts of a sequence, as CutInTwo finds them.
Halves(A, s, k) ==
  /\ SubSeq(s, 1, k) \in Seq(A) /\ SubSeq(s, k + 1, Len(s)) \in Seq(A)
  /\ Len(SubSeq(s, 1, k)) = k /\ Len(SubSeq(s, k + 1, Len(s))) = Len(s) - k
  /\ \A i \in 1 .. k : SubSeq(s, 1, k)[i] = s[i]
  /\ \A i \in 1 .. Len(s) - k : SubSeq(s, k + 1, Len(s))[i] = s[k + i]
  /\ s = SubSeq(s, 1, k) \o SubSeq(s, k + 1, Len(s))

\* The same of words, by name: the provers then need not look into them.
LEMMA SplitWord ==
  ASSUME NEW s \in Words, NEW k \in 0 .. Len(s)
  PROVE  /\ SubSeq(s, 1, k) \in Words /\ SubSeq(s, k + 1, Len(s)) \in Words
         /\ Len(SubSeq(s, 1, k)) = k /\ Len(SubSeq(s, k + 1, Len(s))) = Len(s) - k
         /\ \A i \in 1 .. k : SubSeq(s, 1, k)[i] = s[i]
         /\ \A i \in 1 .. Len(s) - k : SubSeq(s, k + 1, Len(s))[i] = s[k + i]
         /\ s = SubSeq(s, 1, k) \o SubSeq(s, k + 1, Len(s))
<1>1. ASSUME NEW A, NEW t \in Seq(A), NEW n \in 0 .. Len(t) PROVE Halves(A, t, n)
  BY CutInTwo DEF Halves
<1>2. s \in Seq(Vocabulary)
  BY DEF Words
<1>3. Halves(Vocabulary, s, k)
  BY <1>1, <1>2
<1>4. QED BY <1>3, Zenon DEF Halves, Words

\* The tokens of a word.
LEMMA WordElements ==
  ASSUME NEW s \in Words
  PROVE  \A x : x \in ToSet(s) <=> \E i \in 1 .. Len(s) : s[i] = x
  BY Elements DEF Words

---------------------------------------------------------------------------
(* Allowed lists of tokens.                                              *)

\* A token that may come after others.
Fits(before, token) == EOS \notin ToSet(before) /\ token \in NextTokens(before)

\* Allowed, place by place.
LEMMA AllowedPlaces ==
  ASSUME NEW c \in Words, NEW s \in Words
  PROVE  Allowed(c, s) <=> \A i \in 1 .. Len(s) : Fits(c \o SubSeq(s, 1, i - 1), s[i])
<1>1. DOMAIN s = 1 .. Len(s)
  BY DEF Words
<1>2. QED BY <1>1, Zenon DEF Allowed, Fits

\* A list of tokens is allowed if its first part is, and then its second.
LEMMA AllowedConcat ==
  ASSUME NEW c \in Words, NEW s \in Words, NEW t \in Words
  PROVE  Allowed(c, s \o t) <=> Allowed(c, s) /\ Allowed(c \o s, t)
<1> DEFINE u == s \o t
<1>1. u \in Words /\ Len(u) = Len(s) + Len(t) /\ c \o s \in Words
  BY ConcatProperties DEF Words
<1>2. \A i \in 1 .. Len(s) + Len(t) : u[i] = IF i <= Len(s) THEN s[i] ELSE t[i - Len(s)]
  BY ConcatProperties DEF Words
<1>3. Len(s) \in Nat /\ Len(t) \in Nat
  BY DEF Words
<1>4. ASSUME NEW i \in 1 .. Len(s)
      PROVE  i \in 1 .. Len(u) /\ u[i] = s[i] /\ SubSeq(u, 1, i - 1) = SubSeq(s, 1, i - 1)
  <2>1. i \in 1 .. Len(s) + Len(t) /\ i <= Len(s) /\ i - 1 \in 0 .. Len(s) + Len(t) /\ i - 1 <= Len(s)
    BY <1>3
  <2>2. SubSeq(u, 1, i - 1) = SubSeq(s, 1, i - 1)
    BY <2>1, PrefixOfConcat DEF Words
  <2>3. QED BY <2>1, <2>2, <1>1, <1>2
<1>5. ASSUME NEW j \in 1 .. Len(t)
      PROVE  /\ Len(s) + j \in 1 .. Len(u) /\ u[Len(s) + j] = t[j]
             /\ c \o SubSeq(u, 1, Len(s) + j - 1) = (c \o s) \o SubSeq(t, 1, j - 1)
  <2>1. /\ Len(s) + j \in 1 .. Len(s) + Len(t) /\ ~ (Len(s) + j <= Len(s))
        /\ (Len(s) + j) - Len(s) = j
        /\ Len(s) + j - 1 \in 0 .. Len(s) + Len(t) /\ Len(s) <= Len(s) + j - 1
        /\ Len(s) + j - 1 - Len(s) = j - 1 /\ j - 1 \in 0 .. Len(t)
    BY <1>3
  <2>2. SubSeq(u, 1, Len(s) + j - 1) = s \o SubSeq(t, 1, j - 1)
    <3>1. SubSeq(u, 1, Len(s) + j - 1) = s \o SubSeq(t, 1, Len(s) + j - 1 - Len(s))
      BY <2>1, PrefixOfConcat DEF Words
    <3>2. QED BY <3>1, <2>1
  <2>3. SubSeq(t, 1, j - 1) \in Seq(Vocabulary)
    BY <2>1, SplitWord DEF Words
  <2>4. c \o (s \o SubSeq(t, 1, j - 1)) = (c \o s) \o SubSeq(t, 1, j - 1)
    <3> DEFINE p == SubSeq(t, 1, j - 1)
    <3>1. p \in Seq(Vocabulary) /\ c \in Seq(Vocabulary) /\ s \in Seq(Vocabulary)
      BY <2>3 DEF Words
    <3> HIDE DEF p
    <3>2. (c \o s) \o p = c \o (s \o p)
      BY <3>1, ConcatAssociative
    <3>3. QED BY <3>2 DEF p
  <2>5. u[Len(s) + j] = t[j]
    BY <2>1, <1>2
  <2>6. QED BY <2>1, <2>2, <2>4, <2>5, <1>1
<1> HIDE DEF u
<1>6. Allowed(c, u) <=> \A i \in 1 .. Len(u) : Fits(c \o SubSeq(u, 1, i - 1), u[i])
  BY <1>1, AllowedPlaces
<1>7. Allowed(c, s) <=> \A i \in 1 .. Len(s) : Fits(c \o SubSeq(s, 1, i - 1), s[i])
  BY AllowedPlaces
<1>8. Allowed(c \o s, t)
        <=> \A j \in 1 .. Len(t) : Fits((c \o s) \o SubSeq(t, 1, j - 1), t[j])
  BY <1>1, AllowedPlaces
<1>9. ASSUME Allowed(c, u) PROVE Allowed(c, s) /\ Allowed(c \o s, t)
  <2>1. \A i \in 1 .. Len(s) : Fits(c \o SubSeq(s, 1, i - 1), s[i])
    BY <1>4, <1>6, <1>9
  <2>2. ASSUME NEW j \in 1 .. Len(t) PROVE Fits((c \o s) \o SubSeq(t, 1, j - 1), t[j])
    <3>1. Fits(c \o SubSeq(u, 1, Len(s) + j - 1), u[Len(s) + j])
      BY <1>5, <1>6, <1>9
    <3>2. QED BY <3>1, <1>5
  <2>3. QED BY <2>1, <2>2, <1>7, <1>8
<1>10. ASSUME Allowed(c, s), Allowed(c \o s, t) PROVE Allowed(c, u)
  <2>1. ASSUME NEW i \in 1 .. Len(u) PROVE Fits(c \o SubSeq(u, 1, i - 1), u[i])
    <3>1. CASE i <= Len(s)
      <4>1. i \in 1 .. Len(s)
        BY <3>1, <1>3
      <4>2. Fits(c \o SubSeq(s, 1, i - 1), s[i])
        BY <4>1, <1>7, <1>10
      <4>3. QED BY <4>1, <4>2, <1>4
    <3>2. CASE ~ (i <= Len(s))
      <4>1. i - Len(s) \in 1 .. Len(t) /\ i = Len(s) + (i - Len(s))
        BY <3>2, <1>1, <1>3
      <4>2. PICK j \in 1 .. Len(t) : i = Len(s) + j
        BY <4>1
      <4>3. Fits((c \o s) \o SubSeq(t, 1, j - 1), t[j])
        BY <1>8, <1>10
      <4>4. Fits(c \o SubSeq(u, 1, Len(s) + j - 1), u[Len(s) + j])
        BY <4>3, <1>5
      <4>5. QED BY <4>2, <4>4
    <3>3. QED BY <3>1, <3>2
  <2>2. QED BY <2>1, <1>6
<1>11. QED BY <1>9, <1>10 DEF u

\* Nothing is always allowed, one token if it fits.
LEMMA AllowedShort ==
  ASSUME NEW c \in Words
  PROVE  /\ Allowed(c, <<>>)
         /\ \A t \in Vocabulary : Allowed(c, <<t>>) <=> Fits(c, t)
<1>1. <<>> \in Words /\ Len(<<>>) = 0
  BY DEF Words
<1>2. Allowed(c, <<>>)
  BY <1>1, AllowedPlaces
<1>3. ASSUME NEW t \in Vocabulary PROVE Allowed(c, <<t>>) <=> Fits(c, t)
  <2>1. <<t>> \in Words /\ Len(<<t>>) = 1 /\ <<t>>[1] = t
    BY DEF Words
  <2>2. Allowed(c, <<t>>) <=> \A i \in 1 .. 1 : Fits(c \o SubSeq(<<t>>, 1, i - 1), <<t>>[i])
    BY <2>1, AllowedPlaces
  <2>3. SubSeq(<<t>>, 1, 1 - 1) = <<>> /\ c \o <<>> = c
    BY SubSeqEmpty, ConcatEmptySeq DEF Words
  <2>4. Allowed(c, <<t>>) <=> Fits(c \o SubSeq(<<t>>, 1, 1 - 1), <<t>>[1])
    BY <2>2
  <2>5. QED BY <2>1, <2>3, <2>4
<1>4. QED BY <1>2, <1>3

\* A part of an allowed list up to some place is allowed.
LEMMA AllowedPrefix ==
  ASSUME NEW c \in Words, NEW s \in Words, NEW k \in 0 .. Len(s), Allowed(c, s)
  PROVE  SubSeq(s, 1, k) \in Words /\ Allowed(c, SubSeq(s, 1, k))
<1> DEFINE p == SubSeq(s, 1, k)
           r == SubSeq(s, k + 1, Len(s))
<1>1. p \in Words /\ r \in Words /\ s = p \o r
  BY SplitWord
<1> HIDE DEF p, r
<1>2. Allowed(c, p)
  BY <1>1, AllowedConcat
<1>3. QED BY <1>1, <1>2 DEF p

---------------------------------------------------------------------------
(* Where the constraint starts.                                          *)

\* The ends of a concatenation.
LEMMA SuffixOfConcat ==
  ASSUME NEW A, NEW s \in Seq(A), NEW t \in Seq(A), NEW k \in 0 .. Len(s) + Len(t)
  PROVE  /\ k <= Len(s) =>
              SubSeq(s \o t, k + 1, Len(s) + Len(t)) = SubSeq(s, k + 1, Len(s)) \o t
         /\ Len(s) <= k =>
              SubSeq(s \o t, k + 1, Len(s) + Len(t)) = SubSeq(t, k - Len(s) + 1, Len(t))
<1> DEFINE c == s \o t
           p == SubSeq(c, 1, k)
           r == SubSeq(c, k + 1, Len(c))
<1>1. c \in Seq(A) /\ Len(c) = Len(s) + Len(t)
  BY ConcatProperties
<1>2. Len(s) \in Nat /\ Len(t) \in Nat /\ k \in Nat /\ k \in 0 .. Len(c)
  BY <1>1
<1> HIDE DEF c
<1>3. p \in Seq(A) /\ r \in Seq(A) /\ c = p \o r
  BY <1>1, <1>2, CutInTwo
<1> HIDE DEF p, r
<1>4. \A x, y \in Seq(A) : p \o x = p \o y => x = y
  BY <1>3, ConcatSimplifications
<1>5. ASSUME k <= Len(s) PROVE r = SubSeq(s, k + 1, Len(s)) \o t
  <2> DEFINE q == SubSeq(s, 1, k)
             u == SubSeq(s, k + 1, Len(s))
  <2>1. k \in 0 .. Len(s)
    BY <1>2, <1>5
  <2>2. q \in Seq(A) /\ u \in Seq(A) /\ s = q \o u
    BY <2>1, CutInTwo
  <2>3. p = q
    BY <1>5, PrefixOfConcat DEF p, c
  <2> HIDE DEF q, u
  <2>4. (q \o u) \o t = q \o (u \o t) /\ u \o t \in Seq(A)
    BY <2>2, ConcatAssociative, ConcatProperties
  <2>5. c = p \o (u \o t)
    BY <2>2, <2>3, <2>4 DEF c
  <2>6. r = u \o t
    BY <2>4, <2>5, <1>3, <1>4
  <2>7. QED BY <2>6 DEF u
<1>6. ASSUME Len(s) <= k PROVE r = SubSeq(t, k - Len(s) + 1, Len(t))
  <2> DEFINE q == SubSeq(t, 1, k - Len(s))
             u == SubSeq(t, k - Len(s) + 1, Len(t))
  <2>1. k - Len(s) \in 0 .. Len(t)
    BY <1>1, <1>2, <1>6
  <2>2. q \in Seq(A) /\ u \in Seq(A) /\ t = q \o u
    BY <2>1, CutInTwo
  <2>3. p = s \o q
    BY <1>6, PrefixOfConcat DEF p, c
  <2> HIDE DEF q, u
  <2>4. (s \o q) \o u = s \o (q \o u)
    BY <2>2, ConcatAssociative
  <2>5. c = p \o u
    BY <2>2, <2>3, <2>4 DEF c
  <2>6. r = u
    BY <2>2, <2>5, <1>3, <1>4
  <2>7. QED BY <2>6 DEF u
<1>7. QED BY <1>1, <1>5, <1>6 DEF c, r

\* Where the constraint starts: b says that the model still reasons before.
Place(b, tokens) ==
  IF ~b THEN 0
  ELSE IF ThinkEnd \in ToSet(tokens)
  THEN SelectInSeq(tokens, LAMBDA t : t = ThinkEnd)
  ELSE Len(tokens) + 1

\* The constrained tokens, and whether the constraint is on after them.
Constrained(b, tokens) == SubSeq(tokens, Place(b, tokens) + 1, Len(tokens))
Open(b, tokens) == ~b \/ ThinkEnd \in ToSet(tokens)

\* What Place and Constrained are, by cases.
LEMMA PlaceFacts ==
  ASSUME NEW b \in BOOLEAN, NEW s \in Words
  PROVE  /\ Place(b, s) \in 0 .. Len(s) + 1 /\ Len(s) \in Nat
         /\ Open(b, s) <=> Place(b, s) <= Len(s)
         /\ Constrained(b, s) \in Words
         /\ ~ b => Place(b, s) = 0 /\ Constrained(b, s) = s
         /\ ~ Open(b, s) => Constrained(b, s) = <<>> /\ Place(b, s) = Len(s) + 1
         /\ b /\ Open(b, s) => /\ Place(b, s) \in 1 .. Len(s) /\ s[Place(b, s)] = ThinkEnd
                               /\ \A j \in 1 .. Len(s) : j < Place(b, s) => s[j] # ThinkEnd
<1> DEFINE f == SelectInSeq(s, LAMBDA t : t = ThinkEnd)
           p == Place(b, s)
<1>1. Len(s) \in Nat /\ s \in Seq(Vocabulary)
  BY DEF Words
<1>2. ThinkEnd \in ToSet(s) => /\ f \in 1 .. Len(s) /\ s[f] = ThinkEnd
                               /\ \A j \in 1 .. Len(s) : j < f => s[j] # ThinkEnd
  BY <1>1, FirstPlace
<1>3. p = IF ~b THEN 0 ELSE IF ThinkEnd \in ToSet(s) THEN f ELSE Len(s) + 1
  BY DEF Place
<1>9. Constrained(b, s) = SubSeq(s, p + 1, Len(s))
  BY DEF Constrained
<1> HIDE DEF f, p
<1>4. p \in 0 .. Len(s) + 1 /\ p \in Nat
  BY <1>1, <1>2, <1>3
<1>5. Open(b, s) <=> p <= Len(s)
  BY <1>1, <1>2, <1>3 DEF Open
<1>6. Constrained(b, s) \in Words
  <2>1. \A i \in p + 1 .. Len(s) : i \in 1 .. Len(s)
    BY <1>1, <1>4
  <2>2. \A i \in p + 1 .. Len(s) : s[i] \in Vocabulary
    BY <2>1, <1>1
  <2>3. p + 1 \in Int /\ Len(s) \in Int
    BY <1>1, <1>4
  <2>4. SubSeq(s, p + 1, Len(s)) \in Seq(Vocabulary)
    BY <2>2, <2>3, SubSeqProperties
  <2>5. QED BY <2>4, <1>9 DEF Words
<1>7. ~ b => p = 0 /\ Constrained(b, s) = s
  <2>1. SubSeq(s, 0 + 1, Len(s)) = s
    BY <1>1, SubSeqFull
  <2>2. QED BY <2>1, <1>3, <1>9
<1>8. ASSUME ~ Open(b, s) PROVE Constrained(b, s) = <<>> /\ p = Len(s) + 1
  <2>1. p = Len(s) + 1
    BY <1>3, <1>8 DEF Open
  <2>2. p + 1 \in Int /\ Len(s) \in Int /\ Len(s) < p + 1
    BY <2>1, <1>1
  <2>3. QED BY <2>1, <2>2, <1>9, SubSeqEmpty
<1>10. b /\ Open(b, s) => p = f /\ ThinkEnd \in ToSet(s)
  BY <1>3 DEF Open
<1>11. QED BY <1>1, <1>2, <1>4, <1>5, <1>6, <1>7, <1>8, <1>10 DEF p

\* The constrained tokens of two lists, one after the other.
LEMMA ConstrainedConcat ==
  ASSUME NEW b \in BOOLEAN, NEW s \in Words, NEW t \in Words
  PROVE  /\ Constrained(b, s \o t) = Constrained(b, s) \o Constrained(~ Open(b, s), t)
         /\ Open(b, s \o t) <=> Open(~ Open(b, s), t)
<1> DEFINE c == s \o t
           o == ~ Open(b, s)
           p == Place(b, c)
<1>1. /\ c \in Words /\ Len(c) = Len(s) + Len(t)
      /\ \A i \in 1 .. Len(s) + Len(t) : c[i] = IF i <= Len(s) THEN s[i] ELSE t[i - Len(s)]
  BY ConcatProperties DEF Words
<1>2. ToSet(c) = ToSet(s) \cup ToSet(t)
  BY ConcatElements DEF Words
<1>3. Open(b, c) <=> Open(o, t)
  BY <1>2 DEF Open
<1>4. Len(s) \in Nat /\ Len(t) \in Nat /\ o \in BOOLEAN
  BY DEF Words, Open
<1>5. Constrained(b, c) = SubSeq(c, p + 1, Len(s) + Len(t))
  BY <1>1 DEF Constrained
<1> HIDE DEF c, p, o
<1>6. CASE ~ b
  <2>1. ~ o
    BY <1>6 DEF o, Open
  <2>2. Constrained(b, c) = c /\ Constrained(b, s) = s /\ Constrained(o, t) = t
    BY <2>1, <1>1, <1>4, <1>6, PlaceFacts
  <2>3. QED BY <2>2, <1>3 DEF c, o
<1>7. CASE b /\ Open(b, s)
  <2>1. ~ o
    BY <1>7 DEF o
  <2>2. Constrained(o, t) = t
    BY <2>1, <1>4, PlaceFacts
  <2> DEFINE q == Place(b, s)
  <2>3. q \in 1 .. Len(s) /\ s[q] = ThinkEnd /\ \A j \in 1 .. Len(s) : j < q => s[j] # ThinkEnd
    BY <1>7, PlaceFacts
  <2>10. Constrained(b, s) = SubSeq(s, q + 1, Len(s))
    BY DEF Constrained
  <2> HIDE DEF q
  <2>4. Open(b, c)
    BY <1>7, <1>2 DEF Open
  <2>5. /\ p \in 1 .. Len(c) /\ c[p] = ThinkEnd
        /\ \A j \in 1 .. Len(c) : j < p => c[j] # ThinkEnd
    BY <2>4, <1>1, <1>7, PlaceFacts DEF p
  <2>6. p = q
    <3>1. ~ (q < p)
      <4>1. q \in 1 .. Len(s) + Len(t) /\ q <= Len(s)
        BY <2>3, <1>4
      <4>2. c[q] = s[q]
        BY <4>1, <1>1
      <4>3. QED BY <4>1, <4>2, <2>3, <2>5, <1>1
    <3>2. ~ (p < q)
      <4>1. ASSUME p < q PROVE FALSE
        <5>1. p \in 1 .. Len(s) /\ p \in 1 .. Len(s) + Len(t) /\ p <= Len(s)
          BY <4>1, <2>3, <2>5, <1>1, <1>4
        <5>2. c[p] = s[p]
          BY <5>1, <1>1
        <5>3. QED BY <5>1, <5>2, <4>1, <2>3, <2>5
      <4>2. QED BY <4>1
    <3>3. p \in Int /\ q \in Int
      BY <2>3, <2>5
    <3>4. QED BY <3>1, <3>2, <3>3
  <2>7. q \in 0 .. Len(s) + Len(t) /\ q <= Len(s)
    BY <2>3, <1>4
  <2>8. SubSeq(c, q + 1, Len(s) + Len(t)) = SubSeq(s, q + 1, Len(s)) \o t
    BY <2>7, SuffixOfConcat DEF c, Words
  <2>9. QED BY <2>2, <2>6, <2>8, <2>10, <1>3, <1>5 DEF c, o
<1>8. CASE b /\ ~ Open(b, s)
  <2>1. o /\ Constrained(b, s) = <<>> /\ ThinkEnd \notin ToSet(s)
    BY <1>8, PlaceFacts DEF o, Open
  <2>2. Constrained(o, t) \in Words
    BY <1>4, PlaceFacts
  <2>3. <<>> \o Constrained(o, t) = Constrained(o, t)
    BY <2>2, ConcatEmptySeq DEF Words
  <2>4. CASE ~ Open(o, t)
    <3>1. Constrained(o, t) = <<>> /\ Constrained(b, c) = <<>>
      BY <2>4, <1>1, <1>3, <1>4, PlaceFacts
    <3>2. QED BY <3>1, <2>1, <2>3, <1>3 DEF c, o
  <2>5. CASE Open(o, t)
    <3> DEFINE q == Place(o, t)
    <3>1. q \in 1 .. Len(t) /\ t[q] = ThinkEnd /\ \A j \in 1 .. Len(t) : j < q => t[j] # ThinkEnd
      BY <2>1, <2>5, <1>4, PlaceFacts
    <3>2. Constrained(o, t) = SubSeq(t, q + 1, Len(t))
      BY DEF Constrained
    <3> HIDE DEF q
    <3>3. /\ p \in 1 .. Len(c) /\ c[p] = ThinkEnd
          /\ \A j \in 1 .. Len(c) : j < p => c[j] # ThinkEnd
      BY <2>5, <1>1, <1>3, <1>8, PlaceFacts DEF p
    <3>4. p \in 1 .. Len(s) + Len(t) /\ p \in Int /\ q \in Int
      BY <3>1, <3>3, <1>1
    <3>5. ~ (p <= Len(s))
      <4>1. ASSUME p <= Len(s) PROVE FALSE
        <5>1. p \in 1 .. Len(s)
          BY <4>1, <3>4, <1>4
        <5>2. s[p] = ThinkEnd
          BY <3>3, <3>4, <4>1, <1>1
        <5>3. ThinkEnd \in ToSet(s)
          BY <5>1, <5>2, Elements DEF Words
        <5>4. QED BY <5>3, <2>1
      <4>2. QED BY <4>1
    <3>6. p - Len(s) \in 1 .. Len(t) /\ t[p - Len(s)] = ThinkEnd
      <4>1. p - Len(s) \in 1 .. Len(t)
        BY <3>4, <3>5, <1>4
      <4>2. c[p] = t[p - Len(s)]
        BY <3>4, <3>5, <1>1
      <4>3. QED BY <4>1, <4>2, <3>3
    <3>7. ~ (p - Len(s) < q)
      BY <3>1, <3>6
    <3>8. ~ (q < p - Len(s))
      <4>1. ASSUME q < p - Len(s) PROVE FALSE
        <5>1. /\ Len(s) + q \in 1 .. Len(s) + Len(t) /\ ~ (Len(s) + q <= Len(s))
              /\ (Len(s) + q) - Len(s) = q /\ Len(s) + q < p
          BY <4>1, <3>1, <3>4, <1>4
        <5>2. c[Len(s) + q] = t[q]
          BY <5>1, <1>1
        <5>3. QED BY <5>1, <5>2, <3>1, <3>3, <1>1
      <4>2. QED BY <4>1
    <3>9. p = Len(s) + q
      BY <3>4, <3>7, <3>8, <1>4
    <3>10. p \in 0 .. Len(s) + Len(t) /\ Len(s) <= p /\ p - Len(s) = q
      BY <3>4, <3>5, <3>9, <1>4
    <3>11. SubSeq(c, p + 1, Len(s) + Len(t)) = SubSeq(t, p - Len(s) + 1, Len(t))
      BY <3>10, SuffixOfConcat DEF c, Words
    <3>12. QED BY <3>2, <3>10, <3>11, <2>1, <2>3, <1>3, <1>5 DEF c, o
  <2>6. QED BY <2>4, <2>5
<1>9. QED BY <1>6, <1>7, <1>8

---------------------------------------------------------------------------
(* The automaton.                                                        *)

\* One token takes the automaton from a state to the next.
Moves(f, s, n) ==
  /\ f[0] = Start
  /\ \A k \in 1 .. n : f[k] = IF s[k] = EOS THEN f[k - 1] ELSE Delta[f[k - 1]][s[k]]

RunTable(s) == CHOOSE it : it = [x \in SUBSET (DOMAIN s) |->
   IF x = {} THEN Start
   ELSE IF s[Max(x)] = EOS THEN it[x \ {Max(x)}] ELSE Delta[it[x \ {Max(x)}]][s[Max(x)]]]

\* Run is the table of states at the whole list of tokens.
LEMMA RunIsTable ==
  ASSUME NEW s PROVE Run(s) = RunTable(s)[DOMAIN s]
  BY SMT DEF Run, FoldLeft, MapThenFoldSet, RunTable

\* The table of states exists.
LEMMA RunTableExists ==
  ASSUME NEW s, NEW n \in Nat
  PROVE  \E it : it = [x \in SUBSET (1 .. n) |->
           IF x = {} THEN Start
           ELSE IF s[Max(x)] = EOS THEN it[x \ {Max(x)}]
                ELSE Delta[it[x \ {Max(x)}]][s[Max(x)]]]
<1> DEFINE Step(it, x) == IF x = {} THEN Start
                          ELSE IF s[Max(x)] = EOS THEN it[x \ {Max(x)}]
                               ELSE Delta[it[x \ {Max(x)}]][s[Max(x)]]
           Table(k, it) == it = [x \in SUBSET (1 .. k) |-> Step(it, x)]
           Have == {k \in Nat : \E it : Table(k, it)}
<1>0. \A g, h, x : (x # {} => g[x \ {Max(x)}] = h[x \ {Max(x)}]) => Step(g, x) = Step(h, x)
  OBVIOUS
<1>1. \A it : Step(it, {}) = Start
  OBVIOUS
<1> HIDE DEF Step
<1>2. 0 \in Have
  <2>1. SUBSET (1 .. 0) = {{}}
    OBVIOUS
  <2> DEFINE it == [x \in SUBSET (1 .. 0) |-> Start]
  <2>2. \A x \in SUBSET (1 .. 0) : Step(it, x) = Start
    BY <2>1, <1>1
  <2>3. Table(0, it)
    BY <2>2
  <2>4. QED BY <2>3
<1>3. ASSUME NEW k \in Nat, k \in Have PROVE k + 1 \in Have
  <2>1. PICK it : Table(k, it)
    BY <1>3
  <2> DEFINE next == [x \in SUBSET (1 .. k + 1) |-> Step(it, x)]
  <2>2. ASSUME NEW x \in SUBSET (1 .. k + 1), x # {}
        PROVE  x \ {Max(x)} \in SUBSET (1 .. k) /\ x \ {Max(x)} \in SUBSET (1 .. k + 1)
    <3>1. k + 1 \in Nat
      OBVIOUS
    <3>2. Max(x) \in x /\ \A i \in x : i <= Max(x)
      BY <2>2, <3>1, MaxOfInterval
    <3>3. ASSUME NEW i \in x \ {Max(x)} PROVE i \in 1 .. k
      <4>1. i \in 1 .. k + 1 /\ Max(x) \in 1 .. k + 1 /\ i # Max(x) /\ i <= Max(x)
        BY <3>2
      <4>2. QED BY <4>1
    <3>4. QED BY <3>3
  <2>3. ASSUME NEW x \in SUBSET (1 .. k) PROVE next[x] = it[x]
    <3>1. x \in SUBSET (1 .. k + 1)
      OBVIOUS
    <3>2. next[x] = Step(it, x) /\ it[x] = Step(it, x)
      BY <3>1, <2>1
    <3>3. QED BY <3>2
  <2>5. DOMAIN next = SUBSET (1 .. k + 1) /\ \A x \in SUBSET (1 .. k + 1) : next[x] = Step(it, x)
    OBVIOUS
  <2> HIDE DEF next
  <2>6. ASSUME NEW x \in SUBSET (1 .. k + 1) PROVE Step(it, x) = Step(next, x)
    <3>1. x # {} => next[x \ {Max(x)}] = it[x \ {Max(x)}]
      BY <2>2, <2>3
    <3>2. QED BY <3>1, <1>0
  <2>7. Table(k + 1, next)
    <3>1. next = [x \in SUBSET (1 .. k + 1) |-> Step(it, x)]
      BY DEF next
    <3>2. [x \in SUBSET (1 .. k + 1) |-> Step(it, x)]
             = [x \in SUBSET (1 .. k + 1) |-> Step(next, x)]
      BY <2>6
    <3>3. next = [x \in SUBSET (1 .. k + 1) |-> Step(next, x)]
      BY <3>1, <3>2, Zenon
    <3>4. QED BY <3>3
  <2> HIDE DEF Table
  <2>8. QED BY <2>7
<1>4. \A k \in Nat : k \in Have
  <2> HIDE DEF Have
  <2>1. QED BY <1>2, <1>3, NatInductionSet
<1>5. PICK it : Table(n, it)
  BY <1>4
<1>6. QED BY <1>5 DEF Step

\* The states the automaton goes through.
LEMMA RunSteps ==
  ASSUME NEW s \in Words
  PROVE  \E f : Moves(f, s, Len(s)) /\ f[Len(s)] = Run(s)
<1> DEFINE n == Len(s)
           Step(it, x) == IF x = {} THEN Start
                          ELSE IF s[Max(x)] = EOS THEN it[x \ {Max(x)}]
                               ELSE Delta[it[x \ {Max(x)}]][s[Max(x)]]
           E(it) == it = [x \in SUBSET (DOMAIN s) |-> Step(it, x)]
           rt == RunTable(s)
<1>1. n \in Nat /\ DOMAIN s = 1 .. n
  BY DEF Words
<1>2. rt = CHOOSE it : E(it)
  BY DEF RunTable
<1>3. \E it : E(it)
  <2> HIDE DEF n
  <2>1. \E it : it = [x \in SUBSET (1 .. n) |-> Step(it, x)]
    BY <1>1, RunTableExists
  <2>2. QED BY <2>1, <1>1
<1> HIDE DEF E
<1>4. E(rt)
  BY <1>2, <1>3
<1> HIDE DEF rt
<1>5. rt = [x \in SUBSET (1 .. n) |-> Step(rt, x)]
  BY <1>1, <1>4 DEF E
<1> HIDE DEF Step
<1>6. \A x \in SUBSET (1 .. n) : rt[x] = Step(rt, x)
  BY <1>5
<1> DEFINE f == [k \in 0 .. n |-> rt[1 .. k]]
<1>7. f[0] = Start
  <2>1. 1 .. 0 = {} /\ 0 \in 0 .. n /\ {} \in SUBSET (1 .. n)
    BY <1>1
  <2>2. rt[{}] = Start
    BY <2>1, <1>6 DEF Step
  <2>3. QED BY <2>1, <2>2
<1>8. ASSUME NEW k \in 1 .. n
      PROVE  f[k] = IF s[k] = EOS THEN f[k - 1] ELSE Delta[f[k - 1]][s[k]]
  <2>1. k \in Nat \ {0} /\ k <= n /\ k \in 0 .. n /\ k - 1 \in 0 .. n
    BY <1>1
  <2>2. 1 .. k \in SUBSET (1 .. n) /\ 1 .. k # {}
    <3>1. \A i \in 1 .. k : i \in 1 .. n
      BY <2>1, <1>1
    <3>2. k \in 1 .. k
      BY <2>1
    <3>3. QED BY <3>1, <3>2
  <2>3. Max(1 .. k) = k /\ (1 .. k) \ {k} = 1 .. (k - 1)
    BY <2>1, MaxIsLast
  <2>4. rt[1 .. k] = Step(rt, 1 .. k)
    BY <2>2, <1>6
  <2>5. rt[1 .. k] = IF s[k] = EOS THEN rt[1 .. (k - 1)] ELSE Delta[rt[1 .. (k - 1)]][s[k]]
    BY <2>2, <2>3, <2>4 DEF Step
  <2>6. f[k] = rt[1 .. k] /\ f[k - 1] = rt[1 .. (k - 1)]
    BY <2>1
  <2>7. QED BY <2>5, <2>6
<1>9. f[n] = Run(s)
  <2>1. n \in 0 .. n
    BY <1>1
  <2>2. QED BY <2>1, <1>1, RunIsTable DEF rt
<1> HIDE DEF f
<1>10. QED BY <1>7, <1>8, <1>9 DEF Moves

\* They are the only ones.
LEMMA RunUnique ==
  ASSUME NEW s \in Words, NEW f, Moves(f, s, Len(s))
  PROVE  f[Len(s)] = Run(s)
<1>1. PICK g : Moves(g, s, Len(s)) /\ g[Len(s)] = Run(s)
  BY RunSteps
<1> DEFINE Good == {k \in Nat : k <= Len(s) => f[k] = g[k]}
<1>2. Len(s) \in Nat
  BY DEF Words
<1>3. 0 \in Good
  BY <1>1 DEF Moves
<1>4. ASSUME NEW k \in Nat, k \in Good PROVE k + 1 \in Good
  <2>1. ASSUME k + 1 <= Len(s) PROVE f[k + 1] = g[k + 1]
    <3>1. k + 1 \in 1 .. Len(s) /\ (k + 1) - 1 = k /\ k <= Len(s)
      BY <2>1, <1>2
    <3>2. f[k] = g[k]
      BY <3>1, <1>4
    <3>3. f[k + 1] = IF s[k + 1] = EOS THEN f[k] ELSE Delta[f[k]][s[k + 1]]
      BY <3>1 DEF Moves
    <3>4. g[k + 1] = IF s[k + 1] = EOS THEN g[k] ELSE Delta[g[k]][s[k + 1]]
      BY <3>1, <1>1 DEF Moves
    <3>5. QED BY <3>2, <3>3, <3>4
  <2>2. QED BY <2>1
<1>5. \A k \in Nat : k \in Good
  <2> HIDE DEF Good
  <2>1. QED BY <1>3, <1>4, NatInductionSet
<1>6. QED BY <1>1, <1>2, <1>5

\* What the grammar allows keeps the automaton in its states.
LEMMA RunInStates ==
  ASSUME NEW s \in Words, Allowed(<<>>, s)
  PROVE  Run(s) \in States
<1>1. PICK f : Moves(f, s, Len(s)) /\ f[Len(s)] = Run(s)
  BY RunSteps
<1> DEFINE Good == {k \in Nat : k <= Len(s) => f[k] \in States}
<1>2. Len(s) \in Nat /\ <<>> \in Words
  BY DEF Words
<1>3. 0 \in Good
  BY <1>1, GrammarAssumption DEF Moves
<1>4. ASSUME NEW k \in Nat, k \in Good PROVE k + 1 \in Good
  <2>1. ASSUME k + 1 <= Len(s) PROVE f[k + 1] \in States
    <3> DEFINE p == SubSeq(s, 1, k)
    <3>1. k + 1 \in 1 .. Len(s) /\ (k + 1) - 1 = k /\ k <= Len(s) /\ k \in 0 .. Len(s)
      BY <2>1, <1>2
    <3>2. f[k] \in States
      BY <3>1, <1>4
    <3>3. f[k + 1] = IF s[k + 1] = EOS THEN f[k] ELSE Delta[f[k]][s[k + 1]]
      BY <3>1, <1>1 DEF Moves
    <3>4. p \in Words /\ Len(p) = k /\ \A i \in 1 .. k : p[i] = s[i]
      BY <3>1, SplitWord
    <3> HIDE DEF p
    <3>5. Moves(f, p, Len(p))
      <4>1. f[0] = Start
        BY <1>1 DEF Moves
      <4>2. ASSUME NEW i \in 1 .. k
            PROVE  f[i] = IF p[i] = EOS THEN f[i - 1] ELSE Delta[f[i - 1]][p[i]]
        <5>1. i \in 1 .. Len(s)
          BY <3>1, <1>2
        <5>2. QED BY <5>1, <3>4, <1>1 DEF Moves
      <4>3. QED BY <4>1, <4>2, <3>4 DEF Moves
    <3>6. f[k] = Run(p)
      BY <3>4, <3>5, RunUnique
    <3>7. Fits(<<>> \o p, s[k + 1])
      <4>1. \A i \in 1 .. Len(s) : Fits(<<>> \o SubSeq(s, 1, i - 1), s[i])
        BY <1>2, AllowedPlaces
      <4>2. Fits(<<>> \o SubSeq(s, 1, (k + 1) - 1), s[k + 1])
        BY <3>1, <4>1
      <4>3. QED BY <4>2, <3>1 DEF p
    <3>8. <<>> \o p = p
      BY <3>4, ConcatEmptySeq DEF Words
    <3>9. s[k + 1] \in NextTokens(p)
      BY <3>7, <3>8 DEF Fits
    <3>10. CASE s[k + 1] = EOS
      BY <3>10, <3>2, <3>3
    <3>11. CASE s[k + 1] # EOS
      <4>1. s[k + 1] \in DOMAIN Delta[Run(p)]
        BY <3>9, <3>11 DEF NextTokens
      <4>2. QED BY <4>1, <3>2, <3>3, <3>6, <3>11, GrammarAssumption
    <3>12. QED BY <3>10, <3>11
  <2>2. QED BY <2>1
<1>5. \A k \in Nat : k \in Good
  <2> HIDE DEF Good
  <2>1. QED BY <1>3, <1>4, NatInductionSet
<1>6. QED BY <1>1, <1>2, <1>5

\* In a state of the automaton some token of the grammar may come next.
LEMMA NextTokensFacts ==
  ASSUME NEW c, Run(c) \in States
  PROVE  NextTokens(c) \subseteq Tokens \cup {EOS} /\ NextTokens(c) # {}
<1>1. CASE is_stopped(c)
  BY <1>1 DEF NextTokens
<1>2. CASE ~ is_stopped(c)
  <2> DEFINE q == Run(c)
  <2>1. NextTokens(c) = DOMAIN Delta[q] \union IF q \in Accepting THEN {EOS} ELSE {}
    BY <1>2 DEF NextTokens
  <2>2. DOMAIN Delta[q] \subseteq Tokens /\ (DOMAIN Delta[q] # {} \/ q \in Accepting)
    BY GrammarAssumption
  <2> HIDE DEF q
  <2>3. QED BY <2>1, <2>2
<1>3. QED BY <1>1, <1>2

---------------------------------------------------------------------------
(* The matcher.                                                          *)

\* Beginnings of words of the grammar.
Answers == {c \in Words : Allowed(<<>>, c)}

\* A beginning of a word goes on with the tokens the grammar allows.
LEMMA AnswerExtends ==
  ASSUME NEW c \in Answers, NEW d \in Words
  PROVE  /\ c \o d \in Words /\ <<>> \o c = c
         /\ Allowed(c, d) <=> c \o d \in Answers
<1>1. c \in Words /\ Allowed(<<>>, c) /\ <<>> \in Words
  BY DEF Answers, Words
<1>2. c \o d \in Words
  BY <1>1, ConcatProperties DEF Words
<1>3. <<>> \o c = c
  BY <1>1, ConcatEmptySeq DEF Words
<1>4. Allowed(<<>>, c \o d) <=> Allowed(<<>>, c) /\ Allowed(<<>> \o c, d)
  BY <1>1, AllowedConcat
<1>5. QED BY <1>1, <1>2, <1>3, <1>4 DEF Answers

\* No delimiter is consumed.
LEMMA AnswerTokens ==
  ASSUME NEW c \in Answers
  PROVE  c \in Seq(Tokens \cup {EOS}) /\ Run(c) \in States
<1>1. c \in Words /\ Allowed(<<>>, c) /\ <<>> \in Words /\ Len(c) \in Nat
  BY DEF Answers, Words
<1>2. ASSUME NEW i \in 1 .. Len(c) PROVE c[i] \in Tokens \cup {EOS}
  <2> DEFINE p == SubSeq(c, 1, i - 1)
  <2>1. i - 1 \in 0 .. Len(c)
    BY <1>1
  <2>2. p \in Words /\ Allowed(<<>>, p)
    BY <1>1, <2>1, AllowedPrefix
  <2>3. Fits(<<>> \o p, c[i])
    BY <1>1, AllowedPlaces
  <2> HIDE DEF p
  <2>4. <<>> \o p = p
    BY <2>2, ConcatEmptySeq DEF Words
  <2>5. NextTokens(p) \subseteq Tokens \cup {EOS}
    BY <2>2, RunInStates, NextTokensFacts
  <2>6. QED BY <2>3, <2>4, <2>5 DEF Fits
<1>3. Len(c) = Len(c) /\ c = [i \in 1 .. Len(c) |-> c[i]]
  BY <1>1 DEF Words
<1>4. c \in [1 .. Len(c) -> Tokens \cup {EOS}]
  BY <1>2, <1>3
<1>5. c \in Seq(Tokens \cup {EOS})
  BY <1>1, <1>4, SeqDef
<1>6. QED BY <1>1, <1>5, RunInStates

Fresh(c) == [consumed |-> c, terminated |-> FALSE, rollback_lag |-> 0]

\* The matcher after the tokens c of the answer and some drafts d walked over.
Walked(c, d) ==
  LET front == c \o SubSeq(d, 1, Len(d) - 1)
  IN  IF EOS \in ToSet(d) /\ is_stopped(front)
      THEN [consumed |-> front, terminated |-> TRUE, rollback_lag |-> 1]
      ELSE [consumed |-> c \o d, terminated |-> EOS \in ToSet(d), rollback_lag |-> 0]

\* validate_tokens takes as many tokens as the grammar allows.
LEMMA Validated ==
  ASSUME NEW g, g.consumed \in Words, NEW s \in Words
  PROVE  \E n \in 0 .. Len(s) :
           /\ validate_tokens(g, s) = SubSeq(s, 1, n)
           /\ Allowed(g.consumed, SubSeq(s, 1, n))
           /\ is_stopped(g.consumed) \/ n = Len(s)
                \/ ~ Allowed(g.consumed, SubSeq(s, 1, n + 1))
<1> DEFINE c == g.consumed
           N == {n \in 0 .. Len(s) : Allowed(c, SubSeq(s, 1, n))}
<1>0. c \in Words
  OBVIOUS
<1> HIDE DEF c
<1>1. Len(s) \in Nat /\ SubSeq(s, 1, 0) = <<>> /\ Allowed(c, <<>>)
  BY <1>0, SubSeqEmpty, AllowedShort DEF Words
<1>2. CASE is_stopped(c)
  <2>1. validate_tokens(g, s) = SubSeq(s, 1, 0) /\ 0 \in 0 .. Len(s)
    BY <1>1, <1>2 DEF validate_tokens, c
  <2>2. QED BY <2>1, <1>1, <1>2 DEF c
<1>3. CASE ~ is_stopped(c)
  <2>0. 0 \in 0 .. Len(s) /\ Allowed(c, SubSeq(s, 1, 0))
    <3>1. Allowed(c, SubSeq(s, 1, 0))
      BY <1>1, Zenon
    <3>2. QED BY <3>1, <1>1
  <2>1. N \in SUBSET Nat /\ 0 \in N /\ \A n \in N : n <= Len(s)
    <3>1. 0 \in N
      BY <2>0, Zenon
    <3>2. QED BY <3>1
  <2>2. PICK m \in N : \A n \in N : n <= m
    BY <2>1, <1>1, GreatestNat
  <2>3. Max(N) \in N /\ \A n \in N : n <= Max(N)
    BY <2>2 DEF Max
  <2>4. validate_tokens(g, s) = SubSeq(s, 1, Max(N))
    BY <1>3 DEF validate_tokens, c
  <2>5. PICK n \in N : n = Max(N)
    BY <2>3
  <2>6. n \in 0 .. Len(s) /\ Allowed(c, SubSeq(s, 1, n))
    OBVIOUS
  <2>7. n # Len(s) => ~ Allowed(c, SubSeq(s, 1, n + 1))
    <3>1. n + 1 \in N => n + 1 <= n
      BY <2>3, <2>5
    <3>2. n # Len(s) => n + 1 \in 0 .. Len(s)
      BY <2>6, <1>1
    <3>3. ~ (n + 1 <= n)
      BY <2>6
    <3>4. QED BY <3>1, <3>2, <3>3
  <2> HIDE DEF N
  <2>8. QED BY <2>4, <2>5, <2>6, <2>7 DEF c
<1>4. QED BY <1>2, <1>3

\* The walk takes the next draft.
LEMMA WalkOne ==
  ASSUME NEW c \in Words, NEW d \in Words, NEW t \in Vocabulary,
         Allowed(c, d \o <<t>>)
  PROVE  /\ ~ Walked(c, d).terminated
         /\ accept_tokens(Walked(c, d), <<t>>)
              = [ok |-> TRUE, grammar |-> Walked(c, d \o <<t>>)]
<1> DEFINE w == Walked(c, d)
           e == d \o <<t>>
           u == c \o d
<1>1. <<t>> \in Words /\ Len(<<t>>) = 1 /\ ToSet(<<t>>) = {t}
  BY DEF Words, ToSet
<1>2. u \in Words /\ e \in Words /\ Len(e) = Len(d) + 1 /\ Len(d) \in Nat
  BY <1>1, ConcatProperties DEF Words
<1>3. Fits(u, t)
  <2>1. Allowed(u, <<t>>)
    BY <1>1, AllowedConcat
  <2>2. QED BY <2>1, <1>2, AllowedShort
<1>4. ToSet(u) = ToSet(c) \cup ToSet(d) /\ ToSet(e) = ToSet(d) \cup {t}
  <2>1. c \in Seq(Vocabulary) /\ d \in Seq(Vocabulary) /\ <<t>> \in Seq(Vocabulary)
    BY DEF Words
  <2>2. ToSet(u) = ToSet(c) \cup ToSet(d)
    BY <2>1, ConcatElements
  <2> DEFINE z == <<t>>
  <2>5. z \in Seq(Vocabulary)
    BY <2>1
  <2> HIDE DEF z
  <2>3. ToSet(d \o z) = ToSet(d) \cup ToSet(z)
    BY <2>1, <2>5, ConcatElements
  <2>4. QED BY <2>2, <2>3, <1>1 DEF z
<1>5. EOS \notin ToSet(u) /\ EOS \notin ToSet(d) /\ (EOS \in ToSet(e) <=> t = EOS)
  BY <1>3, <1>4 DEF Fits
<1>6. w = Fresh(u)
  <2>1. w = [consumed |-> c \o d, terminated |-> EOS \in ToSet(d), rollback_lag |-> 0]
    BY <1>5 DEF Walked
  <2>2. (EOS \in ToSet(d)) = FALSE
    BY <1>5
  <2>3. QED BY <2>1, <2>2 DEF Fresh
<1>7. SubSeq(e, 1, Len(e) - 1) = d
  <2>1. Len(d) \in 0 .. Len(d) + Len(<<t>>) /\ Len(d) <= Len(d) /\ Len(e) - 1 = Len(d)
    BY <1>1, <1>2
  <2>2. SubSeq(d \o <<t>>, 1, Len(d)) = SubSeq(d, 1, Len(d))
    BY <1>1, <2>1, PrefixOfConcat DEF Words
  <2>3. SubSeq(d, 1, Len(d)) = d
    BY SubSeqFull DEF Words
  <2>4. QED BY <2>1, <2>2, <2>3
<1>8. u \o <<t>> = c \o e
  BY <1>1, ConcatAssociative DEF Words
<1>9. Walked(c, e) = IF t = EOS /\ is_stopped(u)
                     THEN [consumed |-> u, terminated |-> TRUE, rollback_lag |-> 1]
                     ELSE [consumed |-> c \o e, terminated |-> t = EOS, rollback_lag |-> 0]
  <2>1. (EOS \in ToSet(e)) = (t = EOS)
    BY <1>5
  <2> DEFINE f == SubSeq(e, 1, Len(e) - 1)
  <2>2. f = d
    BY <1>7
  <2>3. Walked(c, e) = IF EOS \in ToSet(e) /\ is_stopped(c \o f)
                THEN [consumed |-> c \o f, terminated |-> TRUE, rollback_lag |-> 1]
                ELSE [consumed |-> c \o e, terminated |-> EOS \in ToSet(e), rollback_lag |-> 0]
    BY DEF Walked
  <2> HIDE DEF f, e
  <2>4. QED BY <2>1, <2>2, <2>3
<1> HIDE DEF e
<1>10. Allowed(u, <<t>>)
  BY <1>2, <1>3, AllowedShort
<1>11. is_stopped(u) => t = EOS
  BY <1>3 DEF Fits, NextTokens
<1> HIDE DEF u, w
<1>12. (EOS \in ToSet(<<t>>)) = (t = EOS)
  BY <1>1
<1>13. accept_tokens(Fresh(u), <<t>>) = [ok |-> TRUE, grammar |-> Walked(c, e)]
  <2>1. CASE is_stopped(u)
    <3>1. t = EOS
      BY <2>1, <1>11
    <3>2. Walked(c, e) = [consumed |-> u, terminated |-> TRUE, rollback_lag |-> 1]
      BY <2>1, <3>1, <1>9
    <3>3. accept_tokens(Fresh(u), <<t>>) =
            [ok |-> TRUE, grammar |-> [consumed |-> u, terminated |-> TRUE, rollback_lag |-> 1]]
      BY <2>1, <3>1, <1>12 DEF accept_tokens, Fresh
    <3>4. QED BY <3>2, <3>3
  <2>2. CASE ~ is_stopped(u)
    <3>1. Walked(c, e) = [consumed |-> c \o e, terminated |-> t = EOS, rollback_lag |-> 0]
      BY <2>2, <1>9
    <3>2. accept_tokens(Fresh(u), <<t>>) =
            [ok |-> TRUE,
             grammar |-> [consumed |-> u \o <<t>>, terminated |-> t = EOS, rollback_lag |-> 0]]
      <4>1. CASE t = EOS
        BY <2>2, <4>1, <1>10, <1>12 DEF accept_tokens, Fresh
      <4>2. CASE t # EOS
        BY <2>2, <4>2, <1>10, <1>12 DEF accept_tokens, Fresh
      <4>3. QED BY <4>1, <4>2
    <3>3. QED BY <3>1, <3>2, <1>8
  <2>3. QED BY <2>1, <2>2
<1>14. QED BY <1>6, <1>13 DEF w, e, Fresh

\* Rolled back, the walk leaves no trace.
LEMMA WalkBack ==
  ASSUME NEW c \in Words, NEW d \in Words, Allowed(c, d)
  PROVE  /\ d = <<>> => Walked(c, d) = Fresh(c)
         /\ rollback(Walked(c, d), Len(d)) = Fresh(c)
<1> DEFINE p == SubSeq(d, 1, Len(d) - 1)
           w == Walked(c, d)
<1>1. Len(c) \in Nat /\ Len(d) \in Nat
  BY DEF Words
<1>2. ASSUME NEW s \in Words PROVE SubSeq(c \o s, 1, Len(c)) = c /\ Len(c \o s) = Len(c) + Len(s)
  <2>1. Len(c) \in 0 .. Len(c) + Len(s) /\ Len(c) <= Len(c)
    BY DEF Words
  <2>2. SubSeq(c \o s, 1, Len(c)) = SubSeq(c, 1, Len(c))
    BY <2>1, PrefixOfConcat DEF Words
  <2>3. SubSeq(c, 1, Len(c)) = c
    BY SubSeqFull DEF Words
  <2>4. Len(c \o s) = Len(c) + Len(s)
    BY ConcatProperties DEF Words
  <2>5. QED BY <2>2, <2>3, <2>4
<1>3. w = IF EOS \in ToSet(d) /\ is_stopped(c \o p)
          THEN [consumed |-> c \o p, terminated |-> TRUE, rollback_lag |-> 1]
          ELSE [consumed |-> c \o d, terminated |-> EOS \in ToSet(d), rollback_lag |-> 0]
  BY DEF Walked
<1>4. d = <<>> => w = Fresh(c)
  <2>1. ASSUME d = <<>> PROVE w = Fresh(c)
    <3>1. c \o <<>> = c
      BY ConcatEmptySeq DEF Words
    <3>2. (EOS \in ToSet(d)) = FALSE
      BY <2>1 DEF ToSet
    <3>3. c \o d = c
      BY <2>1, <3>1
    <3> HIDE DEF w, p
    <3>4. w = [consumed |-> c, terminated |-> FALSE, rollback_lag |-> 0]
      BY <1>3, <3>2, <3>3
    <3>5. QED BY <3>4 DEF Fresh
  <2>2. QED BY <2>1
<1> HIDE DEF w
<1>5. rollback(w, Len(d)) = Fresh(c)
  <2>1. CASE EOS \in ToSet(d) /\ is_stopped(c \o p)
    <3>1. w = [consumed |-> c \o p, terminated |-> TRUE, rollback_lag |-> 1]
      BY <2>1, <1>3
    <3>2. Len(d) > 0
      <4>1. PICK i \in 1 .. Len(d) : d[i] = EOS
        BY <2>1, Elements DEF Words
      <4>2. QED BY <4>1, <1>1
    <3>3. Len(d) - 1 \in 0 .. Len(d)
      BY <3>2, <1>1
    <3>4. p \in Words /\ Len(p) = Len(d) - 1
      BY <3>3, SplitWord
    <3> HIDE DEF p
    <3>5. Len(c \o p) - (Len(d) - 1) = Len(c) /\ SubSeq(c \o p, 1, Len(c)) = c
      BY <3>4, <1>1, <1>2
    <3>6. rollback(w, Len(d)) = [consumed |-> SubSeq(c \o p, 1, Len(c \o p) - (Len(d) - 1)),
                                 terminated |-> FALSE, rollback_lag |-> 0]
      BY <3>1 DEF rollback
    <3>7. QED BY <3>5, <3>6 DEF Fresh
  <2>2. CASE ~ (EOS \in ToSet(d) /\ is_stopped(c \o p))
    <3>1. w = [consumed |-> c \o d, terminated |-> EOS \in ToSet(d), rollback_lag |-> 0]
      BY <2>2, <1>3
    <3>2. Len(c \o d) - (Len(d) - 0) = Len(c) /\ SubSeq(c \o d, 1, Len(c)) = c
      BY <1>1, <1>2
    <3>3. rollback(w, Len(d)) = [consumed |-> SubSeq(c \o d, 1, Len(c \o d) - (Len(d) - 0)),
                                 terminated |-> FALSE, rollback_lag |-> 0]
      BY <3>1 DEF rollback
    <3>4. QED BY <3>2, <3>3 DEF Fresh
  <2>3. QED BY <2>1, <2>2
<1>6. QED BY <1>4, <1>5 DEF w

\* A walk over allowed drafts stays in the answers, so each position has a mask.
LEMMA WalkMask ==
  ASSUME NEW c \in Answers, NEW d \in Words, Allowed(c, d), NEW apply \in BOOLEAN
  PROVE  /\ FillMask(Walked(c, d), apply) \subseteq Vocabulary
         /\ FillMask(Walked(c, d), apply) # {}
         /\ ~ apply => FillMask(Walked(c, d), apply) = Vocabulary
<1> DEFINE w == Walked(c, d)
           p == SubSeq(d, 1, Len(d) - 1)
<1>1. w.consumed \in Answers
  <2>1. c \o d \in Answers
    BY AnswerExtends
  <2>2. CASE EOS \in ToSet(d) /\ is_stopped(c \o p)
    <3>1. PICK i \in 1 .. Len(d) : d[i] = EOS
      BY <2>2, Elements DEF Words
    <3>2. Len(d) - 1 \in 0 .. Len(d) /\ c \in Words
      BY <3>1 DEF Words, Answers
    <3>3. p \in Words /\ Allowed(c, p)
      BY <3>2, AllowedPrefix
    <3>4. c \o p \in Answers
      BY <3>3, AnswerExtends
    <3>5. QED BY <3>4, <2>2 DEF Walked
  <2>3. CASE ~ (EOS \in ToSet(d) /\ is_stopped(c \o p))
    BY <2>1, <2>3 DEF Walked
  <2>4. QED BY <2>2, <2>3
<1> HIDE DEF w
<1>2. NextTokens(w.consumed) \subseteq Tokens \cup {EOS} /\ NextTokens(w.consumed) # {}
  <2>1. Run(w.consumed) \in States
    BY <1>1, AnswerTokens
  <2>2. QED BY <2>1, NextTokensFacts
<1>3. FillMask(w, apply) \in {NextTokens(w.consumed), Vocabulary}
      /\ (~ apply => FillMask(w, apply) = Vocabulary)
  BY DEF FillMask
<1>4. EOS \in Vocabulary /\ Tokens \cup {EOS} \subseteq Vocabulary
  BY DEF Vocabulary
<1>5. QED BY <1>2, <1>3, <1>4 DEF w

\* accept_tokens takes the committed tokens.
LEMMA Accepts ==
  ASSUME NEW c \in Answers, NEW s \in Words, Allowed(c, s), EOS \notin ToSet(c)
  PROVE  /\ accept_tokens(Fresh(c), s).ok
         /\ EOS \notin ToSet(s) => accept_tokens(Fresh(c), s).grammar = Fresh(c \o s)
         /\ accept_tokens(Fresh(c), s).grammar \in
              [consumed : Seq(Tokens \cup {EOS}), terminated : BOOLEAN, rollback_lag : {0, 1}]
<1> DEFINE a == accept_tokens(Fresh(c), s)
           eos == EOS \in ToSet(s)
<1>1. c \in Seq(Tokens \cup {EOS}) /\ c \o s \in Seq(Tokens \cup {EOS})
  BY AnswerExtends, AnswerTokens
<1>2. Fresh(c).consumed = c /\ ~ Fresh(c).terminated /\ Fresh(c).rollback_lag = 0
  BY DEF Fresh
<1>3. CASE is_stopped(c)
  <2>1. a = [ok |-> TRUE,
             grammar |-> [consumed |-> c, terminated |-> FALSE \/ eos,
                          rollback_lag |-> IF eos THEN 1 ELSE 0]]
    BY <1>3 DEF accept_tokens, Fresh
  <2>2. ~ eos => s = <<>>
    <3>1. ASSUME s # <<>> PROVE eos
      <4>1. Len(s) \in Nat /\ Len(s) > 0 /\ 1 \in 1 .. Len(s)
        BY <3>1, EmptySeq DEF Words
      <4>2. Fits(c \o SubSeq(s, 1, 1 - 1), s[1])
        BY <4>1, AllowedPlaces DEF Answers
      <4>3. SubSeq(s, 1, 1 - 1) = <<>> /\ c \o <<>> = c
        BY SubSeqEmpty, ConcatEmptySeq DEF Answers, Words
      <4>4. s[1] \in NextTokens(c)
        BY <4>2, <4>3 DEF Fits
      <4>5. s[1] = EOS
        BY <4>4, <1>3 DEF NextTokens
      <4>6. QED BY <4>1, <4>5, Elements DEF Words
    <3>2. QED BY <3>1
  <2>3. s = <<>> => c \o s = c
    BY ConcatEmptySeq DEF Answers, Words
  <2> HIDE DEF a, eos
  <2>4. ~ eos => a.grammar = Fresh(c \o s)
    BY <2>1, <2>2, <2>3 DEF Fresh
  <2>5. a.grammar \in [consumed : Seq(Tokens \cup {EOS}), terminated : BOOLEAN, rollback_lag : {0, 1}]
    BY <2>1, <1>1 DEF eos
  <2>6. QED BY <2>1, <2>4, <2>5 DEF a, eos
<1>4. CASE ~ is_stopped(c)
  <2>1. a = [ok |-> TRUE,
             grammar |-> [consumed |-> c \o s, terminated |-> FALSE \/ eos, rollback_lag |-> 0]]
    BY <1>4 DEF accept_tokens, Fresh
  <2> HIDE DEF a
  <2>2. ~ eos => a.grammar = Fresh(c \o s)
    BY <2>1 DEF Fresh
  <2>3. a.grammar \in [consumed : Seq(Tokens \cup {EOS}), terminated : BOOLEAN, rollback_lag : {0, 1}]
    BY <2>1, <1>1
  <2>4. QED BY <2>1, <2>2, <2>3 DEF a
<1>5. QED BY <1>3, <1>4

---------------------------------------------------------------------------
(* The walk over the positions of a step.                                *)

\* The positions of a step, filled one after the other.
Fills(f, base, ds, n) ==
  /\ f[0] = base
  /\ \A k \in 1 .. n : f[k] = FillPosition(f[k - 1], ds[k])

FillNext(it, x, base, ds) ==
  IF x = {} THEN base ELSE FillPosition(it[x \ {Max(x)}], ds[Max(x)])

IsFillTable(it, n, base, ds) == it = [x \in SUBSET (1 .. n) |-> FillNext(it, x, base, ds)]

FillTable(base, ds) ==
  CHOOSE it : it = [x \in SUBSET (DOMAIN ds) |-> FillNext(it, x, base, ds)]

\* The fold of grammar_bitmask's loop is its table at the whole list.
LEMMA FillIsTable ==
  ASSUME NEW base, NEW ds
  PROVE  FoldLeft(FillPosition, base, ds) = FillTable(base, ds)[DOMAIN ds]
  BY SMT DEF FoldLeft, MapThenFoldSet, FillTable, FillNext

\* The table of the walk exists.
LEMMA FillTableExists ==
  ASSUME NEW base, NEW ds, NEW n \in Nat
  PROVE  \E it : IsFillTable(it, n, base, ds)
<1> DEFINE Step(it, x) == FillNext(it, x, base, ds)
           Table(k, it) == it = [x \in SUBSET (1 .. k) |-> Step(it, x)]
           Have == {k \in Nat : \E it : Table(k, it)}
<1>0. \A g, h, x : (x # {} => g[x \ {Max(x)}] = h[x \ {Max(x)}]) => Step(g, x) = Step(h, x)
  BY DEF FillNext
<1>1. \A it : Step(it, {}) = base
  BY DEF FillNext
<1> HIDE DEF Step
<1>2. 0 \in Have
  <2>1. SUBSET (1 .. 0) = {{}}
    OBVIOUS
  <2> DEFINE it == [x \in SUBSET (1 .. 0) |-> base]
  <2>2. \A x \in SUBSET (1 .. 0) : Step(it, x) = base
    BY <2>1, <1>1
  <2>3. Table(0, it)
    BY <2>2
  <2>4. QED BY <2>3
<1>3. ASSUME NEW k \in Nat, k \in Have PROVE k + 1 \in Have
  <2>1. PICK it : Table(k, it)
    BY <1>3
  <2> DEFINE next == [x \in SUBSET (1 .. k + 1) |-> Step(it, x)]
  <2>2. ASSUME NEW x \in SUBSET (1 .. k + 1), x # {}
        PROVE  x \ {Max(x)} \in SUBSET (1 .. k) /\ x \ {Max(x)} \in SUBSET (1 .. k + 1)
    <3>1. k + 1 \in Nat
      OBVIOUS
    <3>2. Max(x) \in x /\ \A i \in x : i <= Max(x)
      BY <2>2, <3>1, MaxOfInterval
    <3>3. ASSUME NEW i \in x \ {Max(x)} PROVE i \in 1 .. k
      <4>1. i \in 1 .. k + 1 /\ Max(x) \in 1 .. k + 1 /\ i # Max(x) /\ i <= Max(x)
        BY <3>2
      <4>2. QED BY <4>1
    <3>4. QED BY <3>3
  <2>3. ASSUME NEW x \in SUBSET (1 .. k) PROVE next[x] = it[x]
    <3>1. x \in SUBSET (1 .. k + 1)
      OBVIOUS
    <3>2. next[x] = Step(it, x) /\ it[x] = Step(it, x)
      BY <3>1, <2>1
    <3>3. QED BY <3>2
  <2> HIDE DEF next
  <2>6. ASSUME NEW x \in SUBSET (1 .. k + 1) PROVE Step(it, x) = Step(next, x)
    <3>1. x # {} => next[x \ {Max(x)}] = it[x \ {Max(x)}]
      BY <2>2, <2>3
    <3>2. QED BY <3>1, <1>0
  <2>7. Table(k + 1, next)
    <3>1. next = [x \in SUBSET (1 .. k + 1) |-> Step(it, x)]
      BY DEF next
    <3>2. [x \in SUBSET (1 .. k + 1) |-> Step(it, x)]
             = [x \in SUBSET (1 .. k + 1) |-> Step(next, x)]
      BY <2>6
    <3>3. next = [x \in SUBSET (1 .. k + 1) |-> Step(next, x)]
      BY <3>1, <3>2, Zenon
    <3>4. QED BY <3>3
  <2> HIDE DEF Table
  <2>8. QED BY <2>7
<1>4. \A k \in Nat : k \in Have
  <2> HIDE DEF Have
  <2>1. QED BY <1>2, <1>3, NatInductionSet
<1>5. PICK it : Table(n, it)
  BY <1>4
<1>6. IsFillTable(it, n, base, ds)
  BY <1>5 DEF Step, IsFillTable
<1>7. QED BY <1>6

\* The walk goes position by position.
LEMMA FillSteps ==
  ASSUME NEW base, NEW A, NEW ds \in Seq(A)
  PROVE  \E f : Fills(f, base, ds, Len(ds)) /\ f[Len(ds)] = FoldLeft(FillPosition, base, ds)
<1> DEFINE n == Len(ds)
           Step(it, x) == FillNext(it, x, base, ds)
           E(it) == it = [x \in SUBSET (DOMAIN ds) |-> Step(it, x)]
           rt == FillTable(base, ds)
<1>1. n \in Nat /\ DOMAIN ds = 1 .. n
  OBVIOUS
<1>2. rt = CHOOSE it : E(it)
  BY DEF FillTable
<1>3. \E it : E(it)
  <2> HIDE DEF n
  <2>0. n \in Nat
    BY <1>1
  <2>1. PICK it : IsFillTable(it, n, base, ds)
    BY <2>0, FillTableExists
  <2>2. E(it)
    BY <2>1, <1>1 DEF IsFillTable
  <2>3. QED BY <2>2
<1> HIDE DEF E
<1>4. E(rt)
  BY <1>2, <1>3
<1> HIDE DEF rt
<1>5. rt = [x \in SUBSET (1 .. n) |-> Step(rt, x)]
  BY <1>1, <1>4 DEF E
<1> HIDE DEF Step
<1>6. \A x \in SUBSET (1 .. n) : rt[x] = Step(rt, x)
  BY <1>5
<1> DEFINE f == [k \in 0 .. n |-> rt[1 .. k]]
<1>7. f[0] = base
  <2>1. 1 .. 0 = {} /\ 0 \in 0 .. n /\ {} \in SUBSET (1 .. n)
    BY <1>1
  <2>2. rt[{}] = base
    BY <2>1, <1>6 DEF Step, FillNext
  <2>3. QED BY <2>1, <2>2
<1>8. ASSUME NEW k \in 1 .. n PROVE f[k] = FillPosition(f[k - 1], ds[k])
  <2>1. k \in Nat \ {0} /\ k <= n /\ k \in 0 .. n /\ k - 1 \in 0 .. n
    BY <1>1
  <2>2. 1 .. k \in SUBSET (1 .. n) /\ 1 .. k # {}
    <3>1. \A i \in 1 .. k : i \in 1 .. n
      BY <2>1, <1>1
    <3>2. k \in 1 .. k
      BY <2>1
    <3>3. QED BY <3>1, <3>2
  <2>3. Max(1 .. k) = k /\ (1 .. k) \ {k} = 1 .. (k - 1)
    BY <2>1, MaxIsLast
  <2>4. rt[1 .. k] = Step(rt, 1 .. k)
    BY <2>2, <1>6
  <2>5. rt[1 .. k] = FillPosition(rt[1 .. (k - 1)], ds[k])
    BY <2>2, <2>3, <2>4, Zenon DEF Step, FillNext
  <2>6. f[k] = rt[1 .. k] /\ f[k - 1] = rt[1 .. (k - 1)]
    BY <2>1
  <2>7. QED BY <2>5, <2>6
<1>9. f[n] = FoldLeft(FillPosition, base, ds)
  <2>1. n \in 0 .. n
    BY <1>1
  <2>2. f[n] = rt[1 .. n]
    BY <2>1
  <2>3. QED BY <2>2, <1>1, FillIsTable, Zenon DEF rt
<1> HIDE DEF f
<1>10. QED BY <1>7, <1>8, <1>9 DEF Fills

\* What one position does to the state of the walk.
Positions == {"start", "grammar", "masks", "advanced", "padded", "failed"}

Filled(next, acc, token, apply) ==
  LET taken == accept_tokens(acc.grammar, <<token>>)
      takes == apply /\ token # Padding
  IN  /\ DOMAIN next = Positions /\ next.start = acc.start
      /\ next.masks = Append(acc.masks, FillMask(acc.grammar, apply))
      /\ next.grammar = IF takes THEN taken.grammar ELSE acc.grammar
      /\ next.advanced = IF takes THEN acc.advanced + 1 ELSE acc.advanced
      /\ next.padded <=> token = Padding \/ acc.padded
      /\ next.failed = FALSE

\* One position does that, unless the matcher refuses the draft.
LEMMA FillsOne ==
  ASSUME NEW acc, DOMAIN acc = Positions, NEW token, NEW apply \in BOOLEAN,
         acc.failed = FALSE, apply <=> ~ acc.padded /\ Len(acc.masks) >= acc.start,
         apply /\ token # Padding => /\ ~ acc.grammar.terminated
                                     /\ accept_tokens(acc.grammar, <<token>>).ok
  PROVE  Filled(FillPosition(acc, token), acc, token, apply)
<1> DEFINE taken == accept_tokens(acc.grammar, <<token>>)
           m == FillMask(acc.grammar, apply)
           fill == [acc EXCEPT !.masks = Append(@, m)]
           next == FillPosition(acc, token)
<1>1. (~ acc.failed /\ ~ acc.padded /\ Len(acc.masks) >= acc.start) = apply
  OBVIOUS
<1>2. next = IF token = Padding THEN [fill EXCEPT !.padded = TRUE]
             ELSE IF ~ apply THEN fill
             ELSE IF ~ acc.grammar.terminated /\ taken.ok
             THEN [fill EXCEPT !.grammar = taken.grammar, !.advanced = @ + 1]
             ELSE [fill EXCEPT !.failed = TRUE]
  BY <1>1, Zenon DEF FillPosition
<1> HIDE DEF taken, m, next
<1>3. /\ DOMAIN fill = Positions /\ fill.masks = Append(acc.masks, m)
      /\ fill.start = acc.start /\ fill.grammar = acc.grammar /\ fill.advanced = acc.advanced
      /\ fill.padded = acc.padded /\ fill.failed = acc.failed
  BY DEF Positions
<1> HIDE DEF fill
<1>4. CASE token = Padding
  <2>1. next = [fill EXCEPT !.padded = TRUE]
    BY <1>2, <1>4
  <2>2. QED BY <2>1, <1>3, <1>4 DEF Positions, Filled, taken, m, next
<1>5. CASE token # Padding /\ ~ apply
  <2>1. next = fill
    BY <1>2, <1>5
  <2>2. QED BY <2>1, <1>3, <1>5 DEF Positions, Filled, taken, m, next
<1>6. CASE token # Padding /\ apply
  <2>1. next = [fill EXCEPT !.grammar = taken.grammar, !.advanced = @ + 1]
    BY <1>2, <1>6 DEF taken
  <2>2. QED BY <2>1, <1>3, <1>6 DEF Positions, Filled, taken, m, next
<1>7. QED BY <1>4, <1>5, <1>6

---------------------------------------------------------------------------
(* Drafts, stripped and taken one by one.                                *)

\* Drafts scheduled: the valid ones v, and padding behind them.
Padded(ds, v) ==
  /\ ds \in Seq(Vocabulary \cup {Padding}) /\ v \in Words /\ Len(v) <= Len(ds)
  /\ \A i \in 1 .. Len(ds) : ds[i] = IF i <= Len(v) THEN v[i] ELSE Padding

\* strip_speculative_padding gives the valid ones back.
LEMMA Stripped ==
  ASSUME NEW ds, NEW v, Padded(ds, v)
  PROVE  strip_speculative_padding(ds) = v
<1> DEFINE first == SelectInSeq(ds, LAMBDA t : t = Padding)
           W == Vocabulary \cup {Padding}
<1>1. Len(ds) \in Nat /\ Len(v) \in Nat /\ Len(v) <= Len(ds) /\ ds \in Seq(W) /\ v \in Seq(W)
  BY SeqMonotonic DEF Padded, Words
<1>2. \A i \in 1 .. Len(ds) : ds[i] = IF i <= Len(v) THEN v[i] ELSE Padding
  BY DEF Padded
<1>3. \A i \in 1 .. Len(v) : v[i] # Padding
  <2>1. \A i \in 1 .. Len(v) : v[i] \in Vocabulary
    BY ElementOfSeq DEF Padded, Words
  <2>2. QED BY <2>1, TokensAssumption
<1>4. /\ Padding \notin ToSet(ds) => first = 0
      /\ Padding \in ToSet(ds) => /\ first \in 1 .. Len(ds) /\ ds[first] = Padding
                                  /\ \A j \in 1 .. Len(ds) : j < first => ds[j] # Padding
  BY <1>1, FirstPlace
<1>5. Padding \in ToSet(ds) <=> \E i \in 1 .. Len(ds) : ds[i] = Padding
  BY <1>1, Elements
<1>6. strip_speculative_padding(ds) = IF first = 0 THEN ds ELSE SubSeq(ds, 1, first - 1)
  BY DEF strip_speculative_padding
<1> HIDE DEF first, W
<1>7. CASE Len(v) = Len(ds)
  <2>1. \A i \in 1 .. Len(ds) : ds[i] = v[i] /\ ds[i] # Padding
    BY <1>1, <1>2, <1>3, <1>7
  <2>2. first = 0
    BY <2>1, <1>4, <1>5
  <2>3. ds = v
    BY <2>1, <1>1, <1>7, SeqEqual
  <2>4. QED BY <2>2, <2>3, <1>6
<1>8. CASE Len(v) < Len(ds)
  <2>1. Len(v) + 1 \in 1 .. Len(ds) /\ ~ (Len(v) + 1 <= Len(v))
    BY <1>1, <1>8
  <2>2. ds[Len(v) + 1] = Padding
    BY <2>1, <1>2
  <2>3. /\ first \in 1 .. Len(ds) /\ ds[first] = Padding
        /\ \A j \in 1 .. Len(ds) : j < first => ds[j] # Padding
    BY <2>1, <2>2, <1>4, <1>5
  <2>4. ~ (Len(v) + 1 < first)
    BY <2>1, <2>2, <2>3
  <2>5. ~ (first <= Len(v))
    <3>1. ASSUME first <= Len(v) PROVE FALSE
      <4>1. first \in 1 .. Len(v)
        BY <3>1, <2>3, <1>1
      <4>2. QED BY <4>1, <3>1, <2>3, <1>2, <1>3
    <3>2. QED BY <3>1
  <2>6. first = Len(v) + 1 /\ first # 0 /\ first - 1 = Len(v)
    BY <2>3, <2>4, <2>5, <1>1
  <2> DEFINE p == SubSeq(ds, 1, Len(v))
  <2>7. Len(v) \in 0 .. Len(ds)
    BY <1>1
  <2>8. p \in Seq(W) /\ Len(p) = Len(v) /\ \A i \in 1 .. Len(v) : p[i] = ds[i]
    BY <2>7, <1>1, CutInTwo
  <2> HIDE DEF p
  <2>9. ASSUME NEW i \in 1 .. Len(v) PROVE p[i] = v[i]
    <3>1. i \in 1 .. Len(ds) /\ i <= Len(v)
      BY <1>1
    <3>2. QED BY <3>1, <2>8, <1>2
  <2>10. p = v
    BY <2>8, <2>9, <1>1, SeqEqual
  <2>11. QED BY <2>6, <2>10, <1>6 DEF p
<1>9. QED BY <1>1, <1>7, <1>8

\* The first k of some tokens.
First(v, k) == SubSeq(v, 1, k)

\* One draft more: it is constrained if the constraint was on before it.
LEMMA OneMore ==
  ASSUME NEW b \in BOOLEAN, NEW v \in Words, NEW k \in Nat, k < Len(v)
  PROVE  /\ First(v, k) \in Words /\ v[k + 1] \in Vocabulary
         /\ First(v, k + 1) = First(v, k) \o <<v[k + 1]>>
         /\ Constrained(b, First(v, k + 1))
              = IF Open(b, First(v, k)) THEN Constrained(b, First(v, k)) \o <<v[k + 1]>>
                ELSE Constrained(b, First(v, k))
<1> DEFINE p == First(v, k)
           t == v[k + 1]
           o == ~ Open(b, p)
<1>1. Len(v) \in Nat /\ k \in 0 .. Len(v) /\ k + 1 \in 1 .. Len(v) /\ 1 \in 1 .. Len(v)
      /\ k + 1 \in 1 .. Len(v) /\ (k + 1) - 1 = k
  BY DEF Words
<1>2. p \in Words
  BY <1>1, SplitWord DEF First
<1>3. t \in Vocabulary
  BY <1>1 DEF Words
<1>4. First(v, k + 1) = p \o <<t>>
  <2>1. SubSeq(v, 1, k + 1) = SubSeq(v, 1, (k + 1) - 1) \o <<v[k + 1]>>
    BY <1>1, SubSeqRecursiveSecond DEF Words
  <2>2. QED BY <2>1, <1>1 DEF First
<1> HIDE DEF p, t
<1>5. <<t>> \in Words /\ Len(<<t>>) = 1 /\ o \in BOOLEAN
  BY <1>3 DEF Words, Open
<1>6. Constrained(b, p \o <<t>>) = Constrained(b, p) \o Constrained(o, <<t>>)
  BY <1>2, <1>5, ConstrainedConcat
<1>7. CASE Open(b, p)
  <2>1. Constrained(o, <<t>>) = <<t>>
    BY <1>5, <1>7, PlaceFacts
  <2>2. QED BY <2>1, <1>2, <1>3, <1>4, <1>6, <1>7 DEF p, t
<1>8. CASE ~ Open(b, p)
  <2>1. Constrained(o, <<t>>) = <<>>
    <3>1. CASE Open(o, <<t>>)
      <4>1. Place(o, <<t>>) \in 1 .. 1
        BY <3>1, <1>5, <1>8, PlaceFacts
      <4>2. Place(o, <<t>>) = 1
        BY <4>1
      <4>3. Constrained(o, <<t>>) = SubSeq(<<t>>, 1 + 1, 1)
        BY <4>2, <1>5 DEF Constrained
      <4>4. QED BY <4>3, SubSeqEmpty
    <3>2. CASE ~ Open(o, <<t>>)
      BY <3>2, <1>5, PlaceFacts
    <3>3. QED BY <3>1, <3>2
  <2>2. Constrained(b, p) \o <<>> = Constrained(b, p)
    <3>1. Constrained(b, p) \in Seq(Vocabulary)
      BY <1>2, PlaceFacts DEF Words
    <3>2. QED BY <3>1, ConcatEmptySeq
  <2>3. QED BY <2>1, <2>2, <1>2, <1>3, <1>4, <1>6, <1>8 DEF p, t
<1>9. QED BY <1>7, <1>8

\* Of drafts whose constrained part is allowed, the first ones have the same.
LEMMA PrefixConstrained ==
  ASSUME NEW b \in BOOLEAN, NEW c \in Words, NEW v \in Words, Allowed(c, Constrained(b, v)),
         NEW k \in 0 .. Len(v)
  PROVE  /\ First(v, k) \in Words /\ Constrained(b, First(v, k)) \in Words
         /\ Allowed(c, Constrained(b, First(v, k)))
         /\ Open(b, First(v, k)) <=> Place(b, v) <= k
<1> DEFINE p == SubSeq(v, 1, k)
           r == SubSeq(v, k + 1, Len(v))
           o == ~ Open(b, p)
<1>1. p \in Words /\ r \in Words /\ v = p \o r /\ Len(p) = k /\ Len(r) = Len(v) - k
      /\ \A i \in 1 .. k : p[i] = v[i]
  BY SplitWord
<1>2. o \in BOOLEAN
  BY DEF Open
<1> HIDE DEF p, r
<1>3. Constrained(b, v) = Constrained(b, p) \o Constrained(o, r)
  BY <1>1, <1>2, ConstrainedConcat
<1>4. Constrained(b, p) \in Words /\ Constrained(o, r) \in Words
  BY <1>1, <1>2, PlaceFacts
<1>5. Allowed(c, Constrained(b, p))
  BY <1>3, <1>4, AllowedConcat
<1>6. Open(b, p) <=> Place(b, v) <= k
  <2>1. k \in Nat /\ Len(v) \in Nat /\ Place(b, v) \in Nat
    BY PlaceFacts DEF Words
  <2>2. CASE ~ b
    BY <2>1, <2>2, PlaceFacts DEF Open
  <2>3. CASE b /\ Open(b, p)
    <3>1. Place(b, p) \in 1 .. k /\ p[Place(b, p)] = ThinkEnd
      BY <2>3, <1>1, PlaceFacts
    <3>2. Place(b, p) \in 1 .. Len(v) /\ v[Place(b, p)] = ThinkEnd
      BY <3>1, <1>1, <2>1
    <3>3. Open(b, v)
      <4>1. ThinkEnd \in ToSet(v)
        BY <3>2, Elements DEF Words
      <4>2. QED BY <4>1 DEF Open
    <3>4. \A j \in 1 .. Len(v) : j < Place(b, v) => v[j] # ThinkEnd
      BY <3>3, <2>3, PlaceFacts
    <3>5. ~ (Place(b, p) < Place(b, v))
      BY <3>2, <3>4
    <3>6. Place(b, p) \in Nat /\ Place(b, p) <= k
      BY <3>1, <2>1
    <3>7. Place(b, v) <= k
      BY <3>5, <3>6, <2>1
    <3>8. QED BY <3>7, <2>3
  <2>4. CASE b /\ ~ Open(b, p)
    <3>1. ASSUME Place(b, v) <= k PROVE FALSE
      <4>1. Open(b, v)
        BY <3>1, <2>1, PlaceFacts
      <4>2. Place(b, v) \in 1 .. Len(v) /\ v[Place(b, v)] = ThinkEnd
        BY <4>1, <2>4, PlaceFacts
      <4>3. Place(b, v) \in 1 .. k
        BY <4>2, <3>1, <2>1
      <4>4. p[Place(b, v)] = ThinkEnd
        BY <4>2, <4>3, <1>1
      <4>5. ThinkEnd \in ToSet(p)
        BY <4>3, <4>4, <1>1, Elements DEF Words
      <4>6. QED BY <4>5, <2>4 DEF Open
    <3>2. QED BY <3>1, <2>4
  <2>5. QED BY <2>2, <2>3, <2>4
<1>7. QED BY <1>1, <1>4, <1>5, <1>6 DEF p, First

---------------------------------------------------------------------------
(* The masks of a step.                                                  *)

\* The mask of position i of a step with the valid drafts v, when the matcher
\* has consumed c and b says that the model reasons.
MaskAt(b, c, v, i) ==
  FillMask(Walked(c, Constrained(b, First(v, i - 1))), Open(b, First(v, i - 1)))

Least(i, j) == IF i <= j THEN i ELSE j

\* The walk after k positions.
WalkAt(acc, b, c, v, k) ==
  LET d == Constrained(b, First(v, Least(k, Len(v))))
  IN  /\ DOMAIN acc = Positions /\ acc.start = Place(b, v)
      /\ acc.grammar = Walked(c, d) /\ acc.advanced = Len(d)
      /\ acc.masks \in Seq(SUBSET Vocabulary) /\ Len(acc.masks) = k
      /\ \A i \in 1 .. k : acc.masks[i] = IF i <= Len(v) + 1 THEN MaskAt(b, c, v, i)
                                          ELSE Vocabulary
      /\ (acc.padded <=> k > Len(v)) /\ acc.failed = FALSE

\* One mask more.
LEMMA MaskAppended ==
  ASSUME NEW b, NEW c, NEW v, NEW k \in Nat,
         NEW m \in Seq(SUBSET Vocabulary), Len(m) = k, NEW mask \in SUBSET Vocabulary,
         \A i \in 1 .. k : m[i] = IF i <= Len(v) + 1 THEN MaskAt(b, c, v, i) ELSE Vocabulary,
         mask = IF k + 1 <= Len(v) + 1 THEN MaskAt(b, c, v, k + 1) ELSE Vocabulary
  PROVE  /\ Append(m, mask) \in Seq(SUBSET Vocabulary) /\ Len(Append(m, mask)) = k + 1
         /\ \A i \in 1 .. k + 1 : Append(m, mask)[i] =
              IF i <= Len(v) + 1 THEN MaskAt(b, c, v, i) ELSE Vocabulary
<1>1. /\ Append(m, mask) \in Seq(SUBSET Vocabulary) /\ Len(Append(m, mask)) = k + 1
      /\ \A i \in 1 .. k : Append(m, mask)[i] = m[i]
      /\ Append(m, mask)[k + 1] = mask
  BY AppendProperties
<1>2. ASSUME NEW i \in 1 .. k + 1
      PROVE  Append(m, mask)[i] = IF i <= Len(v) + 1 THEN MaskAt(b, c, v, i) ELSE Vocabulary
  <2>1. CASE i \in 1 .. k
    BY <2>1, <1>1
  <2>2. CASE i \notin 1 .. k
    <3>1. i = k + 1
      BY <2>2
    <3>2. QED BY <3>1, <1>1
  <2>3. QED BY <2>1, <2>2
<1>3. QED BY <1>1, <1>2

\* The walk takes every draft, masks every position and nothing fails.
LEMMA WalkThrough ==
  ASSUME NEW b \in BOOLEAN, NEW c \in Answers, NEW v, NEW ds, Padded(ds, v),
         Allowed(c, Constrained(b, v)),
         NEW base, WalkAt(base, b, c, v, 0)
  PROVE  WalkAt(FoldLeft(FillPosition, base, ds), b, c, v, Len(ds))
<1>0. /\ v \in Words /\ c \in Words /\ Len(v) \in Nat /\ Len(ds) \in Nat /\ Len(v) <= Len(ds)
      /\ ds \in Seq(Vocabulary \cup {Padding})
      /\ \A i \in 1 .. Len(ds) : ds[i] = IF i <= Len(v) THEN v[i] ELSE Padding
  BY DEF Padded, Answers, Words
<1>1. PICK f : Fills(f, base, ds, Len(ds)) /\ f[Len(ds)] = FoldLeft(FillPosition, base, ds)
  BY <1>0, FillSteps
<1> DEFINE Good == {k \in Nat : k <= Len(ds) => WalkAt(f[k], b, c, v, k)}
<1>2. 0 \in Good
  BY <1>1 DEF Fills
<1>3. ASSUME NEW k \in Nat, k \in Good PROVE k + 1 \in Good
  <2>1. SUFFICES ASSUME k + 1 <= Len(ds) PROVE WalkAt(f[k + 1], b, c, v, k + 1)
    OBVIOUS
  <2> DEFINE acc == f[k]
             token == ds[k + 1]
             j == Least(k, Len(v))
             d == Constrained(b, First(v, j))
             apply == k <= Len(v) /\ Open(b, First(v, j))
             next == f[k + 1]
             a == accept_tokens(acc.grammar, <<token>>)
  <2>2. WalkAt(acc, b, c, v, k) /\ k + 1 \in 1 .. Len(ds) /\ (k + 1) - 1 = k
    BY <2>1, <1>0, <1>3
  <2>3. next = FillPosition(acc, token)
    BY <2>2, <1>1 DEF Fills
  <2>4. /\ DOMAIN acc = Positions /\ acc.start = Place(b, v)
        /\ acc.grammar = Walked(c, d) /\ acc.advanced = Len(d)
        /\ acc.masks \in Seq(SUBSET Vocabulary) /\ Len(acc.masks) = k
        /\ \A i \in 1 .. k : acc.masks[i] = IF i <= Len(v) + 1 THEN MaskAt(b, c, v, i)
                                            ELSE Vocabulary
        /\ (acc.padded <=> k > Len(v)) /\ acc.failed = FALSE
    BY <2>2 DEF WalkAt
  <2>5. token = IF k + 1 <= Len(v) THEN v[k + 1] ELSE Padding
    BY <2>2, <1>0
  <2>6. j \in 0 .. Len(v) /\ (k <= Len(v) => j = k) /\ (k > Len(v) => j = Len(v))
    BY <1>0 DEF Least
  <2>7. /\ d \in Words /\ Allowed(c, d) /\ (Open(b, First(v, j)) <=> Place(b, v) <= j)
    BY <2>6, <1>0, PrefixConstrained
  <2>8. apply \in BOOLEAN
    BY DEF Open
  <2>9. apply <=> ~ acc.padded /\ Len(acc.masks) >= acc.start
    <3>1. Place(b, v) \in Nat
      BY <1>0, PlaceFacts
    <3>2. Len(acc.masks) = k /\ acc.start = Place(b, v) /\ (acc.padded <=> k > Len(v))
      BY <2>4
    <3>3. apply <=> k <= Len(v) /\ Place(b, v) <= k
      <4>1. k <= Len(v) => (Open(b, First(v, j)) <=> Place(b, v) <= k)
        BY <2>6, <2>7
      <4>2. QED BY <4>1
    <3>4. acc.padded <=> ~ (k <= Len(v))
      BY <3>2, <1>0
    <3>5. Len(acc.masks) >= acc.start <=> Place(b, v) <= k
      BY <3>1, <3>2
    <3> HIDE DEF acc, apply
    <3>6. QED BY <3>3, <3>4, <3>5
  <2> DEFINE dd == Constrained(b, First(v, Least(k + 1, Len(v))))
  <2>10. token # Padding <=> k < Len(v)
    <3>1. k < Len(v) => v[k + 1] \in Vocabulary
      BY <1>0, OneMore
    <3>2. k + 1 <= Len(v) <=> k < Len(v)
      BY <1>0
    <3>3. QED BY <3>1, <3>2, <2>5, TokensAssumption
  <2>11. apply /\ token # Padding =>
           /\ ~ acc.grammar.terminated /\ a.ok /\ a.grammar = Walked(c, dd) /\ Len(dd) = Len(d) + 1
    <3>1. ASSUME apply, token # Padding
          PROVE  /\ ~ acc.grammar.terminated /\ a.ok /\ a.grammar = Walked(c, dd)
                 /\ Len(dd) = Len(d) + 1
      <4>1. k < Len(v) /\ j = k /\ Least(k + 1, Len(v)) = k + 1 /\ k + 1 \in 0 .. Len(v)
        BY <3>1, <2>6, <2>10, <1>0 DEF Least
      <4>2. token \in Vocabulary /\ token = v[k + 1]
        <5>1. token = v[k + 1]
          BY <4>1, <2>5, <1>0
        <5>2. v[k + 1] \in Vocabulary
          BY <4>1, <1>0, OneMore
        <5>3. QED BY <5>1, <5>2
      <4>3. dd = d \o <<token>>
        <5>1. Open(b, First(v, k))
          BY <4>1, <3>1
        <5>2. Constrained(b, First(v, k + 1)) = Constrained(b, First(v, k)) \o <<v[k + 1]>>
          BY <4>1, <5>1, <1>0, OneMore
        <5>3. d = Constrained(b, First(v, k)) /\ dd = Constrained(b, First(v, k + 1))
          BY <4>1
        <5> HIDE DEF d, dd, token
        <5>4. QED BY <5>2, <5>3, <4>2
      <4>4. Allowed(c, dd)
        BY <4>1, <1>0, PrefixConstrained
      <4> HIDE DEF dd, d, acc, token, a, apply, j
      <4>5. ~ Walked(c, d).terminated
            /\ accept_tokens(Walked(c, d), <<token>>) = [ok |-> TRUE, grammar |-> Walked(c, dd)]
        BY <4>2, <4>3, <4>4, <2>7, <1>0, WalkOne
      <4>6. a = [ok |-> TRUE, grammar |-> Walked(c, dd)]
        BY <4>5, <2>4 DEF a
      <4>7. Len(dd) = Len(d) + 1
        <5>1. <<token>> \in Words /\ Len(<<token>>) = 1
          BY <4>2 DEF Words
        <5>2. QED BY <5>1, <4>3, <2>7, ConcatProperties DEF Words
      <4>8. QED BY <4>5, <4>6, <4>7, <2>4
    <3>2. QED BY <3>1
  <2>12. ~ (apply /\ token # Padding) => dd = d
    <3>1. CASE k < Len(v)
      <4>1. j = k /\ Least(k + 1, Len(v)) = k + 1 /\ k <= Len(v)
        BY <3>1, <2>6, <1>0 DEF Least
      <4>2. ~ Open(b, First(v, k)) => Constrained(b, First(v, k + 1)) = Constrained(b, First(v, k))
        BY <3>1, <1>0, OneMore
      <4>3. QED BY <4>1, <4>2, <3>1, <2>10
    <3>2. CASE ~ (k < Len(v))
      <4>1. j = Len(v) /\ Least(k + 1, Len(v)) = Len(v)
        BY <3>2, <2>6, <1>0 DEF Least
      <4>2. QED BY <4>1
    <3>3. QED BY <3>1, <3>2
  <2> DEFINE mask == FillMask(acc.grammar, apply)
  <2>13. mask \in SUBSET Vocabulary
         /\ mask = IF k + 1 <= Len(v) + 1 THEN MaskAt(b, c, v, k + 1) ELSE Vocabulary
    <3>1. acc.grammar = Walked(c, d)
      BY <2>4
    <3>2. /\ FillMask(Walked(c, d), apply) \subseteq Vocabulary
          /\ ~ apply => FillMask(Walked(c, d), apply) = Vocabulary
      <4> HIDE DEF d, apply
      <4>1. QED BY <2>7, <2>8, WalkMask
    <3>3. CASE k <= Len(v)
      <4>1. j = k /\ k + 1 <= Len(v) + 1 /\ (k + 1) - 1 = k
        BY <3>3, <2>6, <1>0
      <4>2. apply = Open(b, First(v, k))
        BY <3>3, <4>1 DEF Open
      <4>3. MaskAt(b, c, v, k + 1)
              = FillMask(Walked(c, Constrained(b, First(v, k))), Open(b, First(v, k)))
        BY <4>1 DEF MaskAt
      <4> HIDE DEF acc, apply
      <4>4. mask = MaskAt(b, c, v, k + 1)
        BY <4>1, <4>2, <4>3, <3>1
      <4>5. QED BY <4>1, <4>4, <3>1, <3>2
    <3>4. CASE ~ (k <= Len(v))
      <4>1. ~ apply /\ ~ (k + 1 <= Len(v) + 1)
        BY <3>4, <1>0
      <4> HIDE DEF acc, apply, d
      <4>2. QED BY <4>1, <3>1, <3>2
    <3>5. QED BY <3>3, <3>4
  <2> HIDE DEF acc, token, apply, next, a, dd, d, j
  <2>14. /\ DOMAIN next = Positions /\ next.start = acc.start
         /\ next.masks = Append(acc.masks, mask)
         /\ next.grammar = IF apply /\ token # Padding THEN a.grammar ELSE acc.grammar
         /\ next.advanced = IF apply /\ token # Padding THEN acc.advanced + 1 ELSE acc.advanced
         /\ next.padded <=> token = Padding \/ acc.padded
         /\ next.failed = FALSE
    <3>1. apply /\ token # Padding =>
            ~ acc.grammar.terminated /\ accept_tokens(acc.grammar, <<token>>).ok
      BY <2>11 DEF a
    <3>2. DOMAIN acc = Positions /\ acc.failed = FALSE
      BY <2>4
    <3>3. Filled(FillPosition(acc, token), acc, token, apply)
      BY <3>1, <3>2, <2>8, <2>9, FillsOne
    <3>4. QED BY <3>3, <2>3 DEF Filled, a, mask
  <2> HIDE DEF mask
  <2>15. /\ next.masks \in Seq(SUBSET Vocabulary) /\ Len(next.masks) = k + 1
         /\ \A i \in 1 .. k + 1 : next.masks[i] =
              IF i <= Len(v) + 1 THEN MaskAt(b, c, v, i) ELSE Vocabulary
    <3>1. acc.masks \in Seq(SUBSET Vocabulary) /\ Len(acc.masks) = k
      BY <2>4
    <3>2. \A i \in 1 .. k : acc.masks[i] = IF i <= Len(v) + 1 THEN MaskAt(b, c, v, i) ELSE Vocabulary
      BY <2>4
    <3>3. next.masks = Append(acc.masks, mask)
      BY <2>14
    <3>4. QED BY <3>1, <3>2, <3>3, <2>13, MaskAppended
  <2>16. next.grammar = Walked(c, dd) /\ next.advanced = Len(dd)
    BY <2>4, <2>11, <2>12, <2>14
  <2>17. next.padded <=> k + 1 > Len(v)
    <3>1. (token = Padding \/ acc.padded) <=> k + 1 > Len(v)
      BY <2>4, <2>10, <1>0
    <3>2. QED BY <3>1, <2>14
  <2>18. QED BY <2>4, <2>14, <2>15, <2>16, <2>17 DEF WalkAt, dd, next
<1>4. \A k \in Nat : k \in Good
  <2> HIDE DEF Good
  <2>1. QED BY <1>2, <1>3, NatInductionSet
<1>5. WalkAt(f[Len(ds)], b, c, v, Len(ds))
  BY <1>0, <1>4
<1>6. QED BY <1>1, <1>5

---------------------------------------------------------------------------
(* Valid drafts, and the tokens sampled under the masks.                 *)

\* The drafts that ValidDrafts keeps of s.
Valid(b, g, s) ==
  LET start == Place(b, s)
  IN  IF start >= Len(s) THEN s
      ELSE SubSeq(s, 1, start) \o validate_tokens(g, SubSeq(s, start + 1, Len(s)))

\* They are the longest beginning whose constrained part the grammar allows.
LEMMA ValidFacts ==
  ASSUME NEW b \in BOOLEAN, NEW c \in Words, NEW s \in Words
  PROVE  \E k \in 0 .. Len(s) :
           /\ Valid(b, Fresh(c), s) = SubSeq(s, 1, k) /\ SubSeq(s, 1, k) \in Words
           /\ Len(SubSeq(s, 1, k)) = k
           /\ Allowed(c, Constrained(b, SubSeq(s, 1, k)))
           /\ is_stopped(c) \/ k = Len(s) \/ ~ Allowed(c, Constrained(b, SubSeq(s, 1, k + 1)))
<1> DEFINE p == Place(b, s)
           rest == SubSeq(s, p + 1, Len(s))
           head == SubSeq(s, 1, p)
<1>1. /\ p \in 0 .. Len(s) + 1 /\ Len(s) \in Nat /\ (Open(b, s) <=> p <= Len(s))
      /\ Constrained(b, s) = rest /\ Constrained(b, s) \in Words
      /\ Fresh(c).consumed = c
  BY PlaceFacts DEF Constrained, Fresh
<1>2. Valid(b, Fresh(c), s) = IF p >= Len(s) THEN s ELSE head \o validate_tokens(Fresh(c), rest)
  BY DEF Valid
<1> HIDE DEF p, rest, head
<1>3. CASE p >= Len(s)
  <2>1. SubSeq(s, 1, Len(s)) = s /\ Len(s) \in 0 .. Len(s)
    BY <1>1, SubSeqFull DEF Words
  <2>2. Constrained(b, s) = <<>>
    <3>1. p + 1 \in Int /\ Len(s) \in Int /\ Len(s) < p + 1
      BY <1>1, <1>3
    <3>2. SubSeq(s, p + 1, Len(s)) = <<>>
      BY <3>1, SubSeqEmpty
    <3>3. QED BY <3>2, <1>1 DEF rest
  <2>3. Allowed(c, Constrained(b, s))
    BY <2>2, AllowedShort
  <2>4. Valid(b, Fresh(c), s) = s
    BY <1>2, <1>3
  <2>5. QED BY <2>1, <2>3, <2>4, Zenon
<1>4. CASE ~ (p >= Len(s))
  <2>1. p \in 0 .. Len(s) /\ p <= Len(s) /\ p < Len(s) /\ p \in Nat
    BY <1>1, <1>4
  <2>2. /\ head \in Words /\ rest \in Words /\ Len(head) = p /\ Len(rest) = Len(s) - p
        /\ s = head \o rest
    BY <2>1, SplitWord DEF head, rest
  <2>3. PICK n \in 0 .. Len(rest) :
          /\ validate_tokens(Fresh(c), rest) = SubSeq(rest, 1, n)
          /\ Allowed(c, SubSeq(rest, 1, n))
          /\ is_stopped(c) \/ n = Len(rest) \/ ~ Allowed(c, SubSeq(rest, 1, n + 1))
    <3> DEFINE g == Fresh(c)
    <3>1. g.consumed \in Words
      BY <1>1
    <3> HIDE DEF g
    <3>2. \E n \in 0 .. Len(rest) :
           /\ validate_tokens(g, rest) = SubSeq(rest, 1, n)
           /\ Allowed(g.consumed, SubSeq(rest, 1, n))
           /\ is_stopped(g.consumed) \/ n = Len(rest)
                \/ ~ Allowed(g.consumed, SubSeq(rest, 1, n + 1))
      BY <3>1, <2>2, Validated
    <3>3. g.consumed = c
      BY <1>1 DEF g
    <3>4. QED BY <3>2, <3>3 DEF g
  <2>4. ASSUME NEW i \in 0 .. Len(rest)
        PROVE  /\ p + i \in 0 .. Len(s)
               /\ SubSeq(s, 1, p + i) = head \o SubSeq(rest, 1, i)
               /\ Constrained(b, SubSeq(s, 1, p + i)) = SubSeq(rest, 1, i)
    <3>1. p + i \in 0 .. Len(s) /\ p + i \in 0 .. Len(head) + Len(rest) /\ Len(head) <= p + i
          /\ (p + i) - Len(head) = i /\ i \in Nat
      BY <2>1, <2>2, <1>1
    <3>2. SubSeq(head \o rest, 1, p + i) = head \o SubSeq(rest, 1, (p + i) - Len(head))
      BY <3>1, <2>2, PrefixOfConcat DEF Words
    <3>3. SubSeq(s, 1, p + i) = head \o SubSeq(rest, 1, i)
      BY <2>2, <3>1, <3>2
    <3> DEFINE r == SubSeq(rest, 1, i)
    <3>4. r \in Words
      BY <2>2, SplitWord
    <3> HIDE DEF r
    <3>5. Open(b, head) /\ Constrained(b, head) = <<>>
      <4>0. Open(b, s)
        BY <1>1, <2>1
      <4>1. CASE ~ b
        <5>1. p = 0
          BY <4>1, PlaceFacts DEF p
        <5>2. head = <<>>
          BY <5>1, SubSeqEmpty DEF head
        <5>3. QED BY <4>1, <5>2, <2>2, PlaceFacts DEF Open
      <4>2. CASE b
        <5>1. /\ p \in 1 .. Len(s) /\ s[p] = ThinkEnd
              /\ \A j \in 1 .. Len(s) : j < p => s[j] # ThinkEnd
          BY <4>0, <4>2, PlaceFacts DEF p
        <5>2. \A j \in 1 .. p : head[j] = s[j]
          BY <2>1, SplitWord DEF head
        <5>3. p \in 1 .. Len(head) /\ head[p] = ThinkEnd
          BY <5>1, <5>2, <2>2
        <5>4. ThinkEnd \in ToSet(head)
          BY <5>3, <2>2, Elements DEF Words
        <5>5. Open(b, head)
          BY <5>4 DEF Open
        <5> DEFINE q == Place(b, head)
        <5>6. q \in 1 .. Len(head) /\ head[q] = ThinkEnd
          BY <5>5, <4>2, <2>2, PlaceFacts
        <5>7. Constrained(b, head) = SubSeq(head, q + 1, Len(head))
          BY DEF Constrained
        <5> HIDE DEF q
        <5>8. q \in 1 .. p /\ q \in 1 .. Len(s)
          BY <5>6, <2>1, <2>2
        <5>9. ~ (q < p)
          BY <5>1, <5>2, <5>6, <5>8
        <5>10. q + 1 \in Int /\ Len(head) \in Int /\ Len(head) < q + 1
          BY <5>8, <5>9, <2>1, <2>2
        <5>11. QED BY <5>5, <5>7, <5>10, SubSeqEmpty
      <4>3. QED BY <4>1, <4>2
    <3>6. Constrained(b, head \o r) = Constrained(b, head) \o Constrained(~ Open(b, head), r)
      BY <2>2, <3>4, ConstrainedConcat
    <3>7. Constrained(~ Open(b, head), r) = r
      <4> DEFINE o == ~ Open(b, head)
      <4>1. o = FALSE
        BY <3>5
      <4>2. Constrained(FALSE, r) = r
        BY <3>4, PlaceFacts
      <4> HIDE DEF o
      <4>3. Constrained(o, r) = r
        BY <4>1, <4>2
      <4>4. QED BY <4>3 DEF o
    <3>8. <<>> \o r = r
      BY <3>4, ConcatEmptySeq DEF Words
    <3>9. Constrained(b, head \o r) = r
      BY <3>5, <3>6, <3>7, <3>8
    <3>10. QED BY <3>1, <3>3, <3>9 DEF r
  <2>5. n \in Nat /\ (n # Len(rest) => n + 1 \in 0 .. Len(rest)) /\ (n = Len(rest) => p + n = Len(s))
        /\ p + (n + 1) = (p + n) + 1
    BY <2>1, <2>2, <1>1
  <2> DEFINE k == p + n
  <2>6. /\ k \in 0 .. Len(s) /\ SubSeq(s, 1, k) = head \o SubSeq(rest, 1, n)
        /\ Constrained(b, SubSeq(s, 1, k)) = SubSeq(rest, 1, n)
    BY <2>4
  <2>7. Valid(b, Fresh(c), s) = SubSeq(s, 1, k)
    BY <2>3, <2>6, <1>2, <1>4, Zenon
  <2>8. SubSeq(s, 1, k) \in Words /\ Len(SubSeq(s, 1, k)) = k
    BY <2>6, SplitWord
  <2>9. Allowed(c, Constrained(b, SubSeq(s, 1, k)))
    BY <2>3, <2>6
  <2>10. is_stopped(c) \/ k = Len(s) \/ ~ Allowed(c, Constrained(b, SubSeq(s, 1, k + 1)))
    <3>1. CASE is_stopped(c)
      BY <3>1
    <3>2. CASE n = Len(rest)
      BY <3>2, <2>5
    <3>3. CASE n # Len(rest) /\ ~ is_stopped(c)
      <4>1. ~ Allowed(c, SubSeq(rest, 1, n + 1))
        BY <3>3, <2>3
      <4>2. Constrained(b, SubSeq(s, 1, p + (n + 1))) = SubSeq(rest, 1, n + 1)
        BY <3>3, <2>4, <2>5
      <4>3. p + (n + 1) = k + 1
        BY <2>5
      <4>4. Constrained(b, SubSeq(s, 1, k + 1)) = SubSeq(rest, 1, n + 1)
        <5> HIDE DEF k
        <5>1. QED BY <4>2, <4>3, Zenon
      <4>5. QED BY <4>1, <4>4
    <3>4. QED BY <3>1, <3>2, <3>3
  <2> HIDE DEF k
  <2>11. QED BY <2>6, <2>7, <2>8, <2>9, <2>10
<1>5. QED BY <1>3, <1>4

\* The constrained tokens are among the tokens.
LEMMA ConstrainedElements ==
  ASSUME NEW b \in BOOLEAN, NEW s \in Words
  PROVE  ToSet(Constrained(b, s)) \subseteq ToSet(s)
<1> DEFINE p == Place(b, s)
           d == Constrained(b, s)
<1>1. p \in 0 .. Len(s) + 1 /\ Len(s) \in Nat /\ d \in Words
  BY PlaceFacts
<1>2. d = SubSeq(s, p + 1, Len(s))
  BY DEF Constrained
<1> HIDE DEF p, d
<1>3. CASE p = Len(s) + 1
  <2>1. p + 1 \in Int /\ Len(s) \in Int /\ Len(s) < p + 1
    BY <1>1, <1>3
  <2>2. d = <<>>
    BY <1>2, <2>1, SubSeqEmpty
  <2>3. QED BY <2>2 DEF ToSet, d
<1>4. CASE p # Len(s) + 1
  <2>1. p \in 0 .. Len(s)
    BY <1>1, <1>4
  <2>2. Len(d) = Len(s) - p /\ \A i \in 1 .. Len(s) - p : d[i] = s[p + i]
    BY <1>2, <2>1, SplitWord
  <2>3. ASSUME NEW x, x \in ToSet(d) PROVE x \in ToSet(s)
    <3>1. PICK i \in 1 .. Len(d) : d[i] = x
      BY <2>3, <1>1, Elements DEF Words
    <3>2. p + i \in 1 .. Len(s) /\ s[p + i] = x
      BY <3>1, <2>1, <2>2, <1>1
    <3>3. QED BY <3>2, Elements DEF Words
  <2>4. QED BY <2>3 DEF d
<1>5. QED BY <1>3, <1>4

\* Nothing comes behind an EOS.
CutAtEos(tokens, m) == \A j \in 1 .. m : tokens[j] = EOS => j = m

\* A token the mask after the first a drafts admits.
Sampled(b, c, v, a, token) == token \in MaskAt(b, c, v, a + 1)

\* The tokens of a step, sampled under its masks and cut, continue the answer.
LEMMA NewTokens ==
  ASSUME NEW b \in BOOLEAN, NEW c \in Answers, EOS \notin ToSet(c),
         NEW v \in Words, Allowed(c, Constrained(b, v)),
         NEW a \in 0 .. Len(v), NEW token, Sampled(b, c, v, a, token),
         NEW raw, raw = First(v, a) \o <<token>>,
         NEW m \in 1 .. a + 1, CutAtEos(raw, m)
  PROVE  /\ token \in Vocabulary /\ raw \in Words /\ Len(raw) = a + 1
         /\ SubSeq(raw, 1, m) \in Words
         /\ Allowed(c, Constrained(b, SubSeq(raw, 1, m)))
<1> DEFINE p == First(v, a)
           d == Constrained(b, p)
<1>1. /\ p \in Words /\ d \in Words /\ Allowed(c, d) /\ c \in Words /\ Len(p) = a
      /\ a \in Nat /\ Len(v) \in Nat /\ a <= Len(v) /\ \A i \in 1 .. a : p[i] = v[i]
  <2>1. c \in Words
    BY DEF Answers
  <2>2. p \in Words /\ d \in Words /\ Allowed(c, d)
    BY <2>1, PrefixConstrained
  <2>3. Len(p) = a /\ \A i \in 1 .. a : p[i] = v[i]
    BY SplitWord DEF First
  <2>4. a \in Nat /\ Len(v) \in Nat /\ a <= Len(v)
    BY DEF Words
  <2>5. QED BY <2>1, <2>2, <2>3, <2>4
<1>2. token \in FillMask(Walked(c, d), Open(b, p))
  <2>1. (a + 1) - 1 = a
    BY <1>1
  <2>2. QED BY <2>1 DEF MaskAt, Sampled
<1> HIDE DEF p, d
<1>3. token \in Vocabulary
  <2>1. Open(b, p) \in BOOLEAN
    BY DEF Open
  <2>2. QED BY <2>1, <1>1, <1>2, WalkMask
<1>4. <<token>> \in Words /\ Len(<<token>>) = 1
  BY <1>3 DEF Words
<1>5. raw = p \o <<token>>
  BY DEF p
<1>6. raw \in Words /\ Len(raw) = a + 1
  <2>1. p \in Seq(Vocabulary) /\ <<token>> \in Seq(Vocabulary)
    BY <1>1, <1>4 DEF Words
  <2>2. p \o <<token>> \in Seq(Vocabulary) /\ Len(p \o <<token>>) = Len(p) + Len(<<token>>)
    BY <2>1, ConcatProperties
  <2>3. Len(p) + Len(<<token>>) = a + 1
    BY <1>1, <1>4
  <2>4. QED BY <2>2, <2>3, <1>5 DEF Words
<1>7. \A i \in 1 .. a + 1 : raw[i] = IF i <= a THEN p[i] ELSE <<token>>[i - a]
  BY <1>1, <1>4, <1>5, ConcatProperties DEF Words
<1>8. m \in 0 .. Len(raw) /\ m \in Nat
  BY <1>1, <1>6
<1>9. SubSeq(raw, 1, m) \in Words
  BY <1>6, <1>8, SplitWord
<1>10. Allowed(c, Constrained(b, SubSeq(raw, 1, m)))
  <2>1. CASE m <= a
    <3>1. m \in 0 .. Len(v) /\ m \in 0 .. Len(p) + Len(<<token>>) /\ m <= Len(p)
      BY <2>1, <1>1, <1>4, <1>8
    <3>2. SubSeq(raw, 1, m) = SubSeq(p, 1, m)
      BY <3>1, <1>1, <1>4, <1>5, PrefixOfConcat DEF Words
    <3>3. SubSeq(p, 1, m) = First(v, m)
      <4> DEFINE q == SubSeq(p, 1, m)
                 r == First(v, m)
      <4>1. m \in 0 .. Len(p)
        BY <3>1, <1>1, <1>8
      <4>2. q \in Words /\ Len(q) = m /\ \A i \in 1 .. m : q[i] = p[i]
        BY <4>1, <1>1, SplitWord
      <4>3. r \in Words /\ Len(r) = m /\ \A i \in 1 .. m : r[i] = v[i]
        BY <3>1, SplitWord DEF First
      <4> HIDE DEF q, r
      <4>4. \A i \in 1 .. m : i \in 1 .. a
        BY <2>1, <1>1, <1>8
      <4>5. \A i \in 1 .. m : q[i] = r[i]
        BY <4>2, <4>3, <4>4, <1>1
      <4>6. q = r
        BY <4>2, <4>3, <4>5, SeqEqual DEF Words
      <4>7. QED BY <4>6 DEF q, r
    <3>4. Allowed(c, Constrained(b, First(v, m)))
      BY <3>1, <1>1, PrefixConstrained
    <3>5. QED BY <3>2, <3>3, <3>4
  <2>2. CASE ~ (m <= a)
    <3>1. m = a + 1
      BY <2>2, <1>1
    <3>2. SubSeq(raw, 1, m) = raw
      BY <3>1, <1>6, SubSeqFull DEF Words
    <3>3. EOS \notin ToSet(p)
      <4>1. ASSUME NEW i \in 1 .. Len(p), p[i] = EOS PROVE FALSE
        <5>1. i \in 1 .. m /\ i \in 1 .. a + 1 /\ i <= a /\ i # m
          BY <3>1, <1>1
        <5>2. raw[i] = EOS
          BY <4>1, <5>1, <1>7
        <5>3. QED BY <5>1, <5>2 DEF CutAtEos
      <4>2. QED BY <4>1, <1>1, Elements DEF Words
    <3>4. First(raw, a) = p /\ raw[a + 1] = token
      <4>1. a \in 0 .. Len(p) + Len(<<token>>) /\ a <= Len(p)
        BY <1>1, <1>4
      <4>2. SubSeq(raw, 1, a) = SubSeq(p, 1, a)
        BY <4>1, <1>1, <1>4, <1>5, PrefixOfConcat DEF Words
      <4>3. SubSeq(p, 1, a) = p
        BY <1>1, SubSeqFull DEF Words
      <4>4. a + 1 \in 1 .. a + 1 /\ ~ (a + 1 <= a) /\ (a + 1) - a = 1
        BY <1>1
      <4>5. raw[a + 1] = <<token>>[(a + 1) - a]
        BY <4>4, <1>7
      <4>6. QED BY <4>2, <4>3, <4>4, <4>5 DEF First
    <3>5. First(raw, a + 1) = raw
      BY <1>6, SubSeqFull DEF Words, First
    <3>6. Constrained(b, First(raw, a + 1))
            = IF Open(b, First(raw, a)) THEN Constrained(b, First(raw, a)) \o <<raw[a + 1]>>
              ELSE Constrained(b, First(raw, a))
      <4>1. a < Len(raw) /\ a \in Nat
        BY <1>1, <1>6
      <4>2. QED BY <4>1, <1>6, OneMore
    <3>7. Constrained(b, raw) = IF Open(b, p) THEN d \o <<token>> ELSE d
      BY <3>4, <3>5, <3>6, Zenon DEF d
    <3>8. CASE ~ Open(b, p)
      BY <3>2, <3>7, <3>8, <1>1
    <3>9. CASE Open(b, p)
      <4>1. EOS \notin ToSet(d)
        BY <3>3, <1>1, ConstrainedElements DEF d
      <4>2. ToSet(c \o d) = ToSet(c) \cup ToSet(d) /\ c \o d \in Words
        BY <1>1, ConcatElements, ConcatProperties DEF Words
      <4>3. Walked(c, d).consumed = c \o d /\ ~ Walked(c, d).terminated
        BY <4>1 DEF Walked
      <4>4. FillMask(Walked(c, d), Open(b, p)) = NextTokens(c \o d)
        BY <3>9, <4>3 DEF FillMask
      <4>5. Fits(c \o d, token)
        BY <4>1, <4>2, <4>4, <1>2 DEF Fits
      <4>6. Allowed(c \o d, <<token>>)
        BY <4>2, <4>5, <1>3, AllowedShort
      <4>7. Allowed(c, d \o <<token>>)
        BY <4>6, <1>1, <1>4, AllowedConcat
      <4>8. QED BY <3>2, <3>7, <3>9, <4>7
    <3>10. QED BY <3>8, <3>9
  <2>3. QED BY <2>1, <2>2
<1>11. QED BY <1>3, <1>6, <1>9, <1>10

---------------------------------------------------------------------------
(* The invariant.                                                        *)

Grammars ==
  [consumed : Seq(Tokens \union {EOS}), terminated : BOOLEAN, rollback_lag : {0, 1}]

\* The model reasons still.
Reasoning == gated /\ ~ reasoning_ended

Kept == Valid(Reasoning, grammar, proposed)

Types ==
  /\ gated \in BOOLEAN /\ reasoning_ended \in BOOLEAN /\ failed = FALSE
  /\ grammar \in Grammars
  /\ output \in Words /\ Len(output) <= MaxTokens
  /\ proposed \in Words /\ drafts \in Seq(Vocabulary \cup {Padding})
  /\ status \in {"running", "stopped", "length"}
  /\ pc \in {"draft", "mask", "sample"}

\* The answer so far; while the request runs, the matcher stands at its end.
Committed ==
  /\ Constrained(gated, output) \in Answers
  /\ pc # "draft" => status = "running"
  /\ status = "running" =>
       /\ EOS \notin ToSet(output) /\ Len(output) < MaxTokens
       /\ grammar = Fresh(Constrained(gated, output))
       /\ Reasoning <=> ~ Open(gated, output)

\* The drafts of the step, and the masks it is sampled under.
Prepared ==
  /\ pc # "draft" => Padded(drafts, Kept)
  /\ pc = "sample" =>
       /\ masks \in Seq(SUBSET Vocabulary) /\ Len(masks) = Len(drafts) + 1
       /\ \A i \in 1 .. Len(drafts) + 1 :
            masks[i] = IF i <= Len(Kept) + 1
                       THEN MaskAt(Reasoning, Constrained(gated, output), Kept, i)
                       ELSE Vocabulary

Inv == Types /\ Committed /\ Prepared

\* Answer, with the state it reads as a parameter.
LEMMA AnswerIs ==
  ASSUME Types
  PROVE  \A s \in Words : Answer(s) = Constrained(gated, s)
<1>1. ASSUME NEW s \in Words PROVE Answer(s) = Constrained(gated, s)
  <2>1. CASE ~ gated
    BY <2>1, PlaceFacts DEF Answer, Types
  <2>2. CASE gated /\ ThinkEnd \notin ToSet(s)
    BY <2>2, PlaceFacts DEF Answer, Types, Open
  <2>3. CASE gated /\ ThinkEnd \in ToSet(s)
    BY <2>3 DEF Answer, Constrained, Place
  <2>4. QED BY <2>1, <2>2, <2>3
<1>2. QED BY <1>1

\* ValidDrafts, with the state it reads as parameters.
LEMMA ValidIs ==
  ASSUME Types
  PROVE  \A s : ValidDrafts(s) = Valid(Reasoning, grammar, s)
<1>1. \A s : get_constraint_start(reasoning_ended, s) = Place(Reasoning, s)
  BY DEF get_constraint_start, Place, Reasoning, Types
<1>2. ASSUME NEW s PROVE ValidDrafts(s) = Valid(Reasoning, grammar, s)
  <2> DEFINE p == get_constraint_start(reasoning_ended, s)
  <2>1. ValidDrafts(s) = IF p >= Len(s) THEN s
          ELSE SubSeq(s, 1, p) \o validate_tokens(grammar, SubSeq(s, p + 1, Len(s)))
    BY DEF ValidDrafts
  <2>2. p = Place(Reasoning, s)
    BY <1>1
  <2> HIDE DEF p
  <2>3. QED BY <2>1, <2>2 DEF Valid
<1>3. QED BY <1>2

\* While the request runs: what the steps work on.
LEMMA Running ==
  ASSUME Inv, status = "running"
  PROVE  /\ Reasoning \in BOOLEAN /\ Constrained(gated, output) \in Answers
         /\ Constrained(gated, output) \in Words
         /\ EOS \notin ToSet(Constrained(gated, output))
         /\ grammar = Fresh(Constrained(gated, output))
         /\ \A s \in Words :
              /\ output \o s \in Words /\ Len(output \o s) = Len(output) + Len(s)
              /\ ToSet(output \o s) = ToSet(output) \cup ToSet(s)
              /\ Constrained(gated, output \o s)
                   = Constrained(gated, output) \o Constrained(Reasoning, s)
              /\ Open(gated, output \o s) <=> Open(Reasoning, s)
<1> USE DEF Inv
<1>1. gated \in BOOLEAN /\ output \in Words
  BY DEF Types
<1>2. Reasoning \in BOOLEAN
  BY DEF Types, Reasoning
<1>3. /\ Constrained(gated, output) \in Answers /\ EOS \notin ToSet(output)
      /\ grammar = Fresh(Constrained(gated, output))
      /\ Reasoning <=> ~ Open(gated, output)
  BY DEF Committed
<1>4. EOS \notin ToSet(Constrained(gated, output))
  BY <1>1, <1>3, ConstrainedElements
<1>5. ASSUME NEW s \in Words
      PROVE  /\ output \o s \in Words /\ Len(output \o s) = Len(output) + Len(s)
             /\ ToSet(output \o s) = ToSet(output) \cup ToSet(s)
             /\ Constrained(gated, output \o s)
                  = Constrained(gated, output) \o Constrained(Reasoning, s)
             /\ Open(gated, output \o s) <=> Open(Reasoning, s)
  <2> DEFINE o == ~ Open(gated, output)
  <2>1. /\ Constrained(gated, output \o s) = Constrained(gated, output) \o Constrained(o, s)
        /\ Open(gated, output \o s) <=> Open(o, s)
    BY <1>1, ConstrainedConcat
  <2>2. o = Reasoning
    BY <1>2, <1>3 DEF Open
  <2>3. output \o s \in Words /\ Len(output \o s) = Len(output) + Len(s)
    BY <1>1, ConcatProperties DEF Words
  <2>4. ToSet(output \o s) = ToSet(output) \cup ToSet(s)
    BY <1>1, ConcatElements DEF Words
  <2> HIDE DEF o
  <2>5. QED BY <2>1, <2>2, <2>3, <2>4
<1>6. QED BY <1>2, <1>3, <1>4, <1>5 DEF Answers

\* The drafts that are kept, when they are looked at.
LEMMA KeptFacts ==
  ASSUME Inv, status = "running", NEW s \in Words
  PROVE  LET v == Valid(Reasoning, grammar, s)
         IN  /\ v \in Words /\ Len(v) \in Nat /\ Len(v) <= Len(s) /\ v = SubSeq(s, 1, Len(v))
             /\ Allowed(Constrained(gated, output), Constrained(Reasoning, v))
             /\ \/ is_stopped(Constrained(gated, output)) \/ Len(v) = Len(s)
                \/ ~ Allowed(Constrained(gated, output),
                             Constrained(Reasoning, SubSeq(s, 1, Len(v) + 1)))
<1> DEFINE c == Constrained(gated, output)
           b == Reasoning
           v == Valid(b, Fresh(c), s)
<1>1. b \in BOOLEAN /\ c \in Words /\ grammar = Fresh(c)
  BY Running
<1> HIDE DEF c, b
<1>2. PICK k \in 0 .. Len(s) :
        /\ v = SubSeq(s, 1, k) /\ SubSeq(s, 1, k) \in Words
        /\ Len(SubSeq(s, 1, k)) = k
        /\ Allowed(c, Constrained(b, SubSeq(s, 1, k)))
        /\ is_stopped(c) \/ k = Len(s) \/ ~ Allowed(c, Constrained(b, SubSeq(s, 1, k + 1)))
  BY <1>1, ValidFacts
<1> HIDE DEF v
<1>3. Len(v) = k /\ k \in Nat /\ k <= Len(s)
  BY <1>2 DEF Words
<1>4. /\ v \in Words /\ Len(v) \in Nat /\ Len(v) <= Len(s) /\ v = SubSeq(s, 1, Len(v))
      /\ Allowed(c, Constrained(b, v))
      /\ \/ is_stopped(c) \/ Len(v) = Len(s)
         \/ ~ Allowed(c, Constrained(b, SubSeq(s, 1, Len(v) + 1)))
  BY <1>2, <1>3, Zenon
<1>5. Valid(b, grammar, s) = v
  BY <1>1 DEF v
<1>6. QED BY <1>4, <1>5, Zenon DEF b, c

---------------------------------------------------------------------------
(* The steps.                                                              *)

\* A request starts with no output and a fresh matcher.
LEMMA InitInv == Init => Inv
<1> SUFFICES ASSUME Init PROVE Inv
  OBVIOUS
<1>1. gated \in BOOLEAN /\ output = <<>> /\ <<>> \in Words /\ Len(<<>>) = 0 /\ MaxTokens \in Nat \ {0}
  BY BoundsAssumption DEF Init, Words
<1>2. Constrained(gated, <<>>) = <<>>
  <2>1. CASE ~ gated
    BY <2>1, <1>1, PlaceFacts
  <2>2. CASE gated
    <3>1. ~ Open(gated, <<>>)
      BY <2>2 DEF Open, ToSet
    <3>2. QED BY <3>1, <1>1, PlaceFacts
  <2>3. QED BY <2>1, <2>2
<1>3. <<>> \in Answers
  BY <1>1, AllowedShort DEF Answers
<1>4. <<>> \in Seq(Tokens \union {EOS}) /\ <<>> \in Seq(Vocabulary \cup {Padding})
  OBVIOUS
<1>5. grammar = Fresh(<<>>) /\ grammar \in Grammars
  BY <1>4 DEF Init, Fresh, Grammars
<1>6. Types
  <2>1. /\ reasoning_ended \in BOOLEAN /\ failed = FALSE /\ proposed = <<>> /\ drafts = <<>>
        /\ status = "running" /\ pc = "draft"
    BY DEF Init
  <2>2. Len(output) <= MaxTokens /\ output \in Words
    BY <1>1
  <2>3. proposed \in Words /\ drafts \in Seq(Vocabulary \cup {Padding})
    BY <2>1, <1>1, <1>4
  <2>4. QED BY <2>1, <2>2, <2>3, <1>1, <1>5 DEF Types
<1>7. Committed
  <2>1. EOS \notin ToSet(<<>>)
    BY DEF ToSet
  <2>2. Reasoning <=> ~ Open(gated, <<>>)
    BY DEF Init, Reasoning, Open, ToSet
  <2>3. QED BY <2>1, <2>2, <1>1, <1>2, <1>3, <1>5 DEF Init, Committed
<1>8. Prepared
  BY DEF Init, Prepared
<1>9. QED BY <1>6, <1>7, <1>8 DEF Inv

\* The drafts of a step are the longest valid part of those proposed.
LEMMA ProposeInv ==
  ASSUME Inv, Propose
  PROVE  Inv'
<1>1. pc = "draft" /\ status = "running" /\ pc' = "mask"
      /\ UNCHANGED <<gated, reasoning_ended, grammar, output, masks, failed, status>>
  BY DEF Propose
<1>2. PICK s \in UNION {[1..n -> Vocabulary] : n \in 0..NumSpec} :
        LET valid == ValidDrafts(s)
        IN  /\ proposed' = s
            /\ \/ drafts' = valid
               \/ drafts' = [i \in DOMAIN s |-> IF i <= Len(valid) THEN valid[i] ELSE Padding]
  BY DEF Propose
<1>3. s \in Words /\ DOMAIN s = 1 .. Len(s) /\ Len(s) \in Nat
  <2>1. PICK n \in 0 .. NumSpec : s \in [1 .. n -> Vocabulary]
    BY <1>2
  <2>2. n \in Nat
    BY <2>1, BoundsAssumption
  <2>3. s \in Words
    BY <2>1, <2>2, SeqDef DEF Words
  <2>4. QED BY <2>3 DEF Words
<1> DEFINE v == Valid(Reasoning, grammar, s)
<1>4. ValidDrafts(s) = v
  BY ValidIs DEF Inv
<1>5. v \in Words /\ Len(v) \in Nat /\ Len(v) <= Len(s)
  BY <1>1, <1>3, KeptFacts
<1>6. Kept' = v
  BY <1>1, <1>2 DEF Kept, Reasoning
<1> HIDE DEF v
<1>7. \/ drafts' = v
      \/ drafts' = [i \in 1 .. Len(s) |-> IF i <= Len(v) THEN v[i] ELSE Padding]
  BY <1>2, <1>3, <1>4
<1>8. \A i \in 1 .. Len(v) : v[i] \in Vocabulary
  BY <1>5 DEF Words
<1>9. Padded(drafts', v)
  <2>1. CASE drafts' = v
    <3>1. drafts' \in Seq(Vocabulary \cup {Padding})
      BY <2>1, <1>5, SeqMonotonic DEF Words
    <3>2. QED BY <3>1, <2>1, <1>5 DEF Padded
  <2>2. CASE drafts' = [i \in 1 .. Len(s) |-> IF i <= Len(v) THEN v[i] ELSE Padding]
    <3>1. \A i \in 1 .. Len(s) :
            (IF i <= Len(v) THEN v[i] ELSE Padding) \in Vocabulary \cup {Padding}
      BY <1>3, <1>5, <1>8
    <3>2. drafts' \in [1 .. Len(s) -> Vocabulary \cup {Padding}]
      BY <2>2, <3>1
    <3>3. drafts' \in Seq(Vocabulary \cup {Padding})
      BY <3>2, <1>3, SeqDef
    <3>4. Len(drafts') = Len(s)
      BY <3>2, <3>3, <1>3
    <3>5. \A i \in 1 .. Len(drafts') : drafts'[i] = IF i <= Len(v) THEN v[i] ELSE Padding
      BY <2>2, <3>4
    <3>6. QED BY <3>3, <3>4, <3>5, <1>5 DEF Padded
  <2>3. QED BY <2>1, <2>2, <1>7
<1>10. Types'
  <2>1. drafts' \in Seq(Vocabulary \cup {Padding})
    BY <1>9 DEF Padded
  <2>2. proposed' = s
    BY <1>2
  <2>3. QED BY <2>1, <2>2, <1>1, <1>3 DEF Inv, Types
<1>11. Committed'
  BY <1>1 DEF Inv, Committed, Reasoning
<1>12. Prepared'
  <2>1. Padded(drafts', Kept')
    BY <1>6, <1>9
  <2>2. QED BY <2>1, <1>1 DEF Prepared
<1>13. QED BY <1>10, <1>11, <1>12 DEF Inv

\* A preempted step leaves output and matcher alone.
LEMMA DiscardInv ==
  ASSUME Inv, Discard
  PROVE  Inv'
<1>1. /\ pc' = "draft" /\ proposed' = <<>> /\ drafts' = <<>>
      /\ UNCHANGED <<gated, reasoning_ended, grammar, output, failed, status>>
  BY DEF Discard
<1>2. <<>> \in Words /\ <<>> \in Seq(Vocabulary \cup {Padding})
  BY DEF Words
<1>3. Types'
  BY <1>1, <1>2 DEF Inv, Types
<1>4. Committed'
  BY <1>1 DEF Inv, Committed, Reasoning
<1>5. Prepared'
  BY <1>1 DEF Prepared
<1>6. QED BY <1>3, <1>4, <1>5 DEF Inv

\* grammar_bitmask masks every position and rolls the matcher back.
LEMMA FillBitmaskInv ==
  ASSUME Inv, FillBitmask
  PROVE  Inv'
<1> DEFINE c == Constrained(gated, output)
           b == Reasoning
           v == Kept
           n == Len(drafts)
           base == [start |-> get_constraint_start(reasoning_ended,
                                                   strip_speculative_padding(drafts)),
                    grammar |-> grammar, masks |-> <<>>, advanced |-> 0,
                    padded |-> FALSE, failed |-> FALSE]
           walk == FillPositions
           mask == FillMask(walk.grammar, BonusApplies(walk))
<1>1. /\ pc = "mask" /\ pc' = "sample" /\ masks' = Append(walk.masks, mask)
      /\ grammar' = IF walk.advanced > 0 THEN rollback(walk.grammar, walk.advanced)
                    ELSE walk.grammar
      /\ failed' = walk.failed
      /\ UNCHANGED <<gated, reasoning_ended, output, proposed, drafts, status>>
  BY DEF FillBitmask
<1>2. status = "running" /\ Padded(drafts, v)
  BY <1>1 DEF Inv, Committed, Prepared
<1>3. b \in BOOLEAN /\ c \in Answers /\ c \in Words /\ grammar = Fresh(c)
  BY <1>2, Running
<1>4. v \in Words /\ Len(v) \in Nat /\ Allowed(c, Constrained(b, v))
  <2>1. proposed \in Words
    BY DEF Inv, Types
  <2>2. QED BY <2>1, <1>2, KeptFacts DEF Kept
<1>5. strip_speculative_padding(drafts) = v
  BY <1>2, Stripped
<1>6. get_constraint_start(reasoning_ended, v) = Place(b, v)
  BY DEF get_constraint_start, Place, Reasoning
<1>7. walk = FoldLeft(FillPosition, base, drafts)
  BY DEF FillPositions
<1>8. n \in Nat /\ Len(v) <= n
  BY <1>2 DEF Padded
<1> HIDE DEF c, b, v, walk
<1>9. WalkAt(base, b, c, v, 0)
  <2>1. base.start = Place(b, v)
    BY <1>5, <1>6
  <2>2. Least(0, Len(v)) = 0 /\ First(v, 0) = <<>>
    BY <1>4, SubSeqEmpty DEF Least, First
  <2>3. Constrained(b, First(v, 0)) = <<>>
    <3>1. 0 \in 0 .. Len(v)
      BY <1>4
    <3>2. Constrained(b, <<>>) = <<>>
      <4>0. <<>> \in Words
        BY DEF Words
      <4>1. CASE ~ b
        BY <4>0, <4>1, <1>3, PlaceFacts
      <4>2. CASE b
        <5>1. ~ Open(b, <<>>) /\ <<>> \in Words
          BY <4>2 DEF Open, ToSet, Words
        <5>2. QED BY <5>1, <1>3, PlaceFacts
      <4>3. QED BY <4>1, <4>2
    <3>3. QED BY <3>2, <2>2
  <2>4. Walked(c, <<>>) = Fresh(c)
    <3>1. <<>> \in Words /\ Allowed(c, <<>>)
      BY <1>3, AllowedShort DEF Words
    <3>2. QED BY <3>1, <1>3, WalkBack
  <2>5. base.grammar = Walked(c, <<>>)
    BY <2>4, <1>3
  <2>6. DOMAIN base = Positions /\ base.masks = <<>> /\ base.advanced = 0
        /\ base.padded = FALSE /\ base.failed = FALSE
    BY DEF Positions
  <2>7. <<>> \in Seq(SUBSET Vocabulary) /\ Len(<<>>) = 0 /\ ~ (0 > Len(v))
    BY <1>4
  <2> HIDE DEF base
  <2>8. Len(base.masks) = 0 /\ base.masks \in Seq(SUBSET Vocabulary)
        /\ (base.padded <=> 0 > Len(v))
    BY <2>6, <2>7
  <2>9. base.grammar = Walked(c, Constrained(b, First(v, Least(0, Len(v)))))
        /\ base.advanced = Len(Constrained(b, First(v, Least(0, Len(v)))))
    BY <2>2, <2>3, <2>5, <2>6, <2>7
  <2>10. QED BY <2>1, <2>6, <2>8, <2>9 DEF WalkAt
<1> HIDE DEF base
<1>10. WalkAt(walk, b, c, v, n)
  BY <1>2, <1>3, <1>4, <1>7, <1>9, WalkThrough
<1>11. Least(n, Len(v)) = Len(v) /\ First(v, Len(v)) = v
  BY <1>4, <1>8, SubSeqFull DEF Least, First, Words
<1> DEFINE d == Constrained(b, v)
<1>12. /\ walk.start = Place(b, v)
       /\ walk.grammar = Walked(c, d) /\ walk.advanced = Len(d)
       /\ walk.masks \in Seq(SUBSET Vocabulary) /\ Len(walk.masks) = n
       /\ \A i \in 1 .. n : walk.masks[i] = IF i <= Len(v) + 1 THEN MaskAt(b, c, v, i)
                                            ELSE Vocabulary
       /\ (walk.padded <=> n > Len(v)) /\ walk.failed = FALSE
  BY <1>10, <1>11 DEF WalkAt
<1>13. d \in Words /\ Len(d) \in Nat
  BY <1>3, <1>4, PlaceFacts DEF Words
<1> HIDE DEF d
<1>14. grammar' = grammar
  <2>1. rollback(Walked(c, d), Len(d)) = Fresh(c) /\ (d = <<>> => Walked(c, d) = Fresh(c))
    BY <1>3, <1>4, <1>13, WalkBack DEF d
  <2>2. ~ (Len(d) > 0) => d = <<>>
    BY <1>13, EmptySeq DEF Words
  <2>3. QED BY <2>1, <2>2, <1>1, <1>3, <1>12
<1> DEFINE apply == BonusApplies(walk)
<1>15. apply <=> n = Len(v) /\ Open(b, v)
  <2>1. Open(b, v) <=> Place(b, v) <= Len(v)
    BY <1>3, <1>4, PlaceFacts
  <2>2. n = Len(v) <=> ~ (n > Len(v))
    BY <1>4, <1>8
  <2>3. apply <=> ~ walk.failed /\ ~ walk.padded /\ walk.start <= n
    BY DEF BonusApplies
  <2>4. QED BY <2>1, <2>2, <2>3, <1>12
<1>16. apply \in BOOLEAN
  BY DEF BonusApplies
<1>17. mask \in SUBSET Vocabulary
       /\ mask = IF n + 1 <= Len(v) + 1 THEN MaskAt(b, c, v, n + 1) ELSE Vocabulary
  <2> HIDE DEF apply
  <2>1. /\ FillMask(Walked(c, d), apply) \subseteq Vocabulary
        /\ ~ apply => FillMask(Walked(c, d), apply) = Vocabulary
    BY <1>3, <1>4, <1>13, <1>16, WalkMask DEF d
  <2>2. mask = FillMask(Walked(c, d), apply)
    BY <1>12 DEF apply
  <2>3. CASE n = Len(v)
    <3>1. n + 1 <= Len(v) + 1 /\ (n + 1) - 1 = Len(v)
      BY <2>3, <1>4
    <3>2. MaskAt(b, c, v, n + 1)
            = FillMask(Walked(c, Constrained(b, First(v, Len(v)))), Open(b, First(v, Len(v))))
      BY <3>1 DEF MaskAt
    <3>3. apply = Open(b, v)
      BY <2>3, <1>15, <1>16 DEF Open
    <3>4. MaskAt(b, c, v, n + 1) = FillMask(Walked(c, d), apply)
      BY <3>2, <3>3, <1>11 DEF d
    <3>5. QED BY <3>1, <3>4, <2>1, <2>2
  <2>4. CASE n # Len(v)
    <3>1. ~ (n + 1 <= Len(v) + 1) /\ ~ apply
      BY <2>4, <1>4, <1>8, <1>15
    <3>2. QED BY <3>1, <2>1, <2>2
  <2>5. QED BY <2>3, <2>4
<1> HIDE DEF mask, apply
<1>18. /\ masks' \in Seq(SUBSET Vocabulary) /\ Len(masks') = n + 1
       /\ \A i \in 1 .. n + 1 : masks'[i] =
            IF i <= Len(v) + 1 THEN MaskAt(b, c, v, i) ELSE Vocabulary
  <2> DEFINE m == walk.masks
  <2>1. /\ m \in Seq(SUBSET Vocabulary) /\ Len(m) = n
        /\ \A i \in 1 .. n : m[i] = IF i <= Len(v) + 1 THEN MaskAt(b, c, v, i) ELSE Vocabulary
    BY <1>12
  <2>2. masks' = Append(m, mask)
    BY <1>1
  <2> HIDE DEF m, n
  <2>3. /\ Append(m, mask) \in Seq(SUBSET Vocabulary) /\ Len(Append(m, mask)) = n + 1
        /\ \A i \in 1 .. n + 1 : Append(m, mask)[i] =
             IF i <= Len(v) + 1 THEN MaskAt(b, c, v, i) ELSE Vocabulary
    BY <2>1, <1>8, <1>17, MaskAppended
  <2>4. QED BY <2>2, <2>3
<1>19. Types'
  BY <1>1, <1>12, <1>14 DEF Inv, Types
<1>20. Committed'
  BY <1>1, <1>2, <1>14 DEF Inv, Committed, Reasoning
<1>21. Reasoning' = b /\ Kept' = v /\ Constrained(gated, output)' = c /\ drafts' = drafts
  BY <1>1, <1>14 DEF Reasoning, Kept, b, v, c
<1>22. Prepared'
  <2>1. Padded(drafts', Kept')
    BY <1>2, <1>21
  <2>2. \A i \in 1 .. Len(drafts') + 1 :
            masks'[i] = IF i <= Len(Kept') + 1
                       THEN MaskAt(Reasoning', Constrained(gated, output)', Kept', i)
                       ELSE Vocabulary
    BY <1>18, <1>21
  <2>3. masks' \in Seq(SUBSET Vocabulary) /\ Len(masks') = Len(drafts') + 1
    BY <1>18, <1>21
  <2>4. QED BY <2>1, <2>2, <2>3 DEF Prepared
<1>23. QED BY <1>19, <1>20, <1>22 DEF Inv

\* The lesser of two numbers.
LEMMA MinOfTwo ==
  ASSUME NEW x \in Nat, NEW y \in Nat
  PROVE  Min({x, y}) \in {x, y} /\ Min({x, y}) <= x /\ Min({x, y}) <= y
<1>1. {x, y} \in SUBSET Nat /\ {x, y} # {}
  OBVIOUS
<1>2. PICK m \in {x, y} : \A k \in {x, y} : m <= k
  BY <1>1, LeastNat
<1>3. Min({x, y}) \in {x, y} /\ \A k \in {x, y} : Min({x, y}) <= k
  BY <1>2 DEF Min
<1>4. QED BY <1>3

\* The tokens of a step are cut behind the first EOS and at max_tokens.
LEMMA CutFacts ==
  ASSUME Types, Len(output) < MaxTokens, NEW raw \in Words, Len(raw) > 0
  PROVE  \E m \in 1 .. Len(raw) :
           /\ Cut(raw) = SubSeq(raw, 1, m) /\ m <= MaxTokens - Len(output)
           /\ CutAtEos(raw, m)
<1> DEFINE eos == SelectInSeq(raw, LAMBDA t : t = EOS)
           room == MaxTokens - Len(output)
           most == Min({Len(raw), room})
           m == IF eos = 0 THEN most ELSE Min({eos, most})
<1>1. Len(raw) \in Nat \ {0} /\ Len(output) \in Nat /\ MaxTokens \in Nat
  BY BoundsAssumption DEF Words, Types
<1>2. room \in Nat \ {0}
  BY <1>1
<1>3. /\ EOS \notin ToSet(raw) => eos = 0
      /\ EOS \in ToSet(raw) => /\ eos \in 1 .. Len(raw) /\ raw[eos] = EOS
                               /\ \A j \in 1 .. Len(raw) : j < eos => raw[j] # EOS
  BY FirstPlace DEF Words
<1>4. EOS \in ToSet(raw) <=> \E i \in 1 .. Len(raw) : raw[i] = EOS
  BY Elements DEF Words
<1>5. Cut(raw) = SubSeq(raw, 1, m)
  BY DEF Cut
<1> HIDE DEF eos, room
<1>6. most \in Nat \ {0} /\ most <= Len(raw) /\ most <= room
  BY <1>1, <1>2, MinOfTwo
<1> HIDE DEF most
<1>7. CASE eos = 0
  <2>1. m = most
    BY <1>7
  <2>2. \A i \in 1 .. Len(raw) : raw[i] # EOS
    BY <1>3, <1>4, <1>7
  <2>3. m \in 1 .. Len(raw) /\ m <= room
    BY <2>1, <1>1, <1>6
  <2>4. \A j \in 1 .. m : raw[j] # EOS
    BY <2>2, <2>3, <1>1
  <2> HIDE DEF m
  <2>5. QED BY <2>3, <2>4, <1>5 DEF room, CutAtEos
<1>8. CASE eos # 0
  <2>1. m = Min({eos, most})
    BY <1>8
  <2>2. /\ eos \in 1 .. Len(raw) /\ raw[eos] = EOS
        /\ \A j \in 1 .. Len(raw) : j < eos => raw[j] # EOS
    BY <1>3, <1>8
  <2> HIDE DEF m
  <2>3. m \in {eos, most} /\ m <= eos /\ m <= most
    BY <2>1, <2>2, <1>1, <1>6, MinOfTwo
  <2>4. m \in 1 .. Len(raw) /\ m <= room
    BY <2>2, <2>3, <1>1, <1>2, <1>6
  <2>5. ASSUME NEW j \in 1 .. m, raw[j] = EOS PROVE j = m
    <3>1. j \in 1 .. Len(raw) /\ ~ (j < eos)
      BY <2>2, <2>4, <2>5, <1>1
    <3>2. QED BY <3>1, <2>2, <2>3, <2>4, <1>1
  <2>6. QED BY <2>4, <2>5, <1>5 DEF room, CutAtEos
<1>9. QED BY <1>7, <1>8

\* update_from_output commits tokens that continue the answer.
LEMMA UpdateInv ==
  ASSUME Inv, UpdateFromOutput
  PROVE  Inv'
<1> DEFINE c == Constrained(gated, output)
           b == Reasoning
           v == Kept
<1>1. pc = "sample" /\ pc' = "draft" /\ proposed' = <<>> /\ drafts' = <<>>
      /\ UNCHANGED <<gated, failed>>
  BY DEF UpdateFromOutput
<1>2. status = "running" /\ Padded(drafts, v)
  BY <1>1 DEF Inv, Committed, Prepared
<1>3. /\ b \in BOOLEAN /\ c \in Answers /\ c \in Words /\ EOS \notin ToSet(c)
      /\ grammar = Fresh(c)
  BY <1>2, Running
<1>4. v \in Words /\ Len(v) \in Nat /\ Allowed(c, Constrained(b, v))
  <2>1. proposed \in Words
    BY DEF Inv, Types
  <2>2. QED BY <2>1, <1>2, KeptFacts DEF Kept
<1>5. strip_speculative_padding(drafts) = v
  BY <1>2, Stripped
<1>6. PICK a \in 0 .. Len(v) : 
       /\ \A i \in 1..a : drafts[i] \in masks[i]
       /\ \E token \in masks[a + 1] :
            LET new  == Cut(Append(SubSeq(drafts, 1, a), token))
                done == Commit(new)
            IN  /\ output' = output \o new
                /\ grammar' = done.grammar
                /\ reasoning_ended' = done.ended
                /\ status' = CASE ~done.ok -> "error"
                               [] done.ok /\ Last(new) = EOS -> "stopped"
                               [] done.ok /\ Last(new) # EOS /\ Len(output') = MaxTokens
                                    -> "length"
                               [] OTHER -> "running"
  BY <1>5 DEF UpdateFromOutput
<1>7. PICK token \in masks[a + 1] :
            LET new  == Cut(Append(SubSeq(drafts, 1, a), token))
                done == Commit(new)
            IN  /\ output' = output \o new
                /\ grammar' = done.grammar
                /\ reasoning_ended' = done.ended
                /\ status' = CASE ~done.ok -> "error"
                               [] done.ok /\ Last(new) = EOS -> "stopped"
                               [] done.ok /\ Last(new) # EOS /\ Len(output') = MaxTokens
                                    -> "length"
                               [] OTHER -> "running"
  BY <1>6
<1> DEFINE raw == Append(SubSeq(drafts, 1, a), token)
           new == Cut(raw)
           done == Commit(new)
<1>8. /\ output' = output \o new /\ grammar' = done.grammar /\ reasoning_ended' = done.ended
      /\ status' = CASE ~done.ok -> "error"
                     [] done.ok /\ Last(new) = EOS -> "stopped"
                     [] done.ok /\ Last(new) # EOS /\ Len(output') = MaxTokens -> "length"
                     [] OTHER -> "running"
  BY <1>7, Zenon
<1>9. token \in MaskAt(b, c, v, a + 1)
  <2>1. a + 1 \in 1 .. Len(drafts) + 1 /\ a + 1 <= Len(v) + 1
    BY <1>2, <1>4 DEF Padded
  <2>2. masks[a + 1] = MaskAt(b, c, v, a + 1)
    BY <2>1, <1>1 DEF Inv, Prepared
  <2>3. QED BY <2>2
<1> HIDE DEF c, b, v
<1>10. token \in Vocabulary
  <2>1. a + 1 - 1 = a /\ a \in 0 .. Len(v)
    BY <1>4
  <2>2. /\ First(v, a) \in Words /\ Constrained(b, First(v, a)) \in Words
        /\ Allowed(c, Constrained(b, First(v, a)))
    BY <1>3, <1>4, PrefixConstrained
  <2>3. Open(b, First(v, a)) \in BOOLEAN
    BY DEF Open
  <2>4. QED BY <2>1, <2>2, <2>3, <1>3, <1>9, WalkMask DEF MaskAt
<1>11. SubSeq(drafts, 1, a) = First(v, a) /\ First(v, a) \in Words /\ Len(First(v, a)) = a
  <2> DEFINE p == SubSeq(drafts, 1, a)
             q == First(v, a)
             W == Vocabulary \cup {Padding}
  <2>1. drafts \in Seq(W) /\ a \in 0 .. Len(drafts) /\ v \in Seq(W) /\ v \in Seq(Vocabulary)
    BY <1>2, <1>4, SeqMonotonic DEF Padded, Words
  <2>2. p \in Seq(W) /\ Len(p) = a /\ \A i \in 1 .. a : p[i] = drafts[i]
    BY <2>1, CutInTwo
  <2>3. q \in Seq(Vocabulary) /\ Len(q) = a /\ \A i \in 1 .. a : q[i] = v[i]
    BY <2>1, CutInTwo DEF First
  <2>4. q \in Seq(W)
    BY <2>3, SeqMonotonic
  <2>5. \A i \in 1 .. a : i \in 1 .. Len(drafts) /\ i <= Len(v)
    BY <2>1, <1>4
  <2>6. \A i \in 1 .. a : drafts[i] = v[i]
    BY <2>5, <1>2 DEF Padded
  <2> HIDE DEF p, q
  <2>7. p = q
    BY <2>2, <2>3, <2>4, <2>6, SeqEqual
  <2>8. QED BY <2>3, <2>7 DEF p, q, Words
<1>12. raw = First(v, a) \o <<token>> /\ raw \in Words /\ Len(raw) = a + 1
  <2> DEFINE q == First(v, a)
  <2>1. q \in Seq(Vocabulary) /\ Len(q) = a
    BY <1>11 DEF Words
  <2>2. raw = Append(q, token)
    BY <1>11
  <2> HIDE DEF q, raw
  <2>3. Append(q, token) = q \o <<token>> /\ Append(q, token) \in Seq(Vocabulary)
        /\ Len(Append(q, token)) = Len(q) + 1
    BY <2>1, <1>10, AppendIsConcat, AppendProperties
  <2>4. QED BY <2>1, <2>2, <2>3 DEF q, Words
<1> HIDE DEF raw
<1>13. Len(output) < MaxTokens /\ Types /\ EOS \notin ToSet(output)
  BY <1>2 DEF Inv, Committed
<1>14. PICK m \in 1 .. Len(raw) :
           /\ Cut(raw) = SubSeq(raw, 1, m) /\ m <= MaxTokens - Len(output)
           /\ CutAtEos(raw, m)
  <2>1. Len(raw) > 0
    BY <1>12
  <2>2. QED BY <2>1, <1>12, <1>13, CutFacts
<1> HIDE DEF new
<1>15. /\ new \in Words /\ Allowed(c, Constrained(b, new)) /\ new = SubSeq(raw, 1, m)
       /\ Len(new) = m /\ m \in Nat \ {0} /\ \A j \in 1 .. m : new[j] = raw[j]
  <2>1. m \in 1 .. a + 1 /\ m \in 0 .. Len(raw)
    BY <1>12
  <2>2. SubSeq(raw, 1, m) \in Words /\ Allowed(c, Constrained(b, SubSeq(raw, 1, m)))
    <3>1. CutAtEos(raw, m)
      BY <1>14
    <3>2. raw = First(v, a) \o <<token>> /\ m \in 1 .. a + 1 /\ a \in 0 .. Len(v)
      BY <2>1, <1>12
    <3>3. EOS \notin ToSet(c) /\ Allowed(c, Constrained(b, v))
      BY <1>3, <1>4
    <3>4. b \in BOOLEAN /\ c \in Answers /\ v \in Words /\ Sampled(b, c, v, a, token)
      BY <1>3, <1>4, <1>9 DEF Sampled
    <3> HIDE DEF Answers
    <3>5. QED BY <3>1, <3>2, <3>3, <3>4, NewTokens
  <2>3. Len(SubSeq(raw, 1, m)) = m /\ \A j \in 1 .. m : SubSeq(raw, 1, m)[j] = raw[j]
    BY <2>1, <1>12, SplitWord
  <2>4. new = SubSeq(raw, 1, m)
    BY <1>14 DEF new
  <2>5. QED BY <2>1, <2>2, <2>3, <2>4
<1>16. Last(new) # EOS => EOS \notin ToSet(new)
  <2>1. ASSUME EOS \in ToSet(new) PROVE Last(new) = EOS
    <3>1. PICK j \in 1 .. Len(new) : new[j] = EOS
      BY <2>1, <1>15, WordElements
    <3>2. j = m
      BY <3>1, <1>14, <1>15 DEF CutAtEos
    <3>3. QED BY <3>1, <3>2, <1>15 DEF Last
  <2>2. QED BY <2>1
<1> DEFINE x == Constrained(b, new)
<1>17. x \in Words /\ (EOS \notin ToSet(new) => EOS \notin ToSet(x))
  BY <1>3, <1>15, PlaceFacts, ConstrainedElements
<1>18. /\ output \o new \in Words /\ Len(output \o new) = Len(output) + m
       /\ ToSet(output \o new) = ToSet(output) \cup ToSet(new)
       /\ Constrained(gated, output \o new) = c \o x
       /\ Open(gated, output \o new) <=> Open(b, new)
  BY <1>2, <1>15, Running DEF b, c
<1>19. c \o x \in Answers /\ c \o x \in Words
  BY <1>3, <1>15, <1>17, AnswerExtends
<1>27. /\ Place(b, new) \in 0 .. Len(new) + 1 /\ Len(new) \in Nat
       /\ Open(b, new) <=> Place(b, new) <= Len(new)
       /\ ~ Open(b, new) => Constrained(b, new) = <<>>
  <2>1. new \in Words /\ b \in BOOLEAN
    BY <1>3, <1>15
  <2>2. QED BY <2>1, PlaceFacts
<1>20. /\ done.ok /\ done.grammar \in Grammars /\ done.ended \in BOOLEAN
       /\ EOS \notin ToSet(new) => done.grammar = Fresh(c \o x)
       /\ (gated /\ ~ done.ended) <=> ~ Open(b, new)
  <2> DEFINE start == get_constraint_start(reasoning_ended, new)
             taken == accept_tokens(grammar, SubSeq(new, start + 1, Len(new)))
  <2>1. done = IF start > Len(new)
               THEN [ok |-> TRUE, grammar |-> grammar, ended |-> reasoning_ended]
               ELSE [ok |-> taken.ok, grammar |-> taken.grammar, ended |-> TRUE]
    BY DEF Commit
  <2>2. start = Place(b, new)
    BY DEF get_constraint_start, Place, Reasoning, b
  <2>3. SubSeq(new, start + 1, Len(new)) = x
    BY <2>2 DEF Constrained
  <2>4. /\ start \in Nat /\ Len(new) \in Nat /\ (Open(b, new) <=> start <= Len(new))
        /\ (~ Open(b, new) => x = <<>>)
    BY <2>2, <1>27
  <2>5. taken = accept_tokens(Fresh(c), x)
    BY <2>3, <1>3
  <2> HIDE DEF start, taken, x, done
  <2>6. CASE start > Len(new)
    <3>1. done = [ok |-> TRUE, grammar |-> grammar, ended |-> reasoning_ended]
      BY <2>1, <2>6
    <3>2. ~ Open(b, new) /\ x = <<>>
      BY <2>4, <2>6
    <3>3. c \o x = c
      BY <3>2, <1>3, ConcatEmptySeq DEF Words
    <3>4. b
      BY <3>2 DEF Open
    <3>5. grammar \in Grammars /\ reasoning_ended \in BOOLEAN
      BY <1>13 DEF Types
    <3>6. gated /\ ~ reasoning_ended
      BY <3>4 DEF b, Reasoning
    <3>7. QED BY <3>1, <3>2, <3>3, <3>5, <3>6, <1>3
  <2>7. CASE ~ (start > Len(new))
    <3>1. done = [ok |-> taken.ok, grammar |-> taken.grammar, ended |-> TRUE]
      BY <2>1, <2>7
    <3>2. Open(b, new)
      BY <2>4, <2>7
    <3>3. Allowed(c, x)
      BY <1>15 DEF x
    <3>4. /\ taken.ok /\ (EOS \notin ToSet(x) => taken.grammar = Fresh(c \o x))
          /\ taken.grammar \in Grammars
      BY <2>5, <3>3, <1>3, <1>17, Accepts DEF Grammars, x
    <3>5. EOS \notin ToSet(new) => EOS \notin ToSet(x)
      BY <1>17 DEF x
    <3>6. QED BY <3>1, <3>2, <3>4, <3>5
  <2>8. QED BY <2>6, <2>7 DEF x
<1> HIDE DEF x, done
<1>21. /\ status' \in {"running", "stopped", "length"}
       /\ status' = "running" => Last(new) # EOS /\ Len(output') # MaxTokens
  <2>1. CASE Last(new) = EOS
    BY <2>1, <1>8, <1>20
  <2>2. CASE Last(new) # EOS /\ Len(output') = MaxTokens
    BY <2>2, <1>8, <1>20
  <2>3. CASE Last(new) # EOS /\ Len(output') # MaxTokens
    BY <2>3, <1>8, <1>20
  <2>4. QED BY <2>1, <2>2, <2>3
<1>22. Len(output') <= MaxTokens /\ Len(output') \in Nat /\ MaxTokens \in Nat
  <2>1. Len(output) \in Nat /\ MaxTokens \in Nat
    BY <1>13, BoundsAssumption DEF Types, Words
  <2>2. QED BY <2>1, <1>8, <1>14, <1>15, <1>18
<1>23. Types'
  <2>1. <<>> \in Words /\ <<>> \in Seq(Vocabulary \cup {Padding})
    BY DEF Words
  <2>2. output' \in Words /\ grammar' \in Grammars /\ reasoning_ended' \in BOOLEAN
    BY <1>8, <1>18, <1>20
  <2>3. gated' \in BOOLEAN /\ failed' = FALSE
    BY <1>1, <1>13 DEF Types
  <2>4. QED BY <2>1, <2>2, <2>3, <1>1, <1>21, <1>22 DEF Types
<1>24. Committed'
  <2>1. Constrained(gated', output') = c \o x /\ (Open(gated', output') <=> Open(b, new))
    BY <1>1, <1>8, <1>18
  <2>2. Reasoning' <=> ~ Open(b, new)
    BY <1>1, <1>8, <1>20 DEF Reasoning
  <2>3. ASSUME status' = "running"
        PROVE  /\ EOS \notin ToSet(output') /\ Len(output') < MaxTokens
               /\ grammar' = Fresh(c \o x)
    <3>1. EOS \notin ToSet(new) /\ Len(output') # MaxTokens
      BY <2>3, <1>16, <1>21
    <3>2. EOS \notin ToSet(output')
      BY <3>1, <1>8, <1>13, <1>18
    <3>3. QED BY <3>1, <3>2, <1>8, <1>20, <1>22
  <2>4. QED BY <2>1, <2>2, <2>3, <1>1, <1>19 DEF Committed
<1>25. Prepared'
  BY <1>1 DEF Prepared
<1>26. QED BY <1>23, <1>24, <1>25 DEF Inv

(* The invariant holds in every state: whatever drafts a step has, when    *)
(* the next step starts the matcher stands at the end of the answer.       *)
THEOREM Invariant == Spec => []Inv
<1>1. Inv /\ [Next]_vars => Inv'
  <2> SUFFICES ASSUME Inv, [Next]_vars PROVE Inv'
    OBVIOUS
  <2>1. CASE Propose
    BY <2>1, ProposeInv
  <2>2. CASE FillBitmask
    BY <2>2, FillBitmaskInv
  <2>3. CASE UpdateFromOutput
    BY <2>3, UpdateInv
  <2>4. CASE Discard
    BY <2>4, DiscardInv
  <2>5. CASE UNCHANGED vars
    BY <2>5 DEF vars, Inv, Types, Committed, Prepared, Kept, Reasoning
  <2>6. QED BY <2>1, <2>2, <2>3, <2>4, <2>5 DEF Next
<1>2. QED BY <1>1, InitInv, PTL DEF Spec

(* A running step has one mask per draft and one more, and some token to   *)
(* sample under each (grammar_bitmask).                                    *)
THEOREM TypeCorrect == Spec => []TypeOK
<1>1. Inv => TypeOK
  <2> SUFFICES ASSUME Inv PROVE TypeOK
    OBVIOUS
  <2>1. Types
    BY DEF Inv
  <2>2. ASSUME pc = "sample"
        PROVE  Len(masks) = Len(drafts) + 1 /\ \A i \in DOMAIN masks : masks[i] # {}
    <3> DEFINE c == Constrained(gated, output)
               b == Reasoning
               v == Kept
    <3>1. status = "running" /\ Padded(drafts, v)
      BY <2>2 DEF Inv, Committed, Prepared
    <3>2. b \in BOOLEAN /\ c \in Answers /\ c \in Words
      BY <3>1, Running
    <3>3. v \in Words /\ Len(v) \in Nat /\ Allowed(c, Constrained(b, v))
      <4>1. proposed \in Words
        BY <2>1 DEF Types
      <4>2. QED BY <4>1, <3>1, KeptFacts DEF Kept
    <3>4. /\ masks \in Seq(SUBSET Vocabulary) /\ Len(masks) = Len(drafts) + 1
          /\ \A i \in 1 .. Len(drafts) + 1 :
               masks[i] = IF i <= Len(v) + 1 THEN MaskAt(b, c, v, i) ELSE Vocabulary
      BY <2>2 DEF Inv, Prepared
    <3> HIDE DEF c, b, v
    <3>5. ASSUME NEW i \in 1 .. Len(drafts) + 1 PROVE masks[i] # {}
      <4>1. CASE i <= Len(v) + 1
        <5>1. i - 1 \in 0 .. Len(v)
          BY <4>1, <3>1, <3>3 DEF Padded
        <5> DEFINE p == First(v, i - 1)
        <5>2. Constrained(b, p) \in Words /\ Allowed(c, Constrained(b, p))
          BY <5>1, <3>2, <3>3, PrefixConstrained
        <5>3. Open(b, p) \in BOOLEAN
          BY DEF Open
        <5>4. MaskAt(b, c, v, i) = FillMask(Walked(c, Constrained(b, p)), Open(b, p))
          BY DEF MaskAt
        <5> HIDE DEF p
        <5>5. QED BY <5>2, <5>3, <5>4, <4>1, <3>2, <3>4, WalkMask
      <4>2. CASE ~ (i <= Len(v) + 1)
        BY <4>2, <3>4 DEF Vocabulary
      <4>3. QED BY <4>1, <4>2
    <3>6. DOMAIN masks = 1 .. Len(drafts) + 1
      BY <3>4
    <3>7. QED BY <3>4, <3>5, <3>6
  <2>3. grammar \in [consumed : Seq(Tokens \union {EOS}), terminated : BOOLEAN,
                     rollback_lag : {0, 1}]
    BY <2>1 DEF Types, Grammars
  <2>4. {gated, reasoning_ended, failed} \subseteq BOOLEAN
    BY <2>1 DEF Types
  <2>5. QED BY <2>1, <2>2, <2>3, <2>4 DEF Types, TypeOK, Words
<1>2. QED BY <1>1, Invariant, PTL

---------------------------------------------------------------------------
(* What the invariant gives.                                             *)

(* Filling the masks of a step (accept_tokens, then rollback) and dropping *)
(* a step leave the matcher at the committed answer, and the manager's     *)
(* latch tells whether the reasoning is over.                              *)
THEOREM TracksAnswer == Spec => []MatcherTracksAnswer
<1>1. Inv => MatcherTracksAnswer
  <2> SUFFICES ASSUME Inv, status = "running"
               PROVE  /\ grammar = [consumed |-> Answer(output), terminated |-> FALSE,
                                    rollback_lag |-> 0]
                      /\ gated => (reasoning_ended <=> ThinkEnd \in ToSet(output))
    BY DEF MatcherTracksAnswer
  <2>1. output \in Words /\ Types
    BY DEF Inv, Types
  <2>2. Answer(output) = Constrained(gated, output)
    BY <2>1, AnswerIs
  <2>3. grammar = Fresh(Constrained(gated, output)) /\ (Reasoning <=> ~ Open(gated, output))
    BY DEF Inv, Committed
  <2>4. grammar = [consumed |-> Answer(output), terminated |-> FALSE, rollback_lag |-> 0]
    BY <2>2, <2>3 DEF Fresh
  <2>5. gated => (reasoning_ended <=> ThinkEnd \in ToSet(output))
    BY <2>3 DEF Reasoning, Open
  <2>6. QED BY <2>4, <2>5
<1>2. QED BY <1>1, Invariant, PTL

(* What the client gets is a beginning of a word of the grammar, however   *)
(* the drafts of a step were validated, masked, padded and cut.            *)
THEOREM Grammatical == Spec => []AnswerIsGrammatical
<1>1. Inv => AnswerIsGrammatical
  <2> SUFFICES ASSUME Inv PROVE AnswerIsGrammatical
    OBVIOUS
  <2>1. output \in Words /\ Types
    BY DEF Inv, Types
  <2>2. Answer(output) = Constrained(gated, output)
    BY <2>1, AnswerIs
  <2>3. Constrained(gated, output) \in Answers
    BY DEF Inv, Committed
  <2>4. QED BY <2>2, <2>3 DEF Answers, AnswerIsGrammatical
<1>2. QED BY <1>1, Invariant, PTL

(* grammar_bitmask never meets a draft the matcher refuses, and            *)
(* accept_tokens no committed token: neither "Unexpected" error is logged. *)
THEOREM Accepted == Spec => []NeverRejected
<1>1. Inv => NeverRejected
  BY DEF Inv, Types, NeverRejected
<1>2. QED BY <1>1, Invariant, PTL

(* validate_tokens keeps the longest beginning of the proposed drafts that *)
(* the grammar allows.                                                     *)
THEOREM LongestValid == Spec => []DraftsAreLongestValid
<1>1. Inv => DraftsAreLongestValid
  <2> SUFFICES ASSUME Inv, pc = "mask" PROVE DraftsAreLongestValid
    BY DEF DraftsAreLongestValid
  <2> DEFINE c == Constrained(gated, output)
             b == Reasoning
             v == Kept
             Fitting(n) == Allowed(<<>>, Answer(output \o SubSeq(proposed, 1, n)))
  <2>1. status = "running" /\ Padded(drafts, v) /\ Types /\ proposed \in Words /\ output \in Words
    BY DEF Inv, Committed, Prepared, Types
  <2>2. strip_speculative_padding(drafts) = v
    BY <2>1, Stripped
  <2>3. /\ v \in Words /\ Len(v) \in Nat /\ Len(v) <= Len(proposed)
        /\ v = SubSeq(proposed, 1, Len(v)) /\ Allowed(c, Constrained(b, v))
        /\ \/ is_stopped(c) \/ Len(v) = Len(proposed)
           \/ ~ Allowed(c, Constrained(b, SubSeq(proposed, 1, Len(v) + 1)))
    BY <2>1, KeptFacts DEF Kept
  <2>4. Answer(output) = c
    BY <2>1, AnswerIs
  <2>5. b \in BOOLEAN /\ c \in Answers
    BY <2>1, Running
  <2>6. ASSUME NEW n \in 0 .. Len(proposed)
        PROVE  Fitting(n) <=> Allowed(c, Constrained(b, SubSeq(proposed, 1, n)))
    <3> DEFINE p == SubSeq(proposed, 1, n)
    <3>1. p \in Words
      BY <2>1, SplitWord
    <3> HIDE DEF p
    <3>2. output \o p \in Words /\ Constrained(gated, output \o p) = c \o Constrained(b, p)
      BY <2>1, <3>1, Running
    <3>3. Answer(output \o p) = c \o Constrained(b, p)
      BY <2>1, <3>2, AnswerIs
    <3> HIDE DEF b, c
    <3>4. Constrained(b, p) \in Words
      BY <2>5, <3>1, PlaceFacts
    <3>5. c \o Constrained(b, p) \in Words
          /\ (Allowed(c, Constrained(b, p)) <=> c \o Constrained(b, p) \in Answers)
      BY <2>5, <3>4, AnswerExtends
    <3>6. Allowed(<<>>, Answer(output \o p)) <=> Allowed(c, Constrained(b, p))
      BY <3>3, <3>5 DEF Answers
    <3>7. QED BY <3>6 DEF p
  <2> HIDE DEF b, c, v
  <2>7. Len(v) \in 0 .. Len(proposed) /\ Len(proposed) \in Nat
        /\ (Len(v) # Len(proposed) => Len(v) + 1 \in 0 .. Len(proposed))
    BY <2>1, <2>3 DEF Words
  <2>8. IsPrefix(v, proposed)
    <3>1. SubSeq(v, 1, Len(v)) = v
      BY <2>3, SubSeqFull DEF Words
    <3>2. QED BY <3>1, <2>3 DEF IsPrefix
  <2>9. Fitting(Len(v))
    <3>1. Fitting(Len(v)) <=> Allowed(c, Constrained(b, SubSeq(proposed, 1, Len(v))))
      BY <2>6, <2>7
    <3> HIDE DEF Fitting
    <3>2. QED BY <3>1, <2>3, Zenon
  <2>10. \/ Len(v) = Len(proposed) \/ ~ Fitting(Len(v) + 1) \/ is_stopped(Answer(output))
    <3>1. Len(v) # Len(proposed) =>
            (Fitting(Len(v) + 1) <=> Allowed(c, Constrained(b, SubSeq(proposed, 1, Len(v) + 1))))
      BY <2>6, <2>7
    <3> HIDE DEF Fitting
    <3>2. QED BY <3>1, <2>3, <2>4, Zenon
  <2>11. QED BY <2>2, <2>8, <2>9, <2>10, Zenon DEF DraftsAreLongestValid
<1>2. QED BY <1>1, Invariant, PTL
=============================================================================
