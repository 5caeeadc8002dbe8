----------------------------- MODULE FoldLemmas -----------------------------
(***************************************************************************)
(* Induction over the natural numbers by their well-founded order, and the *)
(* folds of the community modules: that the function MapThenFoldSet        *)
(* chooses exists, that a fold over a sequence goes step by step, and that *)
(* sums are sums whatever the order of their terms.  At the end, what the  *)
(* parts of a sequence and of a concatenation are.                         *)
(***************************************************************************)
EXTENDS Integers, SequencesExt, SequenceTheorems, FiniteSetTheorems, WellFoundedInduction, TLAPS

\* The order of the natural numbers is well founded.
LEMMA LessIsWellFounded == IsWellFoundedOn({ss \in Nat \X Nat : ss[1] < ss[2]}, Nat)
  BY NatLessThanWellFounded DEF OpToRel

\* A nonempty set of natural numbers has a least element.
LEMMA LeastNat ==
  ASSUME NEW T \in SUBSET Nat, T # {}
  PROVE  \E m \in T : \A k \in T : m <= k
<1> DEFINE R == {ss \in Nat \X Nat : ss[1] < ss[2]}
<1>1. \A x, y \in Nat : y < x => <<y, x>> \in R
  OBVIOUS
<1>2. IsWellFoundedOn(R, Nat)
  BY LessIsWellFounded
<1> HIDE DEF R
<1>3. PICK x \in T : \A y \in T : ~ (<<y, x>> \in R)
  BY WFMin, <1>2
<1>4. \A y \in T : ~ (y < x)
  BY <1>1, <1>3
<1>5. QED BY <1>3, <1>4

\* A set of natural numbers that holds 0 and every successor holds them all.
LEMMA NatInductionSet ==
  ASSUME NEW S, 0 \in S, \A n \in Nat : n \in S => n + 1 \in S
  PROVE  \A n \in Nat : n \in S
<1>1. SUFFICES ASSUME {n \in Nat : n \notin S} # {} PROVE FALSE
  OBVIOUS
<1>2. PICK m \in {n \in Nat : n \notin S} : \A k \in {n \in Nat : n \notin S} : m <= k
  BY <1>1, LeastNat
<1>3. m # 0 /\ m - 1 \in Nat
  BY <1>2
<1>4. m - 1 \in S
  BY <1>2, <1>3
<1>5. QED BY <1>2, <1>3, <1>4

\* The elements of a finite set are combined one by one, in the order of a
\* choice function c: there is a table of the results for all its subsets.
Chooses(c, D) == \A s \in SUBSET D : s # {} => c[s] \in s

IsTable(it, D, Acc, base, G, c) ==
  /\ it \in [SUBSET D -> Acc]
  /\ \A s \in SUBSET D :
       it[s] = IF s = {} THEN base ELSE G[<<c[s], it[s \ {c[s]}]>>]

\* A fold over a finite set: the table of its values on every subset exists.
LEMMA TableExists ==
  ASSUME NEW D, IsFiniteSet(D), NEW Acc, NEW base \in Acc,
         NEW G \in [D \X Acc -> Acc], NEW c, Chooses(c, D)
  PROVE  \E it : IsTable(it, D, Acc, base, G, c)
<1> USE DEF Chooses, IsTable
<1> DEFINE Small(n) == {s \in SUBSET D : Cardinality(s) <= n}
           Table(n, it) == /\ it \in [Small(n) -> Acc]
                           /\ \A s \in Small(n) : 
                                it[s] = IF s = {} THEN base ELSE G[<<c[s], it[s \ {c[s]}]>>]
           Have == {n \in Nat : \E it : Table(n, it)}
<1>1. \A s \in SUBSET D : IsFiniteSet(s) /\ Cardinality(s) \in Nat
  BY FS_Subset, FS_CardinalityType
<1>2. 0 \in Have
  <2>1. Small(0) = {{}}
    BY <1>1, FS_EmptySet
  <2>2. Table(0, [s \in Small(0) |-> base])
    BY <2>1
  <2>3. QED BY <2>2
<1>3. ASSUME NEW n \in Nat, n \in Have PROVE n + 1 \in Have
  <2>1. PICK it : Table(n, it)
    BY <1>3
  <2> DEFINE next == [s \in Small(n + 1) |-> IF s = {} THEN base
                                             ELSE G[<<c[s], it[s \ {c[s]}]>>]]
  <2>2. ASSUME NEW s \in Small(n + 1), s # {}
        PROVE  s \ {c[s]} \in Small(n) /\ c[s] \in D
    <3>1. c[s] \in s
      BY <2>2
    <3>2. Cardinality(s \ {c[s]}) = Cardinality(s) - 1
      BY <3>1, <1>1, FS_RemoveElement
    <3>3. QED BY <3>1, <3>2, <1>1
  <2>3. \A s \in Small(n) : s \in Small(n + 1) /\ next[s] = it[s]
    BY <2>1, <1>1
  <2>4. next \in [Small(n + 1) -> Acc]
    <3>1. ASSUME NEW s \in Small(n + 1), s # {}
          PROVE  G[<<c[s], it[s \ {c[s]}]>>] \in Acc
      <4>1. it[s \ {c[s]}] \in Acc
        BY <2>1, <2>2, <3>1
      <4>2. <<c[s], it[s \ {c[s]}]>> \in D \X Acc
        BY <4>1, <2>2, <3>1
      <4>3. QED BY <4>2
    <3>2. QED BY <3>1
  <2>5. \A s \in Small(n + 1) :
           next[s] = IF s = {} THEN base ELSE G[<<c[s], next[s \ {c[s]}]>>]
    BY <2>2, <2>3
  <2>6. Table(n + 1, next)
    BY <2>4, <2>5
  <2> HIDE DEF next, Table, Small
  <2>7. QED BY <2>6
<1>4. Cardinality(D) \in Have
  <2> HIDE DEF Have
  <2>1. \A n \in Nat : n \in Have
    BY <1>2, <1>3, NatInductionSet
  <2>2. QED BY <2>1, FS_CardinalityType
<1>5. Small(Cardinality(D)) = SUBSET D
  BY FS_Subset, <1>1
<1>6. PICK it : Table(Cardinality(D), it)
  BY <1>4
<1>7. QED BY <1>5, <1>6
---------------------------------------------------------------------------
(* The greatest element.                                                   *)

\* A bounded nonempty set of natural numbers has a greatest element.
LEMMA GreatestNat ==
  ASSUME NEW T \in SUBSET Nat, T # {}, NEW n \in Nat, \A k \in T : k <= n
  PROVE  \E m \in T : \A k \in T : k <= m
<1> DEFINE U == {n - k : k \in T}
<1>1. U \in SUBSET Nat /\ U # {}
  <2>1. \A k \in T : n - k \in Nat
    OBVIOUS
  <2>2. QED BY <2>1
<1>2. PICK u \in U : \A v \in U : u <= v
  BY <1>1, LeastNat
<1>3. PICK m \in T : u = n - m
  OBVIOUS
<1>4. ASSUME NEW k \in T PROVE k <= m
  <2>1. n - k \in U
    OBVIOUS
  <2>2. QED BY <2>1, <1>2, <1>3
<1>5. QED BY <1>4

\* Max of a nonempty set of indices is its greatest element.
LEMMA MaxOfInterval ==
  ASSUME NEW n \in Nat, NEW s \in SUBSET (1 .. n), s # {}
  PROVE  Max(s) \in s /\ \A k \in s : k <= Max(s)
<1>0. s \in SUBSET Nat /\ \A k \in s : k <= n
  OBVIOUS
<1>1. PICK m \in s : \A k \in s : k <= m
  BY <1>0, GreatestNat
<1>2. \A k \in s : m >= k
  BY <1>1
<1>3. QED BY <1>2 DEF Max

\* Of 1 .. k, Max is k.
LEMMA MaxIsLast ==
  ASSUME NEW k \in Nat \ {0}
  PROVE  Max(1 .. k) = k /\ (1 .. k) \ {k} = 1 .. (k - 1)
<1>1. 1 .. k \in SUBSET (1 .. k) /\ 1 .. k # {} /\ k \in 1 .. k
  OBVIOUS
<1>2. Max(1 .. k) \in 1 .. k /\ k <= Max(1 .. k)
  BY <1>1, MaxOfInterval
<1>3. QED BY <1>2

\* What FoldLeft runs through: a table of the results for sets of places.
IsFold(it, n, Acc, base, G) ==
  /\ it \in [SUBSET (1 .. n) -> Acc]
  /\ \A s \in SUBSET (1 .. n) :
       it[s] = IF s = {} THEN base ELSE G[<<Max(s), it[s \ {Max(s)}]>>]

\* A fold over a sequence has a table of partial results, one for each length.
LEMMA FoldTable ==
  ASSUME NEW n \in Nat, NEW Acc, NEW base \in Acc, NEW G \in [(1 .. n) \X Acc -> Acc]
  PROVE  \E it : IsFold(it, n, Acc, base, G)
<1> DEFINE c == [s \in SUBSET (1 .. n) |-> Max(s)]
<1>1. Chooses(c, 1 .. n)
  BY MaxOfInterval DEF Chooses
<1>2. IsFiniteSet(1 .. n)
  BY FS_Interval
<1>3. \A s \in SUBSET (1 .. n) : c[s] = Max(s)
  OBVIOUS
<1> HIDE DEF c
<1>4. PICK it : IsTable(it, 1 .. n, Acc, base, G, c)
  BY <1>1, <1>2, TableExists
<1>5. IsFold(it, n, Acc, base, G)
  BY <1>3, <1>4 DEF IsTable, IsFold
<1>6. QED BY <1>5, Zenon

---------------------------------------------------------------------------
(* Sums.                                                                   *)

AnyOf(s) == CHOOSE x \in s : TRUE

SumTable(f) == CHOOSE it : it = [s \in SUBSET (DOMAIN f) |->
                 IF s = {} THEN 0 ELSE f[AnyOf(s)] + it[s \ {AnyOf(s)}]]

\* SumFunction is the table of partial sums at the whole domain.
LEMMA SumIsTable == ASSUME NEW f PROVE SumFunction(f) = SumTable(f)[DOMAIN f]
  BY SMT DEF SumFunction, SumFunctionOnSet, FoldFunctionOnSet, MapThenFoldSet, SumTable, AnyOf

SumsUp(t, f, D) ==
  /\ t \in [SUBSET D -> Int]
  /\ \A s \in SUBSET D : t[s] = IF s = {} THEN 0 ELSE f[AnyOf(s)] + t[s \ {AnyOf(s)}]

\* The table of partial sums exists, and sums up.
LEMMA SumTableExists ==
  ASSUME NEW D, IsFiniteSet(D), NEW f \in [D -> Int]
  PROVE  SumsUp(SumTable(f), f, D)
<1> USE DEF SumsUp
<1> DEFINE c == [s \in SUBSET D |-> AnyOf(s)]
           G == [p \in D \X Int |-> f[p[1]] + p[2]]
<1>1. \A s \in SUBSET D : c[s] = AnyOf(s) /\ (s # {} => AnyOf(s) \in s)
  BY DEF AnyOf
<1>0. Chooses(c, D)
  BY <1>1 DEF Chooses
<1>2. G \in [D \X Int -> Int] /\ \A d \in D, v \in Int : G[<<d, v>>] = f[d] + v
  OBVIOUS
<1> HIDE DEF c, G
<1>20. 0 \in Int
  OBVIOUS
<1>3. PICK it : IsTable(it, D, Int, 0, G, c)
  BY <1>0, <1>2, <1>20, TableExists
<1> USE DEF IsTable
<1>4. ASSUME NEW s \in SUBSET D
      PROVE  it[s] = IF s = {} THEN 0 ELSE f[AnyOf(s)] + it[s \ {AnyOf(s)}]
  <2>1. CASE s = {}
    BY <2>1, <1>3
  <2>2. CASE s # {}
    <3>1. it[s] = G[<<AnyOf(s), it[s \ {AnyOf(s)}]>>]
      BY <2>2, <1>1, <1>3
    <3>2. AnyOf(s) \in D /\ s \ {AnyOf(s)} \in SUBSET D
      BY <2>2, <1>1
    <3>3. it[s \ {AnyOf(s)}] \in Int
      BY <3>2, <1>3
    <3>4. QED BY <3>1, <3>2, <3>3, <1>2, <2>2
  <2>3. QED BY <2>1, <2>2
<1>5. it = [s \in SUBSET D |-> IF s = {} THEN 0 ELSE f[AnyOf(s)] + it[s \ {AnyOf(s)}]]
  BY <1>4, <1>3
<1> DEFINE E(g) == g = [s \in SUBSET (DOMAIN f) |->
                          IF s = {} THEN 0 ELSE f[AnyOf(s)] + g[s \ {AnyOf(s)}]]
<1>6. DOMAIN f = D
  OBVIOUS
<1>7. E(it)
  BY <1>5, <1>6
<1>8. SumTable(f) = CHOOSE g : E(g)
  BY DEF SumTable
<1> HIDE DEF E
<1>9. E(SumTable(f))
  BY <1>7, <1>8
<1> USE DEF E
<1> DEFINE st == SumTable(f)
<1>10. st = [s \in SUBSET D |-> IF s = {} THEN 0 ELSE f[AnyOf(s)] + st[s \ {AnyOf(s)}]]
  BY <1>9, <1>6
<1> HIDE DEF st
<1>11. \A s \in SUBSET D : st[s] = IF s = {} THEN 0 ELSE f[AnyOf(s)] + st[s \ {AnyOf(s)}]
  BY <1>10
<1>12. DOMAIN st = SUBSET D
  BY <1>10
<1> DEFINE Good == {n \in Nat : \A s \in SUBSET D : Cardinality(s) = n => st[s] \in Int}
<1>13. \A s \in SUBSET D : IsFiniteSet(s) /\ Cardinality(s) \in Nat
  BY FS_Subset, FS_CardinalityType
<1>14. 0 \in Good
  <2>1. \A s \in SUBSET D : Cardinality(s) = 0 => s = {}
    BY <1>13, FS_EmptySet
  <2>2. {} \in SUBSET D
    OBVIOUS
  <2>3. st[{}] = 0
    BY <1>11, <2>2
  <2>4. QED BY <2>1, <2>3
<1>15. ASSUME NEW n \in Nat, n \in Good PROVE n + 1 \in Good
  <2>1. ASSUME NEW s \in SUBSET D, Cardinality(s) = n + 1
        PROVE  st[s] \in Int
    <3>1. s # {}
      BY <2>1, FS_EmptySet
    <3>2. AnyOf(s) \in s
      BY <3>1 DEF AnyOf
    <3>6. Cardinality(s \ {AnyOf(s)}) = Cardinality(s) - 1
      BY <3>2, <1>13, FS_RemoveElement
    <3>3. Cardinality(s \ {AnyOf(s)}) = n
      BY <3>6, <2>1
    <3>4. st[s \ {AnyOf(s)}] \in Int /\ f[AnyOf(s)] \in Int
      BY <3>2, <3>3, <1>15
    <3>7. st[s] = f[AnyOf(s)] + st[s \ {AnyOf(s)}]
      BY <3>1, <1>11
    <3>5. QED BY <3>4, <3>7
  <2>2. QED BY <2>1
<1>16. \A n \in Nat : n \in Good
  <2> HIDE DEF Good
  <2>1. QED BY <1>14, <1>15, NatInductionSet
<1>17. \A s \in SUBSET D : st[s] \in Int
  BY <1>13, <1>16
<1>18. QED BY <1>10, <1>11, <1>12, <1>17 DEF st

\* The subsets of a finite set are finite.
LEMMA Subsets ==
  ASSUME NEW D, IsFiniteSet(D)
  PROVE  \A s \in SUBSET D : IsFiniteSet(s) /\ Cardinality(s) \in Nat
  BY FS_Subset, FS_CardinalityType

\* In a sum any term may come first.
LEMMA SumTableAnyFirst ==
  ASSUME NEW D, IsFiniteSet(D), NEW f \in [D -> Int]
  PROVE  \A s \in SUBSET D : \A a \in s : SumTable(f)[s] = f[a] + SumTable(f)[s \ {a}]
<1> DEFINE st == SumTable(f)
           Good == {n \in Nat : \A s \in SUBSET D : Cardinality(s) = n =>
                                  \A a \in s : st[s] = f[a] + st[s \ {a}]}
<1>1. SumsUp(st, f, D)
  BY SumTableExists
<1>2. \A s \in SUBSET D : s # {} => AnyOf(s) \in s
  BY DEF AnyOf
<1> USE DEF SumsUp
<1> HIDE DEF st
<1>3. 0 \in Good
  <2>1. \A s \in SUBSET D : Cardinality(s) = 0 => s = {}
    BY Subsets, FS_EmptySet
  <2>2. QED BY <2>1
<1>4. ASSUME NEW n \in Nat, n \in Good PROVE n + 1 \in Good
  <2>1. ASSUME NEW s \in SUBSET D, Cardinality(s) = n + 1, NEW a \in s
        PROVE  st[s] = f[a] + st[s \ {a}]
    <3> DEFINE x == AnyOf(s)
    <3>1. x \in s /\ st[s] = f[x] + st[s \ {x}]
      BY <1>1, <1>2
    <3> HIDE DEF x
    <3>2. CASE x = a
      BY <3>1, <3>2
    <3>3. CASE x # a
      <4>1. \A y \in s : s \ {y} \in SUBSET D /\ Cardinality(s \ {y}) = Cardinality(s) - 1
        BY Subsets, FS_RemoveElement
      <4>2. Cardinality(s \ {x}) = n /\ Cardinality(s \ {a}) = n
        BY <4>1, <2>1, <3>1
      <4>3. a \in s \ {x} /\ x \in s \ {a} /\ (s \ {x}) \ {a} = (s \ {a}) \ {x}
        BY <3>1, <3>3
      <4>4. st[s \ {x}] = f[a] + st[(s \ {x}) \ {a}]
        BY <4>1, <4>2, <4>3, <3>1, <1>4
      <4>5. st[s \ {a}] = f[x] + st[(s \ {x}) \ {a}]
        BY <4>1, <4>2, <4>3, <1>4
      <4>6. st[(s \ {x}) \ {a}] \in Int /\ f[a] \in Int /\ f[x] \in Int
        BY <1>1, <3>1
      <4>7. QED BY <3>1, <4>4, <4>5, <4>6
    <3>4. QED BY <3>2, <3>3
  <2>2. QED BY <2>1
<1>5. \A n \in Nat : n \in Good
  <2> HIDE DEF Good
  <2>1. QED BY <1>3, <1>4, NatInductionSet
<1>6. QED BY <1>5, Subsets DEF st

\* The sum over a set depends on the terms of the set only.
LEMMA SumTablesAgree ==
  ASSUME NEW D, IsFiniteSet(D), NEW f \in [D -> Int],
         NEW E, IsFiniteSet(E), NEW g \in [E -> Int],
         NEW S \in SUBSET (D \cap E), \A x \in S : f[x] = g[x]
  PROVE  SumTable(f)[S] = SumTable(g)[S]
<1> DEFINE sf == SumTable(f)
           sg == SumTable(g)
           Good == {n \in Nat : \A s \in SUBSET S : Cardinality(s) = n => sf[s] = sg[s]}
<1>1. SumsUp(sf, f, D)
  BY SumTableExists
<1>2. SumsUp(sg, g, E)
  BY SumTableExists
<1>3. \A s \in SUBSET S : s # {} => AnyOf(s) \in s
  BY DEF AnyOf
<1>4. \A s \in SUBSET S : IsFiniteSet(s) /\ Cardinality(s) \in Nat
  BY Subsets
<1> USE DEF SumsUp
<1> HIDE DEF sf, sg
<1>5. 0 \in Good
  <2>1. \A s \in SUBSET S : Cardinality(s) = 0 => s = {}
    BY <1>4, FS_EmptySet
  <2>2. sf[{}] = 0 /\ sg[{}] = 0
    BY <1>1, <1>2
  <2>3. QED BY <2>1, <2>2
<1>6. ASSUME NEW n \in Nat, n \in Good PROVE n + 1 \in Good
  <2>1. ASSUME NEW s \in SUBSET S, Cardinality(s) = n + 1 PROVE sf[s] = sg[s]
    <3>1. s # {}
      BY <2>1, FS_EmptySet
    <3> DEFINE x == AnyOf(s)
    <3>2. /\ x \in s
          /\ sf[s] = f[x] + sf[s \ {x}]
          /\ sg[s] = g[x] + sg[s \ {x}]
      BY <3>1, <1>1, <1>2, <1>3
    <3> HIDE DEF x
    <3>3. Cardinality(s \ {x}) = Cardinality(s) - 1
      BY <3>2, <1>4, FS_RemoveElement
    <3>4. sf[s \ {x}] = sg[s \ {x}]
      BY <3>2, <3>3, <2>1, <1>6
    <3>5. QED BY <3>2, <3>4
  <2>2. QED BY <2>1
<1>7. \A n \in Nat : n \in Good
  <2> HIDE DEF Good
  <2>1. QED BY <1>5, <1>6, NatInductionSet
<1>8. QED BY <1>4, <1>7 DEF sf, sg

\* The sum of finitely many integers is an integer.
LEMMA SumIsInt ==
  ASSUME NEW D, IsFiniteSet(D), NEW f \in [D -> Int]
  PROVE  SumFunction(f) \in Int
<1>1. DOMAIN f = D /\ D \in SUBSET D
  OBVIOUS
<1>2. SumTable(f) \in [SUBSET D -> Int]
  BY SumTableExists DEF SumsUp
<1>3. SumTable(f)[D] \in Int
  BY <1>1, <1>2
<1>4. QED BY <1>1, <1>3, SumIsTable

\* The empty sum is 0.
LEMMA SumOfNothing ==
  ASSUME NEW f \in [{} -> Int]
  PROVE  SumFunction(f) = 0
<1>1. DOMAIN f = {} /\ {} \in SUBSET {} /\ IsFiniteSet({})
  BY FS_EmptySet
<1>2. SumsUp(SumTable(f), f, {})
  BY <1>1, SumTableExists
<1>3. SumTable(f)[{}] = 0
  BY <1>1, <1>2 DEF SumsUp
<1>4. QED BY <1>1, <1>3, SumIsTable

\* A sum is any one of its terms and the sum of the others.
LEMMA SumWithout ==
  ASSUME NEW D, IsFiniteSet(D), NEW f \in [D -> Int], NEW a \in D,
         NEW g \in [D \ {a} -> Int], \A x \in D \ {a} : f[x] = g[x]
  PROVE  SumFunction(f) = f[a] + SumFunction(g)
<1>1. DOMAIN f = D /\ DOMAIN g = D \ {a}
  OBVIOUS
<1>2. IsFiniteSet(D \ {a})
  BY FS_RemoveElement
<1>3. SumFunction(f) = SumTable(f)[D] /\ SumFunction(g) = SumTable(g)[D \ {a}]
  BY <1>1, <1>2, SumIsTable
<1>4. SumTable(f)[D] = f[a] + SumTable(f)[D \ {a}]
  BY SumTableAnyFirst
<1>5. D \ {a} \in SUBSET (D \cap (D \ {a}))
  OBVIOUS
<1>6. SumTable(f)[D \ {a}] = SumTable(g)[D \ {a}]
  BY <1>1, <1>2, <1>5, SumTablesAgree
<1>7. QED BY <1>3, <1>4, <1>6

\* The same, for the rest of the function itself.
LEMMA SumStep ==
  ASSUME NEW D, IsFiniteSet(D), NEW f \in [D -> Int], NEW a \in D
  PROVE  SumFunction(f) = f[a] + SumFunction([i \in D \ {a} |-> f[i]])
<1> DEFINE g == [i \in D \ {a} |-> f[i]]
<1>1. g \in [D \ {a} -> Int] /\ \A x \in D \ {a} : f[x] = g[x]
  OBVIOUS
<1> HIDE DEF g
<1>2. SumFunction(f) = f[a] + SumFunction(g)
  BY <1>1, SumWithout
<1>3. QED BY <1>2 DEF g

\* One term changes.
LEMMA SumExcept ==
  ASSUME NEW D, IsFiniteSet(D), NEW f \in [D -> Int], NEW a \in D, NEW v \in Int
  PROVE  SumFunction([f EXCEPT ![a] = v]) = SumFunction(f) - f[a] + v
<1> DEFINE g == [f EXCEPT ![a] = v]
           rest == [i \in D \ {a} |-> f[i]]
<1>1. g \in [D -> Int] /\ g[a] = v /\ rest \in [D \ {a} -> Int]
  OBVIOUS
<1>2. rest = [i \in D \ {a} |-> g[i]]
  OBVIOUS
<1> HIDE DEF g
<1>3. SumFunction(f) = f[a] + SumFunction(rest)
  BY SumStep
<1>4. SumFunction(g) = g[a] + SumFunction(rest)
  BY <1>1, <1>2, SumStep
<1>5. SumFunction(rest) \in Int
  <2>1. IsFiniteSet(D \ {a})
    BY FS_RemoveElement
  <2>2. QED BY <2>1, <1>1, SumIsInt
<1> HIDE DEF rest
<1>6. f[a] \in Int
  OBVIOUS
<1>7. QED BY <1>1, <1>3, <1>4, <1>5, <1>6 DEF g

\* Every term is at most the one of another function: so are the sums.
LEMMA SumMonotone ==
  ASSUME NEW D, IsFiniteSet(D), NEW f \in [D -> Int], NEW g \in [D -> Int],
         \A x \in D : f[x] <= g[x]
  PROVE  SumFunction(f) <= SumFunction(g)
<1> DEFINE sf == SumTable(f)
           sg == SumTable(g)
           Good == {n \in Nat : \A s \in SUBSET D : Cardinality(s) = n => sf[s] <= sg[s]}
<1>1. SumsUp(sf, f, D)
  BY SumTableExists
<1>2. SumsUp(sg, g, D)
  BY SumTableExists
<1>3. \A s \in SUBSET D : s # {} => AnyOf(s) \in s
  BY DEF AnyOf
<1> USE DEF SumsUp
<1> HIDE DEF sf, sg
<1>4. 0 \in Good
  <2>1. \A s \in SUBSET D : Cardinality(s) = 0 => s = {}
    BY Subsets, FS_EmptySet
  <2>2. sf[{}] = 0 /\ sg[{}] = 0
    BY <1>1, <1>2
  <2>3. QED BY <2>1, <2>2
<1>5. ASSUME NEW n \in Nat, n \in Good PROVE n + 1 \in Good
  <2>1. ASSUME NEW s \in SUBSET D, Cardinality(s) = n + 1 PROVE sf[s] <= sg[s]
    <3>1. s # {}
      BY <2>1, FS_EmptySet
    <3> DEFINE x == AnyOf(s)
    <3>2. /\ x \in s
          /\ sf[s] = f[x] + sf[s \ {x}]
          /\ sg[s] = g[x] + sg[s \ {x}]
      BY <3>1, <1>1, <1>2, <1>3
    <3> HIDE DEF x
    <3>3. Cardinality(s \ {x}) = Cardinality(s) - 1
      BY <3>2, Subsets, FS_RemoveElement
    <3>4. sf[s \ {x}] <= sg[s \ {x}]
      BY <3>2, <3>3, <2>1, <1>5
    <3>5. /\ f[x] \in Int /\ g[x] \in Int /\ f[x] <= g[x]
          /\ sf[s \ {x}] \in Int /\ sg[s \ {x}] \in Int
      BY <3>2, <1>1, <1>2
    <3>6. QED BY <3>2, <3>4, <3>5
  <2>2. QED BY <2>1
<1>6. \A n \in Nat : n \in Good
  <2> HIDE DEF Good
  <2>1. QED BY <1>4, <1>5, NatInductionSet
<1>7. sf[D] <= sg[D]
  BY <1>6, Subsets
<1>8. DOMAIN f = D /\ DOMAIN g = D
  OBVIOUS
<1>9. QED BY <1>7, <1>8, SumIsTable DEF sf, sg

\* The sum of zeros.
LEMMA SumOfZeros ==
  ASSUME NEW D, IsFiniteSet(D), NEW f \in [D -> Int], \A x \in D : f[x] = 0
  PROVE  SumFunction(f) = 0
<1> DEFINE sf == SumTable(f)
           Good == {n \in Nat : \A s \in SUBSET D : Cardinality(s) = n => sf[s] = 0}
<1>1. SumsUp(sf, f, D)
  BY SumTableExists
<1>2. \A s \in SUBSET D : s # {} => AnyOf(s) \in s
  BY DEF AnyOf
<1> USE DEF SumsUp
<1> HIDE DEF sf
<1>3. 0 \in Good
  <2>1. \A s \in SUBSET D : Cardinality(s) = 0 => s = {}
    BY Subsets, FS_EmptySet
  <2>2. QED BY <2>1, <1>1
<1>4. ASSUME NEW n \in Nat, n \in Good PROVE n + 1 \in Good
  <2>1. ASSUME NEW s \in SUBSET D, Cardinality(s) = n + 1 PROVE sf[s] = 0
    <3>1. s # {}
      BY <2>1, FS_EmptySet
    <3> DEFINE x == AnyOf(s)
    <3>2. x \in s /\ sf[s] = f[x] + sf[s \ {x}]
      BY <3>1, <1>1, <1>2
    <3> HIDE DEF x
    <3>3. Cardinality(s \ {x}) = Cardinality(s) - 1
      BY <3>2, Subsets, FS_RemoveElement
    <3>4. sf[s \ {x}] = 0
      BY <3>2, <3>3, <2>1, <1>4
    <3>5. f[x] = 0
      BY <3>2
    <3>6. QED BY <3>2, <3>4, <3>5
  <2>2. QED BY <2>1
<1>5. \A n \in Nat : n \in Good
  <2> HIDE DEF Good
  <2>1. QED BY <1>3, <1>4, NatInductionSet
<1>6. sf[D] = 0
  BY <1>5, Subsets
<1>7. DOMAIN f = D
  OBVIOUS
<1>8. QED BY <1>6, <1>7, SumIsTable DEF sf

\* The sum over 1 .. n, term by term.
LEMMA SumToNext ==
  ASSUME NEW n \in Nat, NEW f \in [1 .. n + 1 -> Int]
  PROVE  SumFunction(f) = f[n + 1] + SumFunction([i \in 1 .. n |-> f[i]])
<1>1. ASSUME NEW D, D = 1 .. n + 1, NEW a, a = n + 1
      PROVE  SumFunction(f) = f[a] + SumFunction([i \in D \ {a} |-> f[i]])
  <2>1. IsFiniteSet(D)
    BY <1>1, FS_Interval
  <2>2. f \in [D -> Int]
    BY <1>1
  <2>3. a \in D
    BY <1>1
  <2>4. QED BY <2>1, <2>2, <2>3, SumStep, ZenonT(60)
<1>2. (1 .. n + 1) \ {n + 1} = 1 .. n
  OBVIOUS
<1>3. QED BY <1>1, <1>2

\* The sum over 1 .. n + 1, its first term apart.
LEMMA SumFromFirst ==
  ASSUME NEW n \in Nat, NEW f \in [1 .. n + 1 -> Int]
  PROVE  SumFunction(f) = f[1] + SumFunction([i \in 1 .. n |-> f[i + 1]])
<1> DEFINE g(k) == [i \in 1 .. k + 1 |-> f[i]]
           h(k) == [i \in 1 .. k |-> f[i + 1]]
           Good == {k \in Nat : k <= n => SumFunction(g(k)) = f[1] + SumFunction(h(k))}
<1>1. ASSUME NEW k \in Nat, k <= n
      PROVE  g(k) \in [1 .. k + 1 -> Int] /\ h(k) \in [1 .. k -> Int]
  <2>1. \A i \in 1 .. k + 1 : f[i] \in Int
    BY <1>1
  <2>2. \A i \in 1 .. k : f[i + 1] \in Int
    BY <1>1
  <2>3. QED BY <2>1, <2>2
<1>2. 0 \in Good
  <2>1. g(0) \in [1 .. 0 + 1 -> Int] /\ h(0) \in [1 .. 0 -> Int]
    BY <1>1
  <2>2. [i \in 1 .. 0 |-> g(0)[i]] = h(0)
    OBVIOUS
  <2>3. SumFunction(g(0)) = g(0)[0 + 1] + SumFunction([i \in 1 .. 0 |-> g(0)[i]])
    <3> HIDE DEF g
    <3>1. 0 \in Nat
      OBVIOUS
    <3>2. QED BY <3>1, <2>1, SumToNext
  <2>4. g(0)[0 + 1] = f[1]
    OBVIOUS
  <2>5. QED BY <2>2, <2>3, <2>4
<1>3. ASSUME NEW k \in Nat, k \in Good PROVE k + 1 \in Good
  <2>1. SUFFICES ASSUME k + 1 <= n
                 PROVE  SumFunction(g(k + 1)) = f[1] + SumFunction(h(k + 1))
    OBVIOUS
  <2>2. SumFunction(g(k)) = f[1] + SumFunction(h(k))
    BY <1>3, <2>1
  <2>3. /\ g(k + 1) \in [1 .. (k + 1) + 1 -> Int] /\ h(k + 1) \in [1 .. k + 1 -> Int]
        /\ h(k) \in [1 .. k -> Int]
    BY <1>1, <2>1
  <2>4. /\ [i \in 1 .. k + 1 |-> g(k + 1)[i]] = g(k)
        /\ [i \in 1 .. k |-> h(k + 1)[i]] = h(k)
        /\ g(k + 1)[(k + 1) + 1] = f[k + 2] /\ h(k + 1)[k + 1] = f[k + 2]
    OBVIOUS
  <2> HIDE DEF g, h
  <2>5. SumFunction(g(k + 1)) = f[k + 2] + SumFunction(g(k))
    <3>1. k + 1 \in Nat
      OBVIOUS
    <3>2. g(k + 1) \in [1 .. (k + 1) + 1 -> Int]
      BY <2>3
    <3>3. SumFunction(g(k + 1))
            = g(k + 1)[(k + 1) + 1] + SumFunction([i \in 1 .. k + 1 |-> g(k + 1)[i]])
      BY <3>1, <3>2, SumToNext
    <3>4. QED BY <3>3, <2>4, Zenon
  <2>6. SumFunction(h(k + 1)) = f[k + 2] + SumFunction(h(k))
    <3>1. h(k + 1) \in [1 .. k + 1 -> Int]
      BY <2>3
    <3>2. SumFunction(h(k + 1)) = h(k + 1)[k + 1] + SumFunction([i \in 1 .. k |-> h(k + 1)[i]])
      BY <3>1, SumToNext
    <3>3. QED BY <3>2, <2>4, Zenon
  <2>7. f[1] \in Int /\ f[k + 2] \in Int
    BY <2>1
  <2>8. SumFunction(h(k)) \in Int
    <3>1. IsFiniteSet(1 .. k)
      BY FS_Interval
    <3>2. h(k) \in [1 .. k -> Int]
      BY <2>3
    <3>3. QED BY <3>1, <3>2, SumIsInt
  <2>9. QED BY <2>2, <2>5, <2>6, <2>7, <2>8
<1>4. \A k \in Nat : k \in Good
  <2> HIDE DEF Good
  <2>1. QED BY <1>2, <1>3, NatInductionSet
<1>5. g(n) = f /\ h(n) = [i \in 1 .. n |-> f[i + 1]]
  OBVIOUS
<1>6. QED BY <1>4, <1>5

---------------------------------------------------------------------------
(* The greatest and the least of finitely many.                            *)

\* A function on a finite set is greatest somewhere.
LEMMA FiniteGreatest ==
  ASSUME NEW S, IsFiniteSet(S), S # {}, NEW f \in [S -> Int]
  PROVE  \E m \in S : \A x \in S : f[x] <= f[m]
<1> DEFINE Good == {n \in Nat : \A s \in SUBSET S : Cardinality(s) = n /\ s # {} =>
                                  \E m \in s : \A x \in s : f[x] <= f[m]}
<1>1. 0 \in Good
  <2>1. \A s \in SUBSET S : Cardinality(s) = 0 => s = {}
    BY Subsets, FS_EmptySet
  <2>2. QED BY <2>1
<1>2. ASSUME NEW n \in Nat, n \in Good PROVE n + 1 \in Good
  <2>1. ASSUME NEW s \in SUBSET S, Cardinality(s) = n + 1, NEW a \in s
        PROVE  \E m \in s : \A x \in s : f[x] <= f[m]
    <3>1. IsFiniteSet(s)
      BY Subsets
    <3>2. Cardinality(s \ {a}) = Cardinality(s) - 1
      BY <3>1, FS_RemoveElement
    <3>3. CASE s \ {a} = {}
      BY <3>3
    <3>4. CASE s \ {a} # {}
      <4>1. PICK m \in s \ {a} : \A x \in s \ {a} : f[x] <= f[m]
        BY <1>2, <2>1, <3>2, <3>4
      <4>2. CASE f[a] <= f[m]
        BY <4>1, <4>2
      <4>3. CASE f[m] < f[a]
        BY <4>1, <4>3
      <4>4. QED BY <4>2, <4>3
    <3>5. QED BY <3>3, <3>4
  <2>2. QED BY <2>1
<1>3. \A n \in Nat : n \in Good
  <2> HIDE DEF Good
  <2>1. QED BY <1>1, <1>2, NatInductionSet
<1>4. QED BY <1>3, Subsets

\* Max of a finite set of integers is its greatest element.
LEMMA MaxOfInts ==
  ASSUME NEW S \in SUBSET Int, IsFiniteSet(S), S # {}
  PROVE  Max(S) \in S /\ \A x \in S : x <= Max(S)
<1> DEFINE f == [x \in S |-> x]
<1>1. f \in [S -> Int] /\ \A x \in S : f[x] = x
  OBVIOUS
<1> HIDE DEF f
<1>2. PICK m \in S : \A x \in S : f[x] <= f[m]
  BY <1>1, FiniteGreatest
<1>3. \A x \in S : m >= x
  BY <1>1, <1>2
<1>4. QED BY <1>3 DEF Max

\* Min of a finite set of integers is its least element.
LEMMA MinOfInts ==
  ASSUME NEW S \in SUBSET Int, IsFiniteSet(S), S # {}
  PROVE  Min(S) \in S /\ \A x \in S : Min(S) <= x
<1> DEFINE f == [x \in S |-> -x]
<1>1. f \in [S -> Int] /\ \A x \in S : f[x] = -x
  OBVIOUS
<1> HIDE DEF f
<1>2. PICK m \in S : \A x \in S : f[x] <= f[m]
  BY <1>1, FiniteGreatest
<1>3. \A x \in S : m <= x
  BY <1>1, <1>2
<1>4. QED BY <1>3 DEF Min

---------------------------------------------------------------------------
(* Parts of sequences.                                                     *)

\* A sequence is its first k elements and the rest.
LEMMA CutInTwo ==
  ASSUME NEW A, NEW s \in Seq(A), NEW k \in 0 .. Len(s)
  PROVE  /\ SubSeq(s, 1, k) \in Seq(A) /\ SubSeq(s, k + 1, Len(s)) \in Seq(A)
         /\ Len(SubSeq(s, 1, k)) = k /\ Len(SubSeq(s, k + 1, Len(s))) = Len(s) - k
         /\ \A i \in 1 .. k : SubSeq(s, 1, k)[i] = s[i]
         /\ \A i \in 1 .. Len(s) - k : SubSeq(s, k + 1, Len(s))[i] = s[k + i]
         /\ s = SubSeq(s, 1, k) \o SubSeq(s, k + 1, Len(s))
<1> DEFINE n == Len(s)
           p == SubSeq(s, 1, k)
           r == SubSeq(s, k + 1, n)
<1>1. n \in Nat /\ k \in Nat /\ k <= n /\ \A i \in 1 .. n : s[i] \in A
  OBVIOUS
<1>2. \A i \in 1 .. k : s[i] \in A
  BY <1>1
<1>3. p \in Seq(A) /\ Len(p) = IF 1 <= k THEN k - 1 + 1 ELSE 0
  BY <1>1, <1>2, SubSeqProperties
<1>4. \A i \in 1 .. k - 1 + 1 : p[i] = s[1 + i - 1]
  BY <1>1, <1>2, SubSeqProperties
<1>5. Len(p) = k /\ \A i \in 1 .. k : p[i] = s[i]
  BY <1>1, <1>3, <1>4
<1>6. \A i \in k + 1 .. n : s[i] \in A
  BY <1>1
<1>7. r \in Seq(A) /\ Len(r) = IF k + 1 <= n THEN n - (k + 1) + 1 ELSE 0
  BY <1>1, <1>6, SubSeqProperties
<1>8. \A i \in 1 .. n - (k + 1) + 1 : r[i] = s[(k + 1) + i - 1]
  BY <1>1, <1>6, SubSeqProperties
<1>9. Len(r) = n - k /\ \A i \in 1 .. n - k : r[i] = s[k + i]
  BY <1>1, <1>7, <1>8
<1>10. p \o r \in Seq(A) /\ Len(p \o r) = Len(p) + Len(r)
  BY <1>3, <1>7, ConcatProperties
<1>11. \A i \in 1 .. Len(p) + Len(r) : (p \o r)[i] = IF i <= Len(p) THEN p[i] ELSE r[i - Len(p)]
  BY <1>3, <1>7, ConcatProperties
<1> HIDE DEF p, r
<1>12. Len(p \o r) = n
  BY <1>1, <1>5, <1>9, <1>10
<1>13. ASSUME NEW i \in 1 .. n PROVE s[i] = (p \o r)[i]
  <2>1. (p \o r)[i] = IF i <= k THEN p[i] ELSE r[i - k]
    BY <1>1, <1>5, <1>9, <1>11
  <2>2. CASE i <= k
    <3>1. i \in 1 .. k
      BY <2>2, <1>1
    <3>2. QED BY <3>1, <2>1, <2>2, <1>5
  <2>3. CASE ~ (i <= k)
    <3>1. i - k \in 1 .. n - k /\ k + (i - k) = i
      BY <2>3, <1>1
    <3>2. QED BY <3>1, <2>1, <2>3, <1>9
  <2>4. QED BY <2>2, <2>3
<1>14. s = p \o r
  BY <1>10, <1>12, <1>13, SeqEqual
<1>15. QED BY <1>3, <1>5, <1>7, <1>9, <1>14 DEF p, r

\* The beginnings of a concatenation.
LEMMA PrefixOfConcat ==
  ASSUME NEW A, NEW s \in Seq(A), NEW t \in Seq(A), NEW k \in 0 .. Len(s) + Len(t)
  PROVE  /\ k <= Len(s) => SubSeq(s \o t, 1, k) = SubSeq(s, 1, k)
         /\ Len(s) <= k => SubSeq(s \o t, 1, k) = s \o SubSeq(t, 1, k - Len(s))
<1> DEFINE c == s \o t
<1>1. c \in Seq(A) /\ Len(c) = Len(s) + Len(t)
  BY ConcatProperties
<1>2. \A i \in 1 .. Len(s) + Len(t) :
        c[i] = IF i <= Len(s) THEN s[i] ELSE t[i - Len(s)]
  BY ConcatProperties
<1> HIDE DEF c
<1>3. Len(s) \in Nat /\ Len(t) \in Nat /\ k \in 0 .. Len(c) /\ k \in Nat
  BY <1>1
<1> DEFINE p == SubSeq(c, 1, k)
<1>4. p \in Seq(A) /\ Len(p) = k /\ \A i \in 1 .. k : p[i] = c[i]
  BY <1>1, <1>3, CutInTwo
<1>5. CASE k <= Len(s)
  <2> DEFINE q == SubSeq(s, 1, k)
  <2>0. k \in 0 .. Len(s)
    BY <1>3, <1>5
  <2>1. q \in Seq(A) /\ Len(q) = k /\ \A i \in 1 .. k : q[i] = s[i]
    BY <2>0, CutInTwo
  <2> HIDE DEF p, q
  <2>2. ASSUME NEW i \in 1 .. k PROVE p[i] = q[i]
    <3>1. i \in 1 .. Len(s) + Len(t) /\ i <= Len(s)
      BY <1>1, <1>3, <1>5
    <3>2. p[i] = c[i] /\ q[i] = s[i]
      BY <1>4, <2>1
    <3>3. c[i] = s[i]
      BY <3>1, <1>2
    <3>4. QED BY <3>2, <3>3
  <2>3. p = q
    BY <2>1, <2>2, <1>4, SeqEqual
  <2>4. Len(s) <= k => k = Len(s)
    BY <1>3, <1>5
  <2>5. SubSeq(s, 1, Len(s)) = s /\ SubSeq(t, 1, 0) = <<>> /\ s \o <<>> = s
    BY SubSeqFull, SubSeqEmpty, ConcatEmptySeq
  <2>6. Len(s) <= k => p = s \o SubSeq(t, 1, k - Len(s))
    <3>1. ASSUME Len(s) <= k PROVE p = s \o SubSeq(t, 1, k - Len(s))
      <4>1. k = Len(s) /\ k - Len(s) = 0
        BY <3>1, <2>4, <1>3
      <4>2. q = s
        BY <4>1, <2>5 DEF q
      <4>3. QED BY <4>1, <4>2, <2>3, <2>5
    <3>2. QED BY <3>1
  <2>7. QED BY <2>3, <2>6 DEF c, p, q
<1>6. CASE ~ (k <= Len(s))
  <2> DEFINE u == SubSeq(t, 1, k - Len(s))
             q == s \o u
  <2>0. k - Len(s) \in 0 .. Len(t)
    BY <1>1, <1>3, <1>6
  <2>1. u \in Seq(A) /\ Len(u) = k - Len(s) /\ \A i \in 1 .. k - Len(s) : u[i] = t[i]
    BY <2>0, CutInTwo
  <2> HIDE DEF u
  <2>2. q \in Seq(A) /\ Len(q) = Len(s) + Len(u)
    BY <2>1, ConcatProperties
  <2>3. \A i \in 1 .. Len(s) + Len(u) : q[i] = IF i <= Len(s) THEN s[i] ELSE u[i - Len(s)]
    BY <2>1, ConcatProperties
  <2> HIDE DEF p, q
  <2>4. Len(q) = k
    BY <2>1, <2>2, <1>3
  <2>5. ASSUME NEW i \in 1 .. k PROVE p[i] = q[i]
    <3>1. i \in 1 .. Len(s) + Len(t) /\ i \in 1 .. Len(s) + Len(u)
      BY <1>1, <1>3, <2>1
    <3>2. p[i] = IF i <= Len(s) THEN s[i] ELSE t[i - Len(s)]
      BY <3>1, <1>2, <1>4
    <3>3. q[i] = IF i <= Len(s) THEN s[i] ELSE u[i - Len(s)]
      BY <3>1, <2>3
    <3>4. ~ (i <= Len(s)) => i - Len(s) \in 1 .. k - Len(s)
      BY <1>3
    <3>5. QED BY <3>2, <3>3, <3>4, <2>1
  <2>6. p = q
    BY <2>2, <2>4, <2>5, <1>4, SeqEqual
  <2>7. QED BY <2>6, <1>6 DEF c, p, q, u
<1>7. QED BY <1>5, <1>6
=============================================================================
