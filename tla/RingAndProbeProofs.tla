-------------------------- MODULE RingAndProbeProofs --------------------------
(***************************************************************************)
(* Machine-checked proofs about ReplayRing, for any buffer length and any  *)
(* number of drafts that the configuration admits, any ring long enough,   *)
(* and any number of requests and blocks; and, at the end, about           *)
(* HealthCheck, which shares nothing with it.                              *)
(*                                                                         *)
(* A full window always fits behind the history, so its slots are apart    *)
(* from those of the history, whatever the ring wraps around; hence what   *)
(* the next step replays is what was stored.  That a state is exact is     *)
(* inductive once prefills are in it, and owners are apart.                *)
(***************************************************************************)
EXTENDS ReplayRing, HealthCheck, TLAPS

Cursors == [write_pos : 0 .. BufferLen, cache_base : Slots, is_flush : BOOLEAN]
States == [of : SUBSET Reqs, upto : Nat]

\* A flush is due exactly when a window may not fit after the next one.
FlushDue(c) == c.is_flush = (c.write_pos + 2 * max_spec_len > max_cache_len)

CursorsOK == \A b \in Blocks : FlushDue(cursors[b])

BlocksApart == \A r, s \in Reqs : block[r] # NoBlock /\ block[r] = block[s] => r = s

PrefillExact ==
  \A r \in Reqs : block[r] # NoBlock /\ computed[r] \in 1 .. target[r]
    => checkpoint[block[r]] = StateOf(r, computed[r])

IdleAtZero == \A r \in Reqs : block[r] = NoBlock /\ r \notin finished => computed[r] = 0

SafeInv == TypeOK /\ CursorsOK

Inv == SafeInv /\ BlocksApart /\ IdleAtZero /\ PrefillExact /\ StateIsExact

-----------------------------------------------------------------------------
(* Lengths and slots.                                                      *)

LEMMA Lengths ==
  /\ NumSpec \in Nat /\ BufferLen \in Nat /\ CacheBufLen \in Nat
  /\ max_spec_len \in Nat /\ max_spec_len > 1
  /\ max_cache_len = BufferLen + max_spec_len
  /\ max_spec_len <= BufferLen /\ max_cache_len <= CacheBufLen
  /\ CacheBufLen > 0 /\ Slots = 0 .. CacheBufLen - 1
BY BufferAssumption, RingAssumption DEF max_spec_len, max_cache_len, Slots

\* A remainder, as the quotient leaves it.
LEMMA Remainder ==
  ASSUME NEW n \in Nat, NEW x \in Nat, n > 0
  PROVE  (x % n) \in 0 .. n - 1 /\ \E q \in Nat : x = n * q + (x % n)
<1>1. (x % n) \in 0 .. n - 1
  OBVIOUS
<1>2. x \div n \in Nat /\ x = n * (x \div n) + (x % n)
  OBVIOUS
<1> QED
  BY <1>1, <1>2

\* Numbers less than a ring apart fall on different slots.
LEMMA SlotsApart ==
  ASSUME NEW n \in Nat, NEW x \in Nat, NEW y \in Nat, n > 0, x < y, y < x + n
  PROVE  (x % n) # (y % n)
<1> SUFFICES ASSUME (x % n) = (y % n) PROVE FALSE
  OBVIOUS
<1>1. PICK p \in Nat : x = n * p + (x % n)
  BY Remainder
<1>2. PICK q \in Nat : y = n * q + (y % n)
  BY Remainder
<1>3. (x % n) \in Nat
  BY Remainder
<1>4. n * p < n * q /\ n * q < n * p + n
  BY <1>1, <1>2, <1>3
<1>5. CASE q <= p
  <2>1. n * q <= n * p
    BY <1>5
  <2> QED
    BY <1>4, <2>1
<1>6. CASE q >= p + 1
  <2>1. n * q >= n * (p + 1)
    BY <1>6
  <2>2. n * (p + 1) = n * p + n
    OBVIOUS
  <2> QED
    BY <1>4, <2>1, <2>2
<1> QED
  BY <1>5, <1>6

\* A remainder may be taken on the way.
LEMMA SlotOnTheWay ==
  ASSUME NEW n \in Nat, NEW x \in Nat, NEW y \in Nat, n > 0
  PROVE  ((x % n) + y) % n = (x + y) % n
<1>1. PICK q \in Nat : x = n * q + (x % n)
  BY Remainder
<1> DEFINE u == (x % n) + y
           v == x + y
<1>2. u \in Nat /\ v \in Nat /\ v = n * q + u
  BY <1>1, Remainder
<1>3. PICK k \in Nat : u = n * k + (u % n)
  BY <1>2, Remainder
<1>4. v = n * (q + k) + (u % n)
  BY <1>2, <1>3
<1>5. PICK m \in Nat : v = n * m + (v % n)
  BY <1>2, Remainder
<1>6. (u % n) \in 0 .. n - 1 /\ (v % n) \in 0 .. n - 1
  BY <1>2, Remainder
<1> HIDE DEF u, v
<1>7. m = q + k
  <2> DEFINE j == q + k
  <2>1. j \in Nat /\ v = n * j + (u % n)
    BY <1>4
  <2> HIDE DEF j
  <2>2. ~(m < j)
    <3> SUFFICES ASSUME m + 1 <= j PROVE FALSE
      BY <2>1
    <3>1. n * (m + 1) <= n * j /\ n * (m + 1) = n * m + n
      BY <2>1
    <3>2. n * m \in Nat /\ n * j \in Nat
      BY <2>1
    <3>3. v < n * m + n
      BY <1>2, <1>5, <1>6, <3>2
    <3>4. n * j <= v
      BY <1>2, <1>6, <2>1, <3>2
    <3> QED
      BY <1>2, <3>1, <3>2, <3>3, <3>4
  <2>3. ~(j < m)
    <3> SUFFICES ASSUME j + 1 <= m PROVE FALSE
      BY <2>1
    <3>1. n * (j + 1) <= n * m /\ n * (j + 1) = n * j + n
      BY <2>1
    <3> QED
      BY <1>5, <1>6, <2>1, <3>1
  <2>4. m = j
    BY <2>1, <2>2, <2>3
  <2> QED
    BY <2>4 DEF j
<1>8. (u % n) = (v % n)
  BY <1>4, <1>5, <1>6, <1>7
<1> QED
  BY <1>8 DEF u, v

-----------------------------------------------------------------------------
(* Cursors.                                                                *)

LEMMA ResetOK == Reset \in Cursors /\ FlushDue(Reset)
BY Lengths DEF Reset, Cursors, FlushDue

\* A flush comes a window early, so what a commit adds always fits.
LEMMA CommitOK ==
  ASSUME NEW c \in Cursors, NEW n \in 1 .. max_spec_len, FlushDue(c)
  PROVE  Commit(c, n) \in Cursors /\ FlushDue(Commit(c, n))
<1> DEFINE wp == IF c.is_flush THEN n ELSE c.write_pos + n
           base == IF n > 0 /\ c.is_flush
                   THEN (c.cache_base + c.write_pos) % CacheBufLen ELSE c.cache_base
           due == wp + 2 * max_spec_len > max_cache_len
<1>1. Commit(c, n) = [write_pos |-> wp, cache_base |-> base, is_flush |-> due]
  BY DEF Commit
<1>2. /\ c.write_pos \in 0 .. BufferLen /\ c.cache_base \in Slots
      /\ c.is_flush \in BOOLEAN
  BY DEF Cursors
<1>3. wp \in 0 .. BufferLen
  <2>1. CASE c.is_flush
    BY <2>1, Lengths
  <2>2. CASE ~c.is_flush
    <3>1. ~(c.write_pos + 2 * max_spec_len > max_cache_len)
      BY <2>2, <1>2 DEF FlushDue
    <3> QED
      BY <2>2, <3>1, <1>2, Lengths
  <2> QED
    BY <2>1, <2>2
<1>4. base \in Slots
  <2>1. c.cache_base + c.write_pos \in Nat
    BY <1>2, Lengths
  <2>2. (c.cache_base + c.write_pos) % CacheBufLen \in Slots
    BY <2>1, Lengths, Remainder
  <2> QED
    BY <1>2, <2>2
<1> HIDE DEF wp, base
<1>5. due \in BOOLEAN
  OBVIOUS
<1> HIDE DEF due
<1>6. Commit(c, n) \in Cursors
  BY <1>1, <1>3, <1>4, <1>5 DEF Cursors
<1>7. Commit(c, n).is_flush = due /\ Commit(c, n).write_pos = wp
  BY <1>1
<1> QED
  BY <1>6, <1>7 DEF FlushDue, due

LEMMA StepCursorsOK ==
  ASSUME SafeInv, NEW r \in Reqs, block[r] # NoBlock
  PROVE  StepCursors(r) \in Cursors /\ FlushDue(StepCursors(r))
<1>1. block[r] \in Blocks /\ accepted[r] \in 1 .. max_spec_len
  BY DEF SafeInv, TypeOK
<1>2. cursors[block[r]] \in Cursors /\ FlushDue(cursors[block[r]])
  BY <1>1 DEF SafeInv, TypeOK, CursorsOK, Cursors
<1> QED
  BY <1>1, <1>2, CommitOK, ResetOK DEF StepCursors

LEMMA ReplayedTyped ==
  ASSUME TypeOK, NEW b \in Blocks, NEW c \in Cursors
  PROVE  Replayed(b, c) \in States
<1>1. checkpoint[b] \in States /\ c.write_pos \in Nat
  BY Lengths DEF TypeOK, Cursors, States
<1> QED
  BY <1>1 DEF Replayed, States, Garbage

LEMMA StoredTyped ==
  ASSUME TypeOK, NEW r \in Reqs, block[r] # NoBlock, NEW c, NEW n \in Nat, NEW right \in Nat
  PROVE  Stored(r, c, n, right) \in [Slots -> [of : SUBSET Reqs, at : Nat]]
<1> DEFINE In(s) == \E o \in 0 .. n - 1 :
                      c.write_pos + o < CacheBufLen /\ s = Slot(c, c.write_pos + o)
           Which(s) == CHOOSE o \in 0 .. n - 1 : s = Slot(c, c.write_pos + o)
           At(s) == IF In(s) THEN IF Which(s) < right THEN Input(r, computed[r] + Which(s))
                                  ELSE Nothing
                    ELSE ring[block[r]][s]
<1>1. Stored(r, c, n, right) = [s \in Slots |-> At(s)]
  BY DEF Stored
<1>2. ASSUME NEW s \in Slots PROVE At(s) \in [of : SUBSET Reqs, at : Nat]
  <2>1. In(s) => Which(s) \in Nat
    OBVIOUS
  <2>2. computed[r] \in Nat /\ ring[block[r]][s] \in [of : SUBSET Reqs, at : Nat]
    BY DEF TypeOK
  <2> HIDE DEF In, Which
  <2> QED
    BY <2>1, <2>2 DEF Input, Nothing
<1> HIDE DEF At
<1> QED
  BY <1>1, <1>2

-----------------------------------------------------------------------------
(* Types and cursors are kept by every step.                               *)

LEMMA InitSafe == Init => SafeInv
<1> SUFFICES ASSUME Init PROVE SafeInv
  OBVIOUS
<1> DEFINE c0 == [write_pos |-> 0, cache_base |-> 0, is_flush |-> FALSE]
<1>1. c0 \in Cursors /\ FlushDue(c0)
  <2>1. 0 \in 0 .. BufferLen /\ 0 \in Slots /\ ~(0 + 2 * max_spec_len > max_cache_len)
    BY Lengths
  <2>2. c0 \in Cursors /\ c0.is_flush = FALSE /\ c0.write_pos = 0
    BY <2>1 DEF Cursors
  <2> HIDE DEF c0
  <2>3. (c0.write_pos + 2 * max_spec_len > max_cache_len) = FALSE
    BY <2>1, <2>2
  <2> QED
    BY <2>2, <2>3, Zenon DEF FlushDue
<1> HIDE DEF c0
<1>2. cursors \in [Blocks -> Cursors] /\ CursorsOK
  BY <1>1 DEF Init, CursorsOK, c0
<1>3. block \in [Reqs -> Blocks \cup {NoBlock}] /\ finished \subseteq Reqs
  BY DEF Init
<1>4. /\ target \in [Reqs -> Nat \ {0}] /\ computed \in [Reqs -> Nat]
      /\ accepted \in [Reqs -> 1 .. max_spec_len]
  BY Lengths, LengthsAssumption DEF Init
<1>5. /\ checkpoint \in [Blocks -> States]
      /\ ring \in [Blocks -> [Slots -> [of : SUBSET Reqs, at : Nat]]]
  BY DEF Init, States, Garbage, Nothing
<1> QED
  BY <1>2, <1>3, <1>4, <1>5 DEF SafeInv, TypeOK, Cursors, States

LEMMA NextSafe == SafeInv /\ [Next]_vars => SafeInv'
<1> SUFFICES ASSUME SafeInv, [Next]_vars PROVE SafeInv'
  OBVIOUS
<1> USE DEF SafeInv
<1>1. CASE UNCHANGED vars
  BY <1>1 DEF vars, TypeOK, CursorsOK, FlushDue
<1>2. ASSUME NEW r \in Reqs, NEW b \in Blocks, Admit(r, b) PROVE SafeInv'
  BY <1>2 DEF Admit, TypeOK, CursorsOK, FlushDue
<1>3. ASSUME NEW r \in Reqs, NEW n \in 1 .. target[r], Prefill(r, n) PROVE SafeInv'
  <2>1. block[r] \in Blocks /\ target[r] \in Nat /\ computed[r] + n \in Nat
    BY <1>3 DEF Prefill, TypeOK
  <2>2. StateOf(r, computed[r] + n) \in States /\ Garbage \in States
    BY <2>1 DEF StateOf, Garbage, States
  <2>3. checkpoint' \in [Blocks -> States]
    <3>1. checkpoint \in [Blocks -> States]
      BY DEF TypeOK, States
    <3> QED
      BY <3>1, <2>1, <2>2, <1>3 DEF Prefill
  <2>4. cursors' \in [Blocks -> Cursors] /\ CursorsOK'
    <3>1. cursors \in [Blocks -> Cursors] /\ cursors' = [cursors EXCEPT ![block[r]] = Reset]
      BY <1>3 DEF TypeOK, Cursors, Prefill
    <3> QED
      BY <3>1, ResetOK, <2>1 DEF CursorsOK, FlushDue
  <2>5. accepted' \in [Reqs -> 1 .. max_spec_len]
    BY <1>3, Lengths DEF Prefill, TypeOK
  <2>6. computed' \in [Reqs -> Nat]
    BY <1>3, <2>1 DEF Prefill, TypeOK
  <2> QED
    BY <1>3, <2>3, <2>4, <2>5, <2>6 DEF Prefill, TypeOK, Cursors, States
<1>4. ASSUME NEW r \in Reqs, NEW n \in 1 .. max_spec_len, NEW right \in 1 .. max_spec_len,
             Decode(r, n, right)
      PROVE  SafeInv'
  <2> DEFINE b == block[r]
             c == StepCursors(r)
  <2>1. b \in Blocks /\ computed[r] \in Nat /\ n \in Nat /\ right \in Nat
    BY <1>4, Lengths DEF Decode, TypeOK
  <2>2. c \in Cursors /\ FlushDue(c)
    BY <1>4, StepCursorsOK DEF Decode
  <2>3. /\ Replayed(b, c) \in States
        /\ Stored(r, c, n, right) \in [Slots -> [of : SUBSET Reqs, at : Nat]]
    BY <1>4, <2>1, <2>2, ReplayedTyped, StoredTyped DEF Decode
  <2>4. /\ cursors' = [cursors EXCEPT ![b] = c]
        /\ checkpoint' = IF c.is_flush THEN [checkpoint EXCEPT ![b] = Replayed(b, c)]
                         ELSE checkpoint
        /\ ring' = [ring EXCEPT ![b] = Stored(r, c, n, right)]
        /\ computed' = [computed EXCEPT ![r] = @ + right]
        /\ accepted' = [accepted EXCEPT ![r] = right]
        /\ UNCHANGED <<block, target, finished>>
    BY <1>4 DEF Decode
  <2> HIDE DEF b, c
  <2>5. cursors' \in [Blocks -> Cursors] /\ CursorsOK'
    <3>1. cursors \in [Blocks -> Cursors]
      BY DEF TypeOK, Cursors
    <3> QED
      BY <3>1, <2>1, <2>2, <2>4 DEF CursorsOK, FlushDue
  <2>6. checkpoint' \in [Blocks -> States]
    BY <2>1, <2>3, <2>4 DEF TypeOK, States
  <2>7. ring' \in [Blocks -> [Slots -> [of : SUBSET Reqs, at : Nat]]]
    BY <2>1, <2>3, <2>4 DEF TypeOK
  <2>8. computed' \in [Reqs -> Nat] /\ accepted' \in [Reqs -> 1 .. max_spec_len]
    BY <2>1, <2>4 DEF TypeOK
  <2> QED
    BY <2>4, <2>5, <2>6, <2>7, <2>8 DEF TypeOK, Cursors, States
<1>5. ASSUME NEW r \in Reqs, Preempt(r) PROVE SafeInv'
  BY <1>5 DEF Preempt, TypeOK, CursorsOK, FlushDue
<1>6. ASSUME NEW r \in Reqs, Finish(r) PROVE SafeInv'
  BY <1>6 DEF Finish, TypeOK, CursorsOK, FlushDue
<1> QED
  BY <1>1, <1>2, <1>3, <1>4, <1>5, <1>6 DEF Next

\* The state of the model has its types: above all, the position in the ring
\* never passes the buffer length, and the base stays in the ring.
THEOREM TypeCorrect == Spec => []TypeOK
<1>1. SafeInv => TypeOK
  BY DEF SafeInv
<1> QED
  BY <1>1, InitSafe, NextSafe, PTL DEF Spec

LEMMA SafeFits == SafeInv => WindowFits
<1> SUFFICES ASSUME SafeInv, NEW r \in Reqs, Decoding(r)
             PROVE  /\ StepCursors(r).write_pos + max_spec_len <= max_cache_len
                    /\ StepCursors(r).write_pos + max_spec_len <= CacheBufLen
  BY DEF WindowFits
<1>1. StepCursors(r).write_pos \in 0 .. BufferLen
  BY StepCursorsOK DEF Decoding, Cursors
<1> QED
  BY <1>1, Lengths

\* "every verify step satisfies write_pos + spec_len <= max_cache_len": a full
\* window finds room behind the history at every decode step, for every buffer
\* length and number of drafts that the configuration admits.
THEOREM WindowAlwaysFits == Spec => []WindowFits
<1> QED
  BY SafeFits, InitSafe, NextSafe, PTL DEF Spec

-----------------------------------------------------------------------------
(* What a step stores, the next one replays.                               *)

\* Slots of the history and of the window are apart, each from each.
LEMMA OwnSlots ==
  ASSUME NEW c \in Cursors, NEW i \in Nat, NEW j \in Nat,
         i # j, i < c.write_pos + max_spec_len, j < c.write_pos + max_spec_len
  PROVE  Slot(c, i) # Slot(c, j)
<1>1. c.write_pos \in 0 .. BufferLen /\ c.cache_base \in Nat
  BY Lengths DEF Cursors
<1>2. i < CacheBufLen /\ j < CacheBufLen
  BY <1>1, Lengths
<1> DEFINE x == c.cache_base + i
           y == c.cache_base + j
<1>3. x \in Nat /\ y \in Nat /\ x # y /\ x < y + CacheBufLen /\ y < x + CacheBufLen
  <2> DEFINE a == c.cache_base
  <2>1. a \in Nat /\ x = a + i /\ y = a + j /\ CacheBufLen \in Nat
    BY <1>1, Lengths
  <2> HIDE DEF a, x, y
  <2> QED
    BY <1>2, <2>1
<1>4. Slot(c, i) = x % CacheBufLen /\ Slot(c, j) = y % CacheBufLen
  BY DEF Slot
<1> HIDE DEF x, y
<1>5. CASE x < y
  BY <1>3, <1>4, <1>5, Lengths, SlotsApart
<1>6. CASE y < x
  BY <1>3, <1>4, <1>6, Lengths, SlotsApart
<1> QED
  BY <1>3, <1>5, <1>6

LEMMA SlotTyped == \A c \in Cursors, i \in Nat : Slot(c, i) \in Slots
<1> SUFFICES ASSUME NEW c \in Cursors, NEW i \in Nat PROVE Slot(c, i) \in Slots
  OBVIOUS
<1>1. c.cache_base + i \in Nat
  BY Lengths DEF Cursors
<1> QED
  BY <1>1, Lengths, Remainder DEF Slot

\* The window is stored behind the history, input by input.
LEMMA StoredWindow ==
  ASSUME NEW r \in Reqs, NEW c \in Cursors, NEW n \in 1 .. max_spec_len, NEW right \in 0 .. n,
         NEW k \in 0 .. right - 1
  PROVE  Stored(r, c, n, right)[Slot(c, c.write_pos + k)] = Input(r, computed[r] + k)
<1> DEFINE sl == Slot(c, c.write_pos + k)
           o == CHOOSE x \in 0 .. n - 1 : sl = Slot(c, c.write_pos + x)
<1>1. /\ c.write_pos \in 0 .. BufferLen /\ n \in Nat /\ n <= max_spec_len
      /\ k \in 0 .. n - 1 /\ k < right /\ max_spec_len \in Nat
  BY Lengths DEF Cursors
<1>2. c.write_pos + k < CacheBufLen /\ c.write_pos + k \in Nat
  BY <1>1, Lengths
<1>3. sl \in Slots
  BY <1>2, SlotTyped
<1>4. o = k
  <2>1. o \in 0 .. n - 1 /\ sl = Slot(c, c.write_pos + o)
    BY <1>1
  <2> HIDE DEF o
  <2>2. SUFFICES ASSUME o # k PROVE FALSE
    OBVIOUS
  <2> DEFINE u == c.write_pos + o
             v == c.write_pos + k
  <2>3. /\ u \in Nat /\ v \in Nat /\ u # v
        /\ u < c.write_pos + max_spec_len /\ v < c.write_pos + max_spec_len
    BY <1>1, <2>1, <2>2
  <2>4. Slot(c, u) = Slot(c, v)
    BY <2>1
  <2> HIDE DEF u, v
  <2> QED
    BY <2>3, <2>4, OwnSlots
<1>5. \E x \in 0 .. n - 1 : c.write_pos + x < CacheBufLen /\ sl = Slot(c, c.write_pos + x)
  BY <1>1, <1>2
<1>6. Stored(r, c, n, right)[sl] = IF o < right THEN Input(r, computed[r] + o) ELSE Nothing
  BY <1>3, <1>5 DEF Stored
<1> HIDE DEF o, sl
<1>7. Stored(r, c, n, right)[sl] = Input(r, computed[r] + k)
  BY <1>1, <1>4, <1>6
<1> QED
  BY <1>7 DEF sl

\* The history is left as it is.
LEMMA StoredHistory ==
  ASSUME NEW r \in Reqs, NEW c \in Cursors, NEW n \in 1 .. max_spec_len, NEW right,
         NEW i \in 0 .. c.write_pos - 1
  PROVE  Stored(r, c, n, right)[Slot(c, i)] = ring[block[r]][Slot(c, i)]
<1> DEFINE sl == Slot(c, i)
<1>1. c.write_pos \in 0 .. BufferLen /\ n \in Nat /\ n <= max_spec_len /\ i \in Nat
  BY Lengths DEF Cursors
<1>2. sl \in Slots
  BY <1>1, SlotTyped
<1>3. ASSUME NEW x \in 0 .. n - 1 PROVE sl # Slot(c, c.write_pos + x)
  <2> DEFINE u == c.write_pos + x
  <2>1. /\ u \in Nat /\ i # u /\ u < c.write_pos + max_spec_len
        /\ i < c.write_pos + max_spec_len
    BY <1>1, Lengths
  <2> HIDE DEF u
  <2>2. sl # Slot(c, u)
    BY <1>1, <2>1, OwnSlots
  <2> QED
    BY <2>2 DEF u
<1> HIDE DEF sl
<1>4. Stored(r, c, n, right)[sl] = ring[block[r]][sl]
  BY <1>2, <1>3 DEF Stored
<1> QED
  BY <1>4 DEF sl

\* What an exact replay says of a block.
LEMMA ExactHistory ==
  ASSUME NEW b \in Blocks, NEW c \in Cursors, NEW r \in Reqs, TypeOK,
         Replayed(b, c) = StateOf(r, computed[r])
  PROVE  /\ checkpoint[b].of = {r} /\ checkpoint[b].upto + c.write_pos = computed[r]
         /\ \A i \in 0 .. c.write_pos - 1 :
              ring[b][Slot(c, i)] = [of |-> {r}, at |-> checkpoint[b].upto + i]
<1>1. CASE ~Continues(b, c)
  <2>1. Garbage.of = StateOf(r, computed[r]).of
    BY <1>1 DEF Replayed
  <2> QED
    BY <2>1 DEF Garbage, StateOf
<1>2. CASE Continues(b, c)
  <2>1. [of |-> checkpoint[b].of, upto |-> checkpoint[b].upto + c.write_pos]
          = [of |-> {r}, upto |-> computed[r]]
    BY <1>2 DEF Replayed, StateOf
  <2>2. checkpoint[b].of = {r} /\ checkpoint[b].upto + c.write_pos = computed[r]
    BY <2>1
  <2> QED
    BY <1>2, <2>2 DEF Continues
<1> QED
  BY <1>1, <1>2

-----------------------------------------------------------------------------
(* The state is exact.                                                     *)

\* A row that a step leaves alone evaluates on the same state afterwards.
LEMMA SameRow ==
  ASSUME NEW s \in Reqs, block'[s] = block[s], target'[s] = target[s],
         computed'[s] = computed[s], accepted'[s] = accepted[s],
         cursors'[block[s]] = cursors[block[s]],
         checkpoint'[block[s]] = checkpoint[block[s]], ring'[block[s]] = ring[block[s]]
  PROVE  Replayed(block[s], StepCursors(s))' = Replayed(block[s], StepCursors(s))
<1>1. ShownPrompt(s)' = ShownPrompt(s)
  BY DEF ShownPrompt
<1>2. StepCursors(s)' = StepCursors(s)
  BY <1>1 DEF StepCursors
<1> QED
  BY <1>2 DEF Replayed, Continues

\* Rows other than r keep their state, when the step of r touches its block only.
LEMMA OtherRows ==
  ASSUME Inv, NEW r \in Reqs, NEW s \in Reqs, s # r, Decoding(s)',
         block[r] # NoBlock,
         \A t \in Reqs \ {r} : /\ block'[t] = block[t] /\ target'[t] = target[t]
                               /\ computed'[t] = computed[t] /\ accepted'[t] = accepted[t],
         \A b \in Blocks \ {block[r]} : /\ cursors'[b] = cursors[b]
                                        /\ checkpoint'[b] = checkpoint[b] /\ ring'[b] = ring[b]
  PROVE  Replayed(block[s], StepCursors(s))' = StateOf(s, computed'[s])
<1>1. Decoding(s)
  BY DEF Decoding
<1>2. block[s] \in Blocks \ {block[r]}
  BY <1>1 DEF Decoding, Inv, SafeInv, TypeOK, BlocksApart
<1>3. Replayed(block[s], StepCursors(s))' = Replayed(block[s], StepCursors(s))
  BY <1>2, SameRow
<1> QED
  BY <1>1, <1>3 DEF Inv, StateIsExact

\* The converse of ExactHistory, after a step.
LEMMA ReplayedAs ==
  ASSUME NEW r \in Reqs, NEW b, NEW e, NEW m, block'[r] = b, StepCursors(r)' = e,
         checkpoint'[b].of = {r}, checkpoint'[b].upto + e.write_pos = m,
         \A i \in 0 .. e.write_pos - 1 :
           ring'[b][Slot(e, i)] = [of |-> {r}, at |-> checkpoint'[b].upto + i]
  PROVE  Replayed(block[r], StepCursors(r))' = StateOf(r, m)
<1>1. Continues(block[r], StepCursors(r))'
  BY DEF Continues
<1>2. Replayed(block[r], StepCursors(r))'
        = [of |-> checkpoint'[b].of, upto |-> checkpoint'[b].upto + e.write_pos]
  BY <1>1 DEF Replayed
<1> QED
  BY <1>2 DEF StateOf

\* The row of r: what its step stored and folded is what the next one replays.
LEMMA DecodeRow ==
  ASSUME GrownPrompts, Inv, TypeOK', NEW r \in Reqs, NEW n \in 1 .. max_spec_len,
         NEW right \in 1 .. max_spec_len, Decode(r, n, right)
  PROVE  Replayed(block[r], StepCursors(r))' = StateOf(r, computed'[r])
<1> DEFINE b == block[r]
           c == StepCursors(r)
           e == Commit(c, right)
           st == Stored(r, c, n, right)
<1>1. /\ b \in Blocks /\ computed[r] \in Nat /\ target[r] \in Nat /\ right \in 1 .. n
      /\ right \in Nat /\ computed[r] >= target[r]
  BY Lengths DEF Decode, Inv, SafeInv, TypeOK
<1>2. c \in Cursors /\ c.write_pos \in Nat /\ c.cache_base \in Nat
  BY StepCursorsOK, Lengths DEF Decode, Inv, Cursors
<1>3. Replayed(b, c) = StateOf(r, computed[r])
  BY <1>1 DEF Inv, StateIsExact, Decoding, Decode
<1>4. /\ checkpoint[b].of = {r} /\ checkpoint[b].upto + c.write_pos = computed[r]
      /\ \A i \in 0 .. c.write_pos - 1 :
           ring[b][Slot(c, i)] = [of |-> {r}, at |-> checkpoint[b].upto + i]
  BY <1>1, <1>2, <1>3, ExactHistory DEF Inv, SafeInv
<1>5. /\ block' = block /\ computed'[r] = computed[r] + right /\ accepted'[r] = right
      /\ cursors'[b] = c /\ ring'[b] = st /\ target'[r] = target[r]
      /\ checkpoint'[b] = IF c.is_flush THEN Replayed(b, c) ELSE checkpoint[b]
  BY <1>1 DEF Decode, Inv, SafeInv, TypeOK
<1>6. StepCursors(r)' = e
  <2>1. computed'[r] # target'[r]
    BY <1>1, <1>5
  <2>2. ShownPrompt(r)' = target'[r]
    BY DEF ShownPrompt
  <2> QED
    BY <1>5, <2>1, <2>2 DEF StepCursors
<1>7. \A k \in 0 .. right - 1 :
        st[Slot(c, c.write_pos + k)] = [of |-> {r}, at |-> computed[r] + k]
  <2> SUFFICES ASSUME NEW k \in 0 .. right - 1
               PROVE  st[Slot(c, c.write_pos + k)] = [of |-> {r}, at |-> computed[r] + k]
    OBVIOUS
  <2>1. right \in 0 .. n
    BY <1>1
  <2> QED
    BY <1>2, <2>1, StoredWindow DEF Input
<1>8. \A i \in 0 .. c.write_pos - 1 :
        st[Slot(c, i)] = [of |-> {r}, at |-> checkpoint[b].upto + i]
  BY <1>2, <1>4, StoredHistory
<1>9. /\ e.write_pos = (IF c.is_flush THEN right ELSE c.write_pos + right)
      /\ e.cache_base = (IF c.is_flush THEN (c.cache_base + c.write_pos) % CacheBufLen
                         ELSE c.cache_base)
  BY <1>1 DEF Commit
<1> HIDE DEF b, c, e, st
<1> SUFFICES /\ checkpoint'[b].of = {r}
             /\ checkpoint'[b].upto + e.write_pos = computed[r] + right
             /\ \A i \in 0 .. e.write_pos - 1 :
                  st[Slot(e, i)] = [of |-> {r}, at |-> checkpoint'[b].upto + i]
  <2>1. block'[r] = b
    BY <1>5 DEF b
  <2> QED
    BY <1>5, <1>6, <2>1, ReplayedAs, SMTT(30)
<1>10. CASE c.is_flush
  <2>1. checkpoint'[b] = [of |-> {r}, upto |-> computed[r]]
    BY <1>3, <1>5, <1>10 DEF StateOf
  <2>2. checkpoint'[b].of = {r} /\ checkpoint'[b].upto = computed[r]
    BY <2>1
  <2>3. ASSUME NEW i \in 0 .. right - 1 PROVE Slot(e, i) = Slot(c, c.write_pos + i)
    <3> DEFINE x == c.cache_base + c.write_pos
    <3>1. x \in Nat /\ i \in Nat /\ CacheBufLen \in Nat /\ CacheBufLen > 0
      BY <1>1, <1>2, Lengths
    <3>2. Slot(e, i) = ((x % CacheBufLen) + i) % CacheBufLen
      BY <1>9, <1>10 DEF Slot
    <3>3. c.cache_base + (c.write_pos + i) = x + i
      BY <1>2, <3>1
    <3> HIDE DEF x
    <3>4. Slot(c, c.write_pos + i) = (x + i) % CacheBufLen
      BY <3>3 DEF Slot
    <3> QED
      BY <3>1, <3>2, <3>4, SlotOnTheWay
  <2> QED
    BY <1>7, <1>9, <1>10, <2>2, <2>3
<1>11. CASE ~c.is_flush
  <2>1. /\ checkpoint'[b] = checkpoint[b] /\ e.write_pos = c.write_pos + right
        /\ checkpoint[b].upto \in Nat
    BY <1>1, <1>5, <1>9, <1>11 DEF Inv, SafeInv, TypeOK
  <2>2. \A i \in Nat : Slot(e, i) = Slot(c, i)
    BY <1>9, <1>11 DEF Slot
  <2>3. ASSUME NEW i \in 0 .. c.write_pos + right - 1
        PROVE  st[Slot(c, i)] = [of |-> {r}, at |-> checkpoint[b].upto + i]
    <3>1. CASE i < c.write_pos
      BY <1>2, <1>8, <3>1
    <3>2. CASE i >= c.write_pos
      <4> DEFINE k == i - c.write_pos
      <4>1. k \in 0 .. right - 1 /\ i = c.write_pos + k
        BY <1>1, <1>2, <3>2
      <4>2. computed[r] + k = checkpoint[b].upto + i
        BY <1>2, <1>4, <2>1
      <4> HIDE DEF k
      <4> QED
        BY <1>7, <4>1, <4>2
    <3> QED
      BY <1>2, <3>1, <3>2
  <2>4. \A i \in 0 .. e.write_pos - 1 :
          st[Slot(e, i)] = [of |-> {r}, at |-> checkpoint'[b].upto + i]
    BY <1>1, <1>2, <2>1, <2>2, <2>3
  <2>5. checkpoint'[b].upto + e.write_pos = computed[r] + right
    BY <1>1, <1>2, <1>4, <2>1
  <2> QED
    BY <1>4, <2>1, <2>4, <2>5
<1> QED
  BY <1>10, <1>11

LEMMA InitInv == Init => Inv
<1> SUFFICES ASSUME Init PROVE Inv
  OBVIOUS
<1>1. \A r \in Reqs : block[r] = NoBlock /\ computed[r] = 0
  BY DEF Init
<1> QED
  BY <1>1, InitSafe DEF Inv, BlocksApart, IdleAtZero, PrefillExact, StateIsExact, Decoding

LEMMA NextInv == GrownPrompts /\ Inv /\ [Next]_vars => Inv'
<1> SUFFICES ASSUME GrownPrompts, Inv, [Next]_vars PROVE Inv'
  OBVIOUS
<1>1. SafeInv' /\ TypeOK /\ TypeOK'
  BY NextSafe DEF Inv, SafeInv
<1>2. CASE UNCHANGED vars
  <2>1. StateIsExact'
    <3> SUFFICES ASSUME NEW s \in Reqs, Decoding(s)'
                 PROVE  Replayed(block[s], StepCursors(s))' = StateOf(s, computed'[s])
      BY DEF StateIsExact
    <3>1. Replayed(block[s], StepCursors(s))' = Replayed(block[s], StepCursors(s))
      BY <1>2, SameRow DEF vars
    <3> QED
      BY <1>2, <3>1 DEF vars, Decoding, Inv, StateIsExact
  <2> QED
    BY <1>1, <1>2, <2>1 DEF vars, Inv, BlocksApart, IdleAtZero, PrefillExact
<1>3. ASSUME NEW r \in Reqs, NEW b \in Blocks, Admit(r, b) PROVE Inv'
  <2> USE <1>3 DEF Admit
  <2>1. computed[r] = 0 /\ target[r] \in Nat \ {0}
    BY <1>1 DEF Inv, IdleAtZero, TypeOK
  <2>2. BlocksApart'
    BY <1>1 DEF Inv, BlocksApart, TypeOK
  <2>3. IdleAtZero'
    BY <1>1, NoBlockAssumption DEF Inv, IdleAtZero, TypeOK
  <2>4. PrefillExact'
    BY <1>1, <2>1 DEF Inv, PrefillExact, TypeOK
  <2>5. StateIsExact'
    <3> SUFFICES ASSUME NEW s \in Reqs, Decoding(s)'
                 PROVE  Replayed(block[s], StepCursors(s))' = StateOf(s, computed'[s])
      BY DEF StateIsExact
    <3>1. s # r
      BY <2>1 DEF Decoding
    <3>2. block'[s] = block[s] /\ Decoding(s)
      BY <1>1, <3>1 DEF TypeOK, Decoding
    <3>3. Replayed(block[s], StepCursors(s))' = Replayed(block[s], StepCursors(s))
      BY <3>2, SameRow
    <3> QED
      BY <3>2, <3>3 DEF Inv, StateIsExact
  <2> QED
    BY <1>1, <2>2, <2>3, <2>4, <2>5 DEF Inv
<1>4. ASSUME NEW r \in Reqs, NEW n \in 1 .. target[r], Prefill(r, n) PROVE Inv'
  <2> DEFINE b == block[r]
  <2>1. /\ b \in Blocks /\ computed[r] \in Nat /\ target[r] \in Nat /\ n \in Nat /\ n > 0
        /\ computed[r] + n <= target[r]
    BY <1>1, <1>4 DEF Prefill, TypeOK
  <2>2. /\ block' = block /\ target' = target /\ finished' = finished /\ ring' = ring
        /\ computed' = [computed EXCEPT ![r] = @ + n]
        /\ accepted' = [accepted EXCEPT ![r] = 1]
        /\ cursors' = [cursors EXCEPT ![b] = Reset]
    BY <1>4 DEF Prefill
  <2>3. checkpoint' = [checkpoint EXCEPT ![b] = StateOf(r, computed[r] + n)]
    <3>1. computed[r] = 0 \/ checkpoint[b] = StateOf(r, computed[r])
      BY <1>4, <2>1 DEF Prefill, Inv, PrefillExact
    <3> QED
      BY <1>1, <1>4, <2>1, <3>1 DEF Prefill, TypeOK
  <2>4. computed'[r] = computed[r] + n /\ checkpoint'[b] = StateOf(r, computed[r] + n)
    BY <1>1, <2>1, <2>2, <2>3 DEF TypeOK
  <2>5. \A t \in Reqs \ {r} : /\ block'[t] = block[t] /\ target'[t] = target[t]
                              /\ computed'[t] = computed[t] /\ accepted'[t] = accepted[t]
    BY <1>1, <2>2 DEF TypeOK
  <2>6. \A x \in Blocks \ {b} : /\ cursors'[x] = cursors[x]
                                /\ checkpoint'[x] = checkpoint[x] /\ ring'[x] = ring[x]
    BY <1>1, <2>2, <2>3 DEF TypeOK
  <2>7. BlocksApart'
    BY <2>2 DEF Inv, BlocksApart
  <2>8. IdleAtZero'
    BY <1>4, <2>2, <2>5 DEF Prefill, Inv, IdleAtZero
  <2>9. PrefillExact'
    <3> SUFFICES ASSUME NEW s \in Reqs, block'[s] # NoBlock, computed'[s] \in 1 .. target'[s]
                 PROVE  checkpoint'[block'[s]] = StateOf(s, computed'[s])
      BY DEF PrefillExact
    <3>1. CASE s = r
      BY <2>2, <2>4, <3>1
    <3>2. CASE s # r
      <4>1. block[s] \in Blocks \ {b}
        BY <1>1, <1>4, <2>2, <3>2 DEF Prefill, Inv, BlocksApart, TypeOK
      <4> QED
        BY <2>2, <2>5, <2>6, <3>2, <4>1 DEF Inv, PrefillExact
    <3> QED
      BY <3>1, <3>2
  <2>10. StateIsExact'
    <3> SUFFICES ASSUME NEW s \in Reqs, Decoding(s)'
                 PROVE  Replayed(block[s], StepCursors(s))' = StateOf(s, computed'[s])
      BY DEF StateIsExact
    <3>1. CASE s = r
      <4>1. computed'[r] = target'[r]
        BY <2>1, <2>2, <2>4, <3>1 DEF Decoding
      <4>2. StepCursors(r)' = Reset
        BY <4>1 DEF StepCursors, ShownPrompt
      <4>3. Reset.write_pos = 0 /\ 0 .. Reset.write_pos - 1 = {}
        BY DEF Reset
      <4>4. checkpoint'[b].of = {r} /\ checkpoint'[b].upto + Reset.write_pos = computed'[r]
        BY <2>1, <2>4, <4>3 DEF StateOf
      <4>5. block'[r] = b
        BY <2>2
      <4> HIDE DEF b
      <4> QED
        BY <3>1, <4>2, <4>3, <4>4, <4>5, ReplayedAs
    <3>2. CASE s # r
      BY <1>4, <2>5, <2>6, <3>2, OtherRows DEF Prefill
    <3> QED
      BY <3>1, <3>2
  <2> QED
    BY <1>1, <2>7, <2>8, <2>9, <2>10 DEF Inv
<1>5. ASSUME NEW r \in Reqs, NEW n \in 1 .. max_spec_len, NEW right \in 1 .. max_spec_len,
             Decode(r, n, right)
      PROVE  Inv'
  <2> DEFINE b == block[r]
  <2>1. /\ b \in Blocks /\ computed[r] \in Nat /\ target[r] \in Nat
        /\ right \in Nat /\ right > 0 /\ computed[r] >= target[r]
    BY <1>1, <1>5, Lengths DEF Decode, TypeOK
  <2>2. /\ block' = block /\ target' = target /\ finished' = finished
        /\ computed' = [computed EXCEPT ![r] = @ + right]
        /\ accepted' = [accepted EXCEPT ![r] = right]
    BY <1>5 DEF Decode
  <2>3. computed'[r] = computed[r] + right
    BY <1>1, <2>2 DEF TypeOK
  <2>4. \A t \in Reqs \ {r} : /\ block'[t] = block[t] /\ target'[t] = target[t]
                              /\ computed'[t] = computed[t] /\ accepted'[t] = accepted[t]
    BY <1>1, <2>2 DEF TypeOK
  <2>5. \A x \in Blocks \ {b} : /\ cursors'[x] = cursors[x]
                                /\ checkpoint'[x] = checkpoint[x] /\ ring'[x] = ring[x]
    BY <1>1, <1>5 DEF Decode, TypeOK
  <2>6. BlocksApart'
    BY <2>2 DEF Inv, BlocksApart
  <2>7. IdleAtZero'
    BY <1>5, <2>2, <2>4 DEF Decode, Inv, IdleAtZero
  <2>8. PrefillExact'
    <3> SUFFICES ASSUME NEW s \in Reqs, block'[s] # NoBlock, computed'[s] \in 1 .. target'[s]
                 PROVE  checkpoint'[block'[s]] = StateOf(s, computed'[s])
      BY DEF PrefillExact
    <3>1. s # r
      BY <2>1, <2>2, <2>3
    <3>2. block[s] \in Blocks \ {b}
      BY <1>1, <1>5, <2>2, <3>1 DEF Decode, Inv, BlocksApart, TypeOK
    <3> QED
      BY <2>2, <2>4, <2>5, <3>1, <3>2 DEF Inv, PrefillExact
  <2>9. StateIsExact'
    <3> SUFFICES ASSUME NEW s \in Reqs, Decoding(s)'
                 PROVE  Replayed(block[s], StepCursors(s))' = StateOf(s, computed'[s])
      BY DEF StateIsExact
    <3>1. CASE s = r
      BY <1>1, <1>5, <3>1, DecodeRow
    <3>2. CASE s # r
      BY <1>5, <2>4, <2>5, <3>2, OtherRows DEF Decode
    <3> QED
      BY <3>1, <3>2
  <2> QED
    BY <1>1, <2>6, <2>7, <2>8, <2>9 DEF Inv
<1>6. ASSUME NEW r \in Reqs, Preempt(r) \/ Finish(r) PROVE Inv'
  <2>1. /\ block' = [block EXCEPT ![r] = NoBlock]
        /\ cursors' = cursors /\ checkpoint' = checkpoint /\ ring' = ring
        /\ accepted' = accepted
        /\ \A s \in Reqs \ {r} : target'[s] = target[s] /\ computed'[s] = computed[s]
    BY <1>1, <1>6 DEF Preempt, Finish, TypeOK
  <2>2. block'[r] = NoBlock /\ \A s \in Reqs \ {r} : block'[s] = block[s]
    BY <1>1, <2>1 DEF TypeOK
  <2>3. BlocksApart'
    BY <2>2 DEF Inv, BlocksApart
  <2>4. IdleAtZero'
    BY <1>1, <1>6, <2>1, <2>2 DEF Preempt, Finish, Inv, IdleAtZero, TypeOK
  <2>5. PrefillExact'
    BY <2>1, <2>2 DEF Inv, PrefillExact
  <2>6. StateIsExact'
    <3> SUFFICES ASSUME NEW s \in Reqs, Decoding(s)'
                 PROVE  Replayed(block[s], StepCursors(s))' = StateOf(s, computed'[s])
      BY DEF StateIsExact
    <3>1. s # r
      BY <2>2 DEF Decoding
    <3>2. Decoding(s)
      BY <2>1, <2>2, <3>1 DEF Decoding
    <3>3. Replayed(block[s], StepCursors(s))' = Replayed(block[s], StepCursors(s))
      BY <2>1, <2>2, <3>1, SameRow
    <3> QED
      BY <2>1, <3>1, <3>2, <3>3 DEF Inv, StateIsExact
  <2> QED
    BY <1>1, <2>3, <2>4, <2>5, <2>6 DEF Inv
<1> QED
  BY <1>2, <1>3, <1>4, <1>5, <1>6 DEF Next

\* A decode step evaluates its window on the state after exactly the inputs its
\* request has kept, for every buffer length, number of drafts, ring, block and
\* request; if the prompt length that the runner shows for a resumed request
\* counts all that it prefills again.
THEOREM StaysExact ==
  ASSUME GrownPrompts = TRUE
  PROVE  Spec => []StateIsExact
<1>1. Init => Inv
  BY InitInv
<1>2. Inv /\ [Next]_vars => Inv'
  BY NextInv
<1>3. Inv => StateIsExact
  BY DEF Inv
<1> QED
  BY <1>1, <1>2, <1>3, PTL DEF Spec

-----------------------------------------------------------------------------
(***************************************************************************)
(* The probe never kills a boot it has not seen working, and only after    *)
(* three failures in a row: proved for the probe at every step, whatever   *)
(* the engine does between two of them.                                    *)
(*                                                                         *)
(* The invariant ties the files to what happened since the boot they are   *)
(* of: nothing is known of the files of another boot, and a probe never    *)
(* acts on those.                                                          *)
(***************************************************************************)

FileStates ==
  [boot : {"none", "this", "other"}, fail : 0 .. Limit, ready : BOOLEAN, last : {"none", "read"}]

\* The files of this boot claim no more than what happened since.
FilesEarned ==
  files.boot = "this" => /\ files.ready => answered
                         /\ files.fail <= misses

KillEarned == engine = "exiting" => answered /\ misses = Limit

HealthInv == HealthTypeOK /\ FilesEarned /\ KillEarned

\* What a step of the probe may know of the files when it ends.
AsOnFile(kept) ==
  /\ kept \in FileStates
  /\ kept.boot = "this" /\ kept.ready = files.ready /\ kept.fail = files.fail

-----------------------------------------------------------------------------
LEMMA HealthInitInv == ASSUME HealthInit PROVE HealthInv
<1>1. files = [boot |-> "none", fail |-> 0, ready |-> FALSE, last |-> "none"]
  BY DEF HealthInit, Rekeyed
<1>2. files \in FileStates /\ files.boot = "none"
  BY <1>1 DEF FileStates, Limit
<1>3. misses \in 0 .. Limit
  BY DEF HealthInit, Limit
<1>4. HealthTypeOK
  BY <1>2, <1>3 DEF HealthInit, HealthTypeOK, FileStates, Engines, Works
<1>5. FilesEarned /\ KillEarned
  BY <1>2 DEF HealthInit, FilesEarned, KillEarned
<1> QED
  BY <1>4, <1>5 DEF HealthInv

LEMMA ReadingIsAsOnFile ==
  ASSUME HealthInv, probe # "off"
  PROVE  AsOnFile(files) /\ AsOnFile([files EXCEPT !.last = "read"])
<1>1. files \in FileStates /\ files.boot = "this"
  BY DEF HealthInv, HealthTypeOK, FileStates
<1> QED
  BY <1>1 DEF AsOnFile, FileStates

\* Success is what the history calls success.
LEMMA SucceedKeeps ==
  ASSUME HealthInv, NEW kept, AsOnFile(kept), Succeed(kept), engine # "exiting",
         work' = work, advanced' \in BOOLEAN
  PROVE  HealthInv'
<1>1. files' = [kept EXCEPT !.fail = 0, !.ready = TRUE]
  BY DEF Succeed, Ok
<1>2. files' \in FileStates /\ files'.boot = "this" /\ files'.fail = 0
  <2>1. 0 \in 0 .. Limit
    BY DEF Limit
  <2> QED
    BY <1>1, <2>1 DEF AsOnFile, FileStates
<1>3. misses' \in 0 .. Limit /\ misses' = 0 /\ answered' /\ probe' = "off"
        /\ answered' = TRUE /\ engine' = engine
  BY DEF Succeed, Limit
<1>4. HealthTypeOK'
  BY <1>2, <1>3 DEF HealthInv, HealthTypeOK, FileStates
<1>5. FilesEarned' /\ KillEarned'
  BY <1>2, <1>3 DEF FilesEarned, KillEarned
<1> QED
  BY <1>4, <1>5 DEF HealthInv

\* A failure that kills is the third at least: there are never fewer failures
\* than the file says.
LEMMA FailKeeps ==
  ASSUME HealthInv, NEW kept, AsOnFile(kept), Fail(kept), probe # "off",
         work' = work, advanced' \in BOOLEAN
  PROVE  HealthInv'
<1>1. misses \in 0 .. 3 /\ kept.fail \in 0 .. 3 /\ misses' = IF misses < 3 THEN misses + 1 ELSE misses
  BY DEF HealthInv, HealthTypeOK, Fail, OneMore, Limit, AsOnFile, FileStates
<1>2. files.boot = "this" /\ (kept.ready => answered) /\ kept.fail <= misses
  BY DEF HealthInv, HealthTypeOK, FilesEarned, AsOnFile
<1>3. CASE kept.ready
  <2>1. files' = [kept EXCEPT !.fail = IF kept.fail < 3 THEN kept.fail + 1 ELSE kept.fail]
    BY <1>3 DEF Fail, Bad, OneMore, Limit
  <2>2. /\ files' \in FileStates /\ files'.boot = "this" /\ files'.ready
        /\ files'.fail = IF kept.fail < 3 THEN kept.fail + 1 ELSE kept.fail
    BY <1>1, <1>3, <2>1 DEF AsOnFile, FileStates, Limit
  <2>3. answered' /\ answered' = answered /\ probe' = "off"
    BY <1>2, <1>3 DEF Fail, HealthInv, HealthTypeOK
  <2>4. engine' = IF kept.fail + 1 >= 3 THEN "exiting" ELSE engine
    BY <1>3 DEF Fail, Bad, Limit
  <2>5. FilesEarned' /\ KillEarned'
    BY <1>1, <1>2, <2>2, <2>3, <2>4 DEF HealthInv, FilesEarned, KillEarned, Limit
  <2>6. HealthTypeOK'
    BY <1>1, <2>2, <2>3, <2>4 DEF HealthInv, HealthTypeOK, Engines, FileStates, Limit
  <2> QED
    BY <2>5, <2>6 DEF HealthInv
<1>4. CASE ~kept.ready
  <2>1. files' = kept /\ engine' = engine /\ answered' = answered /\ probe' = "off"
    BY <1>4 DEF Fail, Bad
  <2>2. FilesEarned' /\ KillEarned'
    BY <1>1, <1>2, <1>4, <2>1 DEF HealthInv, FilesEarned, KillEarned, Limit
  <2>3. HealthTypeOK'
    BY <1>1, <2>1 DEF HealthInv, HealthTypeOK, AsOnFile, FileStates, Limit
  <2> QED
    BY <2>2, <2>3 DEF HealthInv
<1> QED
  BY <1>3, <1>4

LEMMA StartProbeKeeps == ASSUME HealthInv, StartProbe PROVE HealthInv'
<1>1. CASE files.boot = "this"
  BY <1>1 DEF HealthInv, HealthTypeOK, FilesEarned, KillEarned, StartProbe, Keyed, history
<1>2. CASE files.boot # "this"
  BY <1>2 DEF HealthInv, HealthTypeOK, FilesEarned, KillEarned, StartProbe, Keyed, Rekeyed, history, Limit
<1> QED
  BY <1>1, <1>2

LEMMA MetricsUnreachableKeeps == ASSUME HealthInv, MetricsUnreachable PROVE HealthInv'
<1>1. Fail(files) /\ probe # "off" /\ work' = work /\ advanced' \in BOOLEAN
  BY DEF MetricsUnreachable, HealthInv, HealthTypeOK
<1> QED
  BY <1>1, ReadingIsAsOnFile, FailKeeps

LEMMA ReadMetricsKeeps == ASSUME HealthInv, ReadMetrics PROVE HealthInv'
<1> DEFINE read == [files EXCEPT !.last = "read"]
<1>1. /\ probe # "off" /\ engine # "exiting" /\ work' = work /\ advanced' \in BOOLEAN
      /\ AsOnFile(read)
  BY ReadingIsAsOnFile DEF ReadMetrics
<1>2. CASE Succeed(read)
  BY <1>1, <1>2, SucceedKeeps
<1>3. CASE Fail(read)
  BY <1>1, <1>3, FailKeeps
<1>4. CASE files' = read /\ probe' = "generate" /\ UNCHANGED <<engine, history>>
  <2>1. files' \in FileStates /\ files'.boot = "this"
        /\ files'.ready = files.ready /\ files'.fail = files.fail
    BY <1>1, <1>4 DEF AsOnFile
  <2> QED
    BY <1>1, <1>4, <2>1 DEF HealthInv, HealthTypeOK, FilesEarned, KillEarned, history, FileStates
<1> QED
  BY <1>2, <1>3, <1>4 DEF ReadMetrics

LEMMA GenerateEndsKeeps == ASSUME HealthInv, Answered \/ Unanswered PROVE HealthInv'
<1>1. probe # "off" /\ work' = work /\ advanced' \in BOOLEAN
  BY DEF Answered, Unanswered, HealthInv, HealthTypeOK
<1>2. CASE Answered
  BY <1>1, <1>2, ReadingIsAsOnFile, SucceedKeeps DEF Answered
<1>3. CASE Unanswered
  BY <1>1, <1>3, ReadingIsAsOnFile, FailKeeps DEF Unanswered
<1> QED
  BY <1>2, <1>3

\* A restart leaves the files to nobody until a probe has looked at them.
LEMMA RestartKeeps == ASSUME HealthInv, Restart PROVE HealthInv'
<1>1. files' = [files EXCEPT !.boot = IF files.boot = "this" THEN "other" ELSE files.boot]
  BY DEF Restart
<1>2. files' \in FileStates /\ files'.boot # "this"
  BY <1>1 DEF HealthInv, HealthTypeOK, FileStates
<1>3. misses' \in 0 .. Limit
  BY DEF Restart, Limit
<1>4. HealthTypeOK'
  BY <1>2, <1>3 DEF HealthTypeOK, Restart, Engines, Works, FileStates
<1>5. FilesEarned' /\ KillEarned'
  BY <1>2 DEF FilesEarned, KillEarned, Restart
<1> QED
  BY <1>4, <1>5 DEF HealthInv

\* The engine, and a probe that is given up, touch neither the files nor the
\* history, and the engine does not end of itself here.
LEMMA EngineKeeps ==
  ASSUME HealthInv, GiveUp \/ BootDone \/ Hang \/ Arrive \/ Generate \/ Drain
  PROVE  HealthInv'
<1>1. CASE GiveUp
  BY <1>1 DEF HealthInv, HealthTypeOK, FilesEarned, KillEarned, GiveUp, history
<1>2. CASE BootDone \/ Hang
  BY <1>2 DEF HealthInv, HealthTypeOK, FilesEarned, KillEarned, BootDone, Hang, engineOnly, history, Engines
<1>3. CASE Arrive \/ Generate \/ Drain
  BY <1>3 DEF HealthInv, HealthTypeOK, FilesEarned, KillEarned, Arrive, Generate, Drain, Serving,
              engineOnly, history, Works
<1> QED
  BY <1>1, <1>2, <1>3

LEMMA NextKeeps == HealthInv /\ [HealthNext]_healthVars => HealthInv'
<1> SUFFICES ASSUME HealthInv, [HealthNext]_healthVars PROVE HealthInv'
  OBVIOUS
<1>1. CASE Probe
  BY <1>1, StartProbeKeeps, MetricsUnreachableKeeps, ReadMetricsKeeps, GenerateEndsKeeps DEF Probe
<1>2. CASE Exit \/ Crash
  BY <1>2, RestartKeeps DEF Exit, Crash
<1>3. CASE GiveUp \/ BootDone \/ Hang \/ Arrive \/ Generate \/ Drain
  BY <1>3, EngineKeeps
<1>4. CASE UNCHANGED healthVars
  BY <1>4 DEF healthVars, HealthInv, HealthTypeOK, FilesEarned, KillEarned
<1> QED
  BY <1>1, <1>2, <1>3, <1>4 DEF HealthNext

LEMMA Inductive == HealthSpec => []HealthInv
BY HealthInitInv, NextKeeps, PTL DEF HealthSpec

\* The state stays well formed, and a probe under way always works on files of
\* the boot it runs in.
THEOREM HealthTypeCorrect == HealthSpec => []HealthTypeOK
<1>1. HealthInv => HealthTypeOK
  BY DEF HealthInv
<1> QED
  BY <1>1, Inductive, PTL

\* Rule 1 of the script: no boot is killed before a probe of that boot found it
\* well, so that kills cannot feed themselves across restarts.
THEOREM NoKillBeforeReady == HealthSpec => []KilledHasServed
<1>1. HealthInv => KilledHasServed
  BY DEF HealthInv, KillEarned, KilledHasServed
<1> QED
  BY <1>1, Inductive, PTL

\* The three failures that kill are in a row and of one boot.
THEOREM KillTakesThree == HealthSpec => []KilledAfterThree
<1>1. HealthInv => KilledAfterThree
  BY DEF HealthInv, KillEarned, KilledAfterThree
<1> QED
  BY <1>1, Inductive, PTL
=============================================================================
