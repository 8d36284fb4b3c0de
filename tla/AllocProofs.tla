----------------------------- MODULE AllocProofs -----------------------------
(***************************************************************************)
(* Proofs about the extent allocator and the statistics thread beside it.  *)
(*                                                                         *)
(* AllocInv is inductive.  It ties together what the code keeps in three   *)
(* places: the links (Listed: each list has an order q that next and prev  *)
(* follow), the bitmaps (Sound: the bits past the slots are set, nfree     *)
(* counts the clear ones, none is below the hint) and the slots handed out *)
(* (Marked: those whose bits are set).  From it follow the properties of   *)
(* ExtentAlloc and StoreStats, for heaps, extents, classes and bitmap      *)
(* words of any size.                                                      *)
(***************************************************************************)
EXTENDS StoreStats, FiniteSetTheorems, TLAPS

-----------------------------------------------------------------------------
(* The invariant.                                                          *)

(* The lists: M is the set of extents on list l, q their order.            *)
Chain(L, l, M, n, q) ==
  /\ n \in Nat
  /\ q \in [0..(n - 1) -> Extents]
  /\ \A i, j \in 0..(n - 1) : q[i] = q[j] => i = j
  /\ \A e \in Extents : e \in M <=> \E i \in 0..(n - 1) : q[i] = e
  /\ L.head[l] = IF n = 0 THEN EXT_NONE ELSE q[0]
  /\ \A i \in 0..(n - 1) :
       /\ L.next[q[i]] = IF i = n - 1 THEN EXT_NONE ELSE q[i + 1]
       /\ L.prev[q[i]] = IF i = 0 THEN EXT_NONE ELSE q[i - 1]

(* L links the lists that B says.                                          *)
Linked(L) ==
  /\ L = [next |-> L.next, prev |-> L.prev, head |-> L.head]
  /\ L.next \in [Extents -> Link]
  /\ L.prev \in [Extents -> Link]
  /\ L.head \in [Heads -> Link]

Listed(L, B) ==
  /\ Linked(L)
  /\ B \in [Heads -> SUBSET Extents]
  /\ \A l, m \in Heads : l # m => B[l] \cap B[m] = {}
  /\ \A l \in Heads : \E n, q : Chain(L, l, B[l], n, q)

(* The lists the extents X belong on.                                      *)
Filed(X) ==
  [l \in Heads |-> {e \in Extents : IF l = FREE THEN X[e].used = 0
                                    ELSE X[e].used = 1 /\ X[e].cls = l /\ X[e].nfree > 0}]

(* The slots of extent x that are handed out.                              *)
Taken(x) == {s \in 0..(x.nslots - 1) : s % WORD \in x.bm[s \div WORD]}

(* An extent in use: the bits past its slots are set, its count is the     *)
(* number of clear bits, and none is below the hint.                       *)
Sound(x) ==
  /\ x \in Extent
  /\ x.used = 1
  /\ x.nslots = EXT_GRAINS \div (x.cls + 1)
  /\ \A w \in Words, b \in Bits : SlotOf(w, b) >= x.nslots => b \in x.bm[w]
  /\ x.nfree = x.nslots - Cardinality(Taken(x))
  /\ \A w \in Words : w < x.hint => x.bm[w] = Bits

(* The slot s of extent e, of class c.                                     *)
Slot(e, c, s) == [grain |-> e * EXT_GRAINS + s * (c + 1), len |-> c + 1]

(* The slots handed out are those whose bits are set.                      *)
Names(X, e, h) == X[e].used = 1 /\ \E s \in Taken(X[e]) : h = Slot(e, X[e].cls, s)

Marked(X, H) == \A h : h \in H <=> \E e \in Extents : Names(X, e, h)

Used(X) == {e \in Extents : X[e].used = 1}

Bytes(H) == UNION {GrainsOf(h) : h \in H}

AllSound(X) ==
  /\ X \in [Extents -> Extent]
  /\ \A e \in Extents : X[e].used = 1 => Sound(X[e])

(* Lists, extents and slots handed out agree.                              *)
Heap(L, X, H) == AllSound(X) /\ Listed(L, Filed(X)) /\ Marked(X, H)

AllocInv ==
  /\ Heap(Lists, ext, held)
  /\ \A e \in Extents : ext[e].used = 1 => Taken(ext[e]) # {}
  /\ extents_used = Cardinality(Used(ext))
  /\ peak \in 0..NExtents
  /\ slot_bytes = ALLOC_GRAIN * Cardinality(Bytes(held))

StatsInv ==
  /\ warned \in 0..3 /\ said \in 0..3
  /\ said <= warned
  /\ Pct(extents_used) < Calm => said = 0

-----------------------------------------------------------------------------
(* Arithmetic.                                                             *)

LEMMA ZeroOne == 0 # 1
  OBVIOUS

LEMMA LeastNat ==
  ASSUME NEW S \in SUBSET Nat, S # {}
  PROVE  \E m \in S : \A k \in S : m <= k
  <1> DEFINE R == OpToRel(<, Nat)
  <1>1. IsWellFoundedOn(R, Nat)
    BY NatLessThanWellFounded, Zenon
  <1>2. PICK x \in S : \A y \in S : ~ (<<y, x>> \in R)
    <2> HIDE DEF R
    <2> QED
      BY <1>1, WFMin, Zenon
  <1>3. \A y \in S : ~(y < x)
    BY <1>2, Zenon DEF OpToRel
  <1> QED
    BY <1>3

LEMMA MinIs ==
  ASSUME NEW S \in SUBSET Nat, S # {}
  PROVE  Min(S) \in S /\ \A k \in S : Min(S) <= k
  BY LeastNat, Zenon DEF Min

LEMMA Division ==
  ASSUME NEW a \in Nat, NEW b \in Nat \ {0}
  PROVE  /\ a \div b \in Nat /\ a % b \in Nat /\ a % b < b
         /\ a = (a \div b) * b + (a % b)
  <1> DEFINE q == a \div b
             r == a % b
  <1>1. a = b * q + r /\ 0 <= r /\ r < b
    OBVIOUS
  <1>2. q \in Nat /\ r \in Nat
    OBVIOUS
  <1> HIDE DEF q, r
  <1>3. a = q * b + r
    BY <1>1, <1>2
  <1> QED
    BY <1>1, <1>2, <1>3, Zenon DEF q, r

LEMMA Times ==
  ASSUME NEW i \in Nat, NEW j \in Nat, NEW d \in Nat, i < j
  PROVE  i * d \in Nat /\ j * d \in Nat /\ i * d + d <= j * d
  <1>1. PICK k \in Nat : j = i + 1 + k
    <2>1. j - i - 1 \in Nat /\ j = i + 1 + (j - i - 1)
      OBVIOUS
    <2> QED
      BY <2>1, Zenon
  <1>2. j * d = i * d + d + k * d
    BY <1>1
  <1>3. k * d \in Nat /\ i * d \in Nat
    OBVIOUS
  <1> QED
    BY <1>2, <1>3

LEMMA Quotient ==
  ASSUME NEW q \in Nat, NEW d \in Nat \ {0}, NEW r \in 0..(d - 1)
  PROVE  (q * d + r) \div d = q /\ (q * d + r) % d = r
  <1> DEFINE a == q * d + r
             p == a \div d
             s == a % d
  <1>0. a \in Nat /\ q * d \in Nat /\ r \in Nat
    OBVIOUS
  <1>1. p \in Nat /\ s \in Nat /\ s < d /\ a = p * d + s
    <2> HIDE DEF a
    <2> QED
      BY <1>0, Division, Zenon
  <1>2. a = q * d + r
    BY Zenon
  <1> HIDE DEF a, p, s
  <1>3. ~(p < q)
    <2> SUFFICES ASSUME p < q PROVE FALSE
      BY Zenon
    <2>1. p * d + d <= q * d /\ p * d \in Nat
      BY <1>1, Times, Zenon
    <2> QED
      BY <1>0, <1>1, <1>2, <2>1
  <1>4. ~(q < p)
    <2> SUFFICES ASSUME q < p PROVE FALSE
      BY Zenon
    <2>1. q * d + d <= p * d /\ p * d \in Nat
      BY <1>1, Times, Zenon
    <2> QED
      BY <1>0, <1>1, <1>2, <2>1
  <1>5. p = q
    BY <1>1, <1>3, <1>4
  <1>6. s = r
    BY <1>0, <1>1, <1>2, <1>5
  <1> QED
    BY <1>5, <1>6, Zenon DEF a, p, s

(* What the constants say.                                                 *)
LEMMA SizesKnown ==
  /\ NExtents \in Nat \ {0} /\ EXT_GRAINS \in Nat \ {0} /\ ALLOC_GRAIN \in Nat \ {0}
  /\ NCLASS \in Nat \ {0} /\ WORD \in Nat \ {0} /\ NCLASS <= EXT_GRAINS
  /\ EXT_BMWORDS \in Nat \ {0} /\ EXT_GRAINS = EXT_BMWORDS * WORD
  <1>1. /\ NExtents \in Nat \ {0} /\ EXT_GRAINS \in Nat \ {0} /\ ALLOC_GRAIN \in Nat \ {0}
        /\ NCLASS \in Nat \ {0} /\ WORD \in Nat \ {0} /\ NCLASS <= EXT_GRAINS
        /\ EXT_GRAINS % WORD = 0
    BY AllocAssumption, Zenon DEF AllocAssumption
  <1>2. PICK n, g, w : n = EXT_BMWORDS /\ g = EXT_GRAINS /\ w = WORD
    BY Zenon
  <1>3. n \in Nat /\ g = n * w + 0
    BY <1>1, <1>2, Division DEF EXT_BMWORDS
  <1>4. n # 0 /\ g = n * w
    BY <1>1, <1>2, <1>3
  <1> QED
    BY <1>1, <1>2, <1>3, <1>4, Zenon

LEMMA SlotsIn ==
  ASSUME NEW c \in Classes
  PROVE  EXT_GRAINS \div (c + 1) \in 1..EXT_GRAINS
  <1> DEFINE d == c + 1
             G == EXT_GRAINS
             n == G \div d
             m == G % d
  <1>1. d \in Nat \ {0} /\ G \in Nat \ {0} /\ d <= G
    BY SizesKnown DEF Classes
  <1>2. n \in Nat /\ m \in Nat /\ m < d /\ G = n * d + m
    <2> HIDE DEF d, G
    <2> QED
      BY <1>1, Division, Zenon
  <1> HIDE DEF d, G, n, m
  <1>3. n # 0
    BY <1>1, <1>2
  <1>4. n <= G
    <2> SUFFICES ASSUME G < n PROVE FALSE
      BY <1>1, <1>2
    <2>1. G * d + d <= n * d /\ G * d \in Nat /\ n * d \in Nat
      BY <1>1, <1>2, Times, Zenon
    <2>2. G * d >= G
      BY <1>1
    <2> QED
      BY <1>1, <1>2, <2>1, <2>2
  <1> QED
    BY <1>1, <1>2, <1>3, <1>4 DEF n, d, G

(* The place of a slot: every grain of it is in its extent, and tells      *)
(* which slot it is of.                                                    *)
LEMMA SlotGrain ==
  ASSUME NEW e \in Extents, NEW c \in Classes, NEW s \in 0..(EXT_GRAINS \div (c + 1) - 1),
         NEW z \in GrainsOf(Slot(e, c, s))
  PROVE  z \in Grains /\ z \div EXT_GRAINS = e /\ (z % EXT_GRAINS) \div (c + 1) = s
  <1> DEFINE G == EXT_GRAINS
             d == c + 1
             n == G \div d
  <1>1. d \in Nat \ {0} /\ G \in Nat \ {0} /\ e \in Nat /\ c \in Nat /\ e < NExtents /\ c = d - 1
    BY SizesKnown DEF Classes, Extents
  <1>2. n \in Nat /\ n * d <= G
    <2> HIDE DEF G, d
    <2> DEFINE m == G % d
    <2>1. m \in Nat /\ n \in Nat /\ G = n * d + m
      BY <1>1, Division, Zenon
    <2>2. n * d \in Nat
      BY <1>1, <2>1
    <2> HIDE DEF m, n
    <2> QED
      BY <1>1, <2>1, <2>2
  <1>3. s \in Nat /\ s < n
    BY <1>2
  <1>4. s * d \in Nat /\ s * d + d <= G /\ e * G \in Nat
    <2> HIDE DEF G, d, n
    <2>1. s * d \in Nat /\ s * d + d <= n * d /\ n * d \in Nat
      BY <1>1, <1>2, <1>3, Times, Zenon
    <2> QED
      BY <1>1, <1>2, <2>1
  <1>5. z \in (e * G + s * d)..(e * G + s * d + d - 1)
    BY Zenon DEF GrainsOf, Slot
  <1> HIDE DEF G, d, n
  <1>6. PICK r, a : r = s * d /\ a = e * G
    BY Zenon
  <1>7. PICK j \in 0..(d - 1) : z = a + r + j
    <2>1. z - a - r \in 0..(d - 1) /\ z = a + r + (z - a - r)
      BY <1>1, <1>4, <1>5, <1>6
    <2> QED
      BY <2>1, Zenon
  <1>8. PICK m \in 0..(G - 1) : m = r + j
    BY <1>1, <1>4, <1>6, <1>7
  <1>9. z = e * G + m
    BY <1>1, <1>4, <1>6, <1>7, <1>8
  <1>13. m = s * d + j
    BY <1>6, <1>8, Zenon
  <1>10. z \div G = e /\ z % G = m
    <2>1. (e * G + m) \div G = e /\ (e * G + m) % G = m
      <3>1. m \in 0..(G - 1) /\ e \in Nat /\ G \in Nat \ {0}
        BY <1>1, <1>8, Zenon
      <3> QED
        BY <3>1, Quotient, Zenon
    <2> QED
      BY <1>9, <2>1, Zenon
  <1>11. m \div d = s
    BY <1>1, <1>3, <1>7, <1>13, Quotient, Zenon
  <1>12. z \in 0..(NExtents * G - 1)
    <2>1. e * G + G <= NExtents * G /\ NExtents * G \in Nat
      BY <1>1, SizesKnown, Times, Zenon
    <2> QED
      BY <1>1, <1>4, <1>8, <1>9, <2>1
  <1> QED
    BY <1>10, <1>11, <1>12, Zenon DEF Grains, G, d

(* Grain z lies in slot s of extent e.                                     *)
Within(z, e, c, s) == z \div EXT_GRAINS = e /\ (z % EXT_GRAINS) \div (c + 1) = s

LEMMA GrainWithin ==
  ASSUME NEW e \in Extents, NEW c \in Classes, NEW s \in 0..(EXT_GRAINS \div (c + 1) - 1),
         NEW z \in GrainsOf(Slot(e, c, s))
  PROVE  Within(z, e, c, s)
  BY SlotGrain DEF Within

(* Its first grain and its last.                                           *)
LEMMA SlotAt ==
  ASSUME NEW e \in Extents, NEW c \in Classes, NEW s \in 0..(EXT_GRAINS \div (c + 1) - 1)
  PROVE  LET h == Slot(e, c, s) IN
         /\ h.grain \in Grains /\ h.len = c + 1 /\ h.len \in 1..NCLASS
         /\ h \in [grain : Grains, len : 1..NCLASS]
         /\ h.grain \div EXT_GRAINS = e
         /\ (h.grain + h.len - 1) \div EXT_GRAINS = e
         /\ (h.grain % EXT_GRAINS) \div (c + 1) = s
         /\ GrainsOf(h) \in SUBSET Grains
         /\ IsFiniteSet(GrainsOf(h)) /\ Cardinality(GrainsOf(h)) = c + 1
  <1>1. PICK h : h = Slot(e, c, s)
    BY Zenon
  <1>2. c \in Nat /\ c + 1 \in 1..NCLASS /\ c + 1 \in Nat
    BY SizesKnown DEF Classes
  <1>3. h = [grain |-> h.grain, len |-> c + 1] /\ h.len = c + 1 /\ h.grain \in Int
    <2>1. EXT_GRAINS \div (c + 1) \in Nat
      BY SlotsIn, SizesKnown
    <2>2. e \in Int /\ s \in Int /\ EXT_GRAINS \in Int
      BY <2>1, SizesKnown DEF Extents
    <2>3. e * EXT_GRAINS + s * (c + 1) \in Int
      BY <1>2, <2>2
    <2> QED
      BY <1>1, <2>3, Zenon DEF Slot
  <1>4. PICK a, b \in Int : a = h.grain /\ b = h.grain + h.len - 1
    BY <1>2, <1>3
  <1>5. GrainsOf(h) = a..b /\ a \in a..b /\ b \in a..b /\ b - a + 1 = c + 1 /\ ~(a > b)
    BY <1>2, <1>3, <1>4 DEF GrainsOf
  <1>6. \A z \in GrainsOf(h) : z \in Grains /\ z \div EXT_GRAINS = e
                               /\ (z % EXT_GRAINS) \div (c + 1) = s
    <2> TAKE z \in GrainsOf(h)
    <2>1. z \in GrainsOf(Slot(e, c, s))
      BY <1>1, Zenon
    <2> QED
      BY <2>1, SlotGrain
  <1>7. IsFiniteSet(a..b) /\ Cardinality(a..b) = IF a > b THEN 0 ELSE b - a + 1
    BY FS_Interval, Zenon
  <1>8. h.grain \in GrainsOf(h) /\ h.grain + h.len - 1 \in GrainsOf(h)
    BY <1>4, <1>5, Zenon
  <1>9. IsFiniteSet(GrainsOf(h)) /\ Cardinality(GrainsOf(h)) = c + 1
    BY <1>5, <1>7, Zenon
  <1>10. GrainsOf(h) \in SUBSET Grains
    BY <1>6, Zenon
  <1>11. h \in [grain : Grains, len : 1..NCLASS]
    BY <1>2, <1>3, <1>6, <1>8, Zenon
  <1> QED
    BY <1>1, <1>2, <1>3, <1>6, <1>8, <1>9, <1>10, <1>11, Zenon

(* Where a slot is says which one it is.                                   *)
Placed(h, e, c, s) ==
  h.grain \div EXT_GRAINS = e /\ (h.grain % EXT_GRAINS) \div (c + 1) = s

LEMMA SlotPlace ==
  ASSUME NEW e \in Extents, NEW c \in Classes, NEW s \in 0..(EXT_GRAINS \div (c + 1) - 1),
         NEW h, h = Slot(e, c, s)
  PROVE  Placed(h, e, c, s)
  <1>1. Placed(Slot(e, c, s), e, c, s)
    BY SlotAt DEF Placed
  <1> QED
    BY <1>1, Zenon

-----------------------------------------------------------------------------
(* The lists.                                                              *)

LEMMA NoneIsNone == EXT_NONE \notin Extents
  BY AllocAssumption DEF AllocAssumption, Extents

(* What lst_push leaves of each link.                                      *)
Pushed(L, K, l, e) ==
  /\ Linked(K)
  /\ K.head[l] = e
  /\ \A m \in Heads : m # l => K.head[m] = L.head[m]
  /\ K.next[e] = L.head[l]
  /\ \A x \in Extents : x # e => K.next[x] = L.next[x]
  /\ L.head[l] \in Extents => K.prev[L.head[l]] = e
  /\ e # L.head[l] => K.prev[e] = EXT_NONE
  /\ \A x \in Extents : x # L.head[l] /\ x # e => K.prev[x] = L.prev[x]

LEMMA PushLinks ==
  ASSUME NEW L, Linked(L), NEW l \in Heads, NEW e \in Extents
  PROVE  Pushed(L, lst_push(L, l, e), l, e)
  BY Zenon DEF Linked, lst_push, Link, Pushed

LEMMA PushChain ==
  ASSUME NEW L, Linked(L), NEW l \in Heads, NEW e \in Extents, NEW M \in SUBSET Extents,
         NEW n, NEW q, Chain(L, l, M, n, q), e \notin M
  PROVE  \E k, p : Chain(lst_push(L, l, e), l, M \cup {e}, k, p)
  <1> DEFINE p == [i \in 0..n |-> IF i = 0 THEN e ELSE q[i - 1]]
  <1>0. PICK K : K = lst_push(L, l, e)
    BY Zenon
  <1>1. /\ n \in Nat /\ q \in [0..(n - 1) -> Extents]
        /\ \A i, j \in 0..(n - 1) : q[i] = q[j] => i = j
        /\ \A x \in Extents : x \in M <=> \E i \in 0..(n - 1) : q[i] = x
        /\ L.head[l] = IF n = 0 THEN EXT_NONE ELSE q[0]
        /\ \A i \in 0..(n - 1) :
             /\ L.next[q[i]] = IF i = n - 1 THEN EXT_NONE ELSE q[i + 1]
             /\ L.prev[q[i]] = IF i = 0 THEN EXT_NONE ELSE q[i - 1]
    BY Zenon DEF Chain
  <1>2. /\ K.head[l] = e
        /\ K.next[e] = L.head[l]
        /\ \A x \in Extents : x # e => K.next[x] = L.next[x]
        /\ L.head[l] \in Extents => K.prev[L.head[l]] = e
        /\ e # L.head[l] => K.prev[e] = EXT_NONE
        /\ \A x \in Extents : x # L.head[l] /\ x # e => K.prev[x] = L.prev[x]
    <2>1. Pushed(L, K, l, e)
      BY <1>0, PushLinks, Zenon
    <2> QED
      BY <2>1, Zenon DEF Pushed
  <1>31. PICK k : k = n + 1
    BY Zenon
  <1>3. k \in Nat /\ k - 1 = n /\ k # 0
    BY <1>1, <1>31
  <1>4. p \in [0..n -> Extents]
    BY <1>1
  <1>5. p[0] = e /\ \A i \in 1..n : p[i] = q[i - 1] /\ i - 1 \in 0..(n - 1) /\ q[i - 1] \in M
    BY <1>1
  <1> HIDE DEF p
  <1>6. \A i, j \in 0..n : p[i] = p[j] => i = j
    <2> SUFFICES ASSUME NEW i \in 0..n, NEW j \in 0..n, p[i] = p[j]
                 PROVE  i = j
      BY Zenon
    <2>1. i = 0 <=> j = 0
      BY <1>1, <1>5
    <2>2. CASE i # 0
      BY <1>1, <1>5, <2>1, <2>2
    <2> QED
      BY <2>1, <2>2, Zenon
  <1>7. \A x \in Extents : x \in M \cup {e} <=> \E i \in 0..n : p[i] = x
    <2> SUFFICES ASSUME NEW x \in Extents
                 PROVE  x \in M \cup {e} <=> \E i \in 0..n : p[i] = x
      BY Zenon
    <2>1. ASSUME x \in M PROVE \E i \in 0..n : p[i] = x
      <3>1. PICK i \in 0..(n - 1) : q[i] = x
        BY <1>1, <2>1, Zenon
      <3>2. i + 1 \in 1..n /\ i + 1 \in 0..n /\ i + 1 - 1 = i
        BY <1>1
      <3> QED
        BY <1>5, <3>1, <3>2
    <2>2. 0 \in 0..n
      BY <1>1
    <2>3. ASSUME NEW i \in 0..n, p[i] = x PROVE x \in M \cup {e}
      BY <1>1, <1>5, <2>3
    <2> QED
      BY <1>5, <2>1, <2>2, <2>3, Zenon
  <1>8. \A i \in 0..n : K.next[p[i]] = IF i = n THEN EXT_NONE ELSE p[i + 1]
    <2> SUFFICES ASSUME NEW i \in 0..n
                 PROVE  K.next[p[i]] = IF i = n THEN EXT_NONE ELSE p[i + 1]
      BY Zenon
    <2>1. CASE i = 0
      BY <1>1, <1>2, <1>5, <2>1
    <2>2. CASE i # 0
      <3>1. i \in 1..n /\ p[i] = q[i - 1] /\ i - 1 \in 0..(n - 1) /\ p[i] # e /\ p[i] \in Extents
        BY <1>1, <1>5, <2>2
      <3>2. K.next[p[i]] = L.next[q[i - 1]]
        BY <1>2, <3>1, Zenon
      <3>3. L.next[q[i - 1]] = IF i - 1 = n - 1 THEN EXT_NONE ELSE q[i - 1 + 1]
        BY <1>1, <3>1, Zenon
      <3>4. i # n => i + 1 \in 1..n /\ i + 1 - 1 = i - 1 + 1
        BY <1>1
      <3>5. i # n => p[i + 1] = q[i - 1 + 1]
        BY <1>5, <3>4
      <3>6. i = n <=> i - 1 = n - 1
        BY <1>1
      <3> QED
        BY <3>2, <3>3, <3>5, <3>6, Zenon
    <2> QED
      BY <2>1, <2>2, Zenon
  <1>9. \A i \in 0..n : K.prev[p[i]] = IF i = 0 THEN EXT_NONE ELSE p[i - 1]
    <2> SUFFICES ASSUME NEW i \in 0..n
                 PROVE  K.prev[p[i]] = IF i = 0 THEN EXT_NONE ELSE p[i - 1]
      BY Zenon
    <2>1. CASE i = 0
      <3>1. e # L.head[l]
        BY <1>1, NoneIsNone
      <3> QED
        BY <1>2, <1>5, <2>1, <3>1, Zenon
    <2>2. CASE i = 1
      <3>1. n # 0 /\ p[1] = q[0] /\ L.head[l] = q[0] /\ q[0] \in Extents
        BY <1>1, <1>5, <2>2
      <3> QED
        BY <1>2, <1>5, <2>2, <3>1
    <2>3. CASE i \in 2..n
      <3>1. /\ i - 1 \in 0..(n - 1) /\ p[i] = q[i - 1] /\ i - 1 # 0 /\ p[i] \in Extents /\ p[i] # e
            /\ p[i - 1] = q[i - 1 - 1]
        BY <1>1, <1>5, <2>3
      <3>2. L.head[l] = q[0] /\ q[0] # q[i - 1]
        BY <1>1, <2>3, <3>1
      <3>3. K.prev[p[i]] = L.prev[q[i - 1]]
        BY <1>2, <3>1, <3>2, Zenon
      <3> QED
        BY <1>1, <3>1, <3>3, <2>3
    <2> QED
      BY <1>1, <2>1, <2>2, <2>3
  <1>10. Chain(K, l, M \cup {e}, k, p)
    BY <1>2, <1>3, <1>4, <1>5, <1>6, <1>7, <1>8, <1>9, ZenonT(40) DEF Chain
  <1> QED
    BY <1>0, <1>10, Zenon

(* The other lists do not change.                                          *)
LEMMA PushBeside ==
  ASSUME NEW L, Linked(L), NEW l \in Heads, NEW e \in Extents, NEW m \in Heads, m # l,
         NEW M \in SUBSET Extents, NEW n, NEW q, Chain(L, m, M, n, q),
         e \notin M, L.head[l] \notin M
  PROVE  Chain(lst_push(L, l, e), m, M, n, q)
  <1>0. PICK K : K = lst_push(L, l, e)
    BY Zenon
  <1>1. /\ n \in Nat /\ q \in [0..(n - 1) -> Extents]
        /\ \A i, j \in 0..(n - 1) : q[i] = q[j] => i = j
        /\ \A x \in Extents : x \in M <=> \E i \in 0..(n - 1) : q[i] = x
        /\ L.head[m] = IF n = 0 THEN EXT_NONE ELSE q[0]
        /\ \A i \in 0..(n - 1) :
             /\ L.next[q[i]] = IF i = n - 1 THEN EXT_NONE ELSE q[i + 1]
             /\ L.prev[q[i]] = IF i = 0 THEN EXT_NONE ELSE q[i - 1]
    BY Zenon DEF Chain
  <1>2. /\ K.head[m] = L.head[m]
        /\ \A x \in Extents : x # e => K.next[x] = L.next[x]
        /\ \A x \in Extents : x # L.head[l] /\ x # e => K.prev[x] = L.prev[x]
    <2>1. Pushed(L, K, l, e)
      BY <1>0, PushLinks, Zenon
    <2> QED
      BY <2>1, Zenon DEF Pushed
  <1>3. \A i \in 0..(n - 1) : q[i] \in Extents /\ q[i] \in M
    BY <1>1, Zenon
  <1>4. \A i \in 0..(n - 1) : K.next[q[i]] = L.next[q[i]] /\ K.prev[q[i]] = L.prev[q[i]]
    BY <1>2, <1>3, Zenon
  <1>5. Chain(K, m, M, n, q)
    BY <1>1, <1>2, <1>4, ZenonT(40) DEF Chain
  <1> QED
    BY <1>0, <1>5, Zenon

(* What lst_remove leaves of each link.                                    *)
Removed(L, K, l, e) ==
  /\ Linked(K)
  /\ K.head[l] = IF L.prev[e] = EXT_NONE THEN L.next[e] ELSE L.head[l]
  /\ \A m \in Heads : m # l => K.head[m] = L.head[m]
  /\ \A x \in Extents : x # e /\ x # L.prev[e] => K.next[x] = L.next[x]
  /\ L.prev[e] \in Extents /\ L.prev[e] # e => K.next[L.prev[e]] = L.next[e]
  /\ \A x \in Extents : x # e /\ x # L.next[e] => K.prev[x] = L.prev[x]
  /\ L.next[e] \in Extents /\ L.next[e] # e => K.prev[L.next[e]] = L.prev[e]

LEMMA RemoveLinks ==
  ASSUME NEW L, Linked(L), NEW l \in Heads, NEW e \in Extents
  PROVE  Removed(L, lst_remove(L, l, e), l, e)
  BY Zenon DEF Linked, lst_remove, Link, Removed

LEMMA RemoveChain ==
  ASSUME NEW L, Linked(L), NEW l \in Heads, NEW e \in Extents, NEW M \in SUBSET Extents,
         NEW n, NEW q, Chain(L, l, M, n, q), e \in M
  PROVE  \E k, p : Chain(lst_remove(L, l, e), l, M \ {e}, k, p)
  <1>0. PICK K : K = lst_remove(L, l, e)
    BY Zenon
  <1>1. /\ n \in Nat /\ q \in [0..(n - 1) -> Extents]
        /\ \A i, j \in 0..(n - 1) : q[i] = q[j] => i = j
        /\ \A x \in Extents : x \in M <=> \E i \in 0..(n - 1) : q[i] = x
        /\ L.head[l] = IF n = 0 THEN EXT_NONE ELSE q[0]
        /\ \A i \in 0..(n - 1) :
             /\ L.next[q[i]] = IF i = n - 1 THEN EXT_NONE ELSE q[i + 1]
             /\ L.prev[q[i]] = IF i = 0 THEN EXT_NONE ELSE q[i - 1]
    BY Zenon DEF Chain
  <1>2. PICK c \in 0..(n - 1) : q[c] = e
    BY <1>1, Zenon
  <1>3. /\ K.head[l] = IF L.prev[e] = EXT_NONE THEN L.next[e] ELSE L.head[l]
        /\ \A x \in Extents : x # e /\ x # L.prev[e] => K.next[x] = L.next[x]
        /\ L.prev[e] \in Extents /\ L.prev[e] # e => K.next[L.prev[e]] = L.next[e]
        /\ \A x \in Extents : x # e /\ x # L.next[e] => K.prev[x] = L.prev[x]
        /\ L.next[e] \in Extents /\ L.next[e] # e => K.prev[L.next[e]] = L.prev[e]
    <2>1. Removed(L, K, l, e)
      BY <1>0, RemoveLinks, Zenon
    <2> QED
      BY <2>1, Zenon DEF Removed
  <1>4. PICK k \in Nat : k = n - 1
    BY <1>1, <1>2
  <1> DEFINE p == [i \in 0..(k - 1) |-> IF i < c THEN q[i] ELSE q[i + 1]]
  <1>5. p \in [0..(k - 1) -> Extents]
    BY <1>1, <1>2, <1>4
  <1>6. \A i \in 0..(k - 1) : p[i] = IF i < c THEN q[i] ELSE q[i + 1]
    BY Zenon
  <1> HIDE DEF p
  <1>7. /\ L.prev[e] = IF c = 0 THEN EXT_NONE ELSE q[c - 1]
        /\ L.next[e] = IF c = n - 1 THEN EXT_NONE ELSE q[c + 1]
    BY <1>1, <1>2, Zenon
  <1>8. \A i \in 0..(k - 1) : /\ i \in 0..(n - 1) /\ i + 1 \in 0..(n - 1)
                              /\ p[i] \in Extents /\ p[i] # e
    BY <1>1, <1>2, <1>4, <1>6
  <1>9. \A i, j \in 0..(k - 1) : p[i] = p[j] => i = j
    <2> SUFFICES ASSUME NEW i \in 0..(k - 1), NEW j \in 0..(k - 1), p[i] = p[j]
                 PROVE  i = j
      BY Zenon
    <2>1. PICK a, b \in 0..(n - 1) : /\ p[i] = q[a] /\ p[j] = q[b]
                                     /\ a = (IF i < c THEN i ELSE i + 1)
                                     /\ b = (IF j < c THEN j ELSE j + 1)
      BY <1>6, <1>8, Zenon
    <2>3. q[a] = q[b]
      BY <2>1, Zenon
    <2>2. a = b
      BY <1>1, <2>3, Zenon
    <2> QED
      BY <1>2, <1>4, <2>1, <2>2
  <1>10. \A x \in Extents : x \in M \ {e} <=> \E i \in 0..(k - 1) : p[i] = x
    <2> SUFFICES ASSUME NEW x \in Extents
                 PROVE  x \in M \ {e} <=> \E i \in 0..(k - 1) : p[i] = x
      BY Zenon
    <2>1. ASSUME x \in M, x # e PROVE \E i \in 0..(k - 1) : p[i] = x
      <3>1. PICK i \in 0..(n - 1) : q[i] = x
        BY <1>1, <2>1, Zenon
      <3>2. i # c
        BY <1>2, <2>1, <3>1, Zenon
      <3>3. CASE i < c
        <4>1. i \in 0..(k - 1)
          BY <1>1, <1>2, <1>4, <3>3
        <4> QED
          BY <1>6, <3>1, <3>3, <4>1, Zenon
      <3>4. CASE i > c
        <4>1. i - 1 \in 0..(k - 1) /\ ~(i - 1 < c) /\ i - 1 + 1 = i
          BY <1>1, <1>2, <1>4, <3>4
        <4> QED
          BY <1>6, <3>1, <4>1, Zenon
      <3> QED
        BY <1>1, <1>2, <3>2, <3>3, <3>4
    <2>2. ASSUME NEW i \in 0..(k - 1), p[i] = x PROVE x \in M /\ x # e
      <3>1. \E a \in 0..(n - 1) : q[a] = x
        BY <1>6, <1>8, <2>2, Zenon
      <3> QED
        BY <1>1, <1>8, <2>2, <3>1, Zenon
    <2> QED
      BY <2>1, <2>2, Zenon
  <1>11. K.head[l] = IF k = 0 THEN EXT_NONE ELSE p[0]
    <2>1. CASE c = 0
      <3>1. K.head[l] = L.next[e]
        BY <1>3, <1>7, <2>1, Zenon
      <3>2. k # 0 => p[0] = q[1]
        <4>1. k # 0 => 0 \in 0..(k - 1) /\ ~(0 < c) /\ 0 + 1 = 1
          BY <1>1, <1>4, <2>1
        <4> QED
          BY <1>6, <4>1, Zenon
      <3> QED
        BY <1>1, <1>4, <1>7, <2>1, <3>1, <3>2
    <2>2. CASE c # 0
      <3>1. q[c - 1] \in Extents /\ L.prev[e] = q[c - 1]
        BY <1>1, <1>2, <1>7, <2>2
      <3>2. K.head[l] = L.head[l]
        BY <1>3, <3>1, NoneIsNone, Zenon
      <3>3. k # 0 /\ p[0] = q[0] /\ n # 0
        BY <1>1, <1>2, <1>4, <1>6, <2>2
      <3> QED
        BY <1>1, <3>2, <3>3, Zenon
    <2> QED
      BY <2>1, <2>2, Zenon
  <1>12. \A i \in 0..(k - 1) : K.next[p[i]] = IF i = k - 1 THEN EXT_NONE ELSE p[i + 1]
    <2> SUFFICES ASSUME NEW i \in 0..(k - 1)
                 PROVE  K.next[p[i]] = IF i = k - 1 THEN EXT_NONE ELSE p[i + 1]
      BY Zenon
    <2>1. CASE i = c - 1
      <3>1. p[i] = q[c - 1] /\ L.prev[e] = q[c - 1] /\ p[i] \in Extents /\ p[i] # e
        BY <1>2, <1>6, <1>7, <1>8, <2>1
      <3>2. K.next[p[i]] = L.next[e]
        BY <1>3, <3>1, Zenon
      <3>3. i = k - 1 <=> c = n - 1
        BY <1>1, <1>2, <1>4, <2>1
      <3>4. i # k - 1 => p[i + 1] = q[c + 1]
        BY <1>4, <1>6, <2>1
      <3> QED
        BY <1>7, <3>2, <3>3, <3>4, Zenon
    <2>2. CASE i < c - 1
      <3>1. p[i] = q[i] /\ p[i] \in Extents /\ p[i] # e /\ i \in 0..(n - 1)
        BY <1>2, <1>6, <1>8, <2>2
      <3>2. p[i] # L.prev[e]
        BY <1>1, <1>2, <1>7, <2>2, <3>1
      <3>3. K.next[p[i]] = L.next[q[i]]
        BY <1>3, <3>1, <3>2, Zenon
      <3>4. i # k - 1 /\ i # n - 1 /\ i + 1 \in 0..(k - 1) /\ p[i + 1] = q[i + 1]
        BY <1>1, <1>2, <1>4, <1>6, <2>2
      <3> QED
        BY <1>1, <3>1, <3>3, <3>4, Zenon
    <2>3. CASE i >= c
      <3>1. p[i] = q[i + 1] /\ p[i] \in Extents /\ p[i] # e /\ i + 1 \in 0..(n - 1)
        BY <1>2, <1>6, <1>8, <2>3
      <3>2. p[i] # L.prev[e]
        BY <1>1, <1>2, <1>7, <2>3, <3>1, NoneIsNone
      <3>3. K.next[p[i]] = L.next[q[i + 1]]
        BY <1>3, <3>1, <3>2, Zenon
      <3>4. L.next[q[i + 1]] = IF i + 1 = n - 1 THEN EXT_NONE ELSE q[i + 1 + 1]
        BY <1>1, <3>1, Zenon
      <3>5. i = k - 1 <=> i + 1 = n - 1
        BY <1>1, <1>4
      <3>6. i # k - 1 => p[i + 1] = q[i + 1 + 1]
        BY <1>2, <1>4, <1>6, <2>3
      <3> QED
        BY <3>3, <3>4, <3>5, <3>6, Zenon
    <2> QED
      BY <1>2, <1>4, <2>1, <2>2, <2>3
  <1>13. \A i \in 0..(k - 1) : K.prev[p[i]] = IF i = 0 THEN EXT_NONE ELSE p[i - 1]
    <2> SUFFICES ASSUME NEW i \in 0..(k - 1)
                 PROVE  K.prev[p[i]] = IF i = 0 THEN EXT_NONE ELSE p[i - 1]
      BY Zenon
    <2>1. CASE i = c
      <3>1. p[i] = q[c + 1] /\ L.next[e] = q[c + 1] /\ p[i] \in Extents /\ p[i] # e
        BY <1>1, <1>2, <1>4, <1>6, <1>7, <1>8, <2>1
      <3>2. K.prev[p[i]] = L.prev[e]
        BY <1>3, <3>1, Zenon
      <3>3. i # 0 => p[i - 1] = q[c - 1]
        BY <1>2, <1>4, <1>6, <2>1
      <3> QED
        BY <1>7, <2>1, <3>2, <3>3, Zenon
    <2>2. CASE i < c
      <3>1. p[i] = q[i] /\ p[i] \in Extents /\ p[i] # e /\ i \in 0..(n - 1)
        BY <1>2, <1>6, <1>8, <2>2, Zenon
      <3>2. p[i] # L.next[e]
        <4>1. CASE c = n - 1
          BY <1>7, <3>1, <4>1, NoneIsNone, Zenon
        <4>2. CASE c # n - 1
          <5>1. c + 1 \in 0..(n - 1) /\ i # c + 1
            BY <1>1, <1>2, <2>2, <4>2
          <5>2. q[i] # q[c + 1]
            BY <1>1, <3>1, <5>1, Zenon
          <5> QED
            BY <1>7, <3>1, <4>2, <5>2, Zenon
        <4> QED
          BY <4>1, <4>2, Zenon
      <3>3. K.prev[p[i]] = L.prev[q[i]]
        BY <1>3, <3>1, <3>2, Zenon
      <3>4. i # 0 => p[i - 1] = q[i - 1]
        BY <1>2, <1>4, <1>6, <2>2
      <3> QED
        BY <1>1, <3>1, <3>3, <3>4, Zenon
    <2>3. CASE i > c
      <3>1. p[i] = q[i + 1] /\ p[i] \in Extents /\ p[i] # e /\ i + 1 \in 0..(n - 1)
        BY <1>2, <1>6, <1>8, <2>3
      <3>2. p[i] # L.next[e]
        BY <1>1, <1>2, <1>7, <2>3, <3>1, NoneIsNone
      <3>3. K.prev[p[i]] = L.prev[q[i + 1]]
        BY <1>3, <3>1, <3>2, Zenon
      <3>4. L.prev[q[i + 1]] = q[i]
        <4>1. PICK a \in 0..(n - 1) : a = i + 1
          BY <3>1, Zenon
        <4>2. L.prev[q[a]] = IF a = 0 THEN EXT_NONE ELSE q[a - 1]
          BY <1>1, Zenon
        <4>3. a # 0 /\ a - 1 = i
          BY <1>2, <2>3, <4>1
        <4> QED
          BY <4>1, <4>2, <4>3, Zenon
      <3>5. i # 0 /\ p[i - 1] = q[i]
        <4>1. i - 1 \in 0..(k - 1) /\ ~(i - 1 < c) /\ i - 1 + 1 = i
          BY <1>2, <1>4, <2>3
        <4> QED
          BY <1>6, <4>1, <2>3, <1>2
      <3> QED
        BY <3>3, <3>4, <3>5, Zenon
    <2> QED
      BY <1>2, <1>4, <2>1, <2>2, <2>3
  <1>14. Chain(K, l, M \ {e}, k, p)
    BY <1>5, <1>9, <1>10, <1>11, <1>12, <1>13, Zenon DEF Chain
  <1> QED
    BY <1>0, <1>14, Zenon

LEMMA RemoveBeside ==
  ASSUME NEW L, Linked(L), NEW l \in Heads, NEW e \in Extents, NEW m \in Heads, m # l,
         NEW M \in SUBSET Extents, NEW n, NEW q, Chain(L, m, M, n, q),
         e \notin M, L.prev[e] \notin M, L.next[e] \notin M
  PROVE  Chain(lst_remove(L, l, e), m, M, n, q)
  <1>0. PICK K : K = lst_remove(L, l, e)
    BY Zenon
  <1>1. /\ n \in Nat /\ q \in [0..(n - 1) -> Extents]
        /\ \A i, j \in 0..(n - 1) : q[i] = q[j] => i = j
        /\ \A x \in Extents : x \in M <=> \E i \in 0..(n - 1) : q[i] = x
        /\ L.head[m] = IF n = 0 THEN EXT_NONE ELSE q[0]
        /\ \A i \in 0..(n - 1) :
             /\ L.next[q[i]] = IF i = n - 1 THEN EXT_NONE ELSE q[i + 1]
             /\ L.prev[q[i]] = IF i = 0 THEN EXT_NONE ELSE q[i - 1]
    BY Zenon DEF Chain
  <1>2. /\ K.head[m] = L.head[m]
        /\ \A x \in Extents : x # e /\ x # L.prev[e] => K.next[x] = L.next[x]
        /\ \A x \in Extents : x # e /\ x # L.next[e] => K.prev[x] = L.prev[x]
    <2>1. Removed(L, K, l, e)
      BY <1>0, RemoveLinks, Zenon
    <2> QED
      BY <2>1, Zenon DEF Removed
  <1>3. \A i \in 0..(n - 1) : q[i] \in Extents /\ q[i] \in M
    BY <1>1, Zenon
  <1>4. \A i \in 0..(n - 1) : K.next[q[i]] = L.next[q[i]] /\ K.prev[q[i]] = L.prev[q[i]]
    BY <1>2, <1>3, Zenon
  <1>5. Chain(K, m, M, n, q)
    BY <1>1, <1>2, <1>4, SMTT(30) DEF Chain
  <1> QED
    BY <1>0, <1>5, Zenon

LEMMA PushListed ==
  ASSUME NEW L, NEW B, Listed(L, B), NEW l \in Heads, NEW e \in Extents,
         \A m \in Heads : e \notin B[m]
  PROVE  Listed(lst_push(L, l, e), [B EXCEPT ![l] = @ \cup {e}])
  <1>0. PICK K, C : K = lst_push(L, l, e) /\ C = [B EXCEPT ![l] = @ \cup {e}]
    BY Zenon
  <1>1. /\ Linked(L) /\ B \in [Heads -> SUBSET Extents]
        /\ \A m, o \in Heads : m # o => B[m] \cap B[o] = {}
        /\ \A m \in Heads : \E n, q : Chain(L, m, B[m], n, q)
    BY Zenon DEF Listed
  <1>2. Linked(K)
    BY <1>0, <1>1, PushLinks, Zenon DEF Pushed
  <1>3. /\ C \in [Heads -> SUBSET Extents]
        /\ C[l] = B[l] \cup {e}
        /\ \A m \in Heads : m # l => C[m] = B[m]
    BY <1>0, <1>1, Zenon
  <1>4. \A m, o \in Heads : m # o => C[m] \cap C[o] = {}
    BY <1>1, <1>3
  <1>5. PICK n, q : Chain(L, l, B[l], n, q)
    BY <1>1, Zenon
  <1>6. L.head[l] \in B[l] \/ L.head[l] = EXT_NONE
    <2>1. /\ n \in Nat /\ q \in [0..(n - 1) -> Extents]
          /\ \A x \in Extents : x \in B[l] <=> \E i \in 0..(n - 1) : q[i] = x
          /\ L.head[l] = IF n = 0 THEN EXT_NONE ELSE q[0]
      BY <1>5, Zenon DEF Chain
    <2> QED
      BY <2>1
  <1>7. ASSUME NEW m \in Heads PROVE \E k, p : Chain(K, m, C[m], k, p)
    <2>1. CASE m = l
      BY <1>0, <1>1, <1>3, <1>5, <2>1, PushChain, Zenon
    <2>2. CASE m # l
      <3>1. PICK k, p : Chain(L, m, B[m], k, p)
        BY <1>1, Zenon
      <3>2. B[m] \in SUBSET Extents /\ e \notin B[m] /\ L.head[l] \notin B[m]
        BY <1>1, <1>6, <2>2, NoneIsNone, Zenon
      <3>3. Chain(K, m, B[m], k, p)
        BY <1>0, <1>1, <2>2, <3>1, <3>2, PushBeside, Zenon
      <3> QED
        BY <1>3, <2>2, <3>3, Zenon
    <2> QED
      BY <2>1, <2>2, Zenon
  <1>8. Listed(K, C)
    BY <1>2, <1>3, <1>4, <1>7, Zenon DEF Listed
  <1> QED
    BY <1>0, <1>8, Zenon

LEMMA RemoveListed ==
  ASSUME NEW L, NEW B, Listed(L, B), NEW l \in Heads, NEW e \in Extents, e \in B[l]
  PROVE  Listed(lst_remove(L, l, e), [B EXCEPT ![l] = @ \ {e}])
  <1>0. PICK K, C : K = lst_remove(L, l, e) /\ C = [B EXCEPT ![l] = @ \ {e}]
    BY Zenon
  <1>1. /\ Linked(L) /\ B \in [Heads -> SUBSET Extents]
        /\ \A m, o \in Heads : m # o => B[m] \cap B[o] = {}
        /\ \A m \in Heads : \E n, q : Chain(L, m, B[m], n, q)
    BY Zenon DEF Listed
  <1>2. Linked(K)
    BY <1>0, <1>1, RemoveLinks, Zenon DEF Removed
  <1>3. /\ C \in [Heads -> SUBSET Extents]
        /\ C[l] = B[l] \ {e}
        /\ \A m \in Heads : m # l => C[m] = B[m]
    BY <1>0, <1>1, Zenon
  <1>4. \A m, o \in Heads : m # o => C[m] \cap C[o] = {}
    BY <1>1, <1>3, Zenon
  <1>5. PICK n, q : Chain(L, l, B[l], n, q)
    BY <1>1, Zenon
  <1>6. /\ L.prev[e] \in B[l] \/ L.prev[e] = EXT_NONE
        /\ L.next[e] \in B[l] \/ L.next[e] = EXT_NONE
    <2>1. /\ n \in Nat /\ q \in [0..(n - 1) -> Extents]
          /\ \A x \in Extents : x \in B[l] <=> \E i \in 0..(n - 1) : q[i] = x
          /\ \A i \in 0..(n - 1) :
               /\ L.next[q[i]] = IF i = n - 1 THEN EXT_NONE ELSE q[i + 1]
               /\ L.prev[q[i]] = IF i = 0 THEN EXT_NONE ELSE q[i - 1]
      BY <1>5, Zenon DEF Chain
    <2>2. PICK i \in 0..(n - 1) : q[i] = e
      BY <2>1, Zenon
    <2>3. /\ i # n - 1 => i + 1 \in 0..(n - 1)
          /\ i # 0 => i - 1 \in 0..(n - 1)
      BY <2>1
    <2>4. \A j \in 0..(n - 1) : q[j] \in B[l]
      BY <2>1, Zenon
    <2> QED
      BY <2>1, <2>2, <2>3, <2>4, Zenon
  <1>7. ASSUME NEW m \in Heads PROVE \E k, p : Chain(K, m, C[m], k, p)
    <2>1. CASE m = l
      BY <1>0, <1>1, <1>3, <1>5, <2>1, RemoveChain, Zenon
    <2>2. CASE m # l
      <3>1. PICK k, p : Chain(L, m, B[m], k, p)
        BY <1>1, Zenon
      <3>2. /\ B[m] \in SUBSET Extents /\ e \notin B[m]
            /\ L.prev[e] \notin B[m] /\ L.next[e] \notin B[m]
        BY <1>1, <1>6, <2>2, NoneIsNone, Zenon
      <3>3. Chain(K, m, B[m], k, p)
        BY <1>0, <1>1, <2>2, <3>1, <3>2, RemoveBeside, Zenon
      <3> QED
        BY <1>3, <2>2, <3>3, Zenon
    <2> QED
      BY <2>1, <2>2, Zenon
  <1>8. Listed(K, C)
    BY <1>2, <1>3, <1>4, <1>7, Zenon DEF Listed
  <1> QED
    BY <1>0, <1>8, Zenon

Headed(L, B, l) ==
  /\ L.head[l] = EXT_NONE <=> B[l] = {}
  /\ L.head[l] # EXT_NONE => L.head[l] \in B[l]

LEMMA HeadListed ==
  ASSUME NEW L, NEW B, Listed(L, B), NEW l \in Heads
  PROVE  Headed(L, B, l)
  <1>1. PICK n, q : Chain(L, l, B[l], n, q)
    BY Zenon DEF Listed
  <1>2. /\ n \in Nat /\ q \in [0..(n - 1) -> Extents]
        /\ \A x \in Extents : x \in B[l] <=> \E i \in 0..(n - 1) : q[i] = x
        /\ L.head[l] = IF n = 0 THEN EXT_NONE ELSE q[0]
    BY <1>1, Zenon DEF Chain
  <1>3. B[l] \in SUBSET Extents
    BY Zenon DEF Listed
  <1>4. CASE n = 0
    BY <1>2, <1>3, <1>4 DEF Headed
  <1>5. CASE n # 0
    BY <1>2, <1>3, <1>5, NoneIsNone DEF Headed
  <1> QED
    BY <1>4, <1>5, Zenon

(* Following the links of a list gives its order.  The function Follow     *)
(* defines exists, since the order satisfies its equation, and the least   *)
(* place where the two differ would contradict that equation.              *)
Nth(n, q) == [k \in 0..NExtents |-> IF k < n THEN q[k] ELSE EXT_NONE]

Link_after(l, f) ==
  [k \in 0..NExtents |-> IF k = 0 THEN head[l]
                         ELSE IF f[k - 1] = EXT_NONE THEN EXT_NONE ELSE next[f[k - 1]]]

LEMMA FollowDef ==
  ASSUME NEW l
  PROVE  Follow(l) = CHOOSE f : f = Link_after(l, f)
  BY Zenon DEF Follow, Link_after

LEMMA FollowIs ==
  ASSUME NEW l, NEW M, NEW n, NEW q, Chain(Lists, l, M, n, q), n <= NExtents
  PROVE  Follow(l) = Nth(n, q)
  <1>1. /\ n \in Nat /\ q \in [0..(n - 1) -> Extents]
        /\ head[l] = IF n = 0 THEN EXT_NONE ELSE q[0]
        /\ \A i \in 0..(n - 1) : next[q[i]] = IF i = n - 1 THEN EXT_NONE ELSE q[i + 1]
    BY Zenon DEF Chain, Lists
  <1>2. NExtents \in Nat
    BY AllocAssumption, Zenon DEF AllocAssumption
  <1>3. Nth(n, q) = Link_after(l, Nth(n, q))
    <2> DEFINE g == Nth(n, q)
    <2>1. \A k \in 0..NExtents : g[k] = IF k < n THEN q[k] ELSE EXT_NONE
      BY Zenon DEF Nth
    <2> HIDE DEF g
    <2>2. ASSUME NEW k \in 0..NExtents
          PROVE  g[k] = IF k = 0 THEN head[l]
                        ELSE IF g[k - 1] = EXT_NONE THEN EXT_NONE ELSE next[g[k - 1]]
      <3>1. CASE k = 0
        BY <1>1, <1>2, <2>1, <3>1
      <3>2. CASE k # 0 /\ k - 1 < n
        <4>1. g[k - 1] = q[k - 1] /\ k - 1 \in 0..(n - 1) /\ q[k - 1] # EXT_NONE
          BY <1>1, <1>2, <2>1, <3>2, NoneIsNone
        <4>2. next[q[k - 1]] = IF k - 1 = n - 1 THEN EXT_NONE ELSE q[k - 1 + 1]
          BY <1>1, <4>1, Zenon
        <4>3. g[k] = IF k < n THEN q[k] ELSE EXT_NONE
          BY <2>1, Zenon
        <4>4. k - 1 + 1 = k /\ (k - 1 = n - 1 <=> ~(k < n))
          BY <1>1, <1>2, <3>2
        <4> QED
          BY <3>2, <4>1, <4>2, <4>3, <4>4, Zenon
      <3>3. CASE k # 0 /\ ~(k - 1 < n)
        BY <1>1, <1>2, <2>1, <3>3
      <3> QED
        BY <3>1, <3>2, <3>3, Zenon
    <2>3. g = [k \in 0..NExtents |-> g[k]]
      BY Zenon DEF g, Nth
    <2>4. g = Link_after(l, g)
      BY <2>2, <2>3, Zenon DEF Link_after
    <2> QED
      BY <2>4, Zenon DEF g
  <1>4. PICK f : f = Follow(l)
    BY Zenon
  <1>5. f = Link_after(l, f)
    <2> HIDE DEF Nth, Link_after
    <2> QED
      BY <1>3, <1>4, FollowDef, Zenon
  <1>6. PICK g : g = Nth(n, q)
    BY Zenon
  <1>7. g = Link_after(l, g)
    BY <1>3, <1>6, Zenon
  <1>8. \A k \in 0..NExtents : f[k] = g[k]
    <2> DEFINE Bad == {k \in 0..NExtents : f[k] # g[k]}
    <2>1. SUFFICES ASSUME Bad # {} PROVE FALSE
      BY Zenon
    <2>2. Bad \in SUBSET Nat
      BY <1>2
    <2>3. PICK m \in Bad : \A k \in Bad : m <= k
      <3> HIDE DEF Bad
      <3> QED
        BY <2>1, <2>2, LeastNat, Zenon
    <2>4. m \in 0..NExtents /\ f[m] # g[m]
      BY <2>3, Zenon
    <2>5. CASE m = 0
      <3>1. f[0] = head[l] /\ g[0] = head[l]
        BY <1>5, <1>7, <2>4, <2>5, Zenon DEF Link_after
      <3> QED
        BY <2>4, <2>5, <3>1, Zenon
    <2>6. CASE m # 0
      <3>1. m - 1 \in 0..NExtents /\ ~(m <= m - 1)
        BY <1>2, <2>4, <2>6
      <3>2. f[m - 1] = g[m - 1]
        BY <2>3, <3>1, Zenon
      <3>3. /\ f[m] = IF f[m - 1] = EXT_NONE THEN EXT_NONE ELSE next[f[m - 1]]
            /\ g[m] = IF g[m - 1] = EXT_NONE THEN EXT_NONE ELSE next[g[m - 1]]
        <4>1. f[m] = Link_after(l, f)[m] /\ g[m] = Link_after(l, g)[m]
          BY <1>5, <1>7, Zenon
        <4> QED
          BY <2>4, <2>6, <4>1, Zenon DEF Link_after
      <3> QED
        BY <2>4, <3>2, <3>3, Zenon
    <2> QED
      BY <2>5, <2>6, Zenon
  <1>9. f = [k \in 0..NExtents |-> f[k]] /\ g = [k \in 0..NExtents |-> g[k]]
    BY <1>5, <1>7, Zenon DEF Link_after
  <1>10. f = g
    BY <1>8, <1>9, Zenon
  <1> QED
    BY <1>4, <1>6, <1>10, Zenon

-----------------------------------------------------------------------------
(* Extents.                                                                *)

LEMMA BitAt ==
  ASSUME NEW s \in 0..(EXT_GRAINS - 1)
  PROVE  /\ s \div WORD \in Words /\ s % WORD \in Bits
         /\ SlotOf(s \div WORD, s % WORD) = s
  <1> DEFINE w == s \div WORD
             b == s % WORD
  <1>1. s \in Nat /\ s < EXT_GRAINS
    BY SizesKnown
  <1>2. w \in Nat /\ b \in Nat /\ b < WORD /\ s = w * WORD + b
    BY <1>1, SizesKnown, Division, Zenon
  <1> HIDE DEF w, b
  <1>3. w < EXT_BMWORDS
    <2> SUFFICES ASSUME ~(w < EXT_BMWORDS) PROVE FALSE
      BY Zenon
    <2>1. EXT_BMWORDS < w + 1 /\ w + 1 \in Nat
      BY <1>2, SizesKnown
    <2>2. EXT_BMWORDS * WORD + WORD <= (w + 1) * WORD /\ EXT_BMWORDS * WORD \in Nat
      BY <2>1, SizesKnown, Times, Zenon
    <2>3. (w + 1) * WORD = w * WORD + WORD /\ w * WORD \in Nat
      BY <1>2, SizesKnown
    <2> QED
      BY <1>1, <1>2, <2>2, <2>3, SizesKnown
  <1>4. w \in Words /\ b \in Bits
    BY <1>2, <1>3, SizesKnown DEF Words, Bits
  <1> QED
    BY <1>2, <1>4, Zenon DEF w, b, SlotOf

LEMMA PlaceOf ==
  ASSUME NEW w \in Words, NEW b \in Bits
  PROVE  /\ SlotOf(w, b) \in 0..(EXT_GRAINS - 1)
         /\ SlotOf(w, b) \div WORD = w /\ SlotOf(w, b) % WORD = b
  <1>1. w \in Nat /\ w < EXT_BMWORDS /\ b \in 0..(WORD - 1)
    BY SizesKnown DEF Words, Bits
  <1>2. (w * WORD + b) \div WORD = w /\ (w * WORD + b) % WORD = b
    BY <1>1, SizesKnown, Quotient, Zenon
  <1>3. w * WORD + WORD <= EXT_BMWORDS * WORD /\ w * WORD \in Nat
    BY <1>1, SizesKnown, Times, Zenon
  <1>4. w * WORD + b \in 0..(EXT_GRAINS - 1)
    BY <1>1, <1>3, SizesKnown
  <1> QED
    BY <1>2, <1>4, Zenon DEF SlotOf

LEMMA SlotSet ==
  ASSUME NEW n \in 0..EXT_GRAINS, NEW T, T \in SUBSET (0..(n - 1))
  PROVE  /\ IsFiniteSet(T) /\ Cardinality(T) \in 0..n
         /\ Cardinality(T) = n <=> T = 0..(n - 1)
  <1>1. n \in Nat /\ 0 \in Int /\ n - 1 \in Int
    BY SizesKnown
  <1>2. IsFiniteSet(0..(n - 1)) /\ Cardinality(0..(n - 1)) = n
    <2>1. PICK o, m \in Int : o = 0 /\ m = n - 1
      BY <1>1, Zenon
    <2>2. IsFiniteSet(o..m) /\ Cardinality(o..m) = IF o > m THEN 0 ELSE m - o + 1
      BY FS_Interval, Zenon
    <2>3. (IF o > m THEN 0 ELSE m - o + 1) = n
      BY <1>1, <2>1
    <2> QED
      BY <2>1, <2>2, <2>3, Zenon
  <1>3. /\ IsFiniteSet(T) /\ Cardinality(T) <= Cardinality(0..(n - 1))
        /\ Cardinality(0..(n - 1)) = Cardinality(T) => 0..(n - 1) = T
    BY <1>2, FS_Subset, Zenon
  <1>4. Cardinality(T) \in Nat
    BY <1>3, FS_CardinalityType, Zenon
  <1> QED
    BY <1>1, <1>2, <1>3, <1>4

LEMMA TakenIn ==
  ASSUME NEW x, x.nslots \in 0..EXT_GRAINS
  PROVE  /\ Taken(x) \in SUBSET (0..(x.nslots - 1)) /\ IsFiniteSet(Taken(x))
         /\ Cardinality(Taken(x)) \in 0..x.nslots
         /\ Cardinality(Taken(x)) = x.nslots <=> Taken(x) = 0..(x.nslots - 1)
  <1>1. Taken(x) \in SUBSET (0..(x.nslots - 1))
    BY Zenon DEF Taken
  <1> QED
    BY <1>1, SlotSet, Zenon

LEMMA FreshSound ==
  ASSUME NEW c \in Classes
  PROVE  LET x == ext_init(c) IN
         /\ Sound(x) /\ Taken(x) = {} /\ x.cls = c
         /\ x.nfree = x.nslots /\ x.nfree > 0
  <1>1. PICK n : n = EXT_GRAINS \div (c + 1)
    BY Zenon
  <1>2. n \in 1..EXT_GRAINS /\ n \in 0..EXT_GRAINS /\ n > 0 /\ n \in Nat
    BY <1>1, SlotsIn, SizesKnown
  <1>3. PICK x : x = ext_init(c)
    BY Zenon
  <1>4. x = [nfree |-> n, nslots |-> n, cls |-> c, used |-> 1, hint |-> 0,
             bm |-> [w \in Words |-> {b \in Bits : SlotOf(w, b) >= n}]]
    BY <1>1, <1>3, Zenon DEF ext_init
  <1>5. 0 \in Words /\ \A w \in Words : ~(w < 0)
    BY SizesKnown DEF Words
  <1>6. x \in Extent
    BY <1>2, <1>4, <1>5, Zenon DEF Extent
  <1>7. /\ x.nfree = n /\ x.nslots = n /\ x.cls = c /\ x.used = 1 /\ x.hint = 0
        /\ \A w \in Words : x.bm[w] = {b \in Bits : SlotOf(w, b) >= n}
    BY <1>4, Zenon
  <1>8. Taken(x) = {}
    <2> SUFFICES ASSUME NEW s \in Taken(x) PROVE FALSE
      BY Zenon
    <2>1. s \in 0..(n - 1) /\ s % WORD \in x.bm[s \div WORD]
      BY <1>7, Zenon DEF Taken
    <2>2. s \in 0..(EXT_GRAINS - 1)
      BY <1>2, <2>1, SizesKnown
    <2>3. SlotOf(s \div WORD, s % WORD) >= n
      BY <1>7, <2>1, <2>2, BitAt, Zenon
    <2> QED
      BY <1>2, <2>1, <2>2, <2>3, BitAt
  <1>9. \A w \in Words, b \in Bits : SlotOf(w, b) >= x.nslots => b \in x.bm[w]
    BY <1>7, Zenon
  <1>10. x.nfree = x.nslots - Cardinality(Taken(x))
    BY <1>2, <1>7, <1>8, FS_EmptySet
  <1>11. Sound(x)
    BY <1>1, <1>5, <1>6, <1>7, <1>9, <1>10, Zenon DEF Sound
  <1> QED
    BY <1>2, <1>3, <1>7, <1>8, <1>11, Zenon

(* The slot ext_take claims: free, and in the first word that has one.     *)
LEMMA TakeSlotIs ==
  ASSUME NEW x, Sound(x), x.nfree > 0
  PROVE  \E w \in Words, b \in Bits :
           /\ TakeSlot(x) = SlotOf(w, b) /\ b \notin x.bm[w]
           /\ SlotOf(w, b) \in 0..(x.nslots - 1)
           /\ \A v \in Words : v < w => x.bm[v] = Bits
  <1> DEFINE N == EXT_BMWORDS
             at(i) == (x.hint + i) % N
             I == {i \in Words : x.bm[at(i)] # Bits}
  <1>1. /\ x \in Extent /\ x.hint \in Words /\ x.nslots \in 0..EXT_GRAINS /\ x.nslots \in Nat
        /\ x.bm \in [Words -> SUBSET Bits]
        /\ \A w \in Words, b \in Bits : SlotOf(w, b) >= x.nslots => b \in x.bm[w]
        /\ x.nfree = x.nslots - Cardinality(Taken(x))
        /\ \A w \in Words : w < x.hint => x.bm[w] = Bits
    BY SizesKnown DEF Sound, Extent
  <1>2. N \in Nat \ {0} /\ x.hint \in Nat /\ x.hint < N /\ Words = 0..(N - 1)
    BY <1>1, SizesKnown DEF Words
  <1>3. PICK s \in 0..(x.nslots - 1) : s \notin Taken(x)
    <2>1. Cardinality(Taken(x)) # x.nslots
      BY <1>1
    <2> QED
      BY <1>1, <2>1, TakenIn, Zenon
  <1>4. PICK u : u = s \div WORD
    BY Zenon
  <1>5. u \in Words /\ x.bm[u] # Bits
    <2>1. s \in 0..(EXT_GRAINS - 1)
      BY <1>1, <1>3, SizesKnown
    <2>2. s % WORD \notin x.bm[s \div WORD]
      BY <1>3, Zenon DEF Taken
    <2> QED
      BY <1>4, <2>1, <2>2, BitAt, Zenon
  <1>6. u >= x.hint
    BY <1>1, <1>2, <1>5
  <1>7. ASSUME NEW v \in Words, v >= x.hint
        PROVE  v - x.hint \in Words /\ at(v - x.hint) = v
    <2>1. v - x.hint \in Words /\ x.hint + (v - x.hint) = v /\ v \in 0..(N - 1)
      BY <1>2, <1>7
    <2>2. v % N = v
      <3> HIDE DEF N
      <3>1. PICK o \in Nat : o = 0
        BY Zenon
      <3>2. (o * N + v) % N = v
        BY <1>2, <2>1, Quotient, Zenon
      <3>3. o * N + v = v
        BY <1>2, <2>1, <3>1
      <3> QED
        BY <3>2, <3>3, Zenon
    <2> QED
      BY <2>1, <2>2, Zenon
  <1>8. u - x.hint \in I
    BY <1>5, <1>6, <1>7, Zenon
  <1>9. PICK i : i = Min(I)
    BY Zenon
  <1>10. i \in I /\ \A k \in I : i <= k
    <2>1. I \in SUBSET Nat /\ I # {}
      BY <1>2, <1>8
    <2> HIDE DEF I
    <2> QED
      BY <1>9, <2>1, MinIs, Zenon
  <1>11. PICK w : w = x.hint + i
    BY Zenon
  <1>12. w \in Words /\ w >= x.hint /\ w - x.hint = i /\ at(i) = w /\ x.bm[w] # Bits
    <2>1. i \in Nat /\ i <= u - x.hint /\ i \in Words
      BY <1>2, <1>8, <1>10
    <2>2. w \in 0..(N - 1) /\ w >= x.hint /\ w - x.hint = i
      BY <1>2, <1>5, <1>6, <1>11, <2>1
    <2>3. at(i) = w
      BY <1>2, <1>7, <2>2, Zenon
    <2> QED
      BY <1>2, <1>10, <2>2, <2>3, Zenon
  <1>13. TakeWord(x) = w
    BY <1>9, <1>12, Zenon DEF TakeWord
  <1>14. PICK b : b = Min(Bits \ x.bm[w])
    BY Zenon
  <1>15. b \in Bits /\ b \notin x.bm[w]
    <2>1. Bits \ x.bm[w] \in SUBSET Nat /\ Bits \ x.bm[w] # {}
      <3>1. x.bm[w] \in SUBSET Bits
        BY <1>1, <1>12, Zenon
      <3>2. Bits \in SUBSET Nat
        BY DEF Bits
      <3> QED
        BY <1>12, <3>1, <3>2, Zenon
    <2> QED
      BY <1>14, <2>1, MinIs, Zenon
  <1>16. TakeSlot(x) = SlotOf(w, b)
    BY <1>13, <1>14, Zenon DEF TakeSlot
  <1>17. SlotOf(w, b) \in 0..(x.nslots - 1)
    <2>1. ~(SlotOf(w, b) >= x.nslots)
      BY <1>1, <1>12, <1>15, Zenon
    <2>2. SlotOf(w, b) \in 0..(EXT_GRAINS - 1)
      BY <1>12, <1>15, PlaceOf, Zenon
    <2> QED
      BY <1>1, <2>1, <2>2, SizesKnown
  <1>18. ASSUME NEW v \in Words, v < w PROVE x.bm[v] = Bits
    <2>1. CASE v < x.hint
      BY <1>1, <2>1, Zenon
    <2>2. CASE v >= x.hint
      <3>1. v - x.hint < i /\ v - x.hint \in Words /\ at(v - x.hint) = v
        BY <1>2, <1>7, <1>11, <1>12, <1>18, <2>2
      <3>2. v - x.hint \notin I
        <4>1. i \in Nat /\ v - x.hint \in Nat /\ (i <= v - x.hint <=> ~(v - x.hint < i))
          BY <1>2, <1>10, <3>1
        <4> QED
          BY <1>10, <3>1, <4>1, Zenon
      <3> QED
        BY <3>1, <3>2, Zenon
    <2> QED
      BY <1>2, <2>1, <2>2
  <1> QED
    BY <1>12, <1>15, <1>16, <1>17, <1>18, Zenon

(* What a record keeps when bits, hint and count are set.                  *)
LEMMA TakeSound ==
  ASSUME NEW x, Sound(x), x.nfree > 0
  PROVE  LET y == ext_take(x)  s == TakeSlot(x) IN
         /\ Sound(y) /\ s \notin Taken(x) /\ s \in 0..(x.nslots - 1)
         /\ Taken(y) = Taken(x) \cup {s}
         /\ y.cls = x.cls /\ y.nslots = x.nslots /\ y.nfree = x.nfree - 1
  <1>1. PICK w \in Words, b \in Bits :
          /\ TakeSlot(x) = SlotOf(w, b) /\ b \notin x.bm[w]
          /\ SlotOf(w, b) \in 0..(x.nslots - 1)
          /\ \A v \in Words : v < w => x.bm[v] = Bits
    BY TakeSlotIs, Zenon
  <1>2. PICK y, s : y = ext_take(x) /\ s = TakeSlot(x)
    BY Zenon
  <1>3. /\ x \in Extent /\ x.used = 1 /\ x.nslots = EXT_GRAINS \div (x.cls + 1)
        /\ \A v \in Words, c \in Bits : SlotOf(v, c) >= x.nslots => c \in x.bm[v]
        /\ x.nfree = x.nslots - Cardinality(Taken(x))
    BY Zenon DEF Sound
  <1>4. /\ x.bm \in [Words -> SUBSET Bits] /\ x.nslots \in 0..EXT_GRAINS /\ x.nslots \in Nat
        /\ x.nfree \in 0..EXT_GRAINS
    BY <1>3, SizesKnown DEF Extent
  <1>5. s \div WORD = w /\ s % WORD = b
    BY <1>1, <1>2, PlaceOf, Zenon
  <1>6. y = [x EXCEPT !.bm[w] = @ \cup {b}, !.hint = w, !.nfree = @ - 1]
    BY <1>2, <1>5, Zenon DEF ext_take
  <1>7. /\ y.used = 1 /\ y.cls = x.cls /\ y.nslots = x.nslots /\ y.hint = w
        /\ y.nfree = x.nfree - 1 /\ y.bm = [x.bm EXCEPT ![w] = @ \cup {b}]
    BY <1>3, <1>6, Zenon DEF Extent
  <1>8. y \in Extent
    <2>1. x.nfree - 1 \in 0..EXT_GRAINS
      BY <1>4, SizesKnown
    <2>2. [x.bm EXCEPT ![w] = @ \cup {b}] \in [Words -> SUBSET Bits]
      BY <1>4, Zenon
    <2> QED
      BY <1>3, <1>6, <2>1, <2>2, Zenon DEF Extent
  <1>9. /\ y.bm[w] = x.bm[w] \cup {b}
        /\ \A v \in Words : v # w => y.bm[v] = x.bm[v]
        /\ \A v \in Words : x.bm[v] \subseteq y.bm[v]
    BY <1>4, <1>7, ZenonT(40)
  <1>10. s \notin Taken(x)
    BY <1>1, <1>2, <1>5, Zenon DEF Taken
  <1>11. Taken(y) = Taken(x) \cup {s}
    <2>1. ASSUME NEW r \in 0..(x.nslots - 1)
          PROVE  r % WORD \in y.bm[r \div WORD] <=> r % WORD \in x.bm[r \div WORD] \/ r = s
      <3>1. r \in 0..(EXT_GRAINS - 1)
        BY <1>4, SizesKnown
      <3>2. PICK v \in Words, c \in Bits : v = r \div WORD /\ c = r % WORD /\ SlotOf(v, c) = r
        BY <3>1, BitAt, Zenon
      <3>3. r = s <=> v = w /\ c = b
        BY <1>1, <1>2, <1>5, <3>2, Zenon
      <3> QED
        BY <1>9, <3>2, <3>3, Zenon
    <2> QED
      BY <1>1, <1>2, <1>7, <2>1, Zenon DEF Taken
  <1>12. Cardinality(Taken(y)) = Cardinality(Taken(x)) + 1
    BY <1>4, <1>10, <1>11, TakenIn, FS_AddElement, Zenon
  <1>13. y.nfree = y.nslots - Cardinality(Taken(y))
    <2>1. PICK k \in 0..x.nslots : k = Cardinality(Taken(x))
      BY <1>4, TakenIn, Zenon
    <2>2. x.nfree = x.nslots - k /\ Cardinality(Taken(y)) = k + 1
      BY <1>3, <1>12, <2>1, Zenon
    <2> QED
      BY <1>4, <1>7, <2>2
  <1>14. \A v \in Words, c \in Bits : SlotOf(v, c) >= y.nslots => c \in y.bm[v]
    BY <1>3, <1>7, <1>9, Zenon
  <1>15. \A v \in Words : v < y.hint => y.bm[v] = Bits
    <2> SUFFICES ASSUME NEW v \in Words, v < w PROVE y.bm[v] = Bits
      BY <1>7, Zenon
    <2>1. v # w
      BY DEF Words
    <2> QED
      BY <1>1, <1>9, <2>1, Zenon
  <1>16. Sound(y)
    BY <1>3, <1>7, <1>8, <1>13, <1>14, <1>15, Zenon DEF Sound
  <1> QED
    BY <1>1, <1>2, <1>7, <1>10, <1>11, <1>16, Zenon

Loosened(x, s, y) ==
  /\ y \in Extent
  /\ y.cls = x.cls /\ y.nslots = x.nslots /\ y.nfree = x.nfree + 1 /\ y.nfree > 0
  /\ Taken(y) = Taken(x) \ {s}
  /\ Emptied(x) <=> Taken(y) = {}
  /\ Emptied(x) => y.used = 0
  /\ ~Emptied(x) => Sound(y)

LEMMA BackSound ==
  ASSUME NEW x, Sound(x), NEW s \in Taken(x)
  PROVE  Loosened(x, s, GivenBack(x, s))
  <1>1. /\ x \in Extent /\ x.used = 1 /\ x.nslots = EXT_GRAINS \div (x.cls + 1)
        /\ \A v \in Words, c \in Bits : SlotOf(v, c) >= x.nslots => c \in x.bm[v]
        /\ x.nfree = x.nslots - Cardinality(Taken(x))
        /\ \A v \in Words : v < x.hint => x.bm[v] = Bits
    BY Zenon DEF Sound
  <1>2. /\ x.bm \in [Words -> SUBSET Bits] /\ x.nslots \in 0..EXT_GRAINS /\ x.nslots \in Nat
        /\ x.nfree \in 0..EXT_GRAINS /\ x.hint \in Words
    BY <1>1, SizesKnown DEF Extent
  <1>3. PICK y : y = GivenBack(x, s)
    BY Zenon
  <1>4. s \in 0..(x.nslots - 1) /\ s \in 0..(EXT_GRAINS - 1) /\ s % WORD \in x.bm[s \div WORD]
    BY <1>2, SizesKnown DEF Taken
  <1>5. PICK w \in Words, b \in Bits : /\ w = s \div WORD /\ b = s % WORD /\ SlotOf(w, b) = s
                                       /\ b \in x.bm[w]
    BY <1>4, BitAt, Zenon
  <1>6. y = [x EXCEPT !.bm[w] = @ \ {b}, !.nfree = @ + 1,
                      !.hint = IF w < @ THEN w ELSE @,
                      !.used = IF Emptied(x) THEN 0 ELSE @]
    BY <1>3, <1>5, Zenon DEF GivenBack
  <1>7. /\ y.used = (IF Emptied(x) THEN 0 ELSE 1) /\ y.cls = x.cls /\ y.nslots = x.nslots
        /\ y.hint = (IF w < x.hint THEN w ELSE x.hint)
        /\ y.nfree = x.nfree + 1 /\ y.bm = [x.bm EXCEPT ![w] = @ \ {b}]
    BY <1>1, <1>6, Zenon DEF Extent
  <1>8. /\ IsFiniteSet(Taken(x)) /\ Cardinality(Taken(x)) \in 0..x.nslots
        /\ Cardinality(Taken(x) \ {s}) = Cardinality(Taken(x)) - 1
        /\ Cardinality(Taken(x)) # 0
    <2>1. IsFiniteSet(Taken(x)) /\ Cardinality(Taken(x)) \in 0..x.nslots
      BY <1>2, TakenIn, Zenon
    <2>2. Cardinality(Taken(x) \ {s}) = Cardinality(Taken(x)) - 1
      BY <2>1, FS_RemoveElement, Zenon
    <2>3. Cardinality(Taken(x)) # 0
      BY <2>1, FS_EmptySet, Zenon
    <2> QED
      BY <2>1, <2>2, <2>3, Zenon
  <1>k. PICK k : /\ k = Cardinality(Taken(x)) /\ k \in Nat /\ k # 0 /\ k <= x.nslots
                 /\ x.nslots \in Nat /\ x.nslots <= EXT_GRAINS /\ x.nfree = x.nslots - k
    <2>1. PICK k : k = Cardinality(Taken(x))
      BY Zenon
    <2>2. k \in 0..x.nslots /\ k # 0
      BY <1>8, <2>1, Zenon
    <2>3. x.nslots \in 0..EXT_GRAINS /\ x.nfree = x.nslots - k
      BY <1>1, <1>2, <2>1, Zenon
    <2>4. k \in Nat /\ k <= x.nslots /\ x.nslots \in Nat /\ x.nslots <= EXT_GRAINS
      BY <2>2, <2>3, SizesKnown
    <2> QED
      BY <2>1, <2>2, <2>3, <2>4, Zenon
  <1>9. y \in Extent
    <2>1. x.nfree + 1 \in 0..EXT_GRAINS
      BY <1>k, SizesKnown
    <2>2. [x.bm EXCEPT ![w] = @ \ {b}] \in [Words -> SUBSET Bits]
      BY <1>2, Zenon
    <2> QED
      BY <1>1, <1>2, <1>6, <2>1, <2>2, Zenon DEF Extent
  <1>10. /\ y.bm[w] = x.bm[w] \ {b}
         /\ \A v \in Words : v # w => y.bm[v] = x.bm[v]
    BY <1>2, <1>7, Zenon
  <1>11. Taken(y) = Taken(x) \ {s}
    <2>1. ASSUME NEW r \in 0..(x.nslots - 1)
          PROVE  r % WORD \in y.bm[r \div WORD] <=> r % WORD \in x.bm[r \div WORD] /\ r # s
      <3>1. r \in 0..(EXT_GRAINS - 1)
        BY <1>2, SizesKnown
      <3>2. PICK v \in Words, c \in Bits : v = r \div WORD /\ c = r % WORD /\ SlotOf(v, c) = r
        BY <3>1, BitAt, Zenon
      <3>3. r = s <=> v = w /\ c = b
        BY <1>5, <3>2, Zenon
      <3> QED
        BY <1>10, <3>2, <3>3, Zenon
    <2> QED
      BY <1>7, <2>1, Zenon DEF Taken
  <1>12. y.nfree = y.nslots - Cardinality(Taken(y)) /\ y.nfree > 0
    <2>1. Cardinality(Taken(y)) = k - 1
      BY <1>8, <1>11, <1>k, Zenon
    <2>2. y.nslots = x.nslots /\ y.nfree = x.nfree + 1
      BY <1>7, Zenon
    <2> QED
      BY <1>k, <2>1, <2>2
  <1>13. Emptied(x) <=> Taken(y) = {}
    <2>1. Emptied(x) <=> k = 1
      BY <1>k DEF Emptied
    <2>2. Cardinality(Taken(y)) = k - 1
      BY <1>8, <1>11, <1>k, Zenon
    <2>3. k = 1 <=> Cardinality(Taken(y)) = 0
      BY <1>k, <2>2
    <2>4. IsFiniteSet(Taken(y))
      BY <1>2, <1>7, TakenIn, Zenon
    <2> QED
      BY <2>1, <2>3, <2>4, FS_EmptySet, Zenon
  <1>14. \A v \in Words, c \in Bits : SlotOf(v, c) >= y.nslots => c \in y.bm[v]
    <2> SUFFICES ASSUME NEW v \in Words, NEW c \in Bits, SlotOf(v, c) >= x.nslots
                 PROVE  c \in y.bm[v]
      BY <1>7, Zenon
    <2>1. ~(v = w /\ c = b)
      BY <1>2, <1>4, <1>5
    <2> QED
      BY <1>1, <1>10, <2>1, Zenon
  <1>15. \A v \in Words : v < y.hint => y.bm[v] = Bits
    <2> SUFFICES ASSUME NEW v \in Words, v < y.hint PROVE y.bm[v] = Bits
      BY Zenon
    <2>1. v # w /\ v < x.hint
      BY <1>2, <1>7 DEF Words
    <2> QED
      BY <1>1, <1>10, <2>1, Zenon
  <1>16. ~Emptied(x) => Sound(y)
    BY <1>1, <1>7, <1>9, <1>12, <1>14, <1>15, Zenon DEF Sound
  <1> QED
    <2>1. Emptied(x) => y.used = 0
      BY <1>7, Zenon
    <2> QED
      BY <1>3, <1>7, <1>9, <1>11, <1>12, <1>13, <1>16, <2>1, Zenon DEF Loosened

-----------------------------------------------------------------------------
(* The slots handed out.                                                   *)

At(X, h, e, c, s) ==
  /\ e \in Extents /\ c \in Classes /\ s \in 0..(EXT_GRAINS \div (c + 1) - 1)
  /\ h = Slot(e, c, s) /\ c = X[e].cls /\ X[e].used = 1 /\ s \in Taken(X[e])

LEMMA HeldAt ==
  ASSUME NEW X, NEW H, AllSound(X), Marked(X, H), NEW h \in H
  PROVE  \E e, c, s : At(X, h, e, c, s)
  <1>1. PICK e \in Extents : X[e].used = 1 /\ \E s \in Taken(X[e]) : h = Slot(e, X[e].cls, s)
    BY Zenon DEF Marked, Names
  <1>2. PICK s \in Taken(X[e]) : h = Slot(e, X[e].cls, s)
    BY <1>1, Zenon
  <1>3. PICK x : x = X[e]
    BY Zenon
  <1>4. x \in Extent /\ x.nslots = EXT_GRAINS \div (x.cls + 1)
    BY <1>1, <1>3, Zenon DEF AllSound, Sound
  <1>5. PICK c \in Classes : c = x.cls
    BY <1>4, Zenon DEF Extent
  <1>6. s \in 0..(EXT_GRAINS \div (c + 1) - 1)
    BY <1>2, <1>3, <1>4, <1>5, Zenon DEF Taken
  <1> QED
    BY <1>1, <1>2, <1>3, <1>5, <1>6, Zenon DEF At

(* No two of them share a grain.                                           *)
Apart(H) ==
  /\ H \in SUBSET [grain : Grains, len : 1..NCLASS]
  /\ \A g, h \in H : g # h => GrainsOf(g) \cap GrainsOf(h) = {}
  /\ \A g, h \in H : g.grain = h.grain => g = h
  /\ \A h \in H : /\ h.grain \div EXT_GRAINS = (h.grain + h.len - 1) \div EXT_GRAINS
                  /\ GrainsOf(h) \in SUBSET Grains
                  /\ IsFiniteSet(GrainsOf(h)) /\ Cardinality(GrainsOf(h)) = h.len

LEMMA MarkedApart ==
  ASSUME NEW X, NEW H, AllSound(X), Marked(X, H)
  PROVE  Apart(H)
  <1>1. ASSUME NEW h \in H
        PROVE  /\ h \in [grain : Grains, len : 1..NCLASS]
               /\ h.grain \div EXT_GRAINS = (h.grain + h.len - 1) \div EXT_GRAINS
               /\ GrainsOf(h) \in SUBSET Grains
               /\ IsFiniteSet(GrainsOf(h)) /\ Cardinality(GrainsOf(h)) = h.len
    <2>1. PICK e, c, s : At(X, h, e, c, s)
      BY HeldAt, Zenon
    <2>2. /\ e \in Extents /\ c \in Classes /\ s \in 0..(EXT_GRAINS \div (c + 1) - 1)
          /\ h = Slot(e, c, s)
      BY <2>1, Zenon DEF At
    <2> QED
      BY <2>2, SlotAt
  <1>2. ASSUME NEW g \in H, NEW h \in H, NEW z, z \in GrainsOf(g), z \in GrainsOf(h)
        PROVE  g = h
    <2>1. PICK e, c, s : At(X, g, e, c, s)
      BY HeldAt, Zenon
    <2>2. /\ e \in Extents /\ c \in Classes /\ s \in 0..(EXT_GRAINS \div (c + 1) - 1)
          /\ g = Slot(e, c, s) /\ c = X[e].cls
      BY <2>1, Zenon DEF At
    <2>3. PICK f, d, t : At(X, h, f, d, t)
      BY HeldAt, Zenon
    <2>4. /\ f \in Extents /\ d \in Classes /\ t \in 0..(EXT_GRAINS \div (d + 1) - 1)
          /\ h = Slot(f, d, t) /\ d = X[f].cls
      BY <2>3, Zenon DEF At
    <2>5. z \in GrainsOf(Slot(e, c, s)) /\ z \in GrainsOf(Slot(f, d, t))
      BY <1>2, <2>2, <2>4, Zenon
    <2>6. z \div EXT_GRAINS = e /\ (z % EXT_GRAINS) \div (c + 1) = s
      <3>1. Within(z, e, c, s)
        BY <2>2, <2>5, GrainWithin, Zenon
      <3> QED
        BY <3>1, Zenon DEF Within
    <2>7. z \div EXT_GRAINS = f /\ (z % EXT_GRAINS) \div (d + 1) = t
      <3>1. Within(z, f, d, t)
        BY <2>4, <2>5, GrainWithin, Zenon
      <3> QED
        BY <3>1, Zenon DEF Within
    <2>8. e = f
      BY <2>6, <2>7, Zenon
    <2>9. c = d
      BY <2>2, <2>4, <2>8, Zenon
    <2>10. s = t
      BY <2>6, <2>7, <2>9, Zenon
    <2> QED
      BY <2>2, <2>4, <2>8, <2>9, <2>10, Zenon
  <1>3. \A g, h \in H : g # h => GrainsOf(g) \cap GrainsOf(h) = {}
    BY <1>2, Zenon
  <1>4. ASSUME NEW g \in H, NEW h \in H, g.grain = h.grain PROVE g = h
    <2>1. g.grain \in GrainsOf(g) /\ h.grain \in GrainsOf(h)
      <3>1. /\ g.grain \in Nat /\ g.len \in Nat \ {0}
            /\ h.grain \in Nat /\ h.len \in Nat \ {0}
        BY <1>1 DEF Grains
      <3> QED
        BY <3>1 DEF GrainsOf
    <2> QED
      BY <1>2, <1>4, <2>1, Zenon
  <1>5. H \in SUBSET [grain : Grains, len : 1..NCLASS]
    BY <1>1, Zenon
  <1> QED
    BY <1>1, <1>3, <1>4, <1>5, Zenon DEF Apart

LEMMA GrainsFinite ==
  ASSUME NEW S, S \in SUBSET Grains
  PROVE  IsFiniteSet(S) /\ Cardinality(S) \in Nat
  <1>1. PICK a, b \in Int : a = 0 /\ b = NExtents * EXT_GRAINS - 1
    <2>1. NExtents * EXT_GRAINS - 1 \in Int
      BY SizesKnown
    <2> QED
      BY <2>1
  <1>2. IsFiniteSet(a..b)
    BY FS_Interval, Zenon
  <1>3. IsFiniteSet(Grains)
    BY <1>1, <1>2, Zenon DEF Grains
  <1>4. IsFiniteSet(S)
    BY <1>3, FS_Subset, Zenon
  <1> QED
    BY <1>4, FS_CardinalityType, Zenon

(* A slot more is its length in grains more.                               *)
LEMMA BytesOne ==
  ASSUME NEW H, Apart(H), NEW h \in H
  PROVE  /\ Cardinality(Bytes(H)) \in Nat /\ Cardinality(Bytes(H \ {h})) \in Nat
         /\ Cardinality(Bytes(H)) = Cardinality(Bytes(H \ {h})) + h.len
         /\ h.len \in Nat
  <1>1. PICK A, B, C : A = Bytes(H) /\ B = Bytes(H \ {h}) /\ C = GrainsOf(h)
    BY Zenon
  <1>2. A \in SUBSET Grains /\ B \in SUBSET Grains /\ C \in SUBSET Grains
    BY <1>1 DEF Apart, Bytes
  <1>3. A = B \cup C
    BY <1>1, Zenon DEF Bytes
  <1>4. B \cap C = {}
    BY <1>1 DEF Bytes, Apart
  <1>5. Cardinality(C) = h.len /\ IsFiniteSet(C)
    BY <1>1, Zenon DEF Apart
  <1>6. /\ IsFiniteSet(B) /\ Cardinality(B) \in Nat /\ Cardinality(A) \in Nat
        /\ Cardinality(C) \in Nat
    BY <1>2, GrainsFinite, Zenon
  <1>7. Cardinality(B \cup C) = Cardinality(B) + Cardinality(C) - Cardinality(B \cap C)
    BY <1>5, <1>6, FS_Union, Zenon
  <1>8. Cardinality(B \cap C) = 0
    BY <1>4, FS_EmptySet, Zenon
  <1>9. Cardinality(A) = Cardinality(B) + h.len
    BY <1>3, <1>5, <1>6, <1>7, <1>8
  <1> QED
    BY <1>1, <1>5, <1>6, <1>9, Zenon

-----------------------------------------------------------------------------
(* Steps of the heap.                                                      *)

LEMMA FreeNotClass == FREE \in Heads /\ Classes \subseteq Heads /\ FREE \notin Classes
  BY SizesKnown DEF FREE, Heads, Classes

(* An extent on a partial list has room; one on the free list is not used. *)
LEMMA FiledFree ==
  ASSUME NEW X, NEW e \in Extents
  PROVE  e \in Filed(X)[FREE] <=> X[e].used = 0
  BY FreeNotClass, Zenon DEF Filed

LEMMA FiledClass ==
  ASSUME NEW X, NEW e \in Extents, NEW c \in Classes
  PROVE  e \in Filed(X)[c] <=> X[e].used = 1 /\ X[e].cls = c /\ X[e].nfree > 0
  BY FreeNotClass, Zenon DEF Filed

LEMMA FiledUsed ==
  ASSUME NEW X, NEW e \in Extents, NEW c \in Classes, e \in Filed(X)[c]
  PROVE  X[e].used = 1
  BY FreeNotClass, Zenon DEF Filed

(* G is F but for list l, which holds S.                                   *)
Written(F, G, l, S) ==
  /\ S \in SUBSET Extents => G \in [Heads -> SUBSET Extents]
  /\ G[l] = S
  /\ \A m \in Heads : m # l => G[m] = F[m]

LEMMA ListWritten ==
  ASSUME NEW F \in [Heads -> SUBSET Extents], NEW l \in Heads, NEW S,
         NEW G, G = [F EXCEPT ![l] = S]
  PROVE  Written(F, G, l, S)
  BY Zenon DEF Written

LEMMA FiledType ==
  ASSUME NEW X
  PROVE  Filed(X) \in [Heads -> SUBSET Extents]
  BY Zenon DEF Filed

(* Two families of lists are the same if they hold the same extents.       *)
FiledAs(X, B) ==
  /\ \A e \in Extents : e \in B[FREE] <=> X[e].used = 0
  /\ \A e \in Extents : \A c \in Classes :
       e \in B[c] <=> X[e].used = 1 /\ X[e].cls = c /\ X[e].nfree > 0

LEMMA FiledSame ==
  ASSUME NEW X, NEW B \in [Heads -> SUBSET Extents], FiledAs(X, B)
  PROVE  Filed(X) = B
  <1>1. \A l \in Heads : l = FREE \/ l \in Classes
    BY Zenon DEF Heads
  <1>2. \A l \in Heads : Filed(X)[l] = B[l]
    <2> TAKE l \in Heads
    <2>1. B[l] \subseteq Extents /\ Filed(X)[l] \subseteq Extents
      BY FiledType, Zenon
    <2>2. \A e \in Extents : e \in Filed(X)[l] <=> e \in B[l]
      BY <1>1, FiledFree, FiledClass DEF FiledAs
    <2> QED
      BY <2>1, <2>2, Zenon
  <1> QED
    BY <1>2, FiledType

(* Y is X but for extent e.                                                *)
ButFor(X, Y, e) == \A f \in Extents : f # e => Y[f] = X[f]

(* What each step of the heap leaves.                                      *)
Freshed(K, X, Y, H, c, e) ==
  /\ Heap(K, Y, H) /\ e \in Extents /\ K.head[c] = e
  /\ X[e].used = 0 /\ Y[e].used = 1 /\ ButFor(X, Y, e)

Took(K, X, Y, H, e, h) ==
  /\ Heap(K, Y, H \cup {h}) /\ h \notin H
  /\ Y[e].used = 1 /\ Taken(Y[e]) # {} /\ ButFor(X, Y, e)

Gave(K, X, Y, H, e, x, h) ==
  /\ Heap(K, Y, H \ {h}) /\ h \in H
  /\ (Y[e].used = 0 <=> Emptied(x))
  /\ (~Emptied(x) => Taken(Y[e]) # {} /\ Y[e].used = 1)
  /\ ButFor(X, Y, e)

LEMMA FreshStep ==
  ASSUME NEW L, NEW X, NEW H, Heap(L, X, H), NEW c \in Classes, NEW e, e = L.head[FREE],
         e # EXT_NONE, NEW K, K = lst_push(lst_remove(L, FREE, e), c, e),
         NEW Y, Y = [X EXCEPT ![e] = ext_init(c)]
  PROVE  Freshed(K, X, Y, H, c, e)
  <1>1. AllSound(X) /\ Listed(L, Filed(X)) /\ Marked(X, H) /\ X \in [Extents -> Extent]
    BY Zenon DEF Heap, AllSound
  <1>2. e \in Filed(X)[FREE] /\ e \in Extents
    <2>1. e \in Filed(X)[FREE]
      <3>1. Headed(L, Filed(X), FREE)
        BY <1>1, FreeNotClass, HeadListed, Zenon
      <3> QED
        BY <3>1, Zenon DEF Headed
    <2> QED
      BY <2>1, FiledType, FreeNotClass, Zenon
  <1>3. PICK y : y = ext_init(c)
    BY Zenon
  <1>4. Sound(y) /\ Taken(y) = {} /\ y.cls = c /\ y.nfree > 0 /\ y \in Extent /\ y.used = 1
    <2>1. Sound(y) /\ Taken(y) = {} /\ y.cls = c /\ y.nfree > 0
      BY <1>3, FreshSound, Zenon
    <2> QED
      BY <2>1, Zenon DEF Sound
  <1>5. Y[e] = y /\ (\A f \in Extents : f # e => Y[f] = X[f]) /\ Y \in [Extents -> Extent]
    BY <1>1, <1>2, <1>3, <1>4, Zenon
  <1>6. X[e].used = 0
    BY <1>2, FiledFree, Zenon
  <1>7. AllSound(Y)
    BY <1>1, <1>4, <1>5, Zenon DEF AllSound
  <1>8. Marked(Y, H)
    <2>1. ASSUME NEW f \in Extents, NEW h
          PROVE  Names(Y, f, h) <=> Names(X, f, h)
      <3>1. CASE f = e
        <4>1. ~Names(X, f, h)
          BY <1>6, <3>1, ZeroOne, Zenon DEF Names
        <4>2. ~Names(Y, f, h)
          BY <1>4, <1>5, <3>1, Zenon DEF Names
        <4> QED
          BY <4>1, <4>2, Zenon
      <3>2. CASE f # e
        BY <1>5, <3>2, Zenon DEF Names
      <3> QED
        BY <3>1, <3>2, Zenon
    <2> QED
      BY <1>1, <2>1, Zenon DEF Marked
  <1>9. PICK M, A, B : /\ M = lst_remove(L, FREE, e) /\ A = [Filed(X) EXCEPT ![FREE] = @ \ {e}]
                       /\ B = [A EXCEPT ![c] = @ \cup {e}]
    BY Zenon
  <1>10. Listed(M, A)
    BY <1>1, <1>2, <1>9, FreeNotClass, RemoveListed, Zenon
  <1>11. /\ A \in [Heads -> SUBSET Extents] /\ B \in [Heads -> SUBSET Extents]
         /\ c \in Heads /\ c # FREE
         /\ A[FREE] = Filed(X)[FREE] \ {e}
         /\ \A m \in Heads : m # FREE => A[m] = Filed(X)[m]
         /\ B[c] = A[c] \cup {e}
         /\ \A m \in Heads : m # c => B[m] = A[m]
    <2>1. c \in Heads /\ FREE \in Heads /\ c # FREE
      BY FreeNotClass, Zenon
    <2>2. Filed(X) \in [Heads -> SUBSET Extents]
      BY FiledType, Zenon
    <2>3. Written(Filed(X), A, FREE, Filed(X)[FREE] \ {e})
      BY <1>9, <2>1, <2>2, ListWritten, Zenon
    <2>4. A \in [Heads -> SUBSET Extents] /\ A[FREE] = Filed(X)[FREE] \ {e}
      <3>1. Filed(X)[FREE] \in SUBSET Extents
        BY <2>1, <2>2, Zenon
      <3>2. Filed(X)[FREE] \ {e} \in SUBSET Extents
        BY <3>1, Zenon
      <3> QED
        BY <2>3, <3>2, Zenon DEF Written
    <2>5. Written(A, B, c, A[c] \cup {e})
      BY <1>9, <2>1, <2>4, ListWritten, Zenon
    <2>6. B \in [Heads -> SUBSET Extents] /\ B[c] = A[c] \cup {e}
      <3>1. A[c] \in SUBSET Extents
        BY <2>1, <2>4, Zenon
      <3>2. A[c] \cup {e} \in SUBSET Extents
        BY <1>2, <3>1, Zenon
      <3> QED
        BY <2>5, <3>2, Zenon DEF Written
    <2>7. /\ \A m \in Heads : m # FREE => A[m] = Filed(X)[m]
          /\ \A m \in Heads : m # c => B[m] = A[m]
      BY <2>3, <2>5, Zenon DEF Written
    <2> QED
      BY <2>1, <2>4, <2>6, <2>7, Zenon
  <1>12. \A m \in Heads : e \notin A[m]
    <2> TAKE m \in Heads
    <2>1. CASE m = FREE
      BY <1>11, <2>1, Zenon
    <2>2. CASE m \in Classes
      <3>0. e \in Extents
        BY <1>2, Zenon
      <3>1. e \in Filed(X)[m] => X[e].used = 1
        BY <2>2, <3>0, FiledUsed, Zenon
      <3>2. m # FREE
        BY <2>2, FreeNotClass, Zenon
      <3>3. A[m] = Filed(X)[m]
        BY <1>11, <3>2, Zenon
      <3>4. X[e].used # 1
        BY <1>6, ZeroOne, Zenon
      <3> QED
        BY <3>1, <3>3, <3>4, Zenon
    <2> QED
      BY <2>1, <2>2, Zenon DEF Heads
  <1>13. Listed(K, B)
    BY <1>2, <1>9, <1>10, <1>11, <1>12, PushListed, Zenon
  <1>14. Filed(Y) = B
    <2>1. \A f \in Extents : f \in B[FREE] <=> Y[f].used = 0
      <3> TAKE f \in Extents
      <3>1. f \in B[FREE] <=> f \in Filed(X)[FREE] /\ f # e
        BY <1>11, FreeNotClass, Zenon
      <3>2. f \in Filed(X)[FREE] <=> X[f].used = 0
        BY FiledFree, Zenon
      <3> QED
        <4>1. CASE f = e
          BY <1>4, <1>5, <3>1, <4>1, ZeroOne, Zenon
        <4>2. CASE f # e
          BY <1>5, <3>1, <3>2, <4>2, Zenon
        <4> QED
          BY <4>1, <4>2, Zenon
    <2>2. \A f \in Extents : \A d \in Classes :
             f \in B[d] <=> Y[f].used = 1 /\ Y[f].cls = d /\ Y[f].nfree > 0
      <3> TAKE f \in Extents
      <3> TAKE d \in Classes
      <3>1. f \in B[d] <=> f \in Filed(X)[d] \/ (f = e /\ d = c)
        BY <1>11, FreeNotClass, Zenon
      <3>2. f \in Filed(X)[d] <=> X[f].used = 1 /\ X[f].cls = d /\ X[f].nfree > 0
        BY FiledClass, Zenon
      <3>3. CASE f = e
        <4>1. f \notin Filed(X)[d]
          BY <1>6, <3>2, <3>3, ZeroOne, Zenon
        <4>2. Y[f].used = 1 /\ Y[f].cls = c /\ Y[f].nfree > 0
          BY <1>4, <1>5, <3>3, Zenon
        <4> QED
          BY <3>1, <3>3, <4>1, <4>2, Zenon
      <3>4. CASE f # e
        BY <1>5, <3>1, <3>2, <3>4, Zenon
      <3> QED
        BY <3>3, <3>4, Zenon
    <2>3. FiledAs(Y, B)
      BY <2>1, <2>2, Zenon DEF FiledAs
    <2> QED
      BY <1>11, <2>3, FiledSame, Zenon
  <1>15. K.head[c] = e
    <2>1. Linked(M)
      BY <1>10, Zenon DEF Listed
    <2>2. Pushed(M, K, c, e)
      BY <1>2, <1>9, <1>11, <2>1, PushLinks, Zenon
    <2> QED
      BY <2>2, Zenon DEF Pushed
  <1>16. Heap(K, Y, H)
    BY <1>7, <1>8, <1>13, <1>14, Zenon DEF Heap
  <1> QED
    BY <1>2, <1>4, <1>5, <1>6, <1>15, <1>16, Zenon DEF Freshed, ButFor

LEMMA TakeStep ==
  ASSUME NEW L, NEW X, NEW H, Heap(L, X, H), NEW e \in Extents, NEW x, x = X[e],
         x.used = 1, x.nfree > 0,
         NEW K, K = (IF x.nfree = 1 THEN lst_remove(L, x.cls, e) ELSE L),
         NEW Y, Y = [X EXCEPT ![e] = ext_take(x)],
         NEW h, h = [grain |-> GrainOf(e, x), len |-> x.cls + 1]
  PROVE  Took(K, X, Y, H, e, h)
  <1>1. AllSound(X) /\ Listed(L, Filed(X)) /\ Marked(X, H) /\ X \in [Extents -> Extent]
    BY Zenon DEF Heap, AllSound
  <1>2. Sound(x) /\ x \in Extent
    BY <1>1, Zenon DEF AllSound
  <1>3. PICK y, s : y = ext_take(x) /\ s = TakeSlot(x)
    BY Zenon
  <1>4. /\ Sound(y) /\ s \notin Taken(x) /\ s \in 0..(x.nslots - 1)
        /\ Taken(y) = Taken(x) \cup {s}
        /\ y.cls = x.cls /\ y.nslots = x.nslots /\ y.nfree = x.nfree - 1
    BY <1>2, <1>3, TakeSound, Zenon
  <1>5. y \in Extent /\ y.used = 1
    BY <1>4, Zenon DEF Sound
  <1>6. Y[e] = y /\ (\A f \in Extents : f # e => Y[f] = X[f]) /\ Y \in [Extents -> Extent]
    BY <1>1, <1>3, <1>5, Zenon
  <1>7. AllSound(Y)
    BY <1>1, <1>4, <1>6, Zenon DEF AllSound
  <1>8. h = Slot(e, x.cls, s)
    BY <1>3, Zenon DEF Slot, GrainOf
  <1>9. Marked(Y, H \cup {h})
    <2>1. ASSUME NEW f \in Extents, NEW g
          PROVE  Names(Y, f, g) <=> Names(X, f, g) \/ (f = e /\ g = h)
      <3>1. CASE f = e
        <4>1. Names(Y, e, g) <=> \E t \in Taken(x) \cup {s} : g = Slot(e, x.cls, t)
          BY <1>4, <1>5, <1>6, Zenon DEF Names
        <4>2. Names(X, e, g) <=> \E t \in Taken(x) : g = Slot(e, x.cls, t)
          BY Zenon DEF Names
        <4> QED
          BY <1>8, <3>1, <4>1, <4>2, Zenon
      <3>2. CASE f # e
        BY <1>6, <3>2, Zenon DEF Names
      <3> QED
        BY <3>1, <3>2, Zenon
    <2> QED
      BY <1>1, <2>1, Zenon DEF Marked
  <1>10. h \notin H
    <2> SUFFICES ASSUME h \in H PROVE FALSE
      BY Zenon
    <2>1. PICK f, d, t : At(X, h, f, d, t)
      BY <1>1, HeldAt, Zenon
    <2>2. /\ f \in Extents /\ d \in Classes /\ t \in 0..(EXT_GRAINS \div (d + 1) - 1)
          /\ h = Slot(f, d, t) /\ d = X[f].cls /\ t \in Taken(X[f])
      BY <2>1, Zenon DEF At
    <2>3. h.grain \div EXT_GRAINS = f /\ (h.grain % EXT_GRAINS) \div (d + 1) = t
      <3>1. Placed(h, f, d, t)
        BY <2>2, SlotPlace, Zenon
      <3> QED
        BY <3>1, Zenon DEF Placed
    <2>4. PICK c \in Classes : c = x.cls
      BY <1>2, Zenon DEF Extent
    <2>5. s \in 0..(EXT_GRAINS \div (c + 1) - 1)
      BY <1>2, <1>4, <2>4, Zenon DEF Sound
    <2>6. h.grain \div EXT_GRAINS = e /\ (h.grain % EXT_GRAINS) \div (c + 1) = s
      <3>1. Placed(h, e, c, s)
        BY <1>8, <2>4, <2>5, SlotPlace, Zenon
      <3> QED
        BY <3>1, Zenon DEF Placed
    <2>7. f = e /\ d = c
      BY <2>2, <2>3, <2>4, <2>6, Zenon
    <2>8. t = s
      BY <2>3, <2>6, <2>7, Zenon
    <2> QED
      BY <1>4, <2>2, <2>7, <2>8, Zenon
  <1>11. Listed(K, Filed(Y))
    <2>0. PICK c \in Classes : c = x.cls
      BY <1>2, Zenon DEF Extent
    <2>1. c \in Heads /\ c # FREE
      BY FreeNotClass, Zenon
    <2>2. e \in Filed(X)[c]
      BY <2>0, FiledClass, Zenon
    <2>3. CASE x.nfree = 1
      <3>1. PICK B : B = [Filed(X) EXCEPT ![c] = @ \ {e}]
        BY Zenon
      <3>2. Listed(K, B)
        BY <1>1, <2>0, <2>1, <2>2, <2>3, <3>1, RemoveListed, Zenon
      <3>3. /\ B \in [Heads -> SUBSET Extents] /\ B[c] = Filed(X)[c] \ {e}
            /\ \A m \in Heads : m # c => B[m] = Filed(X)[m]
        BY <2>1, <3>1, FiledType, Zenon
      <3>4. ~(y.nfree > 0)
        BY <1>4, <2>3
      <3>5. ASSUME NEW f \in Extents PROVE f \in B[FREE] <=> Y[f].used = 0
        <4>1. f \in B[FREE] <=> X[f].used = 0
          BY <2>1, <3>3, FreeNotClass, FiledFree, Zenon
        <4> QED
          BY <1>5, <1>6, <4>1, Zenon
      <3>6. ASSUME NEW f \in Extents, NEW d \in Classes
            PROVE  f \in B[d] <=> Y[f].used = 1 /\ Y[f].cls = d /\ Y[f].nfree > 0
        <4>1. f \in B[d] <=> f \in Filed(X)[d] /\ ~(f = e /\ d = c)
          BY <3>3, FreeNotClass, Zenon
        <4>2. f \in Filed(X)[d] <=> X[f].used = 1 /\ X[f].cls = d /\ X[f].nfree > 0
          BY FiledClass, Zenon
        <4>3. CASE f = e
          BY <1>6, <2>0, <3>4, <4>1, <4>2, <4>3, Zenon
        <4>4. CASE f # e
          BY <1>6, <4>1, <4>2, <4>4, Zenon
        <4> QED
          BY <4>3, <4>4, Zenon
      <3>7. FiledAs(Y, B)
        BY <3>5, <3>6, Zenon DEF FiledAs
      <3>8. Filed(Y) = B
        BY <3>3, <3>7, FiledSame, Zenon
      <3> QED
        BY <3>2, <3>8, Zenon
    <2>4. CASE x.nfree # 1
      <3>1. y.nfree > 0
        BY <1>2, <1>4, <2>4 DEF Extent
      <3>2. ASSUME NEW f \in Extents PROVE f \in Filed(X)[FREE] <=> Y[f].used = 0
        <4>1. f \in Filed(X)[FREE] <=> X[f].used = 0
          BY FiledFree, Zenon
        <4> QED
          BY <1>5, <1>6, <4>1, Zenon
      <3>3. ASSUME NEW f \in Extents, NEW d \in Classes
            PROVE  f \in Filed(X)[d] <=> Y[f].used = 1 /\ Y[f].cls = d /\ Y[f].nfree > 0
        <4>1. f \in Filed(X)[d] <=> X[f].used = 1 /\ X[f].cls = d /\ X[f].nfree > 0
          BY FiledClass, Zenon
        <4>2. CASE f = e
          BY <1>4, <1>5, <1>6, <3>1, <4>1, <4>2, Zenon
        <4>3. CASE f # e
          BY <1>6, <4>1, <4>3, Zenon
        <4> QED
          BY <4>2, <4>3, Zenon
      <3>4. FiledAs(Y, Filed(X))
        BY <3>2, <3>3, Zenon DEF FiledAs
      <3>5. Filed(Y) = Filed(X)
        BY <3>4, FiledType, FiledSame, Zenon
      <3> QED
        BY <1>1, <2>4, <3>5, Zenon
    <2> QED
      BY <2>3, <2>4, Zenon
  <1>12. Heap(K, Y, H \cup {h})
    BY <1>7, <1>9, <1>11, Zenon DEF Heap
  <1>13. Taken(Y[e]) # {}
    BY <1>4, <1>6, Zenon
  <1> QED
    BY <1>5, <1>6, <1>10, <1>12, <1>13, Zenon DEF Took, ButFor

(* Extent e is on none of the lists.                                       *)
Off(B, e) == \A m \in Heads : e \notin B[m]

LEMMA PushOff ==
  ASSUME NEW L, NEW B, Listed(L, B), NEW l \in Heads, NEW e \in Extents, Off(B, e),
         NEW K, K = lst_push(L, l, e), NEW C, C = [B EXCEPT ![l] = @ \cup {e}]
  PROVE  Listed(K, C)
  BY PushListed, Zenon DEF Off

(* Extent y, once x, is free or has room.                                  *)
Back(x, y) ==
  /\ y.used \in {0, 1} /\ (y.used = 0 <=> Emptied(x))
  /\ y.nfree > 0 /\ y.cls = x.cls

(* What a slot that comes back leaves of the lists.                        *)
Refile(L, e, x) ==
  LET M == IF x.nfree = 0 THEN lst_push(L, x.cls, e) ELSE L
  IN  IF Emptied(x) THEN lst_push(lst_remove(M, x.cls, e), FREE, e) ELSE M

LEMMA BackListed ==
  ASSUME NEW L, NEW X \in [Extents -> Extent], Listed(L, Filed(X)), NEW e \in Extents, NEW x,
         x = X[e], x.used = 1, NEW y, Back(x, y),
         NEW K, K = Refile(L, e, x), NEW Y, Y[e] = y, ButFor(X, Y, e)
  PROVE  Listed(K, Filed(Y))
  <1>0. /\ y.used \in {0, 1} /\ (y.used = 0 <=> Emptied(x))
        /\ y.nfree > 0 /\ y.cls = x.cls
        /\ \A f \in Extents : f # e => Y[f] = X[f]
    BY Zenon DEF Back, ButFor
  <1>1. PICK c \in Classes : c = x.cls
    BY Zenon DEF Extent
  <1>2. c \in Heads /\ FREE \in Heads /\ c # FREE
    BY FreeNotClass, Zenon
  <1>3. PICK M, A : /\ M = (IF x.nfree = 0 THEN lst_push(L, c, e) ELSE L)
                    /\ A = [Filed(X) EXCEPT ![c] = @ \cup {e}]
    BY Zenon
  <1>4. /\ A \in [Heads -> SUBSET Extents] /\ A[c] = Filed(X)[c] \cup {e}
        /\ \A m \in Heads : m # c => A[m] = Filed(X)[m]
    BY <1>2, <1>3, FiledType, Zenon
  <1>5. x.nfree \in Nat
    BY SizesKnown DEF Extent
  <1>6. Listed(M, A)
    <2>1. CASE x.nfree = 0
      <3>1. M = lst_push(L, c, e)
        BY <1>3, <2>1, Zenon
      <3>2. ~(x.nfree > 0) /\ x.used # 0
        BY <2>1
      <3>3. \A m \in Heads : e \notin Filed(X)[m]
        <4> TAKE m \in Heads
        <4>1. CASE m = FREE
          BY <3>2, <4>1, FiledFree, Zenon
        <4>2. CASE m \in Classes
          BY <3>2, <4>2, FiledClass, Zenon
        <4> QED
          BY <4>1, <4>2, Zenon DEF Heads
      <3>4. Off(Filed(X), e)
        BY <3>3, Zenon DEF Off
      <3> QED
        BY <1>2, <1>3, <3>1, <3>4, PushOff, Zenon
    <2>2. CASE x.nfree # 0
      <3>1. x.nfree > 0
        BY <1>5, <2>2
      <3>2. e \in Filed(X)[c]
        BY <1>1, <3>1, FiledClass, Zenon
      <3>3. A = Filed(X)
        <4>1. PICK F : F = Filed(X)
          BY Zenon
        <4>2. F \in [Heads -> SUBSET Extents]
          BY <4>1, FiledType, Zenon
        <4>3. e \in F[c]
          BY <3>2, <4>1, Zenon
        <4>4. A = [F EXCEPT ![c] = @ \cup {e}]
          BY <1>3, <4>1, Zenon
        <4>5. F[c] \cup {e} = F[c]
          BY <4>3, Zenon
        <4> QED
          BY <4>1, <4>2, <4>4, <4>5, Zenon
      <3>4. M = L
        BY <1>3, <2>2, Zenon
      <3> QED
        BY <3>3, <3>4, Zenon
    <2> QED
      BY <2>1, <2>2, Zenon
  <1>7. \A f \in Extents : \A d \in Classes :
          f \in A[d] <=> \/ f = e /\ d = c
                         \/ f # e /\ Y[f].used = 1 /\ Y[f].cls = d /\ Y[f].nfree > 0
    <2> TAKE f \in Extents
    <2> TAKE d \in Classes
    <2>0. d \in Heads
      BY FreeNotClass, Zenon
    <2>1. f \in A[d] <=> f \in Filed(X)[d] \/ (f = e /\ d = c)
      BY <1>4, <2>0, Zenon
    <2>2. f \in Filed(X)[d] <=> X[f].used = 1 /\ X[f].cls = d /\ X[f].nfree > 0
      BY FiledClass, Zenon
    <2>3. CASE f = e
      BY <1>1, <2>1, <2>2, <2>3, Zenon
    <2>4. CASE f # e
      BY <1>0, <2>1, <2>2, <2>4, Zenon
    <2> QED
      BY <2>3, <2>4, Zenon
  <1>8. \A f \in Extents : f \in A[FREE] <=> f # e /\ Y[f].used = 0
    <2> TAKE f \in Extents
    <2>1. f \in A[FREE] <=> f \in Filed(X)[FREE]
      BY <1>2, <1>4, Zenon
    <2>2. f \in Filed(X)[FREE] <=> X[f].used = 0
      BY FiledFree, Zenon
    <2>3. CASE f = e
      <3>1. X[f].used # 0
        BY <2>3
      <3> QED
        BY <2>1, <2>2, <2>3, <3>1, Zenon
    <2>4. CASE f # e
      BY <1>0, <2>1, <2>2, <2>4, Zenon
    <2> QED
      BY <2>3, <2>4, Zenon
  <1>9. CASE ~Emptied(x)
    <2>1. y.used = 1 /\ y.used # 0
      BY <1>0, <1>9, Zenon
    <2>2. \A f \in Extents : f \in A[FREE] <=> Y[f].used = 0
      BY <1>8, <2>1, Zenon
    <2>3. \A f \in Extents : \A d \in Classes :
            f \in A[d] <=> Y[f].used = 1 /\ Y[f].cls = d /\ Y[f].nfree > 0
      <3> TAKE f \in Extents
      <3> TAKE d \in Classes
      <3>1. CASE f = e
        BY <1>0, <1>1, <1>7, <2>1, <3>1, Zenon
      <3>2. CASE f # e
        BY <1>7, <3>2, Zenon
      <3> QED
        BY <3>1, <3>2, Zenon
    <2>4. FiledAs(Y, A)
      BY <2>2, <2>3, Zenon DEF FiledAs
    <2>5. Filed(Y) = A
      BY <1>4, <2>4, FiledSame, Zenon
    <2>6. K = M
      BY <1>1, <1>3, <1>9, Zenon DEF Refile
    <2> QED
      BY <1>6, <2>5, <2>6, Zenon
  <1>10. CASE Emptied(x)
    <2>1. y.used = 0 /\ y.used # 1
      BY <1>0, <1>10, ZeroOne, Zenon
    <2>2. PICK N, B, C : /\ N = lst_remove(M, c, e) /\ B = [A EXCEPT ![c] = @ \ {e}]
                         /\ C = [B EXCEPT ![FREE] = @ \cup {e}]
      BY Zenon
    <2>3. e \in A[c]
      BY <1>4, Zenon
    <2>4. Listed(N, B)
      BY <1>2, <1>6, <2>2, <2>3, RemoveListed, Zenon
    <2>5. /\ B \in [Heads -> SUBSET Extents] /\ C \in [Heads -> SUBSET Extents]
          /\ B[c] = A[c] \ {e} /\ C[FREE] = B[FREE] \cup {e}
          /\ \A m \in Heads : m # c => B[m] = A[m]
          /\ \A m \in Heads : m # FREE => C[m] = B[m]
      BY <1>2, <1>4, <2>2, Zenon
    <2>6. \A m \in Heads : e \notin B[m]
      <3> TAKE m \in Heads
      <3>1. CASE m = c
        BY <2>5, <3>1, Zenon
      <3>2. CASE m = FREE
        BY <1>2, <1>8, <2>5, <3>2, Zenon
      <3>3. CASE m # c /\ m \in Classes
        BY <1>7, <2>5, <3>3, Zenon
      <3> QED
        BY <3>1, <3>2, <3>3, Zenon DEF Heads
    <2>7. K = lst_push(N, FREE, e)
      BY <1>1, <1>3, <1>10, <2>2, Zenon DEF Refile
    <2>8. Listed(K, C)
      <3>1. Off(B, e)
        BY <2>6, Zenon DEF Off
      <3> QED
        BY <1>2, <2>2, <2>4, <2>7, <3>1, PushOff, Zenon
    <2>9. \A f \in Extents : f \in C[FREE] <=> Y[f].used = 0
      <3> TAKE f \in Extents
      <3>1. f \in C[FREE] <=> f \in A[FREE] \/ f = e
        BY <1>2, <2>5, Zenon
      <3> QED
        BY <1>8, <2>1, <3>1, Zenon
    <2>10. \A f \in Extents : \A d \in Classes :
            f \in C[d] <=> Y[f].used = 1 /\ Y[f].cls = d /\ Y[f].nfree > 0
      <3> TAKE f \in Extents
      <3> TAKE d \in Classes
      <3>0. d \in Heads /\ d # FREE
        BY FreeNotClass, Zenon
      <3>1. f \in C[d] <=> f \in A[d] /\ ~(f = e /\ d = c)
        <4>1. C[d] = B[d]
          BY <2>5, <3>0, Zenon
        <4>2. CASE d = c
          <5>1. B[d] = A[d] \ {e}
            BY <2>5, <4>2, Zenon
          <5> QED
            BY <4>1, <4>2, <5>1, Zenon
        <4>3. CASE d # c
          BY <2>5, <3>0, <4>1, <4>3, Zenon
        <4> QED
          BY <4>2, <4>3, Zenon
      <3>2. CASE f = e
        <4>1. f \notin C[d]
          BY <1>7, <3>1, <3>2, Zenon
        <4> QED
          BY <2>1, <3>2, <4>1, Zenon
      <3>3. CASE f # e
        BY <1>7, <3>1, <3>3, Zenon
      <3> QED
        BY <3>2, <3>3, Zenon
    <2>11. FiledAs(Y, C)
      BY <2>9, <2>10, Zenon DEF FiledAs
    <2>12. Filed(Y) = C
      BY <2>5, <2>11, FiledSame, Zenon
    <2> QED
      BY <2>8, <2>12, Zenon
  <1> QED
    BY <1>9, <1>10, Zenon

LEMMA BackStep ==
  ASSUME NEW L, NEW X, NEW H, Heap(L, X, H), NEW e \in Extents, NEW x, x = X[e],
         x.used = 1, NEW s \in Taken(x), NEW h, h = Slot(e, x.cls, s),
         NEW K, K = Refile(L, e, x),
         NEW Y, Y = [X EXCEPT ![e] = GivenBack(x, s)]
  PROVE  Gave(K, X, Y, H, e, x, h)
  <1>1. AllSound(X) /\ Listed(L, Filed(X)) /\ Marked(X, H) /\ X \in [Extents -> Extent]
    BY Zenon DEF Heap, AllSound
  <1>2. Sound(x) /\ x \in Extent
    BY <1>1, Zenon DEF AllSound
  <1>3. PICK y : y = GivenBack(x, s)
    BY Zenon
  <1>4. /\ y \in Extent
        /\ y.cls = x.cls /\ y.nslots = x.nslots /\ y.nfree > 0
        /\ Taken(y) = Taken(x) \ {s}
        /\ Emptied(x) <=> Taken(y) = {}
        /\ Emptied(x) => y.used = 0
        /\ ~Emptied(x) => Sound(y)
    <2>1. Loosened(x, s, y)
      BY <1>2, <1>3, BackSound, Zenon
    <2> QED
      BY <2>1, Zenon DEF Loosened
  <1>5. y.used \in {0, 1} /\ (y.used = 0 <=> Emptied(x)) /\ (~Emptied(x) => y.used = 1)
    <2>1. ~Emptied(x) => y.used = 1
      BY <1>4, Zenon DEF Sound
    <2>2. y.used \in {0, 1}
      BY <1>4, Zenon DEF Extent
    <2> QED
      BY <1>4, <2>1, <2>2
  <1>6. Y[e] = y /\ (\A f \in Extents : f # e => Y[f] = X[f]) /\ Y \in [Extents -> Extent]
    BY <1>1, <1>3, <1>4, Zenon
  <1>7. AllSound(Y)
    <2>1. y.used = 1 => Sound(y)
      BY <1>4, <1>5
    <2> QED
      BY <1>1, <1>6, <2>1, Zenon DEF AllSound
  <1>8. Listed(K, Filed(Y))
    <2>1. Back(x, y) /\ ButFor(X, Y, e)
      BY <1>4, <1>5, <1>6, Zenon DEF Back, ButFor
    <2> QED
      BY <1>1, <1>6, <2>1, BackListed, Zenon
  <1>9. h \in H
    BY <1>1, Zenon DEF Marked, Names
  <1>10. Marked(Y, H \ {h})
    <2>1. ASSUME NEW f \in Extents, NEW g
          PROVE  Names(Y, f, g) <=> Names(X, f, g) /\ g # h
      <3>1. CASE f = e
        <4>1. Names(Y, e, g) <=> \E t \in Taken(x) \ {s} : g = Slot(e, x.cls, t)
          <5>1. Names(Y, e, g) <=> y.used = 1 /\ \E t \in Taken(x) \ {s} : g = Slot(e, x.cls, t)
            BY <1>4, <1>6, Zenon DEF Names
          <5>2. CASE Emptied(x)
            <6>1. Taken(x) \ {s} = {} /\ y.used # 1
              BY <1>4, <1>5, <5>2
            <6> QED
              BY <5>1, <6>1, Zenon
          <5>3. CASE ~Emptied(x)
            BY <1>5, <5>1, <5>3, Zenon
          <5> QED
            BY <5>2, <5>3, Zenon
        <4>2. Names(X, e, g) <=> \E t \in Taken(x) : g = Slot(e, x.cls, t)
          BY Zenon DEF Names
        <4>3. \A t \in Taken(x) : Slot(e, x.cls, t) = h => t = s
          <5> TAKE t \in Taken(x)
          <5> HAVE Slot(e, x.cls, t) = h
          <5>1. PICK c \in Classes : c = x.cls
            BY <1>2, Zenon DEF Extent
          <5>2. s \in 0..(EXT_GRAINS \div (c + 1) - 1) /\ t \in 0..(EXT_GRAINS \div (c + 1) - 1)
            BY <1>2, <5>1, Zenon DEF Sound, Taken
          <5>3. (Slot(e, c, s).grain % EXT_GRAINS) \div (c + 1) = s
            <6>1. Placed(Slot(e, c, s), e, c, s)
              BY <5>2, SlotPlace, Zenon
            <6> QED
              BY <6>1, Zenon DEF Placed
          <5>4. (Slot(e, c, t).grain % EXT_GRAINS) \div (c + 1) = t
            <6>1. Placed(Slot(e, c, t), e, c, t)
              BY <5>2, SlotPlace, Zenon
            <6> QED
              BY <6>1, Zenon DEF Placed
          <5> QED
            BY <5>1, <5>3, <5>4, Zenon
        <4>4. (\E t \in Taken(x) \ {s} : g = Slot(e, x.cls, t))
               <=> (\E t \in Taken(x) : g = Slot(e, x.cls, t)) /\ g # h
          BY <4>3, Zenon
        <4> QED
          BY <3>1, <4>1, <4>2, <4>4, Zenon
      <3>2. CASE f # e
        <4>1. Names(Y, f, g) <=> Names(X, f, g)
          BY <1>6, <3>2, Zenon DEF Names
        <4>2. Names(X, f, g) => g # h
          <5> SUFFICES ASSUME Names(X, f, h) PROVE FALSE
            BY Zenon
          <5>1. PICK z : z = X[f]
            BY Zenon
          <5>2. z.used = 1 /\ \E t \in Taken(z) : h = Slot(f, z.cls, t)
            BY <5>1, Zenon DEF Names
          <5>3. PICK t \in Taken(z) : h = Slot(f, z.cls, t)
            BY <5>2, Zenon
          <5>4. Sound(z) /\ z \in Extent
            BY <1>1, <5>1, <5>2, Zenon DEF AllSound
          <5>5. PICK c \in Classes, d \in Classes : c = x.cls /\ d = z.cls
            BY <1>2, <5>4, Zenon DEF Extent
          <5>6. s \in 0..(EXT_GRAINS \div (c + 1) - 1) /\ t \in 0..(EXT_GRAINS \div (d + 1) - 1)
            BY <1>2, <5>4, <5>5, Zenon DEF Sound, Taken
          <5>7. Slot(e, c, s).grain \div EXT_GRAINS = e
            <6>1. Placed(Slot(e, c, s), e, c, s)
              BY <5>6, SlotPlace, Zenon
            <6> QED
              BY <6>1, Zenon DEF Placed
          <5>8. Slot(f, d, t).grain \div EXT_GRAINS = f
            <6>1. Placed(Slot(f, d, t), f, d, t)
              BY <5>6, SlotPlace, Zenon
            <6> QED
              BY <6>1, Zenon DEF Placed
          <5> QED
            BY <3>2, <5>3, <5>5, <5>7, <5>8, Zenon
        <4> QED
          BY <4>1, <4>2, Zenon
      <3> QED
        BY <3>1, <3>2, Zenon
    <2> QED
      BY <1>1, <2>1, Zenon DEF Marked
  <1>11. Heap(K, Y, H \ {h})
    BY <1>7, <1>8, <1>10, Zenon DEF Heap
  <1>12. ~Emptied(x) => Taken(Y[e]) # {} /\ Y[e].used = 1
    BY <1>4, <1>5, <1>6, Zenon
  <1> QED
    BY <1>5, <1>6, <1>9, <1>11, <1>12, Zenon DEF Gave, ButFor

-----------------------------------------------------------------------------
(* The invariant holds and is kept.                                        *)

LEMMA ExtentSet ==
  ASSUME NEW S, S \in SUBSET Extents
  PROVE  IsFiniteSet(S) /\ Cardinality(S) \in 0..NExtents
  <1>1. PICK a, b \in Int : a = 0 /\ b = NExtents - 1
    BY SizesKnown
  <1>2. IsFiniteSet(a..b) /\ Cardinality(a..b) = IF a > b THEN 0 ELSE b - a + 1
    BY FS_Interval, Zenon
  <1>3. (IF a > b THEN 0 ELSE b - a + 1) = NExtents
    BY <1>1, SizesKnown
  <1>4. Extents = a..b
    BY <1>1, Zenon DEF Extents
  <1>5. IsFiniteSet(Extents) /\ Cardinality(Extents) = NExtents
    BY <1>2, <1>3, <1>4, Zenon
  <1>6. IsFiniteSet(S) /\ Cardinality(S) <= Cardinality(Extents)
    BY <1>5, FS_Subset, Zenon
  <1>7. Cardinality(S) \in Nat
    BY <1>6, FS_CardinalityType, Zenon
  <1> QED
    BY <1>5, <1>6, <1>7, SizesKnown

LEMMA ClassIn ==
  ASSUME NEW n \in Sizes
  PROVE  ClassOf(n) \in Classes
  <1>1. PICK a, m, g : a = n - 1 /\ m = NCLASS /\ g = ALLOC_GRAIN
    BY Zenon
  <1>2. a \in Nat /\ m \in Nat \ {0} /\ g \in Nat \ {0} /\ a < m * g
    BY <1>1, SizesKnown DEF Sizes
  <1>3. PICK c, r : c = a \div g /\ r = a % g
    BY Zenon
  <1>4. c \in Nat /\ r \in Nat /\ a = c * g + r
    BY <1>2, <1>3, Division, Zenon
  <1>5. c < m
    <2> SUFFICES ASSUME ~(c < m) PROVE FALSE
      BY Zenon
    <2>1. m < c + 1 /\ c + 1 \in Nat
      BY <1>2, <1>4
    <2>2. m * g + g <= (c + 1) * g /\ m * g \in Nat
      BY <1>2, <2>1, Times, Zenon
    <2>3. (c + 1) * g = c * g + g /\ c * g \in Nat
      BY <1>2, <1>4
    <2> QED
      BY <1>2, <1>4, <2>2, <2>3
  <1>6. ClassOf(n) = c
    BY <1>1, <1>3, Zenon DEF ClassOf
  <1> QED
    BY <1>1, <1>2, <1>4, <1>5, <1>6 DEF Classes

LEMMA AllocStarts == Init => AllocInv
  <1> SUFFICES ASSUME Init PROVE AllocInv
    BY Zenon
  <1>1. \A e \in Extents : ext[e].used = 0
    BY Zenon DEF Init
  <1>2. ext \in [Extents -> Extent]
    <2>1. 0 \in 0..EXT_GRAINS /\ 0 \in Classes /\ 0 \in Words
      BY SizesKnown DEF Classes, Words
    <2>2. [w \in Words |-> {}] \in [Words -> SUBSET Bits]
      BY Zenon
    <2>3. PICK z : z = [nfree |-> 0, nslots |-> 0, cls |-> 0, used |-> 0,
                        hint |-> 0, bm |-> [w \in Words |-> {}]]
      BY Zenon
    <2>4. z \in Extent
      BY <2>1, <2>2, <2>3, Zenon DEF Extent
    <2>5. ext = [e \in Extents |-> z]
      BY <2>3, Zenon DEF Init
    <2> QED
      BY <2>4, <2>5, Zenon
  <1>3. AllSound(ext)
    BY <1>1, <1>2 DEF AllSound
  <1>4. Marked(ext, held)
    <2>1. held = {} /\ \A e \in Extents : ext[e].used # 1
      BY <1>1 DEF Init
    <2> QED
      BY <2>1, Zenon DEF Marked, Names
  <1>5. Filed(ext) = [l \in Heads |-> IF l = FREE THEN Extents ELSE {}]
    BY <1>1 DEF Filed
  <1>6. Listed(Lists, Filed(ext))
    <2>0. NExtents \in Nat \ {0} /\ EXT_NONE \notin Extents
      BY SizesKnown, NoneIsNone, Zenon
    <2>1. PICK B : B = Filed(ext)
      BY Zenon
    <2>2. /\ B \in [Heads -> SUBSET Extents] /\ B[FREE] = Extents
          /\ \A l \in Heads : l # FREE => B[l] = {}
      BY <1>5, <2>1, FreeNotClass, Zenon
    <2>3. Linked(Lists)
      <3>1. Lists = [next |-> next, prev |-> prev, head |-> head]
        BY Zenon DEF Lists
      <3>2. next \in [Extents -> Link] /\ prev \in [Extents -> Link] /\ head \in [Heads -> Link]
        BY <2>0 DEF Init, Link, Extents
      <3> QED
        BY <3>1, <3>2, Zenon DEF Linked
    <2>4. \A l, m \in Heads : l # m => B[l] \cap B[m] = {}
      BY <2>2, Zenon
    <2>5. ASSUME NEW l \in Heads PROVE \E n, q : Chain(Lists, l, B[l], n, q)
      <3>1. /\ Lists.head[l] = (IF l = FREE THEN 0 ELSE EXT_NONE)
            /\ \A e \in Extents : /\ Lists.next[e] = IF e = NExtents - 1 THEN EXT_NONE ELSE e + 1
                                  /\ Lists.prev[e] = IF e = 0 THEN EXT_NONE ELSE e - 1
        BY Zenon DEF Lists, Init
      <3>2. CASE l = FREE
        <4>1. PICK q : q = [i \in 0..(NExtents - 1) |-> i]
          BY Zenon
        <4>2. Chain(Lists, l, B[l], NExtents, q)
          <5>1. q \in [0..(NExtents - 1) -> Extents] /\ \A i \in 0..(NExtents - 1) : q[i] = i
            BY <4>1, Zenon DEF Extents
          <5>2. \A e \in Extents : e \in B[l] <=> \E i \in 0..(NExtents - 1) : q[i] = e
            BY <2>2, <3>2, <5>1, Zenon DEF Extents
          <5>3. Lists.head[l] = IF NExtents = 0 THEN EXT_NONE ELSE q[0]
            BY <2>0, <3>1, <3>2, <5>1
          <5>4. ASSUME NEW i \in 0..(NExtents - 1)
                PROVE  /\ Lists.next[q[i]] = IF i = NExtents - 1 THEN EXT_NONE ELSE q[i + 1]
                       /\ Lists.prev[q[i]] = IF i = 0 THEN EXT_NONE ELSE q[i - 1]
            <6>1. /\ Lists.next[i] = IF i = NExtents - 1 THEN EXT_NONE ELSE i + 1
                  /\ Lists.prev[i] = IF i = 0 THEN EXT_NONE ELSE i - 1
              BY <3>1, Zenon DEF Extents
            <6>2. i # NExtents - 1 => q[i + 1] = i + 1
              BY <2>0, <5>1
            <6>3. i # 0 => q[i - 1] = i - 1
              BY <2>0, <5>1
            <6> QED
              BY <5>1, <6>1, <6>2, <6>3, Zenon
          <5>5. \A i, j \in 0..(NExtents - 1) : q[i] = q[j] => i = j
            BY <5>1, Zenon
          <5> QED
            BY <2>0, <5>1, <5>2, <5>3, <5>4, <5>5, Zenon DEF Chain
        <4> QED
          BY <4>2, Zenon
      <3>3. CASE l # FREE
        <4>1. PICK q : q = [i \in 0..(0 - 1) |-> 0]
          BY Zenon
        <4>2. 0..(0 - 1) = {}
          OBVIOUS
        <4>3. Chain(Lists, l, B[l], 0, q)
          BY <2>2, <3>1, <3>3, <4>1, <4>2, Zenon DEF Chain
        <4> QED
          BY <4>3, Zenon
      <3> QED
        BY <3>2, <3>3, Zenon
    <2> QED
      BY <2>1, <2>2, <2>3, <2>4, <2>5, Zenon DEF Listed
  <1>7. Used(ext) = {} /\ Bytes(held) = {}
    BY <1>1 DEF Used, Bytes, Init
  <1>8. Cardinality(Used(ext)) = 0 /\ Cardinality(Bytes(held)) = 0
    BY <1>7, FS_EmptySet, Zenon
  <1>9. extents_used = Cardinality(Used(ext)) /\ peak \in 0..NExtents
        /\ slot_bytes = ALLOC_GRAIN * Cardinality(Bytes(held))
    <2>1. peak = 0 /\ extents_used = 0 /\ slot_bytes = 0
      BY Zenon DEF Init
    <2>2. 0 \in 0..NExtents /\ ALLOC_GRAIN * 0 = 0
      BY SizesKnown
    <2> QED
      BY <1>8, <2>1, <2>2, Zenon
  <1>10. Heap(Lists, ext, held)
    BY <1>3, <1>4, <1>6, Zenon DEF Heap
  <1>11. \A e \in Extents : ext[e].used = 1 => Taken(ext[e]) # {}
    BY <1>1
  <1> QED
    BY <1>9, <1>10, <1>11, Zenon DEF AllocInv

(* An extent in use holds a slot.                                          *)
Filled(X) == \A e \in Extents : X[e].used = 1 => Taken(X[e]) # {}

LEMMA UsedGauge ==
  ASSUME NEW X
  PROVE  /\ IsFiniteSet(Used(X)) /\ Cardinality(Used(X)) \in 0..NExtents
         /\ Cardinality(Used(X)) \in Nat
  <1>1. Used(X) \in SUBSET Extents
    BY Zenon DEF Used
  <1>2. IsFiniteSet(Used(X)) /\ Cardinality(Used(X)) \in 0..NExtents
    BY <1>1, ExtentSet, Zenon
  <1> QED
    BY <1>2, SizesKnown

(* The two halves of slot_alloc: an extent of the class, and a slot of it. *)
Choice(L, X, c, e, fresh, M, Y) ==
  /\ e = L.head[FREE]
  /\ fresh \in BOOLEAN /\ (fresh <=> L.head[c] = EXT_NONE /\ e # EXT_NONE)
  /\ M = (IF fresh THEN lst_push(lst_remove(L, FREE, e), c, e) ELSE L)
  /\ Y = (IF fresh THEN [X EXCEPT ![e] = ext_init(c)] ELSE X)

Place(M, Y, c, fits, e, x) ==
  /\ fits = Fits(M.head, c) /\ fits # {}
  /\ e = M.head[Min(fits)] /\ x = Y[e]

Filling(M, Y, e, x, Z, K, h) ==
  /\ Z = [Y EXCEPT ![e] = ext_take(x)]
  /\ K = (IF x.nfree = 1 THEN lst_remove(M, x.cls, e) ELSE M)
  /\ h = [grain |-> GrainOf(e, x), len |-> x.cls + 1]

Found(M, Y, c, e, x) ==
  /\ e \in Extents /\ x = Y[e] /\ x.used = 1 /\ x.nfree > 0
  /\ (M.head[c] # EXT_NONE => e = M.head[c])

Allocated(K, X, Z, H, h, fresh) ==
  /\ Heap(K, Z, H \cup {h}) /\ h \notin H /\ Filled(Z)
  /\ Cardinality(Used(Z)) = Cardinality(Used(X)) + (IF fresh THEN 1 ELSE 0)

LEMMA PlaceFound ==
  ASSUME NEW M, NEW Y, NEW H, Heap(M, Y, H), NEW c \in Classes, NEW fits, NEW e, NEW x,
         Place(M, Y, c, fits, e, x)
  PROVE  Found(M, Y, c, e, x)
  <1>1. /\ fits = Fits(M.head, c) /\ fits # {}
        /\ e = M.head[Min(fits)] /\ x = Y[e]
    BY Zenon DEF Place
  <1>2. PICK d : d = Min(fits)
    BY Zenon
  <1>3. c \in Nat /\ Classes \in SUBSET Nat /\ NCLASS \in Nat
    BY SizesKnown DEF Classes
  <1>4. \A k : k \in fits <=> k \in Classes /\ c <= k /\ M.head[k] # EXT_NONE
    BY <1>1, <1>3, SMTT(30) DEF Fits, Classes
  <1>5. fits \in SUBSET Nat
    BY <1>3, <1>4, Zenon
  <1>6. d \in fits /\ \A k \in fits : d <= k
    BY <1>1, <1>2, <1>5, MinIs, Zenon
  <1>7. d \in Classes /\ d \in Heads /\ M.head[d] # EXT_NONE
    BY <1>4, <1>6, FreeNotClass, Zenon
  <1>8. e = M.head[d]
    BY <1>1, <1>2, Zenon
  <1>9. e \in Filed(Y)[d]
    <2>1. Listed(M, Filed(Y))
      BY Zenon DEF Heap
    <2> QED
      <3>1. Headed(M, Filed(Y), d)
        BY <1>7, <2>1, HeadListed, Zenon
      <3> QED
        BY <1>7, <1>8, <3>1, Zenon DEF Headed
  <1>10. e \in Extents
    BY <1>7, <1>9, FiledType, Zenon
  <1>11. x.used = 1 /\ x.nfree > 0
    <2>1. Y[e].used = 1 /\ Y[e].nfree > 0
      BY <1>7, <1>9, <1>10, FiledClass, Zenon
    <2> QED
      BY <1>1, <2>1, Zenon
  <1>12. ASSUME M.head[c] # EXT_NONE PROVE e = M.head[c]
    <2>1. c \in fits
      BY <1>3, <1>4, <1>12
    <2>2. d = c
      BY <1>3, <1>4, <1>5, <1>6, <2>1
    <2> QED
      BY <1>8, <2>2, Zenon
  <1> QED
    BY <1>1, <1>10, <1>11, <1>12, Zenon DEF Found

LEMMA AllocStep ==
  ASSUME NEW L, NEW X, NEW H, Heap(L, X, H), Filled(X), NEW c \in Classes,
         NEW e0, NEW fresh, NEW M, NEW Y, Choice(L, X, c, e0, fresh, M, Y),
         NEW fits, NEW e, NEW x, Place(M, Y, c, fits, e, x),
         NEW Z, NEW K, NEW h, Filling(M, Y, e, x, Z, K, h)
  PROVE  Allocated(K, X, Z, H, h, fresh)
  <1>1. fresh \in BOOLEAN
    BY Zenon DEF Choice
  <1>2. fresh => Freshed(M, X, Y, H, c, e0) /\ e0 # EXT_NONE
    <2> SUFFICES ASSUME fresh PROVE Freshed(M, X, Y, H, c, e0) /\ e0 # EXT_NONE
      BY Zenon
    <2>1. /\ e0 = L.head[FREE] /\ e0 # EXT_NONE
          /\ M = lst_push(lst_remove(L, FREE, e0), c, e0)
          /\ Y = [X EXCEPT ![e0] = ext_init(c)]
      BY Zenon DEF Choice
    <2> QED
      BY <2>1, FreshStep, Zenon
  <1>3. ~fresh => M = L /\ Y = X
    BY Zenon DEF Choice
  <1>4. Heap(M, Y, H)
    BY <1>2, <1>3, Zenon DEF Freshed
  <1>5. /\ e \in Extents /\ x = Y[e] /\ x.used = 1 /\ x.nfree > 0
        /\ M.head[c] # EXT_NONE => e = M.head[c]
    <2>1. Found(M, Y, c, e, x)
      BY <1>4, PlaceFound, Zenon
    <2> QED
      BY <2>1, Zenon DEF Found
  <1>6. Took(K, Y, Z, H, e, h)
    <2>1. /\ Z = [Y EXCEPT ![e] = ext_take(x)]
          /\ K = (IF x.nfree = 1 THEN lst_remove(M, x.cls, e) ELSE M)
          /\ h = [grain |-> GrainOf(e, x), len |-> x.cls + 1]
      BY Zenon DEF Filling
    <2> QED
      BY <1>4, <1>5, <2>1, TakeStep, Zenon
  <1>7. /\ Heap(K, Z, H \cup {h}) /\ h \notin H
        /\ Z[e].used = 1 /\ Taken(Z[e]) # {}
        /\ \A f \in Extents : f # e => Z[f] = Y[f]
    BY <1>6, Zenon DEF Took, ButFor
  <1>8. Used(Z) = Used(Y)
    <2>1. \A f \in Extents : Z[f].used = 1 <=> Y[f].used = 1
      BY <1>5, <1>7, Zenon
    <2> QED
      BY <2>1, Zenon DEF Used
  <1>9. CASE fresh
    <2>1. /\ e0 \in Extents /\ M.head[c] = e0 /\ e0 # EXT_NONE
          /\ X[e0].used = 0 /\ Y[e0].used = 1
          /\ \A f \in Extents : f # e0 => Y[f] = X[f]
      BY <1>2, <1>9, Zenon DEF Freshed, ButFor
    <2>2. e = e0
      BY <1>5, <2>1, Zenon
    <2>3. Filled(Z)
      BY <1>7, <2>1, <2>2, Zenon DEF Filled
    <2>4. \A f \in Extents : Y[f].used = 1 <=> X[f].used = 1 \/ f = e0
      BY <2>1, Zenon
    <2>5. X[e0].used # 1
      BY <2>1, ZeroOne, Zenon
    <2>6. Used(Y) = Used(X) \cup {e0} /\ e0 \notin Used(X)
      BY <2>1, <2>4, <2>5, Zenon DEF Used
    <2>7. Cardinality(Used(Y)) = Cardinality(Used(X)) + 1
      BY <2>6, UsedGauge, FS_AddElement, Zenon
    <2> QED
      BY <1>7, <1>8, <1>9, <2>3, <2>7, Zenon DEF Allocated
  <1>10. CASE ~fresh
    <2>1. Filled(Z)
      BY <1>3, <1>7, <1>10, Zenon DEF Filled
    <2>2. PICK u : u = Cardinality(Used(X))
      BY Zenon
    <2>3. u \in Nat
      BY <2>2, UsedGauge, Zenon
    <2>4. u = u + 0
      BY <2>3
    <2> QED
      BY <1>3, <1>7, <1>8, <1>10, <2>1, <2>2, <2>4, Zenon DEF Allocated
  <1> QED
    BY <1>1, <1>9, <1>10, Zenon

(* Lists that a step relinks are the lists it computed.                    *)
LEMMA Relinked ==
  ASSUME NEW K, Linked(K), Relink(K)
  PROVE  Lists' = K
  BY Zenon DEF Linked, Relink, Lists

LEMMA AllocKept ==
  ASSUME AllocInv, NEW n \in Sizes, slot_alloc(n)
  PROVE  AllocInv'
  <1>1. PICK L, X, H : L = Lists /\ X = ext /\ H = held
    BY Zenon
  <1>2. PICK c \in Classes : c = ClassOf(n)
    BY ClassIn, Zenon
  <1>3. PICK e0, fresh : e0 = head[FREE] /\ fresh = (head[c] = EXT_NONE /\ e0 # EXT_NONE)
    BY Zenon
  <1>4. PICK M, Y : /\ M = (IF fresh THEN lst_push(lst_remove(L, FREE, e0), c, e0) ELSE L)
                    /\ Y = (IF fresh THEN [X EXCEPT ![e0] = ext_init(c)] ELSE X)
    BY Zenon
  <1>5. PICK fits, e, x : fits = Fits(M.head, c) /\ e = M.head[Min(fits)] /\ x = Y[e]
    BY Zenon
  <1>6. PICK Z, K, h : /\ Z = [Y EXCEPT ![e] = ext_take(x)]
                       /\ K = (IF x.nfree = 1 THEN lst_remove(M, x.cls, e) ELSE M)
                       /\ h = [grain |-> GrainOf(e, x), len |-> x.cls + 1]
    BY Zenon
  <1>7. \/ fits = {} /\ UNCHANGED vars
        \/ /\ fits # {} /\ ext' = Z /\ Relink(K)
           /\ extents_used' = extents_used + (IF fresh THEN 1 ELSE 0)
           /\ peak' = Max({peak, extents_used'})
           /\ slot_bytes' = slot_bytes + (x.cls + 1) * ALLOC_GRAIN
           /\ held' = H \cup {h}
    BY <1>1, <1>2, <1>3, <1>4, <1>5, <1>6, Zenon DEF slot_alloc
  <1>8. CASE UNCHANGED vars
    BY <1>8, Zenon DEF vars, AllocInv, Lists
  <1>9. CASE /\ fits # {} /\ ext' = Z /\ Relink(K)
             /\ extents_used' = extents_used + (IF fresh THEN 1 ELSE 0)
             /\ peak' = Max({peak, extents_used'})
             /\ slot_bytes' = slot_bytes + (x.cls + 1) * ALLOC_GRAIN
             /\ held' = H \cup {h}
    <2>1. /\ Heap(L, X, H) /\ Filled(X) /\ extents_used = Cardinality(Used(X))
          /\ peak \in 0..NExtents /\ slot_bytes = ALLOC_GRAIN * Cardinality(Bytes(H))
      BY <1>1, Zenon DEF AllocInv, Filled
    <2>2. /\ e0 = L.head[FREE] /\ fresh \in BOOLEAN
          /\ fresh <=> L.head[c] = EXT_NONE /\ e0 # EXT_NONE
      BY <1>1, <1>3, Zenon DEF Lists
    <2>3. /\ Heap(K, Z, H \cup {h}) /\ h \notin H /\ Filled(Z)
          /\ Cardinality(Used(Z)) = Cardinality(Used(X)) + (IF fresh THEN 1 ELSE 0)
      <3>1. Choice(L, X, c, e0, fresh, M, Y)
        BY <1>4, <2>2, Zenon DEF Choice
      <3>2. Place(M, Y, c, fits, e, x)
        BY <1>5, <1>9, Zenon DEF Place
      <3>3. Filling(M, Y, e, x, Z, K, h)
        BY <1>6, Zenon DEF Filling
      <3>4. Allocated(K, X, Z, H, h, fresh)
        BY <2>1, <3>1, <3>2, <3>3, AllocStep, Zenon
      <3> QED
        BY <3>4, Zenon DEF Allocated
    <2>4. Lists' = K
      <3>1. Linked(K)
        BY <2>3, Zenon DEF Heap, Listed
      <3> QED
        BY <1>9, <3>1, Relinked, Zenon
    <2>5. extents_used' = Cardinality(Used(Z)) /\ extents_used' \in 0..NExtents
      <3>1. extents_used' = Cardinality(Used(Z))
        BY <1>9, <2>1, <2>3, Zenon
      <3> QED
        BY <3>1, UsedGauge, Zenon
    <2>6. peak' \in 0..NExtents
      <3>1. PICK p, u \in 0..NExtents : p = peak /\ u = extents_used'
        BY <2>1, <2>5, Zenon
      <3>2. \E y \in {p, u} : \A k \in {p, u} : y >= k
        <4>1. CASE p >= u
          BY <4>1, SizesKnown
        <4>2. CASE ~(p >= u)
          BY <4>2, SizesKnown
        <4> QED
          BY <4>1, <4>2, Zenon
      <3>3. Max({p, u}) \in {p, u}
        BY <3>2, Zenon DEF Max
      <3> QED
        BY <1>9, <3>1, <3>3, Zenon
    <2>7. slot_bytes' = ALLOC_GRAIN * Cardinality(Bytes(H \cup {h}))
      <3>1. PICK G : G = H \cup {h}
        BY Zenon
      <3>2. Apart(G)
        BY <2>3, <3>1, MarkedApart, Zenon DEF Heap
      <3>3. G \ {h} = H /\ h \in G
        BY <2>3, <3>1, Zenon
      <3>4. /\ Cardinality(Bytes(G)) \in Nat /\ Cardinality(Bytes(H)) \in Nat
            /\ Cardinality(Bytes(G)) = Cardinality(Bytes(H)) + h.len
            /\ h.len \in Nat
        BY <3>2, <3>3, BytesOne, Zenon
      <3>5. h.len = x.cls + 1
        BY <1>6, Zenon
      <3>6. PICK p, q, a, b : /\ p = Cardinality(Bytes(G)) /\ q = Cardinality(Bytes(H))
                              /\ a = ALLOC_GRAIN /\ b = x.cls + 1
        BY Zenon
      <3>7. p \in Nat /\ q \in Nat /\ b \in Nat /\ a \in Nat /\ p = q + b
        BY <3>4, <3>5, <3>6, SizesKnown, Zenon
      <3>8. a * q + b * a = a * p
        BY <3>7
      <3> QED
        BY <1>9, <2>1, <3>1, <3>6, <3>8, Zenon
    <2> QED
      BY <1>9, <2>3, <2>4, <2>5, <2>6, <2>7, Zenon DEF AllocInv, Filled
  <1> QED
    BY <1>7, <1>8, <1>9, Zenon

LEMMA FreeKept ==
  ASSUME AllocInv, NEW h \in held, slot_free(h.grain)
  PROVE  AllocInv'
  <1>1. PICK L, X, H : L = Lists /\ X = ext /\ H = held
    BY Zenon
  <1>2. /\ Heap(L, X, H) /\ Filled(X) /\ extents_used = Cardinality(Used(X))
        /\ peak \in 0..NExtents /\ slot_bytes = ALLOC_GRAIN * Cardinality(Bytes(H))
    BY <1>1, Zenon DEF AllocInv, Filled
  <1>3. PICK e, c, s : At(X, h, e, c, s)
    BY <1>1, <1>2, HeldAt, Zenon DEF Heap
  <1>4. /\ e \in Extents /\ c \in Classes /\ s \in 0..(EXT_GRAINS \div (c + 1) - 1)
        /\ h = Slot(e, c, s) /\ c = X[e].cls /\ X[e].used = 1 /\ s \in Taken(X[e])
    BY <1>3, Zenon DEF At
  <1>5. h.grain \div EXT_GRAINS = e /\ (h.grain % EXT_GRAINS) \div (c + 1) = s
    <2>1. Placed(h, e, c, s)
      BY <1>4, SlotPlace, Zenon
    <2> QED
      BY <2>1, Zenon DEF Placed
  <1>6. PICK x, Y, K : x = X[e] /\ Y = [X EXCEPT ![e] = GivenBack(x, s)] /\ K = Refile(L, e, x)
    BY Zenon
  <1>7. Refiled(e, x) = K
    BY <1>1, <1>6, Zenon DEF Refiled, Refile
  <1>8. /\ ext' = Y /\ Relink(K)
        /\ extents_used' = extents_used - (IF Emptied(x) THEN 1 ELSE 0)
        /\ slot_bytes' = slot_bytes - (c + 1) * ALLOC_GRAIN
        /\ held' = {g \in held : g.grain # h.grain}
        /\ peak' = peak
    BY <1>1, <1>4, <1>5, <1>6, <1>7, Zenon DEF slot_free
  <1>9. /\ Heap(K, Y, H \ {h}) /\ h \in H
        /\ Y[e].used = 0 <=> Emptied(x)
        /\ ~Emptied(x) => Taken(Y[e]) # {} /\ Y[e].used = 1
        /\ \A f \in Extents : f # e => Y[f] = X[f]
    <2>1. s \in Taken(x) /\ h = Slot(e, x.cls, s) /\ x.used = 1 /\ x = X[e]
      BY <1>4, <1>6, Zenon
    <2>2. Gave(K, X, Y, H, e, x, h)
      BY <1>2, <1>4, <1>6, <2>1, BackStep, Zenon
    <2> QED
      BY <2>2, Zenon DEF Gave, ButFor
  <1>10. Apart(H)
    BY <1>2, MarkedApart, Zenon DEF Heap
  <1>11. held' = H \ {h}
    <2>1. \A g \in H : g.grain # h.grain <=> g # h
      BY <1>9, <1>10, Zenon DEF Apart
    <2> QED
      BY <1>1, <1>8, <2>1, Zenon
  <1>12. Lists' = K
    <2>1. Linked(K)
      BY <1>9, Zenon DEF Heap, Listed
    <2> QED
      BY <1>8, <2>1, Relinked, Zenon
  <1>13. Filled(Y)
    <2>0. Emptied(x) => Y[e].used = 0
      BY <1>9, Zenon
    <2>1. Emptied(x) => Y[e].used # 1
      BY <2>0, ZeroOne, Zenon
    <2> QED
      BY <1>2, <1>9, <2>1, Zenon DEF Filled
  <1>14. extents_used' = Cardinality(Used(Y))
    <2>1. CASE Emptied(x)
      <3>1. Used(Y) = Used(X) \ {e} /\ e \in Used(X)
        <4>1. Y[e].used # 1
          BY <1>9, <2>1, ZeroOne, Zenon
        <4>2. \A f \in Extents : Y[f].used = 1 <=> X[f].used = 1 /\ f # e
          BY <1>9, <4>1, Zenon
        <4> QED
          BY <1>4, <4>2, Zenon DEF Used
      <3>2. IsFiniteSet(Used(X))
        <4>1. Used(X) \in SUBSET Extents
          BY Zenon DEF Used
        <4> QED
          BY <4>1, ExtentSet, Zenon
      <3>3. Cardinality(Used(Y)) = Cardinality(Used(X)) - 1
        BY <3>1, <3>2, FS_RemoveElement, Zenon
      <3> QED
        BY <1>2, <1>8, <2>1, <3>3, Zenon
    <2>2. CASE ~Emptied(x)
      <3>1. \A f \in Extents : Y[f].used = 1 <=> X[f].used = 1
        BY <1>4, <1>9, <2>2, Zenon
      <3>2. Used(Y) = Used(X)
        BY <3>1, Zenon DEF Used
      <3>3. Cardinality(Used(X)) - 0 = Cardinality(Used(X))
        <4>1. Cardinality(Used(X)) \in 0..NExtents
          BY UsedGauge, Zenon
        <4> QED
          BY <4>1, SizesKnown
      <3> QED
        BY <1>2, <1>8, <2>2, <3>2, <3>3, Zenon
    <2> QED
      BY <2>1, <2>2, Zenon
  <1>15. slot_bytes' = ALLOC_GRAIN * Cardinality(Bytes(H \ {h}))
    <2>1. PICK G : G = H \ {h}
      BY Zenon
    <2>2. /\ Cardinality(Bytes(H)) \in Nat /\ Cardinality(Bytes(G)) \in Nat
          /\ Cardinality(Bytes(H)) = Cardinality(Bytes(G)) + h.len
          /\ h.len \in Nat
      BY <1>9, <1>10, <2>1, BytesOne, Zenon
    <2>3. h.len = c + 1
      BY <1>4, Zenon DEF Slot
    <2>4. PICK p, q, a, b : /\ p = Cardinality(Bytes(H)) /\ q = Cardinality(Bytes(G))
                            /\ a = ALLOC_GRAIN /\ b = c + 1
      BY Zenon
    <2>5. p \in Nat /\ q \in Nat /\ b \in Nat /\ a \in Nat /\ p = q + b
      BY <2>2, <2>3, <2>4, SizesKnown, Zenon
    <2>6. a * p - b * a = a * q
      BY <2>5
    <2> QED
      BY <1>2, <1>8, <2>1, <2>4, <2>6, Zenon
  <1> QED
    BY <1>2, <1>8, <1>9, <1>11, <1>12, <1>13, <1>14, <1>15, Zenon DEF AllocInv, Filled

LEMMA AllocNext ==
  ASSUME AllocInv, [Next]_vars
  PROVE  AllocInv'
  <1>1. CASE UNCHANGED vars
    BY <1>1, Zenon DEF vars, AllocInv, Lists
  <1>2. CASE Next
    BY <1>2, AllocKept, FreeKept, Zenon DEF Next
  <1> QED
    BY <1>1, <1>2, Zenon

-----------------------------------------------------------------------------
(* What the invariant says.                                                *)

LEMMA HeapKnown ==
  ASSUME AllocInv
  PROVE  /\ AllSound(ext) /\ Listed(Lists, Filed(ext)) /\ Marked(ext, held) /\ Linked(Lists)
         /\ Apart(held) /\ Filled(ext) /\ ext \in [Extents -> Extent]
  <1>1. AllSound(ext) /\ Listed(Lists, Filed(ext)) /\ Marked(ext, held) /\ Filled(ext)
    BY Zenon DEF AllocInv, Heap, Filled
  <1>2. Apart(held)
    BY <1>1, MarkedApart, Zenon
  <1> QED
    BY <1>1, <1>2, Zenon DEF Listed, AllSound

LEMMA AllocTypes ==
  ASSUME AllocInv
  PROVE  TypeOK
  <1>1. next \in [Extents -> Link] /\ prev \in [Extents -> Link] /\ head \in [Heads -> Link]
    <2>1. Linked(Lists)
      BY HeapKnown, Zenon
    <2> QED
      BY <2>1, Zenon DEF Linked, Lists
  <1>2. ext \in [Extents -> Extent] /\ held \subseteq [grain : Grains, len : 1..NCLASS]
    BY HeapKnown, Zenon DEF Apart
  <1>3. extents_used \in 0..NExtents /\ peak \in 0..NExtents
    BY UsedGauge, Zenon DEF AllocInv
  <1>4. slot_bytes \in Nat
    <2>1. Bytes(held) \in SUBSET Grains
      <3>1. \A h \in held : GrainsOf(h) \in SUBSET Grains
        BY HeapKnown, Zenon DEF Apart
      <3> QED
        BY <3>1, Zenon DEF Bytes
    <2>2. PICK b \in Nat : b = Cardinality(Bytes(held))
      BY <2>1, GrainsFinite, Zenon
    <2>3. slot_bytes = ALLOC_GRAIN * b
      BY <2>2, Zenon DEF AllocInv
    <2> QED
      BY <2>3, SizesKnown
  <1> QED
    BY <1>1, <1>2, <1>3, <1>4, Zenon DEF TypeOK

LEMMA AllocDisjoint ==
  ASSUME AllocInv
  PROVE  SlotsDisjoint
  BY HeapKnown, Zenon DEF Apart, SlotsDisjoint

(* The order of a list.                                                    *)
Order(l, n, q) ==
  /\ n \in 0..NExtents /\ n \in Nat
  /\ Follow(l) = Nth(n, q)
  /\ Chain(Lists, l, Belongs(l), n, q)

LEMMA InOrder ==
  ASSUME AllocInv, NEW l \in Heads
  PROVE  \E n, q : Order(l, n, q)
  <1>1. Filed(ext)[l] = Belongs(l)
    BY Zenon DEF Filed, Belongs
  <1>2. PICK n, q : Chain(Lists, l, Belongs(l), n, q)
    <2>1. Listed(Lists, Filed(ext))
      BY HeapKnown, Zenon
    <2>2. \A m \in Heads : \E n, q : Chain(Lists, m, Filed(ext)[m], n, q)
      BY <2>1, Zenon DEF Listed
    <2> QED
      BY <1>1, <2>2, Zenon
  <1>3. /\ n \in Nat /\ q \in [0..(n - 1) -> Extents]
        /\ \A i, j \in 0..(n - 1) : q[i] = q[j] => i = j
    BY <1>2, Zenon DEF Chain
  <1>4. n <= NExtents
    <2>1. PICK a, b \in Int : a = 0 /\ b = n - 1
      BY <1>3
    <2>2. Cardinality(a..b) = IF a > b THEN 0 ELSE b - a + 1
      BY FS_Interval, Zenon
    <2>3. (IF a > b THEN 0 ELSE b - a + 1) = n
      BY <1>3, <2>1
    <2>4. q \in Injection(a..b, Extents)
      BY <1>3, <2>1, Zenon DEF Injection, IsInjective
    <2>5. IsFiniteSet(Extents) /\ Cardinality(Extents) \in 0..NExtents
      <3>1. Extents \in SUBSET Extents
        BY Zenon
      <3> QED
        BY <3>1, ExtentSet, Zenon
    <2>6. Cardinality(a..b) <= Cardinality(Extents)
      BY <2>4, <2>5, FS_Injection, Zenon
    <2> QED
      BY <1>3, <2>2, <2>3, <2>5, <2>6, SizesKnown
  <1>5. Follow(l) = Nth(n, q)
    BY <1>2, <1>4, FollowIs, Zenon
  <1>6. n \in 0..NExtents
    BY <1>3, <1>4, SizesKnown
  <1> QED
    BY <1>2, <1>3, <1>5, <1>6, Zenon DEF Order

OnList(l) == {Follow(l)[k] : k \in 0..NExtents} \ {EXT_NONE}

LEMMA ListHolds ==
  ASSUME AllocInv, NEW l \in Heads
  PROVE  OnList(l) = Belongs(l)
  <1>1. PICK n, q : Order(l, n, q)
    BY InOrder, Zenon
  <1>2. PICK f, M : f = Follow(l) /\ M = Belongs(l)
    BY Zenon
  <1>3. n \in 0..NExtents /\ n \in Nat /\ f = Nth(n, q) /\ NExtents \in Nat
    BY <1>1, <1>2, SizesKnown, Zenon DEF Order
  <1>4. /\ q \in [0..(n - 1) -> Extents] /\ M \in SUBSET Extents
        /\ \A e \in Extents : e \in M <=> \E i \in 0..(n - 1) : q[i] = e
    BY <1>1, <1>2, Zenon DEF Order, Chain, Belongs
  <1>5. \A k \in 0..NExtents : f[k] = IF k < n THEN q[k] ELSE EXT_NONE
    BY <1>3, Zenon DEF Nth
  <1>6. ASSUME NEW k \in 0..NExtents, f[k] # EXT_NONE PROVE f[k] \in M
    <2>1. k \in 0..(n - 1) /\ f[k] = q[k]
      BY <1>3, <1>5, <1>6
    <2> QED
      BY <1>4, <2>1, Zenon
  <1>7. ASSUME NEW e \in M PROVE e # EXT_NONE /\ \E k \in 0..NExtents : f[k] = e
    <2>1. e \in Extents /\ \E i \in 0..(n - 1) : q[i] = e
      BY <1>4, Zenon
    <2>2. PICK i \in 0..(n - 1) : q[i] = e
      BY <2>1, Zenon
    <2>3. i \in 0..NExtents /\ f[i] = e
      BY <1>3, <1>5, <2>2
    <2> QED
      BY <2>1, <2>3, NoneIsNone, Zenon
  <1>8. {f[k] : k \in 0..NExtents} \ {EXT_NONE} = M
    BY <1>6, <1>7, Zenon
  <1> QED
    BY <1>2, <1>8, Zenon DEF OnList

LEMMA AllocLists ==
  ASSUME AllocInv
  PROVE  ListsSound
  <1>1. ASSUME NEW l \in Heads, NEW f, f = Follow(l)
        PROVE  /\ f[NExtents] = EXT_NONE
               /\ \A k \in 0..(NExtents - 1) :
                    f[k] # EXT_NONE => prev[f[k]] = IF k = 0 THEN EXT_NONE ELSE f[k - 1]
    <2>1. PICK n, q : Order(l, n, q)
      BY InOrder, Zenon
    <2>2. n \in 0..NExtents /\ n \in Nat /\ f = Nth(n, q) /\ NExtents \in Nat
      BY <1>1, <2>1, SizesKnown, Zenon DEF Order
    <2>3. \A i \in 0..(n - 1) : prev[q[i]] = IF i = 0 THEN EXT_NONE ELSE q[i - 1]
      BY <2>1, Zenon DEF Order, Chain, Lists
    <2>4. \A k \in 0..NExtents : f[k] = IF k < n THEN q[k] ELSE EXT_NONE
      BY <2>2, Zenon DEF Nth
    <2>5. f[NExtents] = EXT_NONE
      BY <2>2, <2>4
    <2>6. ASSUME NEW k \in 0..(NExtents - 1), f[k] # EXT_NONE
          PROVE  prev[f[k]] = IF k = 0 THEN EXT_NONE ELSE f[k - 1]
      <3>1. k \in 0..(n - 1) /\ f[k] = q[k]
        BY <2>2, <2>4, <2>6
      <3>2. k # 0 => f[k - 1] = q[k - 1]
        BY <2>2, <2>4, <3>1
      <3> QED
        BY <2>3, <3>1, <3>2, Zenon
    <2> QED
      BY <2>5, <2>6, Zenon
  <1>2. ASSUME NEW l \in Heads
        PROVE  {Follow(l)[k] : k \in 0..NExtents} \ {EXT_NONE} = Belongs(l)
    BY ListHolds, Zenon DEF OnList
  <1> QED
    BY <1>1, <1>2, Zenon DEF ListsSound

LEMMA AllocHint ==
  ASSUME AllocInv
  PROVE  HintSound
  BY HeapKnown, Zenon DEF AllSound, Sound, HintSound

(* The head of a list is EXT_NONE exactly when nothing belongs on it.      *)
LEMMA HeadKnown ==
  ASSUME AllocInv, NEW l \in Heads
  PROVE  head[l] = EXT_NONE <=> Belongs(l) = {}
  <1>1. Filed(ext)[l] = Belongs(l)
    BY Zenon DEF Filed, Belongs
  <1>2. Lists.head[l] = head[l]
    BY Zenon DEF Lists
  <1>3. Lists.head[l] = EXT_NONE <=> Filed(ext)[l] = {}
    <2>1. Headed(Lists, Filed(ext), l)
      BY HeapKnown, HeadListed, Zenon
    <2> QED
      BY <2>1, Zenon DEF Headed
  <1> QED
    BY <1>1, <1>2, <1>3, Zenon

LEMMA AllocRefuses ==
  ASSUME AllocInv
  PROVE  RefusesOnlyWhenFull
  <1> SUFFICES ASSUME NEW c \in Classes, head[FREE] = EXT_NONE, Fits(head, c) = {},
                      NEW e \in Extents
               PROVE  ~Room(e, c)
    BY Zenon DEF RefusesOnlyWhenFull
  <1>1. PICK x : x = ext[e]
    BY Zenon
  <1>2. x \in Extent
    BY <1>1, HeapKnown, Zenon
  <1>3. x.used # 0
    <2>1. Belongs(FREE) = {}
      BY FreeNotClass, HeadKnown, Zenon
    <2> QED
      BY <1>1, <2>1, FreeNotClass, Zenon DEF Belongs
  <1>4. x.used = 1
    BY <1>2, <1>3, Zenon DEF Extent
  <1>5. Sound(x)
    BY <1>1, <1>4, HeapKnown, Zenon DEF AllSound
  <1>6. ASSUME x.cls >= c, NEW s \in 0..(x.nslots - 1)
        PROVE  Slot(e, x.cls, s) \in held
    <2>1. PICK d \in Classes : d = x.cls
      BY <1>2, Zenon DEF Extent
    <2>2. head[d] = EXT_NONE
      BY <1>6, <2>1, SizesKnown DEF Fits, Classes
    <2>3. Belongs(d) = {} /\ d # FREE
      BY <2>2, FreeNotClass, HeadKnown, Zenon
    <2>4. ~(x.nfree > 0)
      BY <1>1, <1>4, <2>1, <2>3, Zenon DEF Belongs
    <2>5. x.nfree \in Nat /\ x.nslots \in Nat /\ x.nslots \in 0..EXT_GRAINS
      BY <1>2, SizesKnown DEF Extent
    <2>6. PICK t : t = Cardinality(Taken(x))
      BY Zenon
    <2>7. t \in 0..x.nslots /\ (t = x.nslots <=> Taken(x) = 0..(x.nslots - 1))
      BY <2>5, <2>6, TakenIn, Zenon
    <2>8. x.nfree = x.nslots - t
      BY <1>5, <2>6, Zenon DEF Sound
    <2>9. Taken(x) = 0..(x.nslots - 1)
      BY <2>4, <2>5, <2>7, <2>8
    <2>10. s \in Taken(x)
      BY <1>6, <2>9, Zenon
    <2>11. Names(ext, e, Slot(e, x.cls, s))
      BY <1>1, <1>4, <2>10, Zenon DEF Names
    <2> QED
      BY <2>11, HeapKnown, Zenon DEF Marked
  <1> QED
    BY <1>1, <1>3, <1>6, Zenon DEF Room, Slot

LEMMA AllocGauges ==
  ASSUME AllocInv
  PROVE  HeapGauges
  <1>1. ASSUME NEW h \in held
        PROVE  h.grain \div EXT_GRAINS \in Used(ext)
    <2>1. PICK e, c, s : At(ext, h, e, c, s)
      BY HeapKnown, HeldAt, Zenon
    <2>2. /\ e \in Extents /\ c \in Classes /\ s \in 0..(EXT_GRAINS \div (c + 1) - 1)
          /\ h = Slot(e, c, s) /\ ext[e].used = 1
      BY <2>1, Zenon DEF At
    <2>3. h.grain \div EXT_GRAINS = e
      <3>1. Placed(h, e, c, s)
        BY <2>2, SlotPlace, Zenon
      <3> QED
        BY <3>1, Zenon DEF Placed
    <2> QED
      BY <2>2, <2>3, Zenon DEF Used
  <1>2. ASSUME NEW e \in Used(ext)
        PROVE  \E h \in held : h.grain \div EXT_GRAINS = e
    <2>1. e \in Extents /\ ext[e].used = 1
      BY Zenon DEF Used
    <2>2. PICK s : s \in Taken(ext[e])
      BY <2>1, HeapKnown, Zenon DEF Filled
    <2>3. PICK h : h = Slot(e, ext[e].cls, s)
      BY Zenon
    <2>4. h \in held
      <3>1. Names(ext, e, h)
        BY <2>1, <2>2, <2>3, Zenon DEF Names
      <3> QED
        BY <2>1, <3>1, HeapKnown, Zenon DEF Marked
    <2>5. Sound(ext[e]) /\ ext[e] \in Extent
      BY <2>1, HeapKnown, Zenon DEF AllSound
    <2>6. PICK c \in Classes : c = ext[e].cls
      BY <2>5, Zenon DEF Extent
    <2>7. s \in 0..(EXT_GRAINS \div (c + 1) - 1)
      BY <2>2, <2>5, <2>6, Zenon DEF Sound, Taken
    <2>8. h.grain \div EXT_GRAINS = e
      <3>1. Placed(h, e, c, s)
        BY <2>1, <2>3, <2>6, <2>7, SlotPlace, Zenon
      <3> QED
        BY <3>1, Zenon DEF Placed
    <2> QED
      BY <2>4, <2>8, Zenon
  <1>3. {h.grain \div EXT_GRAINS : h \in held} = Used(ext)
    BY <1>1, <1>2, Zenon
  <1>4. /\ slot_bytes = ALLOC_GRAIN * Cardinality(Bytes(held))
        /\ extents_used = Cardinality(Used(ext))
    BY Zenon DEF AllocInv
  <1> QED
    BY <1>3, <1>4, Zenon DEF HeapGauges, Bytes

(* The slots of an extent that are handed out are as many as its set bits. *)
SlotsOf(e) == {h \in held : h.grain \div EXT_GRAINS = e}

LEMMA TakenCount ==
  ASSUME AllocInv, NEW e \in Extents, ext[e].used = 1
  PROVE  Cardinality(SlotsOf(e)) = Cardinality(Taken(ext[e]))
  <1>1. PICK x, S, T : x = ext[e] /\ S = Taken(x) /\ T = SlotsOf(e)
    BY Zenon
  <1>2. Sound(x) /\ x \in Extent
    BY <1>1, HeapKnown, Zenon DEF AllSound
  <1>3. PICK c \in Classes : c = x.cls
    BY <1>2, Zenon DEF Extent
  <1>4. \A s \in S : s \in 0..(EXT_GRAINS \div (c + 1) - 1)
    BY <1>1, <1>2, <1>3, Zenon DEF Sound, Taken
  <1>5. IsFiniteSet(S)
    <2>1. x.nslots \in 0..EXT_GRAINS
      BY <1>2, Zenon DEF Extent
    <2> QED
      BY <1>1, <2>1, TakenIn, Zenon
  <1>6. PICK f : f = [s \in S |-> Slot(e, c, s)]
    BY Zenon
  <1>7. ASSUME NEW s \in S
        PROVE  /\ f[s] = Slot(e, c, s) /\ f[s] \in T
               /\ (f[s].grain % EXT_GRAINS) \div (c + 1) = s
    <2>1. f[s] = Slot(e, c, s)
      BY <1>6, Zenon
    <2>2. /\ f[s].grain \div EXT_GRAINS = e
          /\ (f[s].grain % EXT_GRAINS) \div (c + 1) = s
      <3>1. Placed(f[s], e, c, s)
        BY <1>4, <2>1, SlotPlace, Zenon
      <3> QED
        BY <3>1, Zenon DEF Placed
    <2>3. Names(ext, e, f[s])
      BY <1>1, <1>3, <2>1, Zenon DEF Names
    <2>4. f[s] \in held
      BY <2>3, HeapKnown, Zenon DEF Marked
    <2>5. f[s] \in T
      BY <1>1, <2>2, <2>4, Zenon DEF SlotsOf
    <2> QED
      BY <2>1, <2>2, <2>5, Zenon
  <1>8. ASSUME NEW h \in T
        PROVE  \E s \in S : f[s] = h
    <2>1. h \in held /\ h.grain \div EXT_GRAINS = e
      BY <1>1, Zenon DEF SlotsOf
    <2>2. PICK a, d, s : At(ext, h, a, d, s)
      BY <2>1, HeapKnown, HeldAt, Zenon
    <2>3. /\ a \in Extents /\ d \in Classes /\ s \in 0..(EXT_GRAINS \div (d + 1) - 1)
          /\ h = Slot(a, d, s) /\ d = ext[a].cls /\ s \in Taken(ext[a])
      BY <2>2, Zenon DEF At
    <2>4. h.grain \div EXT_GRAINS = a
      <3>1. Placed(h, a, d, s)
        BY <2>3, SlotPlace, Zenon
      <3> QED
        BY <3>1, Zenon DEF Placed
    <2>5. a = e
      BY <2>1, <2>4, Zenon
    <2>6. s \in S /\ h = Slot(e, c, s)
      BY <1>1, <1>3, <2>3, <2>5, Zenon
    <2> QED
      BY <1>7, <2>6, Zenon
  <1>9. f \in Bijection(S, T)
    <2>1. f \in [S -> T]
      BY <1>6, <1>7, Zenon
    <2>2. \A s, t \in S : f[s] = f[t] => s = t
      BY <1>7, Zenon
    <2>3. \A h \in T : \E s \in S : f[s] = h
      BY <1>8, Zenon
    <2> QED
      BY <2>1, <2>2, <2>3, Zenon DEF Bijection, Injection, Surjection, IsInjective
  <1>10. ExistsBijection(S, T)
    BY <1>9, Zenon DEF ExistsBijection
  <1>11. Cardinality(T) = Cardinality(S)
    BY <1>5, <1>10, FS_Bijection, Zenon
  <1> QED
    BY <1>1, <1>11, Zenon

(* t of n slots, t < n, is a bucket.                                       *)
LEMMA Bucket ==
  ASSUME NEW t \in Nat, NEW n \in Nat \ {0}, t < n, NEW N \in Nat \ {0}
  PROVE  (t * N) \div n \in 0..(N - 1)
  <1>1. PICK q, r, a : q = a \div n /\ r = a % n /\ a = t * N
    BY Zenon
  <1>2. a \in Nat
    BY <1>1
  <1>3. q \in Nat /\ r \in Nat /\ a = q * n + r
    BY <1>1, <1>2, Division, Zenon
  <1>4. t * N + N <= n * N /\ t * N \in Nat /\ n * N \in Nat
    BY Times, Zenon
  <1>5. q < N
    <2> SUFFICES ASSUME ~(q < N) PROVE FALSE
      BY Zenon
    <2>1. N < q + 1 /\ q + 1 \in Nat
      BY <1>3
    <2>2. N * n + n <= (q + 1) * n
      BY <2>1, Times, Zenon
    <2>3. (q + 1) * n = q * n + n /\ q * n \in Nat /\ N * n = n * N
      BY <1>3
    <2> QED
      BY <1>1, <1>3, <1>4, <2>2, <2>3
  <1>6. q \in 0..(N - 1)
    BY <1>3, <1>5
  <1> QED
    BY <1>1, <1>6, Zenon

LEMMA AllocReport ==
  ASSUME AllocInv
  PROVE  ReportTrue
  <1>1. HeapGauges
    BY AllocGauges, Zenon
  <1>2. extents_log.used = extents_used
    BY Zenon DEF extents_log, InUse, AllocInv, Used
  <1>3. extents_log.partial = Partial /\ extents_log.classes = {ext[e].cls : e \in Partial}
        /\ extents_log.bin = [e \in Partial |-> ext_bin(ext[e])]
    BY Zenon DEF extents_log
  <1>4. \A e \in Extents : ext[e].nfree \in Nat /\ ext[e].cls \in Classes
    BY HeapKnown, SizesKnown DEF Extent
  <1>5. \A c \in Classes : c \in Heads /\ c # FREE
    BY FreeNotClass, Zenon
  <1>6. \A e \in Extents : e \in Partial <=> ext[e].used = 1 /\ ext[e].nfree > 0
    BY <1>4 DEF Partial, InUse
  <1>7. \A c \in Classes : \A e \in Extents :
          e \in Belongs(c) <=> e \in Partial /\ ext[e].cls = c
    BY <1>5, <1>6, Zenon DEF Belongs
  <1>8. Partial \in SUBSET Extents /\ \A c \in Classes : Belongs(c) \in SUBSET Extents
    BY Zenon DEF Partial, InUse, Belongs
  <1>9. Partial = UNION {OnList(c) : c \in Classes}
    <2>1. \A c \in Classes : OnList(c) = Belongs(c)
      BY <1>5, ListHolds, Zenon
    <2>2. {OnList(c) : c \in Classes} = {Belongs(c) : c \in Classes}
      BY <2>1, Zenon
    <2>3. Partial = UNION {Belongs(c) : c \in Classes}
      BY <1>4, <1>7, <1>8
    <2> QED
      BY <2>2, <2>3, Zenon
  <1>10. {ext[e].cls : e \in Partial} = {c \in Classes : head[c] # EXT_NONE}
    <2>1. \A c \in Classes : head[c] = EXT_NONE <=> Belongs(c) = {}
      BY <1>5, HeadKnown, Zenon
    <2>2. \A c \in Classes : head[c] # EXT_NONE <=> \E e \in Partial : ext[e].cls = c
      <3> TAKE c \in Classes
      <3>1. Belongs(c) # {} <=> \E e \in Partial : ext[e].cls = c
        BY <1>7, <1>8, Zenon
      <3> QED
        BY <2>1, <3>1, Zenon
    <2>3. \A e \in Partial : ext[e].cls \in Classes
      BY <1>4, <1>8, Zenon
    <2> QED
      BY <2>2, <2>3, Zenon
  <1>11. ASSUME NEW e \in Partial
         PROVE  /\ NBINS - 1 - ext_bin(ext[e]) \in 0..(NBINS - 1)
                /\ (Cardinality(SlotsOf(e)) * NBINS) \div ext[e].nslots
                     = NBINS - 1 - ext_bin(ext[e])
    <2>1. e \in Extents /\ ext[e].used = 1 /\ ext[e].nfree > 0
      BY <1>6, <1>8, Zenon
    <2>2. PICK x, t, N : x = ext[e] /\ t = Cardinality(Taken(x)) /\ N = NBINS
      BY Zenon
    <2>3. Cardinality(SlotsOf(e)) = t
      BY <2>1, <2>2, TakenCount, Zenon
    <2>4. Sound(x) /\ x \in Extent
      BY <2>1, <2>2, HeapKnown, Zenon DEF AllSound
    <2>5. x.nslots \in 0..EXT_GRAINS /\ x.nslots \in Nat /\ x.nfree \in Nat
      BY <2>4, SizesKnown DEF Extent
    <2>6. x.nfree = x.nslots - t
      BY <2>2, <2>4, Zenon DEF Sound
    <2>7. t \in 0..x.nslots
      BY <2>2, <2>5, TakenIn, Zenon
    <2>8. t \in Nat /\ t < x.nslots /\ x.nslots \in Nat \ {0} /\ x.nslots - x.nfree = t
      BY <2>1, <2>2, <2>5, <2>6, <2>7, SMTT(30)
    <2>9. N \in Nat \ {0}
      BY <2>2, StatsAssumption, Zenon DEF StatsAssumption
    <2>10. PICK q : q = (t * N) \div x.nslots
      BY Zenon
    <2>11. q \in 0..(N - 1)
      BY <2>8, <2>9, <2>10, Bucket, Zenon
    <2>12. ext_bin(x) = N - 1 - (IF q >= N THEN N - 1 ELSE q)
      BY <2>2, <2>8, <2>10, Zenon DEF ext_bin
    <2>13. N - 1 - ext_bin(x) = q
      BY <2>9, <2>11, <2>12
    <2> QED
      BY <2>2, <2>3, <2>10, <2>11, <2>13, Zenon
  <1>12. \A e \in extents_log.partial : extents_log.bin[e] = ext_bin(ext[e])
    BY <1>3, Zenon
  <1>13. /\ HeapGauges
         /\ extents_log.used = extents_used
         /\ extents_log.partial = UNION {OnList(c) : c \in Classes}
         /\ extents_log.classes = {c \in Classes : head[c] # EXT_NONE}
         /\ \A e \in extents_log.partial :
              /\ NBINS - 1 - extents_log.bin[e] \in 0..(NBINS - 1)
              /\ (Cardinality(SlotsOf(e)) * NBINS) \div ext[e].nslots
                   = NBINS - 1 - extents_log.bin[e]
    BY <1>1, <1>2, <1>3, <1>9, <1>10, <1>11, <1>12, Zenon
  <1> QED
    BY <1>13, Zenon DEF ReportTrue, OnList, SlotsOf

-----------------------------------------------------------------------------
(* The warnings.                                                           *)

LEMMA LevelKnown ==
  ASSUME NEW u \in Nat
  PROVE  /\ Level(Pct(u)) \in 0..3
         /\ Pct(u) < Calm => Level(Pct(u)) = 0
  <1>1. PICK p : p = Pct(u)
    BY Zenon
  <1>2. p \in Nat
    <2>1. 100 * u \in Nat /\ NExtents \in Nat \ {0}
      BY SizesKnown
    <2> QED
      BY <1>1, <2>1, Division, Zenon DEF Pct
  <1>3. Full[1] \in Nat /\ Calm \in Nat /\ Calm <= Full[1]
    BY StatsAssumption DEF StatsAssumption
  <1>4. Level(p) \in 0..3
    <2>1. CASE p < Full[1]
      BY <2>1 DEF Level
    <2>2. CASE ~(p < Full[1])
      <3>1. PICK S : S = {l \in 1..3 : p >= Full[l]}
        BY Zenon
      <3>2. S \in SUBSET (1..3) /\ 1 \in S
        BY <1>2, <1>3, <2>2, <3>1
      <3>3. \E x \in S : \A y \in S : x >= y
        <4>1. CASE 3 \in S
          BY <3>2, <4>1
        <4>2. CASE 3 \notin S /\ 2 \in S
          BY <3>2, <4>2
        <4>3. CASE 3 \notin S /\ 2 \notin S
          BY <3>2, <4>3
        <4> QED
          BY <4>1, <4>2, <4>3, Zenon
      <3>4. Max(S) \in S
        BY <3>3, Zenon DEF Max
      <3>5. Level(p) = Max(S)
        BY <2>2, <3>1, Zenon DEF Level
      <3>6. Level(p) \in 1..3
        BY <3>2, <3>4, <3>5, Zenon
      <3>7. \A k \in 1..3 : k \in 0..3
        OBVIOUS
      <3> QED
        BY <3>6, <3>7, Zenon
    <2> QED
      BY <2>1, <2>2, Zenon
  <1>5. p < Calm => Level(p) = 0
    BY <1>2, <1>3 DEF Level
  <1> QED
    BY <1>1, <1>4, <1>5, Zenon

LEMMA WarnStep ==
  ASSUME StatsInv, extents_used \in Nat, stats_worker
  PROVE  /\ StatsInv'
         /\ warned' >= Level(Pct(extents_used))
         /\ warned' > warned => warned' > said
  <1>1. PICK w, s, l, calm : /\ w = warned /\ s = said /\ l = Level(Pct(extents_used))
                             /\ calm = (Pct(extents_used) < Calm)
    BY Zenon
  <1>2. /\ w \in 0..3 /\ s \in 0..3 /\ s <= w /\ (calm => s = 0)
    BY <1>1, Zenon DEF StatsInv
  <1>3. l \in 0..3 /\ (calm => l = 0)
    BY <1>1, LevelKnown, Zenon
  <1>4. /\ warned' = IF l > w \/ (l < w /\ calm) THEN l ELSE w
        /\ said' = IF warned' > w THEN warned' ELSE s
        /\ extents_used' = extents_used
    BY <1>1, Zenon DEF stats_worker, Rearmed, vars
  <1>5. PICK v, t : v = warned' /\ t = said'
    BY Zenon
  <1>6. calm \in BOOLEAN
    BY <1>1
  <1>7. /\ v \in 0..3 /\ t \in 0..3 /\ t <= v /\ (calm => t = 0)
        /\ v >= l /\ (v > w => v > s)
    <2>1. v = (IF l > w \/ (l < w /\ calm) THEN l ELSE w) /\ t = IF v > w THEN v ELSE s
      BY <1>4, <1>5, Zenon
    <2>2. CASE l > w
      <3>1. v = l /\ t = l /\ ~calm
        BY <1>2, <1>3, <2>1, <2>2
      <3> QED
        BY <1>2, <1>3, <2>2, <3>1
    <2>3. CASE ~(l > w) /\ l < w /\ calm
      <3>1. v = l /\ t = s /\ s = 0
        BY <1>2, <1>3, <2>1, <2>3, Zenon
      <3> QED
        BY <1>2, <1>3, <2>3, <3>1
    <2>4. CASE ~(l > w) /\ ~(l < w /\ calm)
      <3>1. v = w
        BY <2>1, <2>4, Zenon
      <3>2. t = s
        BY <1>2, <2>1, <3>1
      <3> QED
        BY <1>2, <1>3, <2>4, <3>1, <3>2
    <2> QED
      BY <2>2, <2>3, <2>4, Zenon
  <1>8. StatsInv'
    <2>1. calm = (Pct(extents_used') < Calm)
      BY <1>1, <1>4, Zenon
    <2> QED
      BY <1>5, <1>7, <2>1, Zenon DEF StatsInv
  <1> QED
    BY <1>1, <1>5, <1>7, <1>8, Zenon

(* The invariant of the allocator and the thread that watches it.          *)
WatchInv == AllocInv /\ StatsInv

LEMMA UsedNat ==
  ASSUME AllocInv
  PROVE  extents_used \in Nat
  BY UsedGauge, Zenon DEF AllocInv

LEMMA WatchKept == StatsSpec => []WatchInv
  <1>1. StatsInit => WatchInv
    <2> SUFFICES ASSUME StatsInit PROVE WatchInv
      BY Zenon
    <2>1. AllocInv
      BY AllocStarts, Zenon DEF StatsInit
    <2>2. warned = 0 /\ said = 0
      BY Zenon DEF StatsInit
    <2>3. StatsInv
      BY <2>2 DEF StatsInv
    <2> QED
      BY <2>1, <2>3, Zenon DEF WatchInv
  <1>2. WatchInv /\ [StatsNext]_<<vars, stats, said>> => WatchInv'
    <2> SUFFICES ASSUME WatchInv, [StatsNext]_<<vars, stats, said>> PROVE WatchInv'
      BY Zenon
    <2>1. AllocInv /\ StatsInv
      BY Zenon DEF WatchInv
    <2>2. CASE Allocate
      <3>1. AllocInv'
        BY <2>1, <2>2, AllocNext, Zenon DEF Allocate
      <3>2. warned' = warned /\ said' = IF Pct(extents_used') < Calm THEN 0 ELSE said
        BY <2>2, Zenon DEF Allocate, stats
      <3>3. StatsInv'
        <4>1. warned \in 0..3 /\ said \in 0..3 /\ said <= warned
          BY <2>1, Zenon DEF StatsInv
        <4>2. PICK calm : calm = (Pct(extents_used') < Calm)
          BY Zenon
        <4>3. said' = (IF calm THEN 0 ELSE said)
          BY <3>2, <4>2, Zenon
        <4>4. said' \in 0..3 /\ said' <= warned' /\ (calm => said' = 0)
          BY <3>2, <4>1, <4>3
        <4> QED
          BY <3>2, <4>1, <4>2, <4>4, Zenon DEF StatsInv
      <3> QED
        BY <3>1, <3>3, Zenon DEF WatchInv
    <2>3. CASE stats_worker
      <3>1. AllocInv'
        <4>1. UNCHANGED vars
          BY <2>3, Zenon DEF stats_worker
        <4> QED
          BY <2>1, <4>1, AllocNext, Zenon
      <3>2. StatsInv'
        BY <2>1, <2>3, UsedNat, WarnStep, Zenon
      <3> QED
        BY <3>1, <3>2, Zenon DEF WatchInv
    <2>4. CASE UNCHANGED <<vars, stats, said>>
      <3>1. AllocInv'
        <4>1. UNCHANGED vars
          BY <2>4, Zenon
        <4> QED
          BY <2>1, <4>1, AllocNext, Zenon
      <3>2. extents_used' = extents_used /\ warned' = warned /\ said' = said
        BY <2>4, Zenon DEF vars, stats
      <3>3. StatsInv'
        BY <2>1, <3>2, Zenon DEF StatsInv
      <3> QED
        BY <3>1, <3>3, Zenon DEF WatchInv
    <2> QED
      BY <2>2, <2>3, <2>4, Zenon DEF StatsNext
  <1> QED
    BY <1>1, <1>2, PTL DEF StatsSpec

-----------------------------------------------------------------------------
(* The theorems.                                                           *)

(* The allocator's gauges and links stay in range: the extents in use and  *)
(* their peak never exceed the heap, and an index read from a list is that *)
(* of an extent or EXT_NONE (slot_alloc, slot_free, lst_push, lst_remove). *)
THEOREM HeapTyped == StatsSpec => []TypeOK
  <1>1. WatchInv => TypeOK
    BY AllocTypes, Zenon DEF WatchInv
  <1> QED
    BY <1>1, WatchKept, PTL

(* Two slots handed out never share a byte, for any size of heap, extent,  *)
(* class and bitmap word (slot_alloc, ext_take, slot_free).                *)
THEOREM SlotsApart == StatsSpec => []SlotsDisjoint
  <1>1. WatchInv => SlotsDisjoint
    BY AllocDisjoint, Zenon DEF WatchInv
  <1> QED
    BY <1>1, WatchKept, PTL

(* Every list ends, is doubly linked, and holds exactly the extents that   *)
(* belong on it (lst_push, lst_remove, slot_alloc, slot_free).             *)
THEOREM ListsCorrect == StatsSpec => []ListsSound
  <1>1. WatchInv => ListsSound
    BY AllocLists, Zenon DEF WatchInv
  <1> QED
    BY <1>1, WatchKept, PTL

(* A heap with room for a slot, in a free extent or a partial one of the   *)
(* slot's class or a larger one, never refuses it (slot_alloc, ext_take).  *)
THEOREM RefusesRightly == StatsSpec => []RefusesOnlyWhenFull
  <1>1. WatchInv => RefusesOnlyWhenFull
    BY AllocRefuses, Zenon DEF WatchInv
  <1> QED
    BY <1>1, WatchKept, PTL

(* No slot below an extent's hint is free (ext_take, slot_free).           *)
THEOREM HintRight == StatsSpec => []HintSound
  <1>1. WatchInv => HintSound
    BY AllocHint, Zenon DEF WatchInv
  <1> QED
    BY <1>1, WatchKept, PTL

(* Gauges and report are exact: bytes, extents, partial extents, classes   *)
(* and buckets are those of the slots handed out (extents_log, ext_bin).   *)
THEOREM ReportCorrect == StatsSpec => []ReportTrue
  <1>1. WatchInv => ReportTrue
    BY AllocReport, Zenon DEF WatchInv
  <1> QED
    BY <1>1, WatchKept, PTL

(* A turn of the loop warns of the level it finds unless it did already,   *)
(* and of none twice while the heap stays above Calm (stats_worker).       *)
THEOREM WarnsRightly == StatsSpec => WarnsOnce
  <1>1. WatchInv /\ [StatsNext]_<<vars, stats, said>>
          => [stats_worker => /\ warned' >= Level(Pct(extents_used))
                              /\ warned' > warned => warned' > said]_<<vars, stats, said>>
    <2> SUFFICES ASSUME WatchInv, stats_worker
                 PROVE  /\ warned' >= Level(Pct(extents_used))
                        /\ warned' > warned => warned' > said
      BY Zenon
    <2>1. AllocInv /\ StatsInv
      BY Zenon DEF WatchInv
    <2> QED
      BY <2>1, UsedNat, WarnStep, Zenon
  <1> QED
    BY <1>1, WatchKept, PTL DEF StatsSpec, WarnsOnce

=============================================================================
