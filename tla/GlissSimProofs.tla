--------------------------- MODULE GlissSimProofs ---------------------------
(***************************************************************************)
(* Proofs about GlissSim, for any program, size of the caches, length of   *)
(* the blocks and decoder.                                                 *)
(*                                                                         *)
(* SimInv is the invariant: memory and its history (MemInv), the cache     *)
(* (CacheInv) and where execution is in what decode returned (ControlInv), *)
(* which says nothing of the static pointer of step once it has drifted.   *)
(* In the cache, every entry with a key holds the instructions from that   *)
(* key on, as they are or were in memory (Chunk), and every list goes      *)
(* through its D entries, each once, whatever its last next field has      *)
(* become (ListInv): a lookup then returns one of them and fills no other. *)
(* What lists hold cannot be shown by induction on their nodes: the least  *)
(* one where two readings of a list differ is taken instead (LeastOf).     *)
(*                                                                         *)
(* RetainInv is a second invariant, for what the cache of entries and the  *)
(* lists keep: the keys wanted last are in the places their age says (Kept)*)
(* and nothing else is.                                                    *)
(***************************************************************************)
EXTENDS GlissSim, FiniteSetTheorems, WellFoundedInduction, TLAPS

-----------------------------------------------------------------------------
(* Division and remainder: bounds of a quotient. *)
LEMMA DivBelow ==
  ASSUME NEW a \in Nat, NEW p \in Nat, NEW b \in Nat \ {0}, a <= p * b + b - 1
  PROVE  a \div b <= p
  BY SMTT(30)

LEMMA DivAbove ==
  ASSUME NEW a \in Nat, NEW p \in Nat, NEW b \in Nat \ {0}, p * b <= a
  PROVE  p <= a \div b
  BY SMTT(30)

(* The quotient and the remainder are the only ones.                       *)
LEMMA Division ==
  ASSUME NEW x \in Nat, NEW b \in Nat \ {0}, NEW q \in Nat, NEW r \in 0..b - 1,
         x = q * b + r
  PROVE  x \div b = q /\ x % b = r
<1>1. x \div b = q
  BY DivBelow, DivAbove
<1>2. x = b * (x \div b) + (x % b)
  BY SMTT(30)
<1>3. b * q = q * b /\ q * b \in Nat /\ x % b \in Nat
  BY SMTT(30)
<1>4. x = q * b + (x % b)
  BY <1>1, <1>2, <1>3
<1> QED BY <1>1, <1>3, <1>4

(* Both are numbers, and give the number divided back. *)
LEMMA Euclid ==
  ASSUME NEW x \in Nat, NEW b \in Nat \ {0}
  PROVE  x \div b \in Nat /\ x % b \in 0..b - 1 /\ x = (x \div b) * b + (x % b)
BY SMTT(30)

(* Offset o of page m, the pages being counted around the address space.   *)
LEMMA Around ==
  ASSUME NEW b \in Nat \ {0}, NEW n \in Nat \ {0}, NEW m \in Nat, NEW o \in 0..b - 1
  PROVE  (m * b + o) % (b * n) = (m % n) * b + o
<1> DEFINE d == m \div n
           e == m % n
<1>1. d \in Nat /\ e \in 0..n - 1 /\ m = d * n + e
  BY Euclid
<1> HIDE DEF d, e
<1>2. m * b = d * (b * n) + e * b
  <2>1. m * b = (d * n + e) * b
    BY <1>1
  <2>2. (d * n + e) * b = d * (b * n) + e * b
    BY <1>1, SMTT(30)
  <2> QED BY <2>1, <2>2
<1>3. e * b + o \in 0..(b * n) - 1
  <2>1. e * b \in Nat /\ b * n \in Nat /\ e * b <= b * n - b
    BY <1>1, SMTT(30)
  <2> DEFINE u == e * b
             v == b * n
  <2> HIDE DEF u, v
  <2>2. u \in Nat /\ v \in Nat /\ u <= v - b
    BY <2>1 DEF u, v
  <2>3. u + o \in 0..v - 1
    BY <2>2
  <2> QED BY <2>3 DEF u, v
<1>4. b * n \in Nat \ {0} /\ d * (b * n) \in Nat /\ m * b + o \in Nat /\ e * b \in Nat
  BY <1>1, SMTT(30)
<1>5. m * b + o = d * (b * n) + (e * b + o)
  BY <1>2, <1>4
<1> DEFINE x == m * b + o
           y == b * n
           r == e * b + o
<1>6. x \in Nat /\ y \in Nat \ {0} /\ r \in 0..y - 1 /\ x = d * y + r
  BY <1>3, <1>4, <1>5
<1> HIDE DEF x, y, r
<1>7. x % y = r
  BY <1>1, <1>6, Division
<1> QED BY <1>7 DEF x, y, r, e

-----------------------------------------------------------------------------
(* Addresses. *)
Forth(a, k) == (a + InstSize * k) % Space

LEMMA AddrIs ==
  \A a \in Addr : \E i \in 0..Slots - 1 : a = InstSize * i
BY DEF Addr

LEMMA SpaceFacts ==
  /\ Slots \in Nat \ {0} /\ Space \in Nat \ {0}
  /\ \A a \in Addr : a \in Nat /\ a < Space
BY SlotsAssumption DEF Space, Addr, InstSize

(* Instructions are counted around like addresses. *)
LEMMA CountedAround ==
  ASSUME NEW m \in Nat, NEW s \in Nat \ {0}
  PROVE  (m * 4) % (4 * s) = (m % s) * 4
<1> DEFINE b == 4
           z == 0
<1>1. b \in Nat \ {0} /\ z \in 0..b - 1
  OBVIOUS
<1> HIDE DEF b, z
<1>2. (m * b + z) % (b * s) = (m % s) * b + z
  BY <1>1, Around
<1>3. m % s \in Int
  BY Euclid
<1> DEFINE r == m % s
<1>4. r \in Int
  BY <1>3
<1> HIDE DEF r
<1>5. m * b + z = m * 4 /\ b * s = 4 * s /\ r * b + z = r * 4
  BY <1>4 DEF b, z
<1> QED BY <1>2, <1>5 DEF r

LEMMA ForthAddr ==
  ASSUME NEW a \in Addr, NEW k \in Nat
  PROVE  Forth(a, k) \in Addr
<1>1. PICK i \in 0..Slots - 1 : a = InstSize * i
  BY AddrIs
<1> DEFINE m == i + k
<1>2. m \in Nat /\ a + InstSize * k = m * 4 /\ Slots \in Nat \ {0}
  BY <1>1, SlotsAssumption DEF InstSize
<1> HIDE DEF m
<1>3. (m * 4) % (4 * Slots) = (m % Slots) * 4
  BY <1>2, CountedAround
<1>4. m % Slots \in 0..Slots - 1
  BY <1>2, Euclid
<1>5. Forth(a, k) = 4 * (m % Slots)
  BY <1>2, <1>3, <1>4 DEF Forth, Space, InstSize
<1> QED BY <1>4, <1>5 DEF Addr, InstSize

(* Going forth is done one instruction after the other. *)
LEMMA ForthAfter ==
  ASSUME NEW a \in Addr, NEW k \in Nat
  PROVE  After(Forth(a, k)) = Forth(a, k + 1)
<1>1. PICK i \in 0..Slots - 1 : a = InstSize * i
  BY AddrIs
<1> DEFINE m == i + k
           n == m % Slots
<1>2. /\ m \in Nat /\ a + InstSize * k = m * 4 /\ Slots \in Nat \ {0}
      /\ a + InstSize * (k + 1) = (m + 1) * 4
  BY <1>1, SlotsAssumption DEF InstSize
<1> HIDE DEF m
<1>3. n \in Nat /\ m \div Slots \in Nat /\ m = (m \div Slots) * Slots + n
  <2>1. /\ m \div Slots \in Nat /\ m % Slots \in 0..Slots - 1
        /\ m = (m \div Slots) * Slots + (m % Slots)
    BY <1>2, Euclid
  <2> HIDE DEF n
  <2>2. n = m % Slots
    BY DEF n
  <2> QED BY <1>2, <2>1, <2>2
<1>4. (m * 4) % (4 * Slots) = n * 4
  BY <1>2, CountedAround
<1>5. Forth(a, k) = n * 4
  BY <1>2, <1>4 DEF Forth, Space, InstSize
<1>6. Forth(a, k + 1) = ((m + 1) % Slots) * 4
  <2>1. ((m + 1) * 4) % (4 * Slots) = ((m + 1) % Slots) * 4
    <3> DEFINE y == m + 1
    <3>1. y \in Nat
      BY <1>2
    <3> HIDE DEF y
    <3>2. (y * 4) % (4 * Slots) = (y % Slots) * 4
      BY <1>2, <3>1, CountedAround
    <3> QED BY <3>2 DEF y
  <2> QED BY <1>2, <2>1 DEF Forth, Space, InstSize
<1>7. After(Forth(a, k)) = ((n + 1) % Slots) * 4
  <2>1. ((n + 1) * 4) % (4 * Slots) = ((n + 1) % Slots) * 4
    <3> DEFINE y == n + 1
    <3>1. y \in Nat
      BY <1>3
    <3> HIDE DEF y
    <3>2. (y * 4) % (4 * Slots) = (y % Slots) * 4
      BY <1>2, <3>1, CountedAround
    <3> QED BY <3>2 DEF y
  <2>2. Forth(a, k) + 4 = (n + 1) * 4
    BY <1>3, <1>5
  <2> QED BY <2>1, <2>2 DEF After, Space, InstSize
<1>8. (m + 1) % Slots = (n + 1) % Slots
  <2> DEFINE q == m \div Slots
             r == (n + 1) \div Slots
             t == (n + 1) % Slots
  <2>1. r \in Nat /\ t \in 0..Slots - 1 /\ n + 1 = r * Slots + t
    <3> DEFINE y == n + 1
    <3>1. y \in Nat
      BY <1>3
    <3> HIDE DEF y
    <3>2. y \div Slots \in Nat /\ y % Slots \in 0..Slots - 1 /\ y = (y \div Slots) * Slots + (y % Slots)
      BY <1>2, <3>1, Euclid
    <3> QED BY <3>2 DEF y
  <2>2. q \in Nat /\ m = q * Slots + n
    BY <1>3
  <2> HIDE DEF q, r, t, n
  <2>3. q * Slots \in Nat /\ r * Slots \in Nat /\ (q + r) * Slots = q * Slots + r * Slots
    BY <1>2, <2>1, <2>2, SMTT(30)
  <2>4. m + 1 = (q + r) * Slots + t /\ q + r \in Nat /\ m + 1 \in Nat
    BY <1>2, <1>3, <2>1, <2>2, <2>3
  <2>5. (m + 1) % Slots = t
    BY <1>2, <2>1, <2>4, Division
  <2> QED BY <2>5 DEF t
<1> QED BY <1>6, <1>7, <1>8

LEMMA AfterAddr ==
  ASSUME NEW a \in Addr
  PROVE  After(a) \in Addr /\ Forth(a, 0) = a
<1>1. a \in Nat /\ a < Space /\ Space \in Nat \ {0}
  BY SpaceFacts
<1>2. Forth(a, 0) = a
  BY <1>1, SMTT(30) DEF Forth, InstSize
<1>3. After(a) = Forth(a, 1)
  BY <1>2, ForthAfter
<1> QED BY <1>2, <1>3, ForthAddr

(* The block an address is in, and its place there. *)
LEMMA BlockFacts ==
  ASSUME NEW a \in Addr
  PROVE  /\ Block(a) \in Addr
         /\ (a \div InstSize) % TraceDepth \in 0..TraceDepth - 1
         /\ Forth(Block(a), (a \div InstSize) % TraceDepth) = a
<1>1. PICK i \in 0..Slots - 1 : a = InstSize * i
  BY AddrIs
<1> DEFINE t == TraceDepth
           b == i \div t
           o == i % t
<1>2. t \in Nat \ {0} /\ i \in Nat /\ Slots \in Nat \ {0}
  BY SlotsAssumption, DepthAssumption
<1>3. a \div InstSize = i
  BY <1>1, <1>2 DEF InstSize
<1> HIDE DEF t
<1>4. b \in Nat /\ o \in 0..t - 1 /\ i = b * t + o
  BY <1>2, Euclid
<1> HIDE DEF b, o
<1>5. b * t \in 0..Slots - 1
  BY <1>2, <1>4, SMTT(30)
<1>6. Block(a) = InstSize * (b * t)
  <2>1. Block(a) = b * t * InstSize
    BY <1>3 DEF Block, BlockNumber, t, b
  <2>2. b * t \in Int
    BY <1>5
  <2> DEFINE x == b * t
  <2>3. x * InstSize = InstSize * x
    BY <2>2 DEF InstSize
  <2> QED BY <2>1, <2>3
<1>7. Block(a) \in Addr
  BY <1>5, <1>6 DEF Addr
<1>8. Forth(Block(a), o) = a
  <2> DEFINE x == b * t
  <2>1. x \in Nat /\ i = x + o /\ o \in Nat
    BY <1>2, <1>4, <1>5
  <2>2. Block(a) = 4 * x
    BY <1>6 DEF InstSize
  <2> HIDE DEF x
  <2>3. Block(a) + InstSize * o = a
    BY <1>1, <2>1, <2>2 DEF InstSize
  <2>4. a % Space = a
    BY SpaceFacts, SMTT(30)
  <2> QED BY <2>3, <2>4 DEF Forth
<1> QED BY <1>3, <1>4, <1>7, <1>8 DEF o, t

(* A set of numbers that is not empty has a least one. *)
LEMMA LeastOf ==
  ASSUME NEW S \in SUBSET Nat, S # {}
  PROVE  \E n \in S : \A m \in S : n <= m
<1>1. IsWellFoundedOn(OpToRel(<, Nat), Nat)
  BY NatLessThanWellFounded
<1> DEFINE R == OpToRel(<, Nat)
<1> HIDE DEF R
<1>2. IsWellFoundedOn(R, Nat)
  BY <1>1 DEF R
<1>3. \E n \in S : \A m \in S : ~(<<m, n>> \in R)
  BY <1>2, WFMin
<1>4. \A m, n \in Nat : m < n => <<m, n>> \in R
  BY DEF R, OpToRel
<1>5. PICK n \in S : \A m \in S : ~(<<m, n>> \in R)
  BY <1>3
<1>6. \A m \in S : n <= m
  <2> TAKE m \in S
  <2>1. n \in Nat /\ m \in Nat /\ ~(<<m, n>> \in R)
    BY <1>5
  <2>2. ~(m < n)
    BY <1>4, <2>1
  <2> QED BY <2>1, <2>2
<1> QED BY <1>6

-----------------------------------------------------------------------------
(* The lists.  Whatever its last next field, a list goes through its D     *)
(* entries, each once: o gives the order.                                  *)
Lists == {"lru", "trace", "dtrace"}
Order == {o \in [1..D -> 0..D - 1] : \A i, j \in 1..D : o[i] = o[j] => i = j}

Chained(h, o) ==
  /\ head[h] = <<h, o[1]>>
  /\ \A k \in 1..D - 1 : next[<<h, o[k]>>] = <<h, o[k + 1]>>

ListInv ==
  policy \in Lists =>
    /\ DOMAIN cells = (0..Size - 1) \X (0..D - 1)
    /\ DOMAIN next = (0..Size - 1) \X (0..D - 1)
    /\ DOMAIN head = 0..Size - 1
    /\ \A h \in 0..Size - 1 : \E o \in Order : Chained(h, o)

LEMMA DepthIs ==
  ASSUME policy \in Policies
  PROVE  D \in Nat \ {0, 1} /\ Size \in Nat \ {0}
BY DepthAssumption DEF D

(* What Node follows is the chain. *)
LEMMA NodeIs ==
  ASSUME D \in Nat \ {0}, NEW h, NEW nd,
         nd[1] = head[h], \A k \in 1..D - 1 : nd[k + 1] = next[nd[k]]
  PROVE  \A k \in 1..D : Node(h, k) = nd[k]
<1> DEFINE follow(n) == [i \in 1..D |-> IF i = 1 THEN head[h] ELSE next[n[i - 1]]]
           w == [i \in 1..D |-> nd[i]]
           n == CHOOSE n : n = follow(n)
<1>1. w = follow(w)
  <2>1. ASSUME NEW i \in 1..D
        PROVE  nd[i] = IF i = 1 THEN head[h] ELSE next[w[i - 1]]
    <3>1. CASE i = 1
      BY <3>1
    <3>2. CASE i # 1
      <4>1. i - 1 \in 1..D - 1 /\ i - 1 \in 1..D /\ (i - 1) + 1 = i
        BY <3>2
      <4> QED BY <3>2, <4>1
    <3> QED BY <3>1, <3>2
  <2> QED BY <2>1
<1>2. n = follow(n)
  <2> HIDE DEF follow, w
  <2> QED BY <1>1
<1> HIDE DEF n
<1>3. \A i \in 1..D : n[i] = IF i = 1 THEN head[h] ELSE next[n[i - 1]]
  BY <1>2
<1>4. \A k \in 1..D : n[k] = nd[k]
  <2> DEFINE S == {k \in 1..D : n[k] # nd[k]}
  <2> SUFFICES ASSUME S # {} PROVE FALSE
    OBVIOUS
  <2>1. PICK k \in S : \A m \in S : k <= m
    <3>1. S \in SUBSET Nat
      OBVIOUS
    <3> HIDE DEF S
    <3> QED BY <3>1, LeastOf
  <2>2. k # 1
    BY <1>3, <2>1
  <2>3. k - 1 \in 1..D /\ k - 1 \in 1..D - 1 /\ (k - 1) + 1 = k /\ k - 1 \notin S
    BY <2>1, <2>2
  <2>4. n[k - 1] = nd[k - 1]
    BY <2>3
  <2>5. n[k] = nd[k]
    BY <1>3, <2>1, <2>2, <2>3, <2>4
  <2> QED BY <2>1, <2>5
<1>5. \A k : Node(h, k) = n[k]
  BY DEF Node, n
<1> QED BY <1>4, <1>5

LEMMA ChainNodes ==
  ASSUME D \in Nat \ {0}, NEW h, NEW o \in Order, Chained(h, o)
  PROVE  \A k \in 1..D : Node(h, k) = <<h, o[k]>>
<1> DEFINE nd == [k \in 1..D |-> <<h, o[k]>>]
<1>1. nd[1] = head[h] /\ \A k \in 1..D - 1 : nd[k + 1] = next[nd[k]]
  <2>1. 1 \in 1..D /\ \A k \in 1..D - 1 : k \in 1..D /\ k + 1 \in 1..D
    OBVIOUS
  <2>2. nd[1] = head[h]
    BY <2>1 DEF Chained
  <2>3. ASSUME NEW k \in 1..D - 1
        PROVE  nd[k + 1] = next[nd[k]]
    BY <2>1 DEF Chained
  <2> QED BY <2>2, <2>3
<1> HIDE DEF nd
<1>2. \A k \in 1..D : Node(h, k) = nd[k]
  BY <1>1, NodeIs
<1> QED BY <1>2 DEF nd

LEMMA PlaceIs ==
  ASSUME D \in Nat \ {0}, NEW h, NEW key
  PROVE  PlaceOf(h, key) \in 1..D
<1> DEFINE found == {k \in 1..D : k = D \/ cells[Node(h, k)].key = key}
<1>1. found \in SUBSET Nat /\ found # {}
  OBVIOUS
<1> HIDE DEF found
<1>2. \E k \in found : \A j \in found : k <= j
  BY <1>1, LeastOf
<1>3. (CHOOSE k \in found : \A j \in found : k <= j) \in found
  BY <1>2
<1> QED BY <1>3 DEF PlaceOf, found

LEMMA HashIs ==
  ASSUME policy \in Policies, NEW a \in Addr
  PROVE  Hash(a) \in 0..Size - 1
<1>1. a \in Nat /\ BlockNumber(a) \in Nat /\ Size \in Nat \ {0}
  <2>1. a \in Nat /\ TraceDepth \in Nat \ {0} /\ Size \in Nat \ {0}
    BY SpaceFacts, DepthAssumption
  <2>2. a \div 4 \in Nat
    BY <2>1
  <2> DEFINE q == a \div 4
  <2>3. q \in Nat
    BY <2>2
  <2> HIDE DEF q
  <2>4. q \div TraceDepth \in Nat
    BY <2>1, <2>3, Euclid
  <2> QED BY <2>1, <2>4 DEF BlockNumber, InstSize, q
<1> DEFINE x == IF policy = "trace" THEN BlockNumber(a) ELSE a
<1>2. x \in Nat
  BY <1>1
<1> HIDE DEF x
<1>3. x % Size \in 0..Size - 1
  BY <1>1, <1>2, Euclid
<1> QED BY <1>3 DEF Hash, x

(* A lookup moves an entry to the front of its list, from place k. *)
Moved(q, k) ==
  [i \in 1..D |-> IF i = 1 THEN q[k] ELSE IF i <= k THEN q[i - 1] ELSE q[i]]

LEMMA LookupMoves ==
  ASSUME ListInv, policy \in Policies, policy \in Lists, NEW h \in 0..Size - 1, NEW key,
         CacheLookup(h, key), NEW q \in Order, Chained(h, q)
  PROVE  LET o == Moved(q, PlaceOf(h, key))
         IN /\ o \in Order
            /\ head'[h] = <<h, o[1]>>
            /\ \A i \in 1..D - 1 : next'[<<h, o[i]>>] = <<h, o[i + 1]>>
<1>0. D \in Nat \ {0, 1}
  BY DepthIs
<1> DEFINE k == PlaceOf(h, key)
           o == [i \in 1..D |-> IF i = 1 THEN q[k] ELSE IF i <= k THEN q[i - 1] ELSE q[i]]
<1>1. k \in 1..D /\ \A i \in 1..D : Node(h, i) = <<h, q[i]>>
  BY <1>0, PlaceIs, ChainNodes
<1>2. /\ q \in [1..D -> 0..D - 1]
      /\ \A i, j \in 1..D : q[i] = q[j] => i = j
      /\ \A i \in 1..D : <<h, q[i]>> \in DOMAIN next
      /\ head[h] = <<h, q[1]>>
      /\ \A i \in 1..D - 1 : next[<<h, q[i]>>] = <<h, q[i + 1]>>
  BY DEF Order, Chained, ListInv
<1>3. head' = [head EXCEPT ![h] = <<h, q[k]>>] /\ h \in DOMAIN head
  BY <1>1 DEF CacheLookup, ListInv
<1>4. next' = IF k = 1 THEN next
              ELSE IF k = D THEN [next EXCEPT ![<<h, q[k]>>] = <<h, q[1]>>]
              ELSE [next EXCEPT ![<<h, q[k - 1]>>] = <<h, q[k + 1]>>,
                                ![<<h, q[k]>>] = <<h, q[1]>>]
  <2>1. CASE k = 1
    BY <2>1 DEF CacheLookup
  <2>2. CASE k = D /\ k # 1
    BY <1>1, <1>2, <2>2 DEF CacheLookup
  <2>3. CASE k # D /\ k # 1
    <3>1. k - 1 \in 1..D /\ k \in 1..D - 1
      BY <1>0, <1>1, <2>3
    <3> QED BY <1>1, <1>2, <2>3, <3>1 DEF CacheLookup
  <2> QED BY <2>1, <2>2, <2>3
<1>8. Moved(q, PlaceOf(h, key)) = o
  BY DEF Moved
<1> HIDE DEF k
<1>5. o \in Order
  <2>1. \A i \in 1..D : o[i] \in 0..D - 1
    BY <1>0, <1>1, <1>2
  <2>2. ASSUME NEW i \in 1..D, NEW j \in 1..D, o[i] = o[j]
        PROVE  i = j
    BY <1>0, <1>1, <1>2, <2>2
  <2> QED BY <2>1, <2>2 DEF Order
<1>6. head'[h] = <<h, o[1]>>
  BY <1>0, <1>3
<1>7. ASSUME NEW i \in 1..D - 1
      PROVE  next'[<<h, o[i]>>] = <<h, o[i + 1]>>
  <2>1. i \in 1..D /\ i + 1 \in 1..D
    BY <1>0
  <2>2. CASE k = 1
    BY <1>0, <1>2, <1>4, <2>1, <2>2
  <2>3. CASE k # 1 /\ i = 1
    <3>1. next'[<<h, q[k]>>] = <<h, q[1]>>
      BY <1>0, <1>1, <1>2, <1>4, <2>3
    <3>2. o[i] = q[k] /\ o[i + 1] = q[1]
      BY <1>0, <1>1, <2>1, <2>3
    <3> QED BY <3>1, <3>2
  <2>4. CASE k # 1 /\ i # 1 /\ i < k
    <3> DEFINE m == i - 1
    <3>1. /\ o[i] = q[m] /\ o[i + 1] = q[m + 1] /\ m \in 1..D - 1 /\ m \in 1..D
          /\ m # k /\ m # k - 1 /\ k - 1 \in 1..D
      BY <1>0, <1>1, <2>1, <2>4
    <3> HIDE DEF m
    <3>2. q[m] # q[k] /\ q[m] # q[k - 1]
      BY <1>1, <1>2, <3>1
    <3>3. next'[<<h, q[m]>>] = next[<<h, q[m]>>]
      BY <1>2, <1>4, <3>1, <3>2
    <3> QED BY <1>2, <3>1, <3>3
  <2>5. CASE k # 1 /\ i # 1 /\ i = k
    <3>1. o[i] = q[k - 1] /\ o[i + 1] = q[k + 1] /\ k - 1 \in 1..D /\ k # D
      BY <1>0, <1>1, <2>1, <2>5
    <3>2. q[k - 1] # q[k]
      BY <1>0, <1>1, <1>2, <3>1
    <3>3. next'[<<h, q[k - 1]>>] = <<h, q[k + 1]>>
      BY <1>2, <1>4, <2>5, <3>1, <3>2
    <3> QED BY <3>1, <3>3
  <2>6. CASE k # 1 /\ i > k
    <3>1. o[i] = q[i] /\ o[i + 1] = q[i + 1] /\ k - 1 \in 1..D
      BY <1>0, <1>1, <2>1, <2>6
    <3>2. q[i] # q[k] /\ q[i] # q[k - 1]
      BY <1>0, <1>1, <1>2, <2>1, <2>6, <3>1
    <3>3. next'[<<h, q[i]>>] = next[<<h, q[i]>>]
      BY <1>2, <1>4, <2>1, <3>2
    <3> QED BY <1>2, <3>1, <3>3
  <2>7. k \in Int /\ i \in Int
    BY <1>0, <1>1
  <2> HIDE DEF o
  <2> QED BY <2>2, <2>3, <2>4, <2>5, <2>6, <2>7
<1> HIDE DEF o
<1> QED BY <1>5, <1>6, <1>7, <1>8

(* It leaves the other lists alone. *)
LEMMA LookupLeaves ==
  ASSUME ListInv, policy \in Policies, policy \in Lists, NEW h \in 0..Size - 1, NEW key,
         CacheLookup(h, key), NEW g \in 0..Size - 1, g # h, NEW q \in Order, Chained(g, q)
  PROVE  /\ head'[g] = <<g, q[1]>>
         /\ \A i \in 1..D - 1 : next'[<<g, q[i]>>] = <<g, q[i + 1]>>
<1>0. D \in Nat \ {0, 1}
  BY DepthIs
<1>1. head'[g] = head[g]
  BY DEF CacheLookup, ListInv
<1> DEFINE k == PlaceOf(h, key)
<1>2. PICK p \in Order : Chained(h, p)
  BY DEF ListInv
<1>3. k \in 1..D /\ \A i \in 1..D : Node(h, i) = <<h, p[i]>>
  BY <1>0, <1>2, PlaceIs, ChainNodes
<1>4. \A i \in 0..D - 1 : next'[<<g, i>>] = next[<<g, i>>]
  <2>1. CASE k = 1
    BY <2>1 DEF CacheLookup
  <2>2. CASE k = D /\ k # 1
    <3>1. next' = [next EXCEPT ![<<h, p[k]>>] = head[h]]
      BY <1>3, <2>2 DEF CacheLookup
    <3> QED BY <3>1 DEF ListInv
  <2>3. CASE k # D /\ k # 1
    <3>1. k - 1 \in 1..D
      BY <1>0, <1>3, <2>3
    <3>2. next' = [next EXCEPT ![<<h, p[k - 1]>>] = next[<<h, p[k]>>],
                               ![<<h, p[k]>>] = head[h]]
      BY <1>3, <2>3, <3>1 DEF CacheLookup
    <3> QED BY <3>2 DEF ListInv
  <2> QED BY <2>1, <2>2, <2>3
<1>5. \A i \in 1..D - 1 : q[i] \in 0..D - 1
  BY <1>0 DEF Order
<1> QED BY <1>0, <1>1, <1>4, <1>5 DEF Chained

LEMMA LookupKeeps ==
  ASSUME ListInv, policy \in Policies, policy \in Lists, NEW h \in 0..Size - 1, NEW key,
         CacheLookup(h, key), UNCHANGED policy, DOMAIN cells' = DOMAIN cells
  PROVE  ListInv'
<1>1. D' = D /\ Order' = Order
  BY DEF D, Order
<1>2. ASSUME NEW g \in 0..Size - 1
      PROVE  \E o \in Order :
               /\ head'[g] = <<g, o[1]>>
               /\ \A k \in 1..D - 1 : next'[<<g, o[k]>>] = <<g, o[k + 1]>>
  <2>1. PICK q \in Order : Chained(g, q)
    BY DEF ListInv
  <2>2. CASE g # h
    BY <2>1, <2>2, LookupLeaves
  <2>3. CASE g = h
    BY <2>1, <2>3, LookupMoves
  <2> QED BY <2>2, <2>3
<1>3. DOMAIN head' = DOMAIN head /\ DOMAIN next' = DOMAIN next
  BY DEF CacheLookup
<1>4. \A g \in 0..Size - 1 : \E o \in Order' : Chained(g, o)'
  BY <1>1, <1>2 DEF Chained
<1> QED BY <1>1, <1>3, <1>4 DEF ListInv

-----------------------------------------------------------------------------
(* What an entry holds: the instructions from address k on, as memory      *)
(* holds or has held them.                                                 *)
Chunk(i, k) ==
  /\ k \in Addr
  /\ Len(i) \in Nat \ {0} /\ DOMAIN i = 1..Len(i)
  /\ policy = "trace" => Len(i) = TraceDepth
  /\ \A j \in 1..Len(i) : /\ i[j] = [addr |-> Forth(k, j - 1), word |-> i[j].word]
                          /\ i[j].word \in held[i[j].addr]
  /\ policy = "dtrace" => \A j \in 1..Len(i) - 1 : ~IsBranch(i[j].word)

MemInv ==
  /\ mem \in [Addr -> Word] /\ held \in [Addr -> SUBSET Word]
  /\ \A a \in Addr : mem[a] \in held[a]

CellsInv ==
  /\ \A c \in DOMAIN cells : cells[c].key # NULL => Chunk(cells[c].insts, cells[c].key)
  /\ policy = "inf" => \A c \in DOMAIN cells : cells[c].key = c[2] /\ c[2] # NULL

CacheInv == CellsInv /\ ListInv

LEMMA RunIs ==
  ASSUME MemInv, NEW a \in Addr, NEW n \in Nat \ {0}
  PROVE  /\ Len(Run(a, n)) = n /\ DOMAIN Run(a, n) = 1..n
         /\ \A j \in 1..n : /\ Run(a, n)[j] = [addr |-> Forth(a, j - 1),
                                               word |-> Run(a, n)[j].word]
                            /\ Run(a, n)[j].word \in held[Run(a, n)[j].addr]
<1>1. Len(Run(a, n)) = n /\ DOMAIN Run(a, n) = 1..n
  BY DEF Run
<1>2. ASSUME NEW j \in 1..n
      PROVE  Run(a, n)[j] = Inst(Forth(a, j - 1)) /\ Forth(a, j - 1) \in Addr
  <2>1. Run(a, n)[j] = Inst(Forth(a, j - 1))
    BY DEF Run, Forth
  <2>2. j - 1 \in Nat
    OBVIOUS
  <2> QED BY <2>1, <2>2, ForthAddr
<1>3. \A j \in 1..n : mem[Forth(a, j - 1)] \in held[Forth(a, j - 1)]
  BY <1>2 DEF MemInv
<1> QED BY <1>1, <1>2, <1>3 DEF Inst

LEMMA DecodeRunIs ==
  ASSUME MemInv, NEW a \in Addr
  PROVE  \E n \in 1..TraceDepth :
           /\ DecodeRun(a) = Run(a, n)
           /\ \A j \in 1..n - 1 : ~IsBranch(Run(a, n)[j].word)
<1> DEFINE ends == {n \in 1..TraceDepth : n = TraceDepth \/ IsBranch(Run(a, n)[n].word)}
           n == CHOOSE n \in ends : \A m \in ends : n <= m
<1>1. TraceDepth \in Nat \ {0}
  BY DepthAssumption
<1>2. ends \in SUBSET Nat /\ ends # {}
  BY <1>1
<1>3. \E x \in ends : \A m \in ends : x <= m
  <2> HIDE DEF ends
  <2> QED BY <1>2, LeastOf
<1>4. n \in ends /\ \A m \in ends : n <= m
  <2> HIDE DEF ends
  <2> QED BY <1>3
<1>5. DecodeRun(a) = Run(a, n)
  BY DEF DecodeRun
<1> HIDE DEF n
<1>6. ASSUME NEW j \in 1..n - 1
      PROVE  ~IsBranch(Run(a, n)[j].word)
  <2>1. j \in 1..TraceDepth /\ j < n
    BY <1>1, <1>4
  <2>2. j \notin ends
    BY <1>4, <2>1
  <2>3. ~IsBranch(Run(a, j)[j].word)
    BY <2>1, <2>2
  <2>4. Run(a, j)[j] = Run(a, n)[j]
    BY <1>1, <1>4, <2>1 DEF Run
  <2> QED BY <2>3, <2>4
<1> QED BY <1>4, <1>5, <1>6

LEMMA DecodedChunk ==
  ASSUME MemInv, NEW a \in Addr
  PROVE  /\ Chunk(Decoded(a), Key(a))
         /\ policy \notin {"trace", "dtrace"} => Decoded(a) = <<Inst(a)>>
<1>1. TraceDepth \in Nat \ {0}
  BY DepthAssumption
<1>2. CASE policy = "trace"
  <2>1. Decoded(a) = Run(Block(a), TraceDepth) /\ Key(a) = Block(a) /\ Block(a) \in Addr
    BY <1>2, BlockFacts DEF Decoded, DecodeBlock, Key
  <2> QED BY <1>1, <1>2, <2>1, RunIs DEF Chunk
<1>3. CASE policy = "dtrace"
  <2>1. PICK n \in 1..TraceDepth :
          /\ DecodeRun(a) = Run(a, n)
          /\ \A j \in 1..n - 1 : ~IsBranch(Run(a, n)[j].word)
    BY DecodeRunIs
  <2>2. Decoded(a) = Run(a, n) /\ Key(a) = a /\ n \in Nat \ {0}
    BY <1>1, <1>3, <2>1 DEF Decoded, Key
  <2> QED BY <1>3, <2>1, <2>2, RunIs DEF Chunk
<1>4. CASE policy \notin {"trace", "dtrace"}
  <2>1. Decoded(a) = <<Inst(a)>> /\ Key(a) = a
    BY <1>4 DEF Decoded, DecodeOne, Key
  <2>2. Forth(a, 0) = a /\ mem[a] \in held[a]
    BY AfterAddr DEF MemInv
  <2> DEFINE i == <<Inst(a)>>
  <2>3. Len(i) = 1 /\ DOMAIN i = 1..1 /\ i[1] = [addr |-> a, word |-> mem[a]]
    BY DEF Inst
  <2>4. \A j \in 1..1 : j = 1 /\ j - 1 = 0
    OBVIOUS
  <2> HIDE DEF i
  <2>5. Chunk(i, a)
    BY <1>4, <2>2, <2>3, <2>4 DEF Chunk
  <2> QED BY <2>1, <2>5 DEF i
<1> QED BY <1>2, <1>3, <1>4

-----------------------------------------------------------------------------
(* What decode leaves in the entry it returns, and in the others. *)
Returned(e, a) ==
  /\ e \in DOMAIN cells'
  /\ Chunk(cells'[e].insts, Key(a))
  /\ policy = "plain" => cells'[e].insts = <<Inst(a)>>
  /\ policy # "plain" => cells'[e].key = Key(a)
  /\ DOMAIN cells \subseteq DOMAIN cells'
  /\ \A c \in DOMAIN cells :
       policy # "plain" /\ cells[c].key # NULL => cells'[c].key # NULL

(* The other decoders leave the lists alone: they have none. *)
LEMMA FillReturns ==
  ASSUME MemInv, NEW a \in Addr, NEW e,
         Fill(e, Key(a), a) \/ (policy = "plain" /\ Fill(e, NULL, a))
  PROVE  /\ Returned(e, a)
         /\ DOMAIN cells' = DOMAIN cells \cup {e}
         /\ \A c \in DOMAIN cells' : c # e => cells'[c] = cells[c]
<1>1. Chunk(Decoded(a), Key(a)) /\ (policy = "plain" => Decoded(a) = <<Inst(a)>>)
  BY DecodedChunk
<1>2. Key(a) # NULL
  BY <1>1, TargetAssumption DEF Chunk
<1>3. /\ DOMAIN cells' = DOMAIN cells \cup {e}
      /\ cells'[e].insts = Decoded(a)
      /\ policy # "plain" => cells'[e].key = Key(a)
      /\ \A c \in DOMAIN cells' : c # e => cells'[c] = cells[c]
  <2>1. PICK key : /\ cells' = [c \in DOMAIN cells \cup {e} |->
                        IF c = e THEN [key |-> key, insts |-> Decoded(a)] ELSE cells[c]]
                   /\ policy # "plain" => key = Key(a)
    BY DEF Fill
  <2> QED BY <2>1
<1> QED BY <1>1, <1>2, <1>3 DEF Returned

LEMMA CellsKept ==
  ASSUME MemInv, CellsInv, NEW a \in Addr, NEW e, Returned(e, a),
         UNCHANGED <<mem, held, policy>>,
         policy = "inf" => e[2] = Key(a),
         \A c \in DOMAIN cells' : c # e => c \in DOMAIN cells /\ cells'[c] = cells[c],
         policy = "plain" => cells'[e].key = NULL
  PROVE  CellsInv'
<1>2. ASSUME NEW c \in DOMAIN cells', cells'[c].key # NULL
      PROVE  Chunk(cells'[c].insts, cells'[c].key)
  <2>1. CASE c = e
    BY <1>2, <2>1 DEF Returned
  <2>2. CASE c # e
    BY <1>2, <2>2 DEF CellsInv
  <2> QED BY <2>1, <2>2
<1>3. \A c \in DOMAIN cells' :
        cells'[c].key # NULL => Chunk(cells[c].insts, cells[c].key)'
  BY <1>2 DEF Chunk, Forth, IsBranch
<1>4. policy = "inf" => \A c \in DOMAIN cells' : cells'[c].key = c[2] /\ c[2] # NULL
  BY TargetAssumption DEF CellsInv, Returned, Chunk
<1> QED BY <1>3, <1>4 DEF CellsInv

LEMMA DecodeIs ==
  ASSUME MemInv, CacheInv, policy \in Policies, NEW a \in Addr, NEW e, NEW n, Decode(a, e, n),
         UNCHANGED <<mem, held, policy>>,
         policy \in {"plain", "inf", "fixed"} \cup Lists
  PROVE  Returned(e, a) /\ CacheInv'
<1>1. Key(a) # NULL
  BY DecodedChunk, TargetAssumption DEF Chunk
<1>2. CASE policy = "plain"
  <2>1. Fill(e, NULL, a)
    BY <1>2 DEF Decode, DecodePlain
  <2>2. cells'[e].key = NULL /\ Returned(e, a)
    BY <1>2, <2>1, FillReturns DEF Fill
  <2>3. CellsInv'
    BY <1>2, <2>1, <2>2, FillReturns, CellsKept DEF CacheInv
  <2> QED BY <1>2, <2>2, <2>3 DEF CacheInv, ListInv, Lists
<1>3. CASE policy = "fixed"
  <2>0. Key(a) = a
    BY <1>3 DEF Key
  <2>1. CASE RingHits(a) # {}
    <3>1. e \in DOMAIN cells /\ cells[e].key = a /\ UNCHANGED cells
      BY <1>3, <2>1 DEF Decode, DecodeFixed, RingHits, cache
    <3>2. Returned(e, a)
      BY <1>1, <1>3, <2>0, <3>1 DEF Returned, CacheInv, CellsInv
    <3>3. CellsInv'
      BY <1>3, <3>1, <3>2, CellsKept DEF CacheInv
    <3> QED BY <1>3, <3>2, <3>3 DEF CacheInv, ListInv, Lists
  <2>2. CASE RingHits(a) = {}
    <3>1. Fill(e, Key(a), a)
      BY <1>3, <2>0, <2>2 DEF Decode, DecodeFixed
    <3>2. CellsInv'
      BY <1>3, <3>1, FillReturns, CellsKept DEF CacheInv
    <3> QED BY <1>3, <3>1, <3>2, FillReturns DEF CacheInv, ListInv, Lists
  <2> QED BY <2>1, <2>2
<1>4. CASE policy = "inf"
  <2>1. Key(a) = a /\ e = <<Hash(a), a>> /\ e[2] = a
    BY <1>4 DEF Key, Decode, DecodeInf
  <2>2. CASE e \in DOMAIN cells
    <3>1. UNCHANGED cells /\ cells[e].key = a
      BY <1>4, <2>1, <2>2 DEF Decode, DecodeInf, CacheInv, CellsInv
    <3>2. Returned(e, a)
      BY <1>1, <1>4, <2>1, <2>2, <3>1 DEF Returned, CacheInv, CellsInv
    <3>3. CellsInv'
      BY <1>4, <2>1, <3>1, <3>2, CellsKept DEF CacheInv
    <3> QED BY <1>4, <3>2, <3>3 DEF CacheInv, ListInv, Lists
  <2>3. CASE e \notin DOMAIN cells
    <3>1. Fill(e, Key(a), a)
      BY <1>4, <2>1, <2>3 DEF Decode, DecodeInf
    <3>2. CellsInv'
      <4>1. /\ Returned(e, a)
            /\ \A c \in DOMAIN cells' : c # e => c \in DOMAIN cells /\ cells'[c] = cells[c]
        BY <3>1, FillReturns
      <4>2. e[2] = Key(a) /\ policy # "plain" /\ CellsInv
        BY <1>4, <2>1 DEF CacheInv
      <4> QED BY <4>1, <4>2, CellsKept
    <3> QED BY <1>4, <3>1, <3>2, FillReturns DEF CacheInv, ListInv, Lists
  <2> QED BY <2>2, <2>3
<1>5. CASE policy \in Lists
  <2> DEFINE h == Hash(a)
             k == PlaceOf(h, Key(a))
  <2>1. /\ CacheLookup(h, Key(a)) /\ e = Node(h, k)
        /\ IF cells[e].key = Key(a) THEN cells' = cells ELSE Fill(e, Key(a), a)
    BY <1>5 DEF Decode, DecodeListed, Found, Lists
  <2>2. h \in 0..Size - 1 /\ D \in Nat \ {0, 1} /\ k \in 1..D
    BY HashIs, DepthIs, PlaceIs
  <2> HIDE DEF h, k
  <2>3. PICK o \in Order : Chained(h, o)
    BY <1>5, <2>2 DEF CacheInv, ListInv
  <2>4. e = <<h, o[k]>> /\ o[k] \in 0..D - 1
    BY <2>1, <2>2, <2>3, ChainNodes DEF Order
  <2>5. e \in DOMAIN cells
    BY <1>5, <2>2, <2>4 DEF CacheInv, ListInv
  <2>6. Returned(e, a) /\ DOMAIN cells' = DOMAIN cells
        /\ \A c \in DOMAIN cells' : c # e => cells'[c] = cells[c]
    <3>1. CASE cells[e].key = Key(a)
      BY <1>1, <1>5, <2>1, <2>5, <3>1 DEF Returned, CacheInv, CellsInv, Lists
    <3>2. CASE cells[e].key # Key(a)
      BY <2>1, <2>5, <3>2, FillReturns
    <3> QED BY <3>1, <3>2
  <2>7. CellsInv'
    BY <1>5, <2>6, CellsKept DEF CacheInv, Lists
  <2>8. ListInv'
    BY <1>5, <2>1, <2>2, <2>6, LookupKeeps DEF CacheInv
  <2> QED BY <2>6, <2>7, <2>8 DEF CacheInv
<1> QED BY <1>2, <1>3, <1>4, <1>5

-----------------------------------------------------------------------------
(* Where t points: into an entry with a key, and, as long as nothing has   *)
(* come between, to the instruction at the program counter.                *)
Placed(t) ==
  /\ t = <<t[1], t[2]>> /\ t[2] \in Nat
  /\ t[1] \in DOMAIN cells /\ cells[t[1]].key # NULL

Cursor(t) ==
  LET i == cells[t[1]].insts IN
  /\ t[2] <= Len(i)
  /\ t[2] < Len(i) => i[t[2] + 1].addr = pc

StaticInv ==
  /\ drift \in {"no", "moved", "freed", "astray"}
  /\ traced # NULL => policy = "dtrace"
  /\ traced # NULL /\ drift \in {"no", "moved"} => Placed(traced)
  /\ traced # NULL /\ drift = "no" => Cursor(traced) /\ loop # "inner"
  /\ traced # NULL /\ loop = "none" => drift \notin {"no", "moved"}

ControlInv ==
  /\ policy \in Policies /\ pc \in Addr
  /\ loop = "inner" => /\ policy \in {"trace", "dtrace"} /\ Placed(inst)
                       /\ policy = "dtrace" => Cursor(inst)
  /\ StaticInv

SimInv == MemInv /\ CacheInv /\ ControlInv

LEMMA PolicyIs ==
  ASSUME policy \in Policies
  PROVE  policy \in {"plain", "inf", "fixed"} \cup Lists
BY PoliciesAssumption DEF Lists

(* The instruction at the program counter is executed, as it was decoded.  *)
LEMMA ExecuteIs ==
  ASSUME MemInv, pc \in Addr, NEW i, i = [addr |-> pc, word |-> i.word], i.word \in held[pc],
         policy = "plain" => i.word = mem[pc], Execute(i), UNCHANGED <<mem, held>>
  PROVE  /\ Flat!Execute /\ pc' \in Addr
         /\ ~IsBranch(i.word) => pc' = After(pc)
<1>1. i.word \in Word /\ Target[i.word] \in Addr \cup {NULL}
  BY TargetAssumption DEF MemInv
<1>2. /\ last' = [addr |-> pc, word |-> i.word]
      /\ pc' = After(pc) \/ (Target[i.word] # NULL /\ pc' = Target[i.word])
      /\ ~IsBranch(i.word) => pc' = After(pc)
  BY DEF Execute, IsBranch
<1>3. After(pc) \in Addr
  BY AfterAddr
<1>4. After(pc) = (pc + 4) % Flat!Space
  BY DEF After, InstSize, Space, Flat!Space
<1>5. Flat!Execute
  BY <1>2, <1>4 DEF Flat!Execute
<1> QED BY <1>1, <1>2, <1>3, <1>5

LEMMA OffsetIs ==
  ASSUME pc \in Addr
  PROVE  Offset \in Nat /\ Forth(Key(pc), Offset) = pc /\ (policy = "trace" => Offset < TraceDepth)
<1>1. CASE policy = "trace"
  BY <1>1, BlockFacts, DepthAssumption DEF Offset, Key
<1>2. CASE policy # "trace"
  BY <1>2, AfterAddr DEF Offset, Key
<1> QED BY <1>1, <1>2

LEMMA ChunkAt ==
  ASSUME NEW i, NEW k, NEW j \in Nat, Chunk(i, k), j < Len(i), Forth(k, j) = pc
  PROVE  i[j + 1] = [addr |-> pc, word |-> i[j + 1].word] /\ i[j + 1].word \in held[pc]
<1> DEFINE m == j + 1
<1>1. m \in 1..Len(i) /\ m - 1 = j
  BY DEF Chunk
<1> HIDE DEF m
<1>2. i[m] = [addr |-> pc, word |-> i[m].word] /\ i[m].word \in held[i[m].addr]
  BY <1>1 DEF Chunk
<1>3. i[m].addr = pc
  BY <1>2
<1> QED BY <1>2, <1>3 DEF m

(* A decoder leaves keys in the entries that had one. *)
LEMMA PlacedKept ==
  ASSUME NEW e, NEW a, Returned(e, a), policy # "plain", NEW t, Placed(t)
  PROVE  Placed(t)'
BY DEF Placed, Returned

LEMMA DecodeAndExecuteIs ==
  ASSUME SimInv, DecodeAndExecute, UNCHANGED <<mem, held, policy>>, loop' \notin {"inner", "none"}
  PROVE  Flat!Execute /\ pc' \in Addr /\ CacheInv' /\ StaticInv'
<1>1. PICK e \in Places, n \in 0..1 :
        /\ Decode(pc, e, n)
        /\ Offset < Len(cells'[e].insts)
        /\ Execute(cells'[e].insts[Offset + 1])
        /\ traced' = IF policy = "dtrace" THEN <<e, 1>> ELSE NULL
        /\ drift' = "no"
  BY DEF DecodeAndExecute
<1>2. /\ MemInv /\ CacheInv /\ policy \in Policies /\ pc \in Addr
  BY DEF SimInv, ControlInv
<1>3. Returned(e, pc) /\ CacheInv'
  BY <1>1, <1>2, DecodeIs, PolicyIs
<1> DEFINE i == cells'[e].insts
           x == i[Offset + 1]
<1>4. Chunk(i, Key(pc)) /\ Offset \in Nat /\ Forth(Key(pc), Offset) = pc
  BY <1>2, <1>3, OffsetIs DEF Returned
<1>5. x = [addr |-> pc, word |-> x.word] /\ x.word \in held[pc]
  BY <1>1, <1>4, ChunkAt
<1>6. policy = "plain" => x.word = mem[pc]
  <2>1. SUFFICES ASSUME policy = "plain" PROVE x.word = mem[pc]
    OBVIOUS
  <2>2. i = <<Inst(pc)>> /\ Offset = 0
    BY <1>3, <2>1 DEF Returned, Offset
  <2> QED BY <2>2 DEF Inst
<1>7. Execute(x)
  BY <1>1
<1> HIDE DEF x
<1>8. /\ Flat!Execute /\ pc' \in Addr
      /\ ~IsBranch(x.word) => pc' = After(pc)
  BY <1>2, <1>5, <1>6, <1>7, ExecuteIs
<1>9. ASSUME policy = "dtrace"
      PROVE  Placed(traced)' /\ Cursor(traced)'
  <2>1. Offset = 0 /\ Key(pc) = pc /\ cells'[e].key = pc /\ e \in DOMAIN cells' /\ pc # NULL
    BY <1>2, <1>3, <1>9, TargetAssumption DEF Offset, Key, Returned
  <2>2. traced' = <<e, 1>> /\ Len(i) \in Nat \ {0}
    BY <1>1, <1>4, <1>9 DEF Chunk
  <2>3. ASSUME 1 < Len(i)
        PROVE  i[1 + 1].addr = pc'
    <3>1. ~IsBranch(x.word)
      BY <1>4, <1>9, <2>1, <2>2, <2>3 DEF Chunk, x
    <3>2. pc' = Forth(pc, 1)
      BY <1>2, <1>8, <3>1, AfterAddr, ForthAfter
    <3>3. 2 \in 1..Len(i) /\ 2 - 1 = 1
      BY <2>2, <2>3
    <3>4. i[2].addr = Forth(pc, 2 - 1)
      <4> HIDE DEF i
      <4>1. i[2] = [addr |-> Forth(Key(pc), 2 - 1), word |-> i[2].word]
        BY <1>4, <3>3 DEF Chunk
      <4> QED BY <2>1, <4>1
    <3> QED BY <3>2, <3>4
  <2> HIDE DEF i
  <2>4. i = cells'[e].insts
    BY DEF i
  <2> QED BY <2>1, <2>2, <2>3, <2>4 DEF Placed, Cursor
<1>10. StaticInv'
  BY <1>1, <1>9 DEF StaticInv
<1> QED BY <1>3, <1>8, <1>10

(* The instruction t points to is in memory, or was. *)
LEMMA PlacedHolds ==
  ASSUME SimInv, NEW t, Placed(t), Within(t)
  PROVE  LET k == cells[t[1]].key
             x == cells[t[1]].insts[t[2] + 1]
         IN  /\ Chunk(cells[t[1]].insts, k)
             /\ x = [addr |-> Forth(k, t[2]), word |-> x.word]
             /\ x.word \in held[x.addr] /\ x.addr \in Addr
<1> DEFINE k == cells[t[1]].key
           j == t[2]
           i == cells[t[1]].insts
           x == i[j + 1]
<1>1. Chunk(i, k) /\ j \in Nat /\ j < Len(i)
  BY DEF Placed, Within, SimInv, CacheInv, CellsInv
<1> HIDE DEF i, j, k
<1>2. j + 1 \in 1..Len(i) /\ (j + 1) - 1 = j
  BY <1>1 DEF Chunk
<1>3. x = [addr |-> Forth(k, j), word |-> x.word] /\ x.word \in held[x.addr]
  BY <1>1, <1>2 DEF Chunk
<1>4. k \in Addr
  BY <1>1 DEF Chunk
<1>5. x.addr \in Addr
  BY <1>1, <1>3, <1>4, ForthAddr
<1> QED BY <1>1, <1>3, <1>5 DEF i, j, k

LEMMA ExecuteAtIs ==
  ASSUME SimInv, NEW t, Placed(t), policy = "dtrace", Within(t), ExecuteAt(t),
         UNCHANGED <<mem, held, policy, cells>>
  PROVE  /\ pc' \in Addr /\ Placed(Further(t))'
         /\ Cursor(t) => Flat!Execute /\ Cursor(Further(t))'
<1> DEFINE c == t[1]
           j == t[2]
           i == cells[c].insts
           k == cells[c].key
           x == i[j + 1]
<1>1. /\ MemInv /\ pc \in Addr /\ Chunk(i, k)
      /\ x = [addr |-> Forth(k, j), word |-> x.word]
      /\ x.word \in held[x.addr] /\ x.addr \in Addr
  BY PlacedHolds DEF SimInv, ControlInv
<1>2. /\ t = <<c, j>> /\ j \in Nat /\ j < Len(i) /\ c \in DOMAIN cells /\ k # NULL
      /\ Cursor(t) => x.addr = pc
      /\ Execute(x)
      /\ Further(t) = <<c, j + 1>>
  BY DEF Placed, Cursor, Within, ExecuteAt, Further
<1>3. i = cells[c].insts /\ k = cells[c].key
  OBVIOUS
<1> HIDE DEF c, j, i, k, x
<1>4. Placed(Further(t))'
  BY <1>2, <1>3 DEF Placed
<1>5. pc' \in Addr
  <2>1. x.word \in Word
    BY <1>1 DEF MemInv
  <2> QED BY <1>1, <1>2, <2>1, AfterAddr, TargetAssumption DEF Execute, IsBranch
<1>6. ASSUME Cursor(t)
      PROVE  Flat!Execute /\ Cursor(Further(t))'
  <2>1. x = [addr |-> pc, word |-> x.word] /\ x.word \in held[pc] /\ Forth(k, j) = pc
    BY <1>1, <1>2, <1>6
  <2>2. /\ Flat!Execute
        /\ ~IsBranch(x.word) => pc' = After(pc)
    BY <1>1, <1>2, <2>1, ExecuteIs
  <2>3. ASSUME j + 1 < Len(i)
        PROVE  i[(j + 1) + 1].addr = pc'
    <3>1. j + 1 \in 1..Len(i) - 1 /\ (j + 1) + 1 \in 1..Len(i) /\ (j + 1) + 1 - 1 = j + 1
      BY <1>1, <1>2, <2>3 DEF Chunk
    <3>2. ~IsBranch(x.word)
      BY <1>1, <3>1 DEF Chunk, x
    <3>3. k \in Addr
      BY <1>1 DEF Chunk
    <3>4. pc' = Forth(k, j + 1)
      BY <1>2, <2>1, <2>2, <3>2, <3>3, ForthAfter
    <3>5. i[(j + 1) + 1].addr = Forth(k, (j + 1) + 1 - 1)
      BY <1>1, <3>1 DEF Chunk
    <3> QED BY <3>1, <3>4, <3>5
  <2>4. j + 1 <= Len(i)
    BY <1>1, <1>2 DEF Chunk
  <2>5. cells' = cells
    OBVIOUS
  <2> QED BY <1>2, <1>3, <2>2, <2>3, <2>4, <2>5 DEF Cursor
<1> QED BY <1>4, <1>5, <1>6

-----------------------------------------------------------------------------
(* The steps. *)
Promised == [Flat!Next \/ (drift = "moved" /\ StepOn)]_<<mem, held, pc, last>>

LEMMA CacheFramed ==
  ASSUME MemInv, CacheInv, UNCHANGED <<mem, held, policy, cells, head, next>>
  PROVE  MemInv' /\ CacheInv'
<1>1. MemInv'
  BY DEF MemInv
<1>2. CellsInv'
  BY DEF CacheInv, CellsInv, Chunk, Forth, IsBranch
<1>3. ListInv'
  <2>1. D' = D /\ Order' = Order /\ \A h, o : Chained(h, o) => Chained(h, o)'
    BY DEF D, Order, Chained
  <2> QED BY <2>1 DEF CacheInv, ListInv, Lists
<1> QED BY <1>1, <1>2, <1>3 DEF CacheInv

LEMMA MemFramed ==
  ASSUME MemInv, UNCHANGED <<mem, held>> PROVE MemInv'
BY DEF MemInv

(* What leaves the static inst of step alone. *)
LEMMA StaticFramed ==
  ASSUME StaticInv, UNCHANGED <<policy, cells, pc, traced, drift>>,
         loop' \notin {"inner", "none"} \/ loop' = loop
  PROVE  StaticInv'
BY DEF StaticInv, Placed, Cursor

(* What moves the program counter or decodes besides step. *)
LEMMA StaticMoved ==
  ASSUME StaticInv, UNCHANGED <<policy, traced>>, drift' = Drifted, loop' # "none",
         policy = "dtrace" => \A t : Placed(t) => Placed(t)'
  PROVE  StaticInv'
<1>1. drift \in {"no", "moved"} /\ traced # NULL => Placed(traced) /\ policy = "dtrace"
  BY DEF StaticInv
<1>2. drift \in {"no", "moved"} /\ traced # NULL => Placed(traced)'
  <2> SUFFICES ASSUME drift \in {"no", "moved"}, traced # NULL PROVE Placed(traced)'
    OBVIOUS
  <2>1. PICK t : t = traced
    OBVIOUS
  <2>2. Placed(t)' /\ t = traced'
    BY <1>1, <2>1
  <2> QED BY <2>2 DEF Placed
<1>3. drift' \in {"no", "moved"} => drift \in {"no", "moved"}
  BY DEF Drifted
<1>4. traced # NULL => drift' # "no"
  BY DEF Drifted
<1>5. drift' \in {"no", "moved", "freed", "astray"}
  BY DEF Drifted, StaticInv
<1> QED BY <1>2, <1>3, <1>4, <1>5 DEF StaticInv

LEMMA NextInstStep ==
  ASSUME SimInv, NextInst
  PROVE  SimInv' /\ Promised
<1>1. PICK e \in Places, n \in 0..1 : Decode(pc, e, n)
  BY DEF NextInst
<1>2. /\ loop = "idle" /\ loop' = loop /\ drift' = Drifted
      /\ UNCHANGED <<mem, policy, pc, exit, ended, traced, last, held>>
  BY DEF NextInst, run
<1>3. Returned(e, pc) /\ CacheInv'
  BY <1>1, <1>2, DecodeIs, PolicyIs DEF SimInv, ControlInv
<1>4. StaticInv'
  BY <1>2, <1>3, PlacedKept, StaticMoved DEF SimInv, ControlInv
<1>5. ControlInv'
  BY <1>2, <1>4 DEF SimInv, ControlInv
<1> QED BY <1>2, <1>3, <1>5, MemFramed DEF SimInv, Promised

LEMMA StepStep ==
  ASSUME SimInv, Step, drift # "astray"
  PROVE  SimInv' /\ Promised
<1>1. /\ loop = "idle" /\ loop' = loop /\ UNCHANGED <<mem, policy, exit, held>>
  BY DEF Step, run
<1>2. CASE traced # NULL /\ drift # "freed" /\ Within(traced)
  <2>1. StepOn /\ UNCHANGED <<cells, head, next, drift>>
    BY <1>2 DEF Step, StepOn, cache
  <2>2. PICK t : t = traced
    OBVIOUS
  <2>3. /\ Placed(t) /\ policy = "dtrace" /\ Within(t) /\ ExecuteAt(t) /\ traced' = Further(t)
        /\ drift \in {"no", "moved"} /\ (drift = "no" => Cursor(t))
    BY <1>2, <2>1, <2>2 DEF SimInv, ControlInv, StaticInv, StepOn, Placed, Within, ExecuteAt, Further,
                            Cursor
  <2>4. /\ pc' \in Addr /\ Placed(Further(t))'
        /\ Cursor(t) => Flat!Execute /\ Cursor(Further(t))'
    BY <1>1, <2>1, <2>3, ExecuteAtIs
  <2>5. Placed(traced)' /\ (drift = "no" => Cursor(traced)')
    BY <2>3, <2>4 DEF Placed, Cursor
  <2>6. MemInv' /\ CacheInv'
    BY <1>1, <2>1, CacheFramed DEF SimInv
  <2>7. ControlInv'
    BY <1>1, <2>1, <2>3, <2>4, <2>5 DEF SimInv, ControlInv, StaticInv
  <2>8. Promised
    BY <2>1, <2>3, <2>4 DEF Promised, Flat!Next
  <2> QED BY <2>6, <2>7, <2>8 DEF SimInv
<1>3. CASE ~(traced # NULL /\ drift # "freed" /\ Within(traced))
  <2>1. DecodeAndExecute
    BY <1>3 DEF Step
  <2>2. Flat!Execute /\ pc' \in Addr /\ CacheInv' /\ StaticInv'
    BY <1>1, <2>1, DecodeAndExecuteIs
  <2>3. ControlInv'
    BY <1>1, <2>2 DEF SimInv, ControlInv
  <2> QED BY <1>1, <2>2, <2>3, MemFramed DEF SimInv, Promised, Flat!Next
<1> QED BY <1>2, <1>3

LEMMA RunningStep ==
  ASSUME SimInv, Running
  PROVE  SimInv' /\ Promised
<1>1. CASE RunReturns
  <2>1. MemInv' /\ CacheInv'
    BY <1>1, CacheFramed DEF RunReturns, cache, SimInv
  <2>2. ControlInv'
    BY <1>1, StaticFramed DEF RunReturns, cache, static, SimInv, ControlInv
  <2> QED BY <1>1, <2>1, <2>2 DEF RunReturns, SimInv, Promised
<1>2. CASE RunCached
  <2>1. /\ DecodeAndExecute /\ policy \notin {"trace", "dtrace"} /\ loop = "outer"
        /\ UNCHANGED <<mem, policy, exit, loop, fn, held>>
    BY <1>2 DEF RunCached
  <2>2. Flat!Execute /\ pc' \in Addr /\ CacheInv' /\ StaticInv'
    BY <2>1, DecodeAndExecuteIs
  <2>3. ControlInv'
    BY <2>1, <2>2 DEF SimInv, ControlInv
  <2> QED BY <2>1, <2>2, <2>3, MemFramed DEF SimInv, Promised, Flat!Next
<1>3. CASE RunDecodeTrace
  <2>1. PICK e \in Places, n \in 0..1 : Decode(pc, e, n) /\ inst' = <<e, 0>>
    BY <1>3 DEF RunDecodeTrace
  <2>2. /\ loop = "outer" /\ policy \in {"trace", "dtrace"} /\ loop' = "inner"
        /\ UNCHANGED <<mem, policy, pc, traced, held, last>> /\ drift' = Drifted
    BY <1>3 DEF RunDecodeTrace
  <2>3. Returned(e, pc) /\ CacheInv'
    BY <2>1, <2>2, DecodeIs, PolicyIs DEF SimInv, ControlInv
  <2>4. Placed(inst)' /\ (policy = "dtrace" => Cursor(inst)')
    <3> DEFINE i == cells'[e].insts
    <3>1. pc \in Addr /\ Chunk(i, Key(pc)) /\ cells'[e].key = Key(pc) /\ e \in DOMAIN cells'
      BY <2>2, <2>3 DEF SimInv, ControlInv, Returned
    <3>2. Key(pc) # NULL /\ Len(i) \in Nat \ {0}
      BY <3>1, TargetAssumption DEF Chunk
    <3>3. policy = "dtrace" => i[0 + 1].addr = pc
      <4> SUFFICES ASSUME policy = "dtrace" PROVE i[0 + 1].addr = pc
        OBVIOUS
      <4>1. Forth(Key(pc), 0) = pc
        BY <3>1, AfterAddr DEF Key
      <4> DEFINE z == 0
      <4>2. z \in Nat /\ z < Len(i) /\ Forth(Key(pc), z) = pc /\ Chunk(i, Key(pc))
        BY <3>1, <3>2, <4>1
      <4> HIDE DEF i, z
      <4>3. i[z + 1] = [addr |-> pc, word |-> i[z + 1].word]
        BY <4>2, ChunkAt
      <4> QED BY <4>3 DEF z
    <3> HIDE DEF i
    <3>4. i = cells'[e].insts
      BY DEF i
    <3> QED BY <2>1, <2>2, <3>1, <3>2, <3>3, <3>4 DEF Placed, Cursor
  <2>5. StaticInv'
    BY <2>2, <2>3, PlacedKept, StaticMoved DEF SimInv, ControlInv
  <2>6. ControlInv'
    BY <2>2, <2>4, <2>5 DEF SimInv, ControlInv
  <2> QED BY <2>2, <2>3, <2>6, MemFramed DEF SimInv, Promised
<1>4. CASE RunTrace
  <2>1. /\ loop = "inner" /\ policy = "trace"
        /\ UNCHANGED <<mem, policy, cells, head, next, inst, traced, drift, held>>
    BY <1>4 DEF RunTrace, cache, static
  <2>2. MemInv' /\ CacheInv' /\ Placed(inst) /\ Placed(inst)' /\ StaticInv'
    <3>1. Placed(inst) /\ traced = NULL
      BY <2>1 DEF SimInv, ControlInv, StaticInv
    <3> QED BY <2>1, <3>1, CacheFramed DEF SimInv, ControlInv, StaticInv, Placed
  <2>3. CASE InBlock
    <3> DEFINE i == cells[inst[1]].insts
               x == i[Offset + 1]
    <3>1. Execute(x) /\ loop' = loop
      BY <1>4, <2>3 DEF RunTrace
    <3>2. /\ MemInv /\ pc \in Addr /\ Key(pc) = Block(pc) /\ cells[inst[1]].key = Block(pc)
      BY <2>1, <2>3 DEF SimInv, ControlInv, InBlock, Key
    <3>3. Chunk(i, Key(pc))
      BY <2>2, <3>2 DEF SimInv, CacheInv, CellsInv, Placed
    <3>4. Offset \in Nat /\ Forth(Key(pc), Offset) = pc /\ Offset < Len(i)
      BY <2>1, <3>2, <3>3, OffsetIs DEF Chunk
    <3>5. x = [addr |-> pc, word |-> x.word] /\ x.word \in held[pc]
      BY <3>3, <3>4, ChunkAt
    <3> HIDE DEF x
    <3>6. Flat!Execute /\ pc' \in Addr
      BY <2>1, <3>1, <3>2, <3>5, ExecuteIs
    <3>7. ControlInv'
      BY <2>1, <2>2, <3>1, <3>6 DEF SimInv, ControlInv
    <3> QED BY <2>2, <3>6, <3>7 DEF SimInv, Promised, Flat!Next
  <2>4. CASE ~InBlock
    <3>1. loop' = "outer" /\ UNCHANGED <<pc, last>>
      BY <1>4, <2>4 DEF RunTrace
    <3>2. ControlInv'
      BY <2>1, <2>2, <3>1 DEF SimInv, ControlInv
    <3> QED BY <2>1, <2>2, <3>1, <3>2 DEF SimInv, Promised
  <2> QED BY <2>3, <2>4
<1>5. CASE RunDtrace
  <2>1. /\ loop = "inner" /\ policy = "dtrace"
        /\ UNCHANGED <<mem, policy, cells, head, next, traced, drift, held>>
    BY <1>5 DEF RunDtrace, cache, static
  <2>2. MemInv' /\ CacheInv'
    BY <2>1, CacheFramed DEF SimInv
  <2>3. StaticInv'
    <3>1. traced # NULL => drift # "no"
      BY <2>1 DEF SimInv, ControlInv, StaticInv
    <3>2. loop' # "none"
      BY <1>5, <2>1 DEF RunDtrace
    <3> QED BY <2>1, <3>1, <3>2 DEF SimInv, ControlInv, StaticInv, Placed
  <2>4. CASE InRun
    <3>1. ExecuteAt(inst) /\ inst' = Further(inst) /\ loop' = loop /\ Within(inst)
      BY <1>5, <2>4 DEF RunDtrace, InRun
    <3>2. PICK t : t = inst
      OBVIOUS
    <3>3. /\ Placed(t) /\ Cursor(t) /\ Within(t) /\ ExecuteAt(t) /\ inst' = Further(t)
      BY <2>1, <3>1, <3>2 DEF SimInv, ControlInv, Placed, Cursor, Within, ExecuteAt, Further
    <3>4. pc' \in Addr /\ Placed(Further(t))' /\ Flat!Execute /\ Cursor(Further(t))'
      BY <2>1, <3>3, ExecuteAtIs
    <3>5. Placed(inst)' /\ Cursor(inst)'
      BY <3>3, <3>4 DEF Placed, Cursor
    <3>6. ControlInv'
      BY <2>1, <2>3, <3>1, <3>4, <3>5 DEF SimInv, ControlInv
    <3> QED BY <2>2, <3>4, <3>6 DEF SimInv, Promised, Flat!Next
  <2>5. CASE ~InRun
    <3>1. loop' = "outer" /\ UNCHANGED <<pc, last, inst>>
      BY <1>5, <2>5 DEF RunDtrace
    <3>2. ControlInv'
      BY <2>1, <2>3, <3>1 DEF SimInv, ControlInv
    <3> QED BY <2>1, <2>2, <3>1, <3>2 DEF SimInv, Promised
  <2> QED BY <2>4, <2>5
<1> QED BY <1>1, <1>2, <1>3, <1>4, <1>5 DEF Running

(* What new_decoder makes is in order. *)
LEMMA FreshCache ==
  ASSUME policy \in Policies, cells = NewTable.cells, head = NewTable.head, next = NewTable.next
  PROVE  CacheInv
<1>1. /\ cells = [c \in Entries |-> Empty]
      /\ head = [h \in 0..Size - 1 |-> <<h, 0>>]
      /\ next = [c \in Entries |-> IF c[2] < D - 1 THEN <<c[1], c[2] + 1>> ELSE NULL]
  BY DEF NewTable
<1>2. CellsInv
  BY <1>1 DEF CellsInv, Empty, Entries
<1>3. ListInv
  <2> SUFFICES ASSUME policy \in Lists PROVE ListInv
    BY DEF ListInv
  <2>1. D \in Nat \ {0, 1} /\ Size \in Nat \ {0}
    BY DepthIs
  <2>2. Entries = (0..Size - 1) \X (0..D - 1)
    BY DEF Entries, Lists
  <2>3. ASSUME NEW h \in 0..Size - 1
        PROVE  \E o \in Order : Chained(h, o)
    <3> DEFINE o == [k \in 1..D |-> k - 1]
    <3>1. o \in Order
      BY <2>1 DEF Order
    <3>2. head[h] = <<h, o[1]>>
      BY <1>1, <2>1
    <3>3. ASSUME NEW k \in 1..D - 1
          PROVE  next[<<h, o[k]>>] = <<h, o[k + 1]>>
      <4> DEFINE j == k - 1
      <4>1. o[k] = j /\ o[k + 1] = k /\ j \in 0..D - 1 /\ j < D - 1 /\ j + 1 = k
        BY <2>1
      <4> HIDE DEF j, o
      <4>2. <<h, j>> \in Entries
        BY <2>2, <4>1
      <4>3. next[<<h, j>>] = <<h, j + 1>>
        BY <1>1, <4>1, <4>2
      <4> QED BY <4>1, <4>3
    <3> QED BY <3>1, <3>2, <3>3 DEF Chained
  <2> QED BY <1>1, <2>2, <2>3 DEF ListInv
<1> QED BY <1>2, <1>3 DEF CacheInv

LEMMA SimInit ==
  ASSUME Init PROVE SimInv /\ Flat!Init
<1>1. mem \in [Addr -> Word] /\ MemInv
  BY ProgramsAssumption DEF Init, MemInv
<1>2. 0 \in Addr
  BY SlotsAssumption DEF Addr, InstSize
<1>3. CacheInv
  BY FreshCache DEF Init
<1>4. ControlInv
  BY <1>2 DEF Init, ControlInv, StaticInv
<1>5. Flat!Init
  <2>1. Flat!Addr = Addr
    BY DEF Flat!Addr, Addr, InstSize
  <2> QED BY <1>1, <1>2, <2>1 DEF Init, Flat!Init, Nothing
<1> QED BY <1>1, <1>3, <1>4, <1>5 DEF SimInv

LEMMA NewSimStep ==
  ASSUME SimInv, NewSim
  PROVE  SimInv' /\ Promised
<1>1. 0 \in Addr
  BY SlotsAssumption DEF Addr, InstSize
<1>2. /\ UNCHANGED <<mem, policy, traced, drift, held>> /\ pc' = 0 /\ last' = Nothing
      /\ loop = "none" /\ loop' = "idle"
  BY DEF NewSim, static
<1>3. CacheInv'
  <2>1. policy' \in Policies
    BY <1>2 DEF SimInv, ControlInv
  <2>2. NewTable' = NewTable
    BY <1>2 DEF NewTable, Entries, Empty, D
  <2>3. cells' = NewTable.cells /\ head' = NewTable.head /\ next' = NewTable.next
    BY DEF NewSim
  <2>4. (policy \in Policies /\ cells = NewTable.cells /\ head = NewTable.head
         /\ next = NewTable.next => CacheInv)'
    BY FreshCache, PTL
  <2> QED BY <2>1, <2>2, <2>3, <2>4
<1>4. ControlInv'
  BY <1>1, <1>2 DEF SimInv, ControlInv, StaticInv
<1>5. Flat!Restart
  BY <1>1, <1>2 DEF Flat!Restart, Nothing, Flat!Addr, Addr, InstSize
<1> QED BY <1>2, <1>3, <1>4, <1>5, MemFramed DEF SimInv, Promised, Flat!Next

-----------------------------------------------------------------------------
LEMMA WriteStep ==
  ASSUME SimInv, NEW r \in Rewrites, Write(r[1], r[2])
  PROVE  SimInv' /\ Promised
<1> DEFINE a == r[1]
           w == r[2]
<1>1. /\ a \in Addr /\ w \in Word
      /\ mem' = [mem EXCEPT ![a] = w]
      /\ held' = [held EXCEPT ![a] = @ \cup {w}]
      /\ UNCHANGED <<policy, cells, head, next, pc, loop, inst, traced, drift, last>>
  BY ProgramsAssumption DEF Write, cache, run, static
<1> HIDE DEF a, w
<1>2. MemInv /\ CacheInv
  BY DEF SimInv
<1>3. MemInv' /\ \A x \in Addr : held[x] \subseteq held'[x]
  BY <1>1, <1>2 DEF MemInv
<1>4. CellsInv'
  <2>1. ASSUME NEW i, NEW k, Chunk(i, k)
        PROVE  \A j \in 1..Len(i) : i[j].word \in held'[i[j].addr]
    <3> TAKE j \in 1..Len(i)
    <3>1. i[j] = [addr |-> Forth(k, j - 1), word |-> i[j].word] /\ i[j].word \in held[i[j].addr]
      BY <2>1 DEF Chunk
    <3>2. k \in Addr /\ j - 1 \in Nat
      BY <2>1 DEF Chunk
    <3>3. i[j].addr = Forth(k, j - 1) /\ Forth(k, j - 1) \in Addr
      BY <3>1, <3>2, ForthAddr
    <3> QED BY <1>3, <3>1, <3>3
  <2>2. ASSUME NEW c \in DOMAIN cells, cells[c].key # NULL
        PROVE  Chunk(cells[c].insts, cells[c].key)'
    <3> DEFINE i == cells[c].insts
               k == cells[c].key
    <3>1. Chunk(i, k)
      BY <1>2, <2>2 DEF CacheInv, CellsInv
    <3>2. \A j \in 1..Len(i) : i[j].word \in held'[i[j].addr]
      BY <2>1, <3>1
    <3> QED BY <1>1, <3>1, <3>2 DEF Chunk, Forth, IsBranch
  <2> QED BY <1>1, <1>2, <2>2 DEF CacheInv, CellsInv
<1>5. ListInv'
  <2>1. D' = D /\ Order' = Order /\ \A h, o : Chained(h, o) => Chained(h, o)'
    BY <1>1 DEF D, Order, Chained
  <2> QED BY <1>1, <1>2, <2>1 DEF CacheInv, ListInv, Lists
<1>6. ControlInv'
  BY <1>1, StaticFramed DEF SimInv, ControlInv, Placed, Cursor
<1>7. Flat!Write
  <2>1. Flat!Addr = Addr
    BY DEF Flat!Addr, Addr, InstSize
  <2> QED BY <1>1, <2>1 DEF Flat!Write
<1> QED BY <1>3, <1>4, <1>5, <1>6, <1>7 DEF SimInv, CacheInv, Promised, Flat!Next

LEMMA OtherSteps ==
  ASSUME SimInv,
         \/ StartRun \/ DeleteSim \/ StepAstray
         \/ \E a \in Starts : SetNextAddress(a)
         \/ \E a \in Exits : SetExitAddress(a)
  PROVE  SimInv' /\ Promised
<1>1. UNCHANGED <<mem, held, policy, cells, head, next, inst, traced, last>> /\ loop' # "inner"
  BY DEF StartRun, DeleteSim, StepAstray, SetNextAddress, SetExitAddress, cache, run, static
<1>2. MemInv' /\ CacheInv'
  BY <1>1, CacheFramed DEF SimInv
<1>3. CASE StartRun \/ \E a \in Exits : SetExitAddress(a)
  <2>1. pc' = pc /\ drift' = drift /\ loop' # "none"
    BY <1>3 DEF StartRun, SetExitAddress, run, static
  <2>2. ControlInv'
    BY <1>1, <2>1, StaticFramed DEF SimInv, ControlInv
  <2> QED BY <1>1, <1>2, <2>1, <2>2 DEF SimInv, Promised
<1>4. CASE DeleteSim \/ StepAstray
  <2>1. pc' = pc /\ (traced # NULL => drift' \in {"freed", "astray"}) /\ (traced = NULL => drift' = drift)
    BY <1>4 DEF DeleteSim, StepAstray
  <2>2. ControlInv'
    BY <1>1, <2>1 DEF SimInv, ControlInv, StaticInv
  <2> QED BY <1>1, <1>2, <2>1, <2>2 DEF SimInv, Promised
<1>5. ASSUME NEW a \in Starts, SetNextAddress(a)
      PROVE  SimInv' /\ Promised
  <2>1. a \in Addr /\ pc' = a /\ drift' = Drifted /\ loop' # "none"
    BY <1>5, ProgramsAssumption DEF SetNextAddress, run
  <2>2. StaticInv'
    BY <1>1, <2>1, StaticMoved DEF SimInv, ControlInv, Placed
  <2>3. ControlInv'
    BY <1>1, <2>1, <2>2 DEF SimInv, ControlInv
  <2>4. Flat!Jump
    BY <1>1, <2>1 DEF Flat!Jump, Flat!Addr, Addr, InstSize
  <2> QED BY <1>2, <2>3, <2>4 DEF SimInv, Promised, Flat!Next
<1> QED BY <1>3, <1>4, <1>5

LEMMA SimStep ==
  ASSUME SimInv, [Next]_vars
  PROVE  SimInv' /\ Promised
<1>1. CASE Next
  BY <1>1, NextInstStep, StepStep, RunningStep, NewSimStep, WriteStep, OtherSteps DEF Next
<1>2. CASE UNCHANGED vars
  <2>1. MemInv' /\ CacheInv'
    BY <1>2, CacheFramed DEF vars, cache, SimInv
  <2>2. ControlInv'
    BY <1>2, StaticFramed DEF vars, cache, run, static, SimInv, ControlInv, Placed, Cursor
  <2> QED BY <1>2, <2>1, <2>2 DEF vars, SimInv, Promised
<1> QED BY <1>1, <1>2

(* For any program, size and depth: what an entry of a cache holds under a *)
(* key was decoded at that key, one instruction after the other.           *)
THEOREM EntriesAlwaysTrue == Spec => []EntriesTrue
<1>1. Init => SimInv
  BY SimInit
<1>2. SimInv /\ [Next]_vars => SimInv'
  BY SimStep
<1>3. SimInv => EntriesTrue
  <2> SUFFICES ASSUME SimInv, NEW c \in Cached PROVE EntryOf(c)
    BY DEF EntriesTrue
  <2> DEFINE i == cells[c].insts
             k == cells[c].key
  <2>1. Chunk(i, k)
    BY DEF SimInv, CacheInv, CellsInv, Cached
  <2> HIDE DEF i, k
  <2>2. k \in Addr /\ Len(i) \in Nat \ {0} /\ DOMAIN i = 1..Len(i)
    BY <2>1 DEF Chunk
  <2>3. \A j \in 1..Len(i) : i[j].addr = Forth(k, j - 1) /\ i[j].word \in held[i[j].addr]
    <3> TAKE j \in 1..Len(i)
    <3>1. i[j] = [addr |-> Forth(k, j - 1), word |-> i[j].word] /\ i[j].word \in held[i[j].addr]
      BY <2>1 DEF Chunk
    <3> QED BY <3>1
  <2>4. i # <<>>
    BY <2>2
  <2>5. i[1].addr = k
    <3>1. 1 \in 1..Len(i) /\ 1 - 1 = 0
      BY <2>2
    <3>2. i[1].addr = Forth(k, 1 - 1)
      BY <2>3, <3>1
    <3> QED BY <2>2, <3>1, <3>2, AfterAddr
  <2>6. ASSUME NEW j \in 1..(Len(i) - 1)
        PROVE  i[j + 1].addr = After(i[j].addr)
    <3> DEFINE m == j + 1
               n == j - 1
    <3>1. j \in 1..Len(i) /\ m \in 1..Len(i) /\ n \in Nat /\ m - 1 = n + 1
      BY <2>2
    <3>2. i[m].addr = Forth(k, m - 1) /\ i[j].addr = Forth(k, n)
      BY <2>3, <3>1
    <3> HIDE DEF m, n
    <3>3. After(Forth(k, n)) = Forth(k, n + 1)
      BY <2>2, <3>1, ForthAfter
    <3>4. i[m].addr = After(i[j].addr)
      BY <3>1, <3>2, <3>3
    <3> QED BY <3>4 DEF m
  <2> QED BY <2>2, <2>3, <2>4, <2>5, <2>6 DEF EntryOf, i, k
<1> QED BY <1>1, <1>2, <1>3, PTL DEF Spec

(* For any program and decoder, and any size of its cache, execution is    *)
(* that of a machine that decodes each instruction when it executes it,    *)
(* but for words that were rewritten; and but for the steps of dtrace that *)
(* go on in a run after the program counter was set or another function    *)
(* has decoded.                                                            *)
THEOREM DecodersImplementFlat == Spec => ImplementsFlat
<1>1. Init => SimInv /\ Flat!Init
  BY SimInit
<1>2. SimInv /\ [Next]_vars => SimInv' /\ Promised
  BY SimStep
<1> QED BY <1>1, <1>2, PTL DEF Spec, ImplementsFlat, Promised

-----------------------------------------------------------------------------
(* The exit address: between two instructions of a run, the program        *)
(* counter is not there, unless the loop is about to return.               *)
ExitInv ==
  /\ ~over /\ ended \in BOOLEAN
  /\ loop = "outer" /\ policy \notin {"trace", "dtrace"} /\ begun /\ pc = exit => ended

(* A run executes no instruction at the exit address but its first one:    *)
(* also in the middle of a block or of a run, whatever their sizes.        *)
THEOREM RunsStopAtExit == Spec => []StopsAtExit
<1>1. Init => ExitInv
  BY DEF Init, ExitInv
<1>2. ExitInv /\ [Next]_vars => ExitInv'
  <2> SUFFICES ASSUME ExitInv, [Next]_vars PROVE ExitInv'
    OBVIOUS
  <2>1. CASE Running
    <3>1. CASE RunReturns
      BY <3>1 DEF RunReturns, ExitInv
    <3>2. CASE RunCached
      BY <3>2 DEF RunCached, OuterEnds, Watch, ExitInv
    <3>3. CASE RunDecodeTrace
      BY <3>3 DEF RunDecodeTrace, ExitInv
    <3>4. CASE RunTrace
      BY <3>4 DEF RunTrace, InBlock, Watch, EndedAfterTrace, ExitInv
    <3>5. CASE RunDtrace
      BY <3>5 DEF RunDtrace, InRun, Watch, EndedAfterTrace, ExitInv
    <3> QED BY <2>1, <3>1, <3>2, <3>3, <3>4, <3>5 DEF Running
  <2>2. CASE Next /\ ~Running
    <3>1. CASE NextInst
      BY <3>1 DEF NextInst, run, ExitInv
    <3>2. CASE Step
      <4>1. loop' = "idle" /\ over' = over /\ ended' = (ended \/ pc' = exit)
        BY <3>2 DEF Step, run
      <4> QED BY <4>1 DEF ExitInv
    <3>3. CASE StartRun
      BY <3>3 DEF StartRun, ExitInv
    <3>4. CASE DeleteSim \/ StepAstray
      BY <3>4 DEF DeleteSim, StepAstray, run, ExitInv
    <3>5. CASE NewSim
      BY <3>5 DEF NewSim, ExitInv
    <3>6. ASSUME NEW a \in Starts, SetNextAddress(a) PROVE ExitInv'
      BY <3>6 DEF SetNextAddress, run, ExitInv
    <3>7. ASSUME NEW a \in Exits, SetExitAddress(a) PROVE ExitInv'
      BY <3>7 DEF SetExitAddress, run, ExitInv
    <3>8. ASSUME NEW r \in Rewrites, Write(r[1], r[2]) PROVE ExitInv'
      BY <3>8 DEF Write, run, ExitInv
    <3> QED BY <2>2, <3>1, <3>2, <3>3, <3>4, <3>5, <3>6, <3>7, <3>8 DEF Next
  <2>3. CASE UNCHANGED vars
    BY <2>3 DEF vars, run, ExitInv
  <2> QED BY <2>1, <2>2, <2>3
<1>3. ExitInv => StopsAtExit
  BY DEF ExitInv, StopsAtExit
<1> QED BY <1>1, <1>2, <1>3, PTL DEF Spec

-----------------------------------------------------------------------------
(* The instructions allocated: between two calls of decode, the ones the   *)
(* entries of inf and of fixed hold.                                       *)
Keeping == policy \in {"inf", "fixed"}

LeakInv ==
  /\ Keeping => IsFiniteSet(Cached)
  /\ policy = "fixed" => /\ DOMAIN cells = (0..Size - 1) \X (0..D - 1)
                         /\ idx \in [0..Size - 1 -> 0..D - 1]
  /\ loop = "none" => live = 0
  /\ loop # "none" => live = IF Keeping THEN Cardinality(Cached) ELSE 0

(* A decoder allocates as many instructions as its cache gains. *)
LEMMA DecodeAllocates ==
  ASSUME SimInv, LeakInv, NEW e, NEW n \in 0..1, Decode(pc, e, n), UNCHANGED policy
  PROVE  /\ Keeping => IsFiniteSet(Cached') /\ Cardinality(Cached') = Cardinality(Cached) + n
         /\ policy = "fixed" => /\ DOMAIN cells' = (0..Size - 1) \X (0..D - 1)
                                /\ idx' \in [0..Size - 1 -> 0..D - 1]
         /\ ~Keeping => n = IF policy = "plain" THEN 1 ELSE 0
<1>0. MemInv /\ pc \in Addr /\ policy \in Policies
  BY PolicyIs DEF SimInv, ControlInv
<1>1. pc # NULL
  BY <1>0, TargetAssumption
<1>2. ASSUME Keeping, cells' = cells, n = 0
      PROVE  IsFiniteSet(Cached') /\ Cardinality(Cached') = Cardinality(Cached) + n
  <2>1. Cached' = Cached /\ IsFiniteSet(Cached)
    BY <1>2 DEF Cached, LeakInv
  <2>2. Cardinality(Cached) \in Nat
    BY <2>1, FS_CardinalityType
  <2> QED BY <1>2, <2>1, <2>2
<1>3. ASSUME Fill(e, pc, pc) PROVE Cached' = Cached \cup {e}
  <2>1. /\ DOMAIN cells' = DOMAIN cells \cup {e}
        /\ cells'[e].key = pc
        /\ \A c \in DOMAIN cells : c # e => cells'[c] = cells[c]
    BY <1>3 DEF Fill
  <2> QED BY <1>1, <2>1 DEF Cached
<1>4. ASSUME Keeping, Fill(e, pc, pc), e \notin Cached, n = 1
      PROVE  IsFiniteSet(Cached') /\ Cardinality(Cached') = Cardinality(Cached) + n
  <2>1. Cached' = Cached \cup {e} /\ IsFiniteSet(Cached)
    BY <1>3, <1>4 DEF LeakInv
  <2> QED BY <1>4, <2>1, FS_AddElement
<1>5. CASE policy = "inf"
  <2>1. CASE e \in DOMAIN cells
    BY <1>2, <1>5, <2>1 DEF Decode, DecodeInf, Keeping
  <2>2. CASE e \notin DOMAIN cells
    <3>1. Fill(e, pc, pc) /\ n = 1 /\ e \notin Cached
      BY <1>5, <2>2 DEF Decode, DecodeInf, Cached
    <3> QED BY <1>4, <1>5, <3>1 DEF Keeping
  <2> QED BY <1>5, <2>1, <2>2
<1>6. CASE policy = "fixed"
  <2>1. CASE RingHits(pc) # {}
    BY <1>2, <1>6, <2>1 DEF Decode, DecodeFixed, Keeping, LeakInv, cache, D
  <2>2. CASE RingHits(pc) = {}
    <3> DEFINE h == Hash(pc)
    <3>1. /\ e = <<h, idx[h]>>
          /\ n = (IF cells[e].key = NULL THEN 1 ELSE 0)
          /\ Fill(e, pc, pc)
          /\ idx' = [idx EXCEPT ![h] = (@ + 1) % D]
      BY <1>6, <2>2 DEF Decode, DecodeFixed
    <3>2. h \in 0..Size - 1 /\ D \in Nat \ {0, 1}
      BY <1>0, HashIs, DepthIs
    <3> HIDE DEF h
    <3>3. idx[h] \in 0..D - 1 /\ e \in DOMAIN cells
      BY <1>6, <3>1, <3>2 DEF LeakInv
    <3>4. idx' \in [0..Size - 1 -> 0..D - 1]
      <4>1. \A i \in 0..D - 1 : (i + 1) % D \in 0..D - 1
        <5> DEFINE d == D
        <5>1. d \in Nat \ {0}
          BY <3>2
        <5> HIDE DEF d
        <5>2. \A i \in 0..d - 1 : i + 1 \in Nat
          BY <5>1
        <5>3. \A i \in Nat : i % d \in 0..d - 1
          BY <5>1, Euclid
        <5>4. \A i \in 0..d - 1 : (i + 1) % d \in 0..d - 1
          BY <5>2, <5>3
        <5> QED BY <5>4 DEF d
      <4> QED BY <1>6, <3>1, <3>2, <3>3, <4>1 DEF LeakInv
    <3>5. DOMAIN cells' = DOMAIN cells
      BY <3>1, <3>3 DEF Fill
    <3>6. CASE cells[e].key = NULL
      BY <1>4, <1>6, <3>1, <3>4, <3>5, <3>6 DEF Keeping, Cached, LeakInv
    <3>7. CASE cells[e].key # NULL
      <4>1. Cached' = Cached /\ IsFiniteSet(Cached) /\ n = 0
        BY <1>3, <1>6, <3>1, <3>3, <3>7 DEF Cached, LeakInv, Keeping
      <4>2. Cardinality(Cached) \in Nat
        BY <4>1, FS_CardinalityType
      <4> QED BY <1>6, <3>4, <3>5, <4>1, <4>2 DEF LeakInv, Keeping
    <3> QED BY <3>6, <3>7
  <2> QED BY <2>1, <2>2
<1>7. CASE policy = "plain"
  BY <1>7 DEF Decode, DecodePlain, Keeping
<1>8. CASE policy \in Lists
  BY <1>8 DEF Decode, DecodeListed, Keeping, Lists
<1> QED BY <1>0, <1>5, <1>6, <1>7, <1>8, PoliciesAssumption DEF Lists

LEMMA FreshLeak ==
  ASSUME policy \in Policies, cells = NewTable.cells, idx = NewTable.idx, live = 0
  PROVE  LeakInv
<1>1. cells = [c \in Entries |-> Empty] /\ idx = [h \in 0..Size - 1 |-> 0]
  BY DEF NewTable
<1>2. Cached = {}
  BY <1>1 DEF Cached, Empty
<1>3. IsFiniteSet(Cached) /\ Cardinality(Cached) = 0
  BY <1>2, FS_EmptySet
<1>4. policy = "fixed" => /\ DOMAIN cells = (0..Size - 1) \X (0..D - 1)
                          /\ idx \in [0..Size - 1 -> 0..D - 1]
  BY <1>1, DepthIs DEF Entries
<1> QED BY <1>3, <1>4 DEF LeakInv

(* A step that leaves the cache alone. *)
LEMMA LeakFramed ==
  ASSUME LeakInv, UNCHANGED <<policy, cells, idx, live>>, loop # "none", loop' # "none"
  PROVE  LeakInv'
BY DEF LeakInv, Keeping, Cached, D

(* A call of decode, by one that frees what a decoder without cache gave.  *)
LEMMA LeakDecode ==
  ASSUME SimInv, LeakInv, NEW e, NEW n \in 0..1, Decode(pc, e, n), UNCHANGED policy,
         loop # "none", loop' # "none",
         live' = Free(n)
  PROVE  LeakInv'
<1>1. CASE Keeping
  <2>1. IsFiniteSet(Cached') /\ Cardinality(Cached') = Cardinality(Cached) + n
    BY <1>1, DecodeAllocates
  <2>2. live' = Cardinality(Cached) + n
    BY <1>1 DEF Free, Keeping, LeakInv
  <2>3. policy = "fixed" => /\ DOMAIN cells' = (0..Size - 1) \X (0..D - 1)
                            /\ idx' \in [0..Size - 1 -> 0..D - 1]
    BY DecodeAllocates
  <2> QED BY <1>1, <2>1, <2>2, <2>3 DEF LeakInv, Keeping, D
<1>2. CASE ~Keeping
  <2>1. n = IF policy = "plain" THEN 1 ELSE 0
    BY <1>2, DecodeAllocates
  <2>2. live' = 0
    BY <1>2, <2>1 DEF Free, LeakInv
  <2> QED BY <1>2, <2>2 DEF LeakInv, Keeping
<1> QED BY <1>1, <1>2

LEMMA LeakStep ==
  ASSUME SimInv, LeakInv, [Next]_vars
  PROVE  LeakInv'
<1>1. CASE NextInst
  <2>1. PICK e \in Places, n \in 0..1 : Decode(pc, e, n) /\ live' = Free(n)
    BY <1>1 DEF NextInst
  <2> QED BY <1>1, <2>1, LeakDecode DEF NextInst, run
<1>2. ASSUME DecodeAndExecute, UNCHANGED policy, loop # "none", loop' # "none"
      PROVE  LeakInv'
  <2>1. PICK e \in Places, n \in 0..1 : Decode(pc, e, n) /\ live' = Free(n)
    BY <1>2 DEF DecodeAndExecute
  <2> QED BY <1>2, <2>1, LeakDecode
<1>3. CASE Step
  <2>1. UNCHANGED policy /\ loop = "idle" /\ loop' = "idle"
    BY <1>3 DEF Step, run
  <2>2. DecodeAndExecute \/ UNCHANGED <<cache, live>>
    BY <1>3 DEF Step, StepOn
  <2> QED BY <1>2, <2>1, <2>2, LeakFramed DEF cache
<1>4. CASE Running
  <2>1. CASE RunReturns
    BY <2>1, LeakFramed DEF RunReturns, cache
  <2>2. CASE RunCached
    BY <1>2, <2>2 DEF RunCached
  <2>3. CASE RunDecodeTrace
    <3>1. PICK e \in Places, n \in 0..1 : Decode(pc, e, n) /\ live' = live + n
      BY <2>3 DEF RunDecodeTrace
    <3>2. Free(n) = live + n /\ loop = "outer" /\ loop' = "inner" /\ UNCHANGED policy
      BY <2>3 DEF RunDecodeTrace, Free
    <3> QED BY <3>1, <3>2, LeakDecode
  <2>4. CASE RunTrace
    BY <2>4, LeakFramed DEF RunTrace, cache
  <2>5. CASE RunDtrace
    BY <2>5, LeakFramed DEF RunDtrace, cache
  <2> QED BY <1>4, <2>1, <2>2, <2>3, <2>4, <2>5 DEF Running
<1>5. CASE StartRun
  BY <1>5, LeakFramed DEF StartRun, cache
<1>6. CASE DeleteSim
  <2>1. /\ loop = "idle" /\ loop' = "none" /\ UNCHANGED <<policy, cells, idx>>
        /\ live' = IF Keeping THEN live - Cardinality(Cached) ELSE live
    BY <1>6 DEF DeleteSim, cache, Keeping
  <2>2. Keeping => Cardinality(Cached) \in Nat
    BY FS_CardinalityType DEF LeakInv
  <2>3. live' = 0
    BY <2>1, <2>2 DEF LeakInv
  <2> QED BY <2>1, <2>3 DEF LeakInv, Keeping, Cached, D
<1>7. CASE NewSim
  <2>1. UNCHANGED policy /\ policy' \in Policies
    BY <1>7 DEF NewSim, SimInv, ControlInv
  <2>2. NewTable' = NewTable
    BY <2>1 DEF NewTable, Entries, Empty, D
  <2>3. cells' = NewTable.cells /\ idx' = NewTable.idx /\ live' = 0
    BY <1>7 DEF NewSim
  <2>4. (policy \in Policies /\ cells = NewTable.cells /\ idx = NewTable.idx /\ live = 0
         => LeakInv)'
    BY FreshLeak, PTL
  <2> QED BY <2>1, <2>2, <2>3, <2>4
<1>8. ASSUME NEW a \in Starts, SetNextAddress(a) PROVE LeakInv'
  BY <1>8, LeakFramed DEF SetNextAddress, cache, run
<1>9. ASSUME NEW a \in Exits, SetExitAddress(a) PROVE LeakInv'
  BY <1>9, LeakFramed DEF SetExitAddress, cache, run
<1>10. ASSUME UNCHANGED <<policy, cache, live, run>> PROVE LeakInv'
  BY <1>10 DEF LeakInv, Keeping, Cached, D, cache, run
<1>11. CASE StepAstray \/ \E r \in Rewrites : Write(r[1], r[2])
  BY <1>10, <1>11 DEF StepAstray, Write
<1>12. CASE UNCHANGED vars
  BY <1>10, <1>12 DEF vars
<1> QED BY <1>1, <1>3, <1>4, <1>5, <1>6, <1>7, <1>8, <1>9, <1>11, <1>12 DEF Next

(* Every instruction a decoder allocates is freed once: for any size of    *)
(* the cache, when a simulator is deleted none is left.                    *)
THEOREM NothingLeaks == Spec => []NoLeak
<1>1. Init => SimInv /\ LeakInv
  BY SimInit, FreshLeak DEF Init
<1>2. SimInv /\ LeakInv /\ [Next]_vars => SimInv' /\ LeakInv'
  BY SimStep, LeakStep
<1>3. LeakInv => NoLeak
  BY DEF LeakInv, NoLeak
<1> QED BY <1>1, <1>2, <1>3, PTL DEF Spec

-----------------------------------------------------------------------------
(* The replacement of entries.  Place k of a list is the k-th entry it     *)
(* goes through; place k of a ring is the one filled k misses ago.  Both   *)
(* hold the k-th key of want[h].                                           *)
Back(i, k) == IF k <= i THEN i - k ELSE i - k + D

Kept(h, k) == IF k <= Len(want[h]) THEN want[h][k] ELSE NULL

Caching == policy \in Lists \cup {"fixed"}

WantInv ==
  Caching =>
    /\ DOMAIN want = 0..Size - 1
    /\ \A h \in 0..Size - 1 :
         /\ Len(want[h]) \in 0..D /\ DOMAIN want[h] = 1..Len(want[h])
         /\ \A i \in 1..Len(want[h]) : want[h][i] # NULL
         /\ \A i, j \in 1..Len(want[h]) : want[h][i] = want[h][j] => i = j

PlacesInv ==
  \A h \in 0..Size - 1, k \in 1..D :
    /\ policy \in Lists => cells[Node(h, k)].key = Kept(h, k)
    /\ policy = "fixed" => cells[<<h, Back(idx[h], k)>>].key = Kept(h, k)

RingInv ==
  policy = "fixed" => /\ DOMAIN cells = (0..Size - 1) \X (0..D - 1)
                      /\ idx \in [0..Size - 1 -> 0..D - 1]

RetainInv == WantInv /\ RingInv /\ PlacesInv

(* The key asked for comes from place m, the last one if it has none.      *)
LEMMA RememberIs ==
  ASSUME policy \in Policies, WantInv, Caching, UNCHANGED policy,
         NEW h \in 0..Size - 1, NEW key, key # NULL, Remember(h, key), NEW m \in 1..D,
         Kept(h, m) = key \/ (m = D /\ \A k \in 1..D : Kept(h, k) # key)
  PROVE  /\ WantInv'
         /\ \A k \in 1..D : Kept(h, k)' = IF k = 1 THEN key
                                          ELSE IF k <= m THEN Kept(h, k - 1) ELSE Kept(h, k)
         /\ \A g \in 0..Size - 1, k \in 1..D : g # h => Kept(g, k)' = Kept(g, k)
<1> DEFINE w == want[h]
           n == Len(w)
           had == {k \in 1..n : w[k] = key}
           left == IF had # {} THEN CHOOSE k \in had : TRUE ELSE IF n < D THEN n + 1 ELSE D
           len == IF left > n THEN left ELSE n
           v == [k \in 1..len |-> IF k = 1 THEN key ELSE w[IF k <= left THEN k - 1 ELSE k]]
<1>1. /\ D \in Nat \ {0, 1} /\ D' = D
      /\ DOMAIN want = 0..Size - 1 /\ n \in 0..D /\ DOMAIN w = 1..n
      /\ \A i \in 1..n : w[i] # NULL
      /\ \A i, j \in 1..n : w[i] = w[j] => i = j
  BY DepthIs DEF WantInv, D
<1>2. want' = [want EXCEPT ![h] = v]
  BY DEF Remember
<1>3. \A k : Kept(h, k) = IF k <= n THEN w[k] ELSE NULL
  BY DEF Kept
<1>4. /\ left \in 1..D
      /\ \/ m = left /\ left <= n /\ w[left] = key
         \/ /\ left = IF n < D THEN n + 1 ELSE D
            /\ m = D /\ \A k \in 1..n : w[k] # key
  <2>1. CASE had # {}
    <3> DEFINE c == CHOOSE k \in had : TRUE
    <3>1. c \in had /\ left = c
      BY <2>1
    <3> HIDE DEF c, left
    <3>2. c \in 1..n /\ w[c] = key /\ left = c
      BY <3>1
    <3> HIDE DEF had, w, n
    <3>3. Kept(h, m) = key
      BY <1>1, <1>3, <3>2
    <3>4. m <= n /\ w[m] = key
      BY <1>1, <1>3, <3>3
    <3>5. m = c
      BY <1>1, <3>2, <3>4
    <3> QED BY <1>1, <3>2, <3>5
  <2>2. CASE had = {}
    <3>1. left = IF n < D THEN n + 1 ELSE D
      BY <2>2
    <3>2. \A k \in 1..n : w[k] # key
      BY <2>2
    <3> HIDE DEF had, w, n, left
    <3>3. Kept(h, m) # key
      BY <1>1, <1>3, <3>2
    <3> QED BY <1>1, <3>1, <3>2, <3>3
  <2> QED BY <2>1, <2>2
<1>5. len \in 1..D /\ len >= n /\ len = IF left > n THEN left ELSE n
  <2> HIDE DEF had, w, n, left
  <2> QED BY <1>1, <1>4
<1>6. /\ DOMAIN v = 1..len /\ Len(v) = len
      /\ \A k \in 1..len : v[k] = IF k = 1 THEN key ELSE w[IF k <= left THEN k - 1 ELSE k]
  <2> HIDE DEF had, w, n, left, len
  <2> QED BY <1>5
<1>7. want'[h] = v /\ DOMAIN want' = DOMAIN want /\ \A g \in DOMAIN want : g # h => want'[g] = want[g]
  <2> HIDE DEF v
  <2> QED BY <1>1, <1>2
<1> HIDE DEF had, w, n, left, len, v
<1>8. \A k \in 1..D : (IF k <= len THEN v[k] ELSE NULL)
        = IF k = 1 THEN key ELSE IF k <= m THEN Kept(h, k - 1) ELSE Kept(h, k)
  <2> SUFFICES ASSUME NEW k \in 1..D
               PROVE  (IF k <= len THEN v[k] ELSE NULL)
                        = IF k = 1 THEN key ELSE IF k <= m THEN Kept(h, k - 1) ELSE Kept(h, k)
    OBVIOUS
  <2>1. CASE k <= len
    <3>1. v[k] = IF k = 1 THEN key ELSE w[IF k <= left THEN k - 1 ELSE k]
      BY <1>1, <1>5, <1>6, <2>1
    <3>2. Kept(h, k) = (IF k <= n THEN w[k] ELSE NULL)
          /\ Kept(h, k - 1) = (IF k - 1 <= n THEN w[k - 1] ELSE NULL)
      BY <1>3
    <3> QED BY <1>1, <1>4, <1>5, <2>1, <3>1, <3>2
  <2>2. CASE k > len
    <3>1. Kept(h, k) = (IF k <= n THEN w[k] ELSE NULL)
          /\ Kept(h, k - 1) = (IF k - 1 <= n THEN w[k - 1] ELSE NULL)
      BY <1>3
    <3> QED BY <1>1, <1>4, <1>5, <2>2, <3>1
  <2> QED BY <1>1, <1>5, <2>1, <2>2
<1>9. /\ \A i \in 1..len : v[i] # NULL
      /\ \A i, j \in 1..len : v[i] = v[j] => i = j
  <2>1. \A i \in 2..len : /\ (IF i <= left THEN i - 1 ELSE i) \in 1..n
                          /\ v[i] = w[IF i <= left THEN i - 1 ELSE i]
                          /\ v[i] # key
    <3> TAKE i \in 2..len
    <3> DEFINE x == IF i <= left THEN i - 1 ELSE i
    <3>1. x \in 1..n /\ i \in 1..len /\ i # 1
      BY <1>1, <1>4, <1>5
    <3>2. v[i] = w[x]
      BY <1>6, <3>1
    <3>3. w[x] # key
      BY <1>1, <1>4, <1>5, <3>1
    <3> QED BY <3>1, <3>2, <3>3
  <2>2. v[1] = key
    BY <1>5, <1>6
  <2>3. ASSUME NEW i \in 1..len, NEW j \in 1..len, v[i] = v[j]
        PROVE  i = j
    <3>1. CASE i = 1 \/ j = 1
      <4>1. i = 1 \/ i \in 2..len
        BY <1>5
      <4>2. j = 1 \/ j \in 2..len
        BY <1>5
      <4> QED BY <2>1, <2>2, <2>3, <3>1, <4>1, <4>2
    <3>2. CASE i # 1 /\ j # 1
      <4> DEFINE x == IF i <= left THEN i - 1 ELSE i
                 y == IF j <= left THEN j - 1 ELSE j
      <4>1. i \in 2..len /\ j \in 2..len
        BY <1>5, <3>2
      <4>2. x \in 1..n /\ y \in 1..n /\ w[x] = w[y]
        BY <2>1, <2>3, <4>1
      <4>3. x = y
        BY <1>1, <4>2
      <4> QED BY <1>4, <1>5, <4>1, <4>3
    <3> QED BY <3>1, <3>2
  <2>4. ASSUME NEW i \in 1..len
        PROVE  v[i] # NULL
    <3>1. i = 1 \/ i \in 2..len
      BY <1>5
    <3> QED BY <1>1, <2>1, <2>2, <3>1
  <2> QED BY <2>3, <2>4
<1>10. WantInv'
  <2>1. ASSUME NEW g \in 0..Size - 1
        PROVE  /\ Len(want'[g]) \in 0..D /\ DOMAIN want'[g] = 1..Len(want'[g])
               /\ \A i \in 1..Len(want'[g]) : want'[g][i] # NULL
               /\ \A i, j \in 1..Len(want'[g]) : want'[g][i] = want'[g][j] => i = j
    <3>1. CASE g = h
      <4>1. want'[g] = v /\ Len(v) \in 0..D
        BY <1>1, <1>5, <1>6, <1>7, <3>1
      <4> QED BY <1>6, <1>9, <4>1
    <3>2. CASE g # h
      <4>1. want'[g] = want[g]
        BY <1>1, <1>7, <3>2
      <4> QED BY <4>1 DEF WantInv
    <3> QED BY <3>1, <3>2
  <2> QED BY <1>1, <1>7, <2>1 DEF WantInv
<1>11. \A k : Kept(h, k)' = IF k <= len THEN v[k] ELSE NULL
  BY <1>6, <1>7 DEF Kept
<1>12. \A g \in 0..Size - 1, k \in 1..D : g # h => Kept(g, k)' = Kept(g, k)
  BY <1>1, <1>7 DEF Kept
<1> QED BY <1>8, <1>10, <1>11, <1>12

(* Places are moved in lists. *)
Followed ==
  \A h, o : o \in Order /\ Chained(h, o) => \A k \in 1..D : Node(h, k) = <<h, o[k]>>

LEMMA NodesAre ==
  ASSUME policy \in Policies PROVE Followed
BY DepthIs, ChainNodes DEF Followed

LEMMA ListsRetain ==
  ASSUME MemInv, CacheInv, RetainInv, policy \in Policies, policy \in Lists,
         NEW a \in Addr, NEW e, NEW n, DecodeListed(a, e, n), UNCHANGED policy
  PROVE  RetainInv'
<1>0. PICK h, key, m : h = Hash(a) /\ key = Key(a) /\ m = PlaceOf(h, key)
  OBVIOUS
<1>1. /\ CacheLookup(h, key) /\ e = Node(h, m)
      /\ IF cells[e].key = key THEN cells' = cells ELSE Fill(e, key, a)
  BY <1>0 DEF DecodeListed, Found
<1>2. /\ h \in 0..Size - 1 /\ key # NULL /\ D \in Nat \ {0, 1} /\ Caching
      /\ D' = D /\ Order' = Order /\ policy' \in Policies /\ Caching'
  BY <1>0, HashIs, DecodedChunk, TargetAssumption, DepthIs DEF Chunk, Caching, Lists, D, Order
<1>3. m \in 1..D /\ (cells[Node(h, m)].key = key \/ (m = D /\ \A k \in 1..D : cells[Node(h, k)].key # key))
  <2> DEFINE found == {k \in 1..D : k = D \/ cells[Node(h, k)].key = key}
  <2>1. found \in SUBSET Nat /\ found # {}
    BY <1>2
  <2>2. \E k \in found : \A j \in found : k <= j
    <3> HIDE DEF found
    <3> QED BY <2>1, LeastOf
  <2>3. m = CHOOSE k \in found : \A j \in found : k <= j
    BY <1>0 DEF PlaceOf
  <2>4. m \in found /\ \A j \in found : m <= j
    <3> HIDE DEF found
    <3> QED BY <2>2, <2>3
  <2>5. ASSUME cells[Node(h, m)].key # key, NEW k \in 1..D
        PROVE  m = D /\ cells[Node(h, k)].key # key
    <3>1. m = D
      BY <2>4, <2>5
    <3>2. CASE k \in found
      <4>1. k = m
        BY <1>2, <2>4, <3>1, <3>2
      <4> QED BY <2>5, <3>1, <4>1
    <3>3. CASE k \notin found
      BY <3>1, <3>3
    <3> QED BY <3>1, <3>2, <3>3
  <2>6. D \in 1..D
    BY <1>2
  <2> QED BY <2>4, <2>5, <2>6
<1>4. Remember(h, key)
  BY <1>1 DEF CacheLookup
<1>5. \A g \in 0..Size - 1, k \in 1..D : cells[Node(g, k)].key = Kept(g, k)
  BY DEF RetainInv, PlacesInv
<1>6. /\ WantInv'
      /\ \A k \in 1..D : Kept(h, k)' = IF k = 1 THEN key
                                       ELSE IF k <= m THEN Kept(h, k - 1) ELSE Kept(h, k)
      /\ \A g \in 0..Size - 1, k \in 1..D : g # h => Kept(g, k)' = Kept(g, k)
  <2>1. Kept(h, m) = key \/ (m = D /\ \A k \in 1..D : Kept(h, k) # key)
    BY <1>2, <1>3, <1>5
  <2> QED BY <1>2, <1>3, <1>4, <2>1, RememberIs DEF RetainInv
<1>7. \A c \in DOMAIN cells : c # e => cells'[c].key = cells[c].key
  BY <1>1 DEF Fill
<1>8. cells'[e].key = key
  BY <1>1 DEF Fill
<1>9. (\A g, o : o \in Order /\ Chained(g, o) => \A k \in 1..D : Node(g, k) = <<g, o[k]>>)'
  <2>1. (policy \in Policies => Followed)'
    BY NodesAre, PTL
  <2> QED BY <1>2, <2>1 DEF Followed
<1>10. ASSUME NEW g \in 0..Size - 1, NEW k \in 1..D
       PROVE  cells'[Node(g, k)'].key = Kept(g, k)'
  <2>1. PICK q \in Order : Chained(g, q)
    BY DEF CacheInv, ListInv
  <2>2. /\ \A i \in 1..D : Node(g, i) = <<g, q[i]>> /\ <<g, q[i]>> \in DOMAIN cells
        /\ \A i, j \in 1..D : q[i] = q[j] => i = j
    BY <2>1, NodesAre DEF CacheInv, ListInv, Order, Followed
  <2>3. CASE g # h
    <3>1. head'[g] = <<g, q[1]>> /\ \A i \in 1..D - 1 : next'[<<g, q[i]>>] = <<g, q[i + 1]>>
      BY <1>1, <1>2, <2>1, <2>3, LookupLeaves DEF CacheInv
    <3>2. Node(g, k)' = <<g, q[k]>>
      BY <1>2, <1>9, <2>1, <3>1 DEF Chained
    <3>3. e[1] = h
      <4>1. PICK p \in Order : Chained(h, p)
        BY <1>2 DEF CacheInv, ListInv
      <4>2. e = <<h, p[m]>>
        BY <1>1, <1>3, <4>1, NodesAre DEF Followed
      <4> QED BY <4>2
    <3>4. cells'[<<g, q[k]>>].key = cells[Node(g, k)].key
      BY <1>7, <2>2, <2>3, <3>3
    <3> QED BY <1>5, <1>6, <2>3, <3>2, <3>4
  <2>4. CASE g = h
    <3> DEFINE o == Moved(q, m)
    <3>1. /\ o \in Order
          /\ head'[g] = <<g, o[1]>>
          /\ \A i \in 1..D - 1 : next'[<<g, o[i]>>] = <<g, o[i + 1]>>
      BY <1>0, <1>1, <1>2, <2>1, <2>4, LookupMoves DEF CacheInv
    <3>2. o[k] = IF k = 1 THEN q[m] ELSE IF k <= m THEN q[k - 1] ELSE q[k]
      BY DEF Moved
    <3> HIDE DEF o
    <3>3. Node(g, k)' = <<g, o[k]>>
      BY <1>2, <1>9, <3>1 DEF Chained
    <3>4. e = <<g, q[m]>>
      BY <1>1, <1>3, <2>2, <2>4
    <3>5. CASE k = 1
      BY <1>6, <1>8, <2>4, <3>2, <3>3, <3>4, <3>5
    <3>6. CASE k # 1 /\ k <= m
      <4>1. k - 1 \in 1..D /\ k - 1 # m
        BY <1>2, <1>3, <3>6
      <4>2. <<g, q[k - 1]>> # e
        BY <1>3, <2>2, <3>4, <4>1
      <4>3. cells'[<<g, q[k - 1]>>].key = cells[Node(g, k - 1)].key
        BY <1>7, <2>2, <4>1, <4>2
      <4>4. cells[Node(g, k - 1)].key = Kept(g, k - 1)
        BY <1>5, <4>1
      <4>5. Kept(g, k)' = Kept(g, k - 1)
        BY <1>6, <2>4, <3>6
      <4>6. o[k] = q[k - 1]
        BY <3>2, <3>6
      <4> QED BY <3>3, <4>3, <4>4, <4>5, <4>6
    <3>7. CASE k # 1 /\ ~(k <= m)
      <4>1. k # m
        BY <1>3, <3>7
      <4>2. <<g, q[k]>> # e
        BY <1>3, <2>2, <3>4, <4>1
      <4>3. cells'[<<g, q[k]>>].key = cells[Node(g, k)].key
        BY <1>7, <2>2, <4>2
      <4> QED BY <1>5, <1>6, <2>4, <3>2, <3>3, <3>7, <4>3
    <3> QED BY <3>5, <3>6, <3>7
  <2> QED BY <2>3, <2>4
<1>11. PlacesInv' /\ RingInv'
  <2>1. policy' \in Lists /\ policy' # "fixed"
    BY DEF Lists
  <2> QED BY <1>2, <1>10, <2>1 DEF PlacesInv, RingInv
<1> QED BY <1>6, <1>11 DEF RetainInv

(* What a ring does not have replaces what it got D misses before. *)
LEMMA RingsRetain ==
  ASSUME MemInv, RetainInv, policy \in Policies, policy = "fixed",
         NEW a \in Addr, NEW e, NEW n, DecodeFixed(a, e, n), UNCHANGED policy
  PROVE  RetainInv'
<1>1. D \in Nat \ {0, 1} /\ D' = D /\ Caching /\ policy \notin Lists
  BY DepthIs DEF D, Caching, Lists
<1>2. CASE RingHits(a) # {}
  <2>1. UNCHANGED <<cells, idx, want>>
    BY <1>2 DEF DecodeFixed, cache
  <2> QED BY <1>1, <2>1 DEF RetainInv, WantInv, RingInv, PlacesInv, Kept, Back, Caching
<1>3. CASE RingHits(a) = {}
  <2>0. PICK h : h = Hash(a)
    OBVIOUS
  <2>1. PICK i : i = idx[h]
    OBVIOUS
  <2>2. PICK j : j = (i + 1) % D
    OBVIOUS
  <2>3. h \in 0..Size - 1 /\ i \in 0..D - 1 /\ a # NULL
    BY <2>0, <2>1, HashIs, TargetAssumption DEF RetainInv, RingInv
  <2>4. j = IF i = D - 1 THEN 0 ELSE i + 1
    BY <1>1, <2>2, <2>3, SMTT(30)
  <2>5. /\ e = <<h, i>> /\ Fill(e, a, a) /\ Remember(h, a) /\ idx' = [idx EXCEPT ![h] = j]
    BY <1>3, <2>0, <2>1, <2>2 DEF DecodeFixed
  <2>6. \A g \in 0..Size - 1, k \in 1..D :
          /\ Back(idx[g], k) \in 0..D - 1
          /\ cells[<<g, Back(idx[g], k)>>].key = Kept(g, k)
    <3> SUFFICES ASSUME NEW g \in 0..Size - 1, NEW k \in 1..D
                 PROVE  /\ Back(idx[g], k) \in 0..D - 1
                        /\ cells[<<g, Back(idx[g], k)>>].key = Kept(g, k)
      OBVIOUS
    <3>1. idx[g] \in 0..D - 1
      BY DEF RetainInv, RingInv
    <3> QED BY <1>1, <3>1 DEF RetainInv, PlacesInv, Back
  <2>7. DOMAIN cells = (0..Size - 1) \X (0..D - 1) /\ idx \in [0..Size - 1 -> 0..D - 1]
    BY DEF RetainInv, RingInv
  <2>8. /\ WantInv'
        /\ \A k \in 1..D : Kept(h, k)' = IF k = 1 THEN a ELSE Kept(h, k - 1)
        /\ \A g \in 0..Size - 1, k \in 1..D : g # h => Kept(g, k)' = Kept(g, k)
    <3>1. ASSUME NEW k \in 1..D
          PROVE  Kept(h, k) # a
      <4>1. <<h, Back(idx[h], k)>> \in DOMAIN cells
        BY <2>3, <2>6, <2>7
      <4>2. cells[<<h, Back(idx[h], k)>>].key # a
        BY <1>3, <2>0, <4>1 DEF RingHits
      <4> QED BY <2>3, <2>6, <4>2
    <3>2. D \in 1..D
      BY <1>1
    <3> QED BY <1>1, <2>3, <2>5, <3>1, <3>2, RememberIs DEF RetainInv
  <2>9. /\ \A c \in DOMAIN cells : c # e => cells'[c] = cells[c]
        /\ cells'[e].key = a /\ DOMAIN cells' = DOMAIN cells
    <3>1. e \in DOMAIN cells
      BY <2>3, <2>5, <2>7
    <3> QED BY <2>5, <3>1 DEF Fill
  <2>10. RingInv'
    <3>1. j \in 0..D - 1
      BY <1>1, <2>3, <2>4
    <3>2. idx' \in [0..Size - 1 -> 0..D - 1]
      BY <2>5, <2>7, <3>1
    <3> QED BY <1>1, <2>7, <2>9, <3>2 DEF RingInv
  <2>11. ASSUME NEW g \in 0..Size - 1, NEW k \in 1..D
         PROVE  cells'[<<g, Back(idx'[g], k)>>].key = Kept(g, k)'
    <3>1. CASE g # h
      <4>1. idx'[g] = idx[g]
        BY <2>5, <2>7, <3>1
      <4>2. <<g, Back(idx[g], k)>> \in DOMAIN cells /\ <<g, Back(idx[g], k)>> # e
        BY <2>5, <2>6, <2>7, <3>1
      <4> QED BY <2>6, <2>8, <2>9, <3>1, <4>1, <4>2
    <3>2. CASE g = h /\ k = 1
      <4>1. Back(j, 1) = i
        BY <1>1, <2>3, <2>4 DEF Back
      <4> QED BY <2>3, <2>5, <2>7, <2>8, <2>9, <3>2, <4>1
    <3>3. CASE g = h /\ k # 1
      <4>1. k - 1 \in 1..D
        BY <1>1, <3>3
      <4>2. Back(j, k) = Back(i, k - 1) /\ Back(i, k - 1) # i
        BY <1>1, <2>3, <2>4, <3>3 DEF Back
      <4>3. <<h, Back(i, k - 1)>> \in DOMAIN cells /\ <<h, Back(i, k - 1)>> # e
        BY <2>1, <2>3, <2>5, <2>6, <2>7, <4>1, <4>2
      <4>4. cells'[<<h, Back(i, k - 1)>>].key = Kept(h, k - 1)
        BY <2>1, <2>3, <2>6, <2>9, <4>1, <4>3
      <4>5. idx'[h] = j
        BY <2>3, <2>5, <2>7
      <4> QED BY <2>8, <3>3, <4>2, <4>4, <4>5
    <3> QED BY <3>1, <3>2, <3>3
  <2>12. PlacesInv'
    BY <1>1, <2>11 DEF PlacesInv, Back
  <2> QED BY <2>8, <2>10, <2>12 DEF RetainInv
<1> QED BY <1>2, <1>3

LEMMA DecodeRetains ==
  ASSUME MemInv, CacheInv, RetainInv, policy \in Policies, NEW a \in Addr, NEW e, NEW n,
         Decode(a, e, n), UNCHANGED policy
  PROVE  RetainInv'
<1>1. CASE policy \in Lists
  BY <1>1, ListsRetain DEF Decode, Lists
<1>2. CASE policy = "fixed"
  BY <1>2, RingsRetain DEF Decode
<1>3. CASE policy \notin Lists \cup {"fixed"}
  BY <1>3 DEF RetainInv, WantInv, RingInv, PlacesInv, Caching
<1> QED BY <1>1, <1>2, <1>3

LEMMA RetainFramed ==
  ASSUME RetainInv, UNCHANGED <<policy, cache>>
  PROVE  RetainInv'
<1>1. UNCHANGED <<policy, cells, head, next, idx, want>>
  BY DEF cache
<1>2. \A h, k : Node(h, k)' = Node(h, k) /\ Kept(h, k)' = Kept(h, k)
  BY <1>1 DEF Node, Kept, D
<1> QED BY <1>1, <1>2 DEF RetainInv, WantInv, RingInv, PlacesInv, Caching, Back, D

LEMMA FreshRetains ==
  ASSUME policy \in Policies, cells = NewTable.cells, head = NewTable.head,
         next = NewTable.next, idx = NewTable.idx, want = NewTable.want
  PROVE  RetainInv
<1>1. /\ cells = [c \in Entries |-> Empty]
      /\ idx = [h \in 0..Size - 1 |-> 0]
      /\ want = [h \in 0..Size - 1 |-> <<>>]
  BY DEF NewTable
<1>2. D \in Nat \ {0, 1} /\ (Caching => Entries = (0..Size - 1) \X (0..D - 1))
  BY DepthIs DEF Entries, Caching, Lists
<1>3. WantInv
  <2>1. ASSUME NEW h \in 0..Size - 1
        PROVE  want[h] = <<>> /\ Len(want[h]) = 0 /\ DOMAIN want[h] = 1..0
    BY <1>1
  <2> QED BY <1>1, <1>2, <2>1 DEF WantInv
<1>4. \A h \in 0..Size - 1, k \in 1..D : Kept(h, k) = NULL
  BY <1>1, <1>2 DEF Kept
<1>5. \A c \in Entries : cells[c].key = NULL
  BY <1>1 DEF Empty
<1>6. RingInv
  BY <1>1, <1>2 DEF RingInv, Caching
<1>7. ASSUME NEW h \in 0..Size - 1, NEW k \in 1..D
      PROVE  /\ policy \in Lists => cells[Node(h, k)].key = Kept(h, k)
             /\ policy = "fixed" => cells[<<h, Back(idx[h], k)>>].key = Kept(h, k)
  <2>1. CASE policy \in Lists
    <3>1. PICK o \in Order : Chained(h, o)
      BY <2>1, FreshCache DEF CacheInv, ListInv
    <3>2. Node(h, k) = <<h, o[k]>> /\ o[k] \in 0..D - 1
      BY <3>1, NodesAre DEF Followed, Order
    <3>3. Node(h, k) \in Entries /\ policy # "fixed"
      BY <1>2, <2>1, <3>2 DEF Caching, Lists
    <3> QED BY <1>4, <1>5, <3>3
  <2>2. CASE policy = "fixed"
    <3>1. Back(idx[h], k) \in 0..D - 1
      BY <1>1, <1>2 DEF Back
    <3>2. <<h, Back(idx[h], k)>> \in Entries /\ policy \notin Lists
      BY <1>2, <2>2, <3>1 DEF Caching, Lists
    <3> QED BY <1>4, <1>5, <3>2
  <2> QED BY <2>1, <2>2
<1> QED BY <1>3, <1>6, <1>7 DEF RetainInv, PlacesInv

LEMMA RetainStep ==
  ASSUME SimInv, RetainInv, [Next]_vars
  PROVE  RetainInv'
<1>1. MemInv /\ CacheInv /\ policy \in Policies /\ pc \in Addr
  BY DEF SimInv, ControlInv
<1>2. ASSUME NEW e, NEW n, Decode(pc, e, n), UNCHANGED policy PROVE RetainInv'
  BY <1>1, <1>2, DecodeRetains
<1>3. CASE NextInst
  BY <1>2, <1>3 DEF NextInst
<1>4. CASE Step
  <2>1. UNCHANGED policy /\ (UNCHANGED cache \/ DecodeAndExecute)
    BY <1>4 DEF Step, StepOn
  <2> QED BY <1>2, <2>1, RetainFramed DEF DecodeAndExecute
<1>5. CASE Running
  <2>1. CASE RunCached
    BY <1>2, <2>1 DEF RunCached, DecodeAndExecute
  <2>2. CASE RunDecodeTrace
    BY <1>2, <2>2 DEF RunDecodeTrace
  <2>3. CASE RunReturns \/ RunTrace \/ RunDtrace
    BY <2>3, RetainFramed DEF RunReturns, RunTrace, RunDtrace
  <2> QED BY <1>5, <2>1, <2>2, <2>3 DEF Running
<1>6. CASE NewSim
  <2>1. /\ policy' \in Policies /\ NewTable' = NewTable
        /\ cells' = NewTable.cells /\ head' = NewTable.head /\ next' = NewTable.next
        /\ idx' = NewTable.idx /\ want' = NewTable.want
    BY <1>1, <1>6 DEF NewSim, NewTable, Entries, Empty, D
  <2>2. (policy \in Policies /\ cells = NewTable.cells /\ head = NewTable.head
         /\ next = NewTable.next /\ idx = NewTable.idx /\ want = NewTable.want => RetainInv)'
    BY FreshRetains, PTL
  <2> QED BY <2>1, <2>2
<1>7. CASE \/ StartRun \/ DeleteSim \/ StepAstray \/ UNCHANGED vars
           \/ \E a \in Starts : SetNextAddress(a)
           \/ \E a \in Exits : SetExitAddress(a)
           \/ \E r \in Rewrites : Write(r[1], r[2])
  <2>1. UNCHANGED <<policy, cache>>
    BY <1>7 DEF StartRun, DeleteSim, StepAstray, SetNextAddress, SetExitAddress, Write, vars
  <2> QED BY <2>1, RetainFramed
<1> QED BY <1>3, <1>4, <1>5, <1>6, <1>7 DEF Next

(* For any number of lists and any depth, and whatever its last next field *)
(* has become, a list of lru or of the traces holds the keys it was last   *)
(* asked for, in that order; a ring holds the keys it missed last.         *)
THEOREM CachesRetain == Spec => []Retained
<1>1. Init => SimInv /\ RetainInv
  <2>1. Init => policy \in Policies
    BY DEF Init
  <2> QED BY <2>1, SimInit, FreshRetains DEF Init
<1>2. SimInv /\ RetainInv /\ [Next]_vars => SimInv' /\ RetainInv'
  BY SimStep, RetainStep
<1>3. SimInv /\ RetainInv => Retained
  <2> SUFFICES ASSUME SimInv, RetainInv, NEW h \in 0..Size - 1
               PROVE  LET n == Len(want[h])
                          keys == {cells[c].key : c \in {x \in Cached : x[1] = h}}
                      IN CASE policy \in {"plain", "inf"} -> TRUE
                           [] policy = "fixed" -> keys = {want[h][k] : k \in 1..n}
                           [] OTHER -> \A k \in 1..D :
                                cells[Node(h, k)].key = IF k <= n THEN want[h][k] ELSE NULL
    BY DEF Retained
  <2>1. policy \in Policies
    BY DEF SimInv, ControlInv
  <2>2. CASE policy \in Lists
    BY <2>2 DEF Lists, RetainInv, PlacesInv, Kept
  <2>3. CASE policy = "fixed"
    <3> DEFINE n == Len(want[h])
               keys == {cells[c].key : c \in {x \in Cached : x[1] = h}}
    <3>1. /\ D \in Nat \ {0, 1} /\ n \in 0..D /\ \A k \in 1..n : want[h][k] # NULL
          /\ idx[h] \in 0..D - 1 /\ DOMAIN cells = (0..Size - 1) \X (0..D - 1)
      BY <2>1, <2>3, DepthIs DEF RetainInv, WantInv, RingInv, Caching
    <3>2. ASSUME NEW k \in 1..n
          PROVE  want[h][k] \in keys
      <4>1. k \in 1..D /\ Back(idx[h], k) \in 0..D - 1
        BY <3>1 DEF Back
      <4>2. cells[<<h, Back(idx[h], k)>>].key = want[h][k]
        BY <2>3, <4>1 DEF RetainInv, PlacesInv, Kept
      <4>3. <<h, Back(idx[h], k)>> \in Cached
        BY <3>1, <4>1, <4>2 DEF Cached
      <4> QED BY <4>2, <4>3
    <3>3. ASSUME NEW c \in Cached, c[1] = h
          PROVE  cells[c].key \in {want[h][k] : k \in 1..n}
      <4>1. c \in DOMAIN cells /\ cells[c].key # NULL
        BY DEF Cached
      <4>2. PICK i \in 0..D - 1 : c = <<h, i>>
        BY <3>1, <3>3, <4>1
      <4>3. PICK k \in 1..D : Back(idx[h], k) = i
        <5> DEFINE x == idx[h]
        <5>1. x \in 0..D - 1 /\ i \in 0..D - 1
          BY <3>1
        <5> HIDE DEF x
        <5>2. CASE i < x
          <6>1. x - i \in 1..D /\ Back(x, x - i) = i
            <7> DEFINE d == D
            <7>1. d \in Nat /\ x \in 0..d - 1 /\ i \in 0..d - 1
              BY <3>1, <5>1
            <7>2. Back(x, x - i) = IF x - i <= x THEN x - (x - i) ELSE x - (x - i) + d
              BY DEF Back
            <7> HIDE DEF d
            <7>3. x - i \in 1..d /\ x - i <= x /\ x - (x - i) = i
              BY <5>2, <7>1
            <7> QED BY <7>2, <7>3 DEF d
          <6> QED BY <6>1 DEF x
        <5>3. CASE ~(i < x)
          <6>1. x - i + D \in 1..D /\ Back(x, x - i + D) = i
            <7> DEFINE d == D
            <7>1. d \in Nat /\ x \in 0..d - 1 /\ i \in 0..d - 1
              BY <3>1, <5>1
            <7>2. Back(x, x - i + D) = IF x - i + d <= x THEN x - (x - i + d) ELSE x - (x - i + d) + d
              BY DEF Back
            <7> HIDE DEF d
            <7>3. x - i + d \in 1..d /\ ~(x - i + d <= x) /\ x - (x - i + d) + d = i
              BY <5>3, <7>1
            <7> QED BY <7>2, <7>3 DEF d
          <6> QED BY <6>1 DEF x
        <5> QED BY <5>2, <5>3
      <4>4. cells[c].key = Kept(h, k)
        BY <2>3, <4>2, <4>3 DEF RetainInv, PlacesInv
      <4>5. k \in 1..n /\ Kept(h, k) = want[h][k]
        BY <3>1, <4>1, <4>3, <4>4 DEF Kept
      <4> QED BY <4>4, <4>5
    <3>4. keys = {want[h][k] : k \in 1..n}
      BY <3>2, <3>3
    <3> QED BY <2>3, <3>4
  <2>4. CASE policy \in {"plain", "inf"}
    BY <2>4
  <2> QED BY <2>1, <2>2, <2>3, <2>4, PolicyIs
<1> QED BY <1>1, <1>2, <1>3, PTL DEF Spec

=============================================================================
