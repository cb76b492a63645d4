------------------------ MODULE GlissSimulatorProofs ------------------------
(***************************************************************************)
(* Proofs about GlissFetch and about GlissSimulator, with its loader.      *)
(*                                                                         *)
(* The fetch, for any sets of instructions, of any lengths, and any memory:*)
(* what it finds is what is there.  TreeInv is what the generator keeps of *)
(* its tree: no two nodes have one name, an instruction is in a node that  *)
(* is below no other one that holds instructions, and all the values that  *)
(* lead to that node are its own, on masks whose bits it fixes.  WalkInv   *)
(* is what the walk adds: an instruction that is in memory is below the    *)
(* table looked up, and the values that led there are those of the memory. *)
(*                                                                         *)
(* The simulator, for any programs, commands and files.  MainInv has one   *)
(* part for each thing that goes from one step of main to another: the     *)
(* blocks and the sections of the open loader, the types, the memory, the  *)
(* arguments, the stack and the registers, the counts.  The loops of the   *)
(* code are folds; what they compute is told by lemmas: the lists Placed   *)
(* makes (PlacedIs), what ElfRead leaves (ElfReadIs), the memory filled    *)
(* (FilledIs), the sizes added (SizeOfIs), the strings pushed              *)
(* (PutStringsIs) and read back (StringsAtAre), the entries sorted         *)
(* (SortedIs).                                                             *)
(***************************************************************************)
EXTENDS GlissSimulator, GlissFetch, FunctionTheorems, FiniteSetTheorems, SequenceTheorems,
        WellFoundedInduction, TLAPS

Bits == {0, 1, X}

-----------------------------------------------------------------------------
(* A set of numbers that is not empty has a least one. *)
LEMMA LeastOf ==
  ASSUME NEW S \in SUBSET Nat, S # {}
  PROVE  \E n \in S : \A m \in S : n <= m
<1> DEFINE R == OpToRel(<, Nat)
<1>1. IsWellFoundedOn(R, Nat)
  BY NatLessThanWellFounded
<1>2. \A m, n \in Nat : m < n => <<m, n>> \in R
  BY DEF OpToRel
<1> HIDE DEF R
<1>3. PICK n \in S : \A m \in S : ~(<<m, n>> \in R)
  BY <1>1, WFMin
<1>4. \A m \in S : n <= m
  <2> TAKE m \in S
  <2>1. n \in Nat /\ m \in Nat /\ ~(m < n)
    BY <1>2, <1>3
  <2> QED BY <2>1
<1> QED BY <1>4

(* From one multiple of a number to the next one. *)
LEMMA NextMultiple ==
  ASSUME NEW c \in Nat \ {0}, NEW a \in Nat, NEW b \in Nat,
         a % c = 0, b % c = 0, a < b
  PROVE  a + c \in Nat /\ a + c <= b /\ (a + c) % c = 0
<1>1. PICK q : q = a \div c
  OBVIOUS
<1>2. PICK r : r = b \div c
  OBVIOUS
<1>3. /\ q \in Int /\ r \in Int
      /\ a = c * q + (a % c) /\ b = c * r + (b % c)
  BY <1>1, <1>2
<1>4. PICK u : u = c * q
  OBVIOUS
<1>5. PICK v : v = c * r
  OBVIOUS
<1>6. a = u /\ b = v
  BY <1>3, <1>4, <1>5
<1>7. q < r
  <2>1. r <= q => c * r <= c * q
    BY <1>3
  <2> QED BY <1>3, <1>4, <1>5, <1>6, <2>1
<1>8. c * (q + 1) <= c * r
  BY <1>3, <1>7
<1>9. c * (q + 1) = u + c
  BY <1>3, <1>4
<1>10. (a + c) % c = 0
  BY <1>3, <1>4, <1>6, <1>9
<1> QED BY <1>5, <1>6, <1>8, <1>9, <1>10

(* The instructions of a set, and their lengths. *)
LEMMA SetIs ==
  ASSUME iset \in Sets
  PROVE  /\ Len(iset) \in Nat \ {0} /\ Specs = 1..Len(iset) /\ IsFiniteSet(Specs)
         /\ \A s \in Specs : /\ iset[s] \in Seq(Bits) /\ Len(iset[s]) \in Nat \ {0}
                             /\ DOMAIN iset[s] = 1..Len(iset[s])
<1>1. iset \in Seq(Seq(Bits)) /\ iset # <<>> /\ \A s \in Specs : iset[s] # <<>>
  BY SetsAssumption DEF Bits, Specs
<1>2. Len(iset) \in Nat \ {0} /\ Specs = 1..Len(iset)
  BY <1>1, EmptySeq, LenProperties DEF Specs
<1>3. IsFiniteSet(Specs)
  BY <1>2, FS_Interval
<1>4. ASSUME NEW s \in Specs
      PROVE  /\ iset[s] \in Seq(Bits) /\ Len(iset[s]) \in Nat \ {0}
             /\ DOMAIN iset[s] = 1..Len(iset[s])
  <2>1. iset[s] \in Seq(Bits)
    BY <1>1, <1>2, ElementOfSeq
  <2> QED BY <1>1, <2>1, EmptySeq, LenProperties
<1> QED BY <1>2, <1>3, <1>4

(* Lengths have a bound: the least number of instructions without one, if  *)
(* there were any, would follow a number of instructions with one.         *)
LEMMA LengthBound ==
  ASSUME iset \in Sets
  PROVE  \E u \in Nat : \A s \in Specs : Len(iset[s]) <= u
<1>1. /\ Len(iset) \in Nat \ {0} /\ Specs = 1..Len(iset)
      /\ \A s \in Specs : Len(iset[s]) \in Nat
  BY SetIs
<1> DEFINE Bounded(k) == \E u \in Nat : \A s \in 1..k : Len(iset[s]) <= u
           S == {k \in 0..Len(iset) : ~Bounded(k)}
<1>2. S = {}
  <2> SUFFICES ASSUME S # {} PROVE FALSE
    OBVIOUS
  <2>1. S \in SUBSET Nat
    BY <1>1
  <2> HIDE DEF Bounded, S
  <2>2. PICK k \in S : \A m \in S : k <= m
    BY <2>1, LeastOf
  <2>3. k # 0
    BY <2>2 DEF S, Bounded
  <2>4. k \in 0..Len(iset) /\ ~Bounded(k)
    BY <2>2 DEF S
  <2>5. k - 1 \in 0..Len(iset) /\ k - 1 \notin S /\ k \in Specs
    BY <1>1, <2>2, <2>3, <2>4
  <2>6. Bounded(k - 1)
    BY <2>5 DEF S
  <2>7. PICK u \in Nat : \A s \in 1..k - 1 : Len(iset[s]) <= u
    BY <2>6 DEF Bounded
  <2> DEFINE w == IF Len(iset[k]) > u THEN Len(iset[k]) ELSE u
  <2>8. w \in Nat /\ Len(iset[k]) <= w /\ u <= w
    BY <1>1, <2>5
  <2> HIDE DEF w
  <2>9. ASSUME NEW s \in 1..k
        PROVE  Len(iset[s]) <= w
    <3>1. CASE s = k
      BY <2>8, <3>1
    <3>2. CASE s # k
      <4>1. s \in 1..k - 1 /\ s \in Specs
        BY <1>1, <2>4, <3>2
      <4> QED BY <1>1, <2>7, <2>8, <4>1
    <3> QED BY <3>1, <3>2
  <2>10. Bounded(k)
    BY <2>8, <2>9 DEF Bounded
  <2> QED BY <2>4, <2>10
<1>3. Len(iset) \in 0..Len(iset)
  BY <1>1
<1>4. Bounded(Len(iset))
  BY <1>2, <1>3
<1> QED BY <1>1, <1>4

LEMMA MaxLength ==
  ASSUME iset \in Sets, NEW specs \in SUBSET Specs, specs # {}
  PROVE  \E s \in specs : /\ Max(Lengths(specs)) = Len(iset[s])
                          /\ \A r \in specs : Len(iset[r]) <= Len(iset[s])
<1>1. \A s \in specs : Len(iset[s]) \in Nat
  BY SetIs
<1>2. PICK u \in Nat : \A s \in specs : Len(iset[s]) <= u
  BY LengthBound
<1> DEFINE S == {u - Len(iset[s]) : s \in specs}
<1>3. S \in SUBSET Nat /\ S # {}
  BY <1>1, <1>2
<1>4. PICK d \in S : \A e \in S : d <= e
  <2> HIDE DEF S
  <2> QED BY <1>3, LeastOf
<1>5. PICK s \in specs : d = u - Len(iset[s])
  BY <1>4
<1>6. \A r \in specs : Len(iset[r]) <= Len(iset[s])
  <2> TAKE r \in specs
  <2>1. u - Len(iset[r]) \in S
    OBVIOUS
  <2>2. u - Len(iset[s]) <= u - Len(iset[r])
    BY <1>4, <1>5, <2>1
  <2> QED BY <1>1, <2>2
<1>7. Max(Lengths(specs)) = Len(iset[s])
  <2> DEFINE L == Lengths(specs)
             m == CHOOSE x \in L : \A y \in L : x >= y
  <2>1. Len(iset[s]) \in L /\ \A y \in L : Len(iset[s]) >= y
    BY <1>1, <1>6 DEF Lengths
  <2>2. L \subseteq Nat
    BY <1>1 DEF Lengths
  <2>3. Max(L) = m
    BY DEF Max
  <2> HIDE DEF L
  <2>4. m \in L /\ \A y \in L : m >= y
    BY <2>1
  <2>5. m >= Len(iset[s]) /\ Len(iset[s]) >= m /\ m \in Nat
    BY <2>1, <2>2, <2>4
  <2> HIDE DEF m
  <2>6. m = Len(iset[s])
    BY <1>1, <2>5
  <2> QED BY <2>3, <2>6 DEF L
<1> QED BY <1>6, <1>7

(* The mask of some instructions: the bits they all fix. *)
FixedIn(s, mask) ==
  \A i \in DOMAIN mask : mask[i] => i \in DOMAIN iset[s] /\ iset[s][i] # X

LEMMA MaskIs ==
  ASSUME iset \in Sets, NEW specs \in SUBSET Specs, specs # {}
  PROVE  /\ SpecListMask(specs) \in Seq(BOOLEAN)
         /\ \E s \in Specs : Len(SpecListMask(specs)) = Len(iset[s])
         /\ \A s \in specs : FixedIn(s, SpecListMask(specs))
<1> DEFINE mask == SpecListMask(specs)
<1>1. PICK s \in specs : /\ Max(Lengths(specs)) = Len(iset[s])
                         /\ \A r \in specs : Len(iset[r]) <= Len(iset[s])
  BY MaxLength
<1>2. Len(iset[s]) \in Nat
  BY SetIs
<1>3. mask = [i \in 1..Len(iset[s]) |-> \A r \in specs : i <= Len(iset[r]) /\ GetMask(r)[i]]
  BY <1>1 DEF SpecListMask
<1>4. mask \in [1..Len(iset[s]) -> BOOLEAN]
  <2>1. ASSUME NEW i \in 1..Len(iset[s])
        PROVE  (\A r \in specs : i <= Len(iset[r]) /\ GetMask(r)[i]) \in BOOLEAN
    OBVIOUS
  <2> QED BY <1>3, <2>1
<1>5. mask \in Seq(BOOLEAN) /\ Len(mask) = Len(iset[s]) /\ DOMAIN mask = 1..Len(iset[s])
  BY <1>2, <1>4, SeqDef
<1>6. ASSUME NEW r \in specs, NEW i \in DOMAIN mask, mask[i]
      PROVE  i \in DOMAIN iset[r] /\ iset[r][i] # X
  <2>1. i \in 1..Len(iset[s]) /\ i <= Len(iset[r]) /\ GetMask(r)[i]
    BY <1>3, <1>5, <1>6
  <2>2. i \in DOMAIN iset[r]
    BY <1>2, <2>1, SetIs
  <2> QED BY <2>1, <2>2 DEF GetMask
<1>7. \A r \in specs : FixedIn(r, mask)
  BY <1>6 DEF FixedIn
<1> QED BY <1>5, <1>7

-----------------------------------------------------------------------------
(* The values on a mask.  The rank of a place tells it from the others, so *)
(* that a value has each bit of the mask, once.                            *)
LEMMA RankIs ==
  ASSUME NEW P \in SUBSET Nat, IsFiniteSet(P)
  PROVE  /\ Cardinality(P) \in Nat
         /\ \A i \in P : Rank(i, P) \in 1..Cardinality(P)
         /\ \A i, j \in P : Rank(i, P) = Rank(j, P) => i = j
         /\ \A k \in 1..Cardinality(P) : \E i \in P : Rank(i, P) = k
<1> DEFINE Below(i) == {j \in P : j <= i}
<1>1. \A i \in P : Rank(i, P) = Cardinality(Below(i))
  BY DEF Rank
<1>2. \A i \in P : /\ IsFiniteSet(Below(i)) /\ Cardinality(Below(i)) \in Nat
                   /\ Cardinality(Below(i)) <= Cardinality(P)
  <2> TAKE i \in P
  <2>1. Below(i) \in SUBSET P
    OBVIOUS
  <2> HIDE DEF Below
  <2> QED BY <2>1, FS_Subset, FS_CardinalityType
<1>3. Cardinality(P) \in Nat
  BY FS_CardinalityType
<1>4. \A i \in P : Cardinality(Below(i)) # 0
  <2> TAKE i \in P
  <2>1. i \in Below(i)
    OBVIOUS
  <2> HIDE DEF Below
  <2> QED BY <1>2, <2>1, FS_EmptySet
<1>5. ASSUME NEW i \in P, NEW j \in P, i < j
      PROVE  Cardinality(Below(i)) # Cardinality(Below(j))
  <2>1. Below(i) \in SUBSET Below(j) /\ j \in Below(j) /\ j \notin Below(i)
    <3>1. i \in Nat /\ j \in Nat /\ \A x \in P : x \in Nat
      OBVIOUS
    <3>2. \A x \in Nat : x <= i => x <= j
      BY <1>5, <3>1
    <3>3. j <= j /\ ~(j <= i)
      BY <1>5, <3>1
    <3>4. Below(i) \subseteq Below(j)
      BY <3>1, <3>2
    <3>5. j \in Below(j) /\ j \notin Below(i)
      BY <3>3
    <3> QED BY <3>4, <3>5
  <2> HIDE DEF Below
  <2> QED BY <1>2, <2>1, FS_Subset
<1> HIDE DEF Below
<1>6. ASSUME NEW i \in P, NEW j \in P, Rank(i, P) = Rank(j, P)
      PROVE  i = j
  <2>1. i < j \/ j < i \/ i = j
    OBVIOUS
  <2> QED BY <1>1, <1>5, <1>6, <2>1
<1>7. \A i \in P : Rank(i, P) \in 1..Cardinality(P)
  BY <1>1, <1>2, <1>3, <1>4
<1>8. ASSUME NEW k \in 1..Cardinality(P)
      PROVE  \E i \in P : Rank(i, P) = k
  <2> DEFINE f == [i \in P |-> Rank(i, P)]
             T == 1..Cardinality(P)
  <2>1. f \in Injection(P, T)
    BY <1>6, <1>7 DEF Injection, IsInjective
  <2>2. IsFiniteSet(T) /\ Cardinality(T) = Cardinality(P)
    BY <1>3, FS_Interval
  <2> HIDE DEF f, T
  <2>3. f \in Surjection(P, T)
    BY <2>1, <2>2, FS_Injection
  <2>4. \E i \in P : f[i] = k
    BY <2>3 DEF Surjection, T
  <2> QED BY <2>4 DEF f
<1> QED BY <1>3, <1>6, <1>7, <1>8

LEMMA PlacesAre ==
  ASSUME NEW bits \in Seq(Bits), NEW mask \in Seq(BOOLEAN)
  PROVE  Places(bits, mask) \in SUBSET Nat /\ IsFiniteSet(Places(bits, mask))
<1>1. DOMAIN mask = 1..Len(mask) /\ Len(mask) \in Nat
  BY LenProperties
<1>2. Places(bits, mask) \in SUBSET (1..Len(mask)) /\ IsFiniteSet(1..Len(mask))
  BY <1>1, FS_Interval DEF Places
<1> QED BY <1>2, FS_Subset

LEMMA ValueIs ==
  ASSUME NEW bits \in Seq(Bits), NEW mask \in Seq(BOOLEAN)
  PROVE  /\ MaskedValue(bits, mask) \in Seq(Bits)
         /\ \A i \in Places(bits, mask) :
              MaskedValue(bits, mask)[Rank(i, Places(bits, mask))] = bits[i]
<1> DEFINE P == Places(bits, mask)
           n == Cardinality(P)
           v == [k \in 1..n |-> bits[CHOOSE i \in P : Rank(i, P) = k]]
<1>1. P \in SUBSET Nat /\ IsFiniteSet(P) /\ P \subseteq DOMAIN bits
  BY PlacesAre DEF Places
<1>2. MaskedValue(bits, mask) = v
  BY DEF MaskedValue
<1> HIDE DEF P
<1>3. /\ n \in Nat
      /\ \A i \in P : Rank(i, P) \in 1..n
      /\ \A i, j \in P : Rank(i, P) = Rank(j, P) => i = j
      /\ \A k \in 1..n : \E i \in P : Rank(i, P) = k
  BY <1>1, RankIs
<1> HIDE DEF n
<1>4. \A i \in P : v[Rank(i, P)] = bits[i]
  <2> TAKE i \in P
  <2>1. (CHOOSE j \in P : Rank(j, P) = Rank(i, P)) = i
    BY <1>3
  <2> QED BY <1>3, <2>1
<1>5. v \in Seq(Bits)
  <2>1. ASSUME NEW k \in 1..n
        PROVE  bits[CHOOSE i \in P : Rank(i, P) = k] \in Bits
    <3>1. (CHOOSE i \in P : Rank(i, P) = k) \in P
      BY <1>3
    <3>2. \A i \in DOMAIN bits : bits[i] \in Bits
      BY LenProperties
    <3> QED BY <1>1, <3>1, <3>2
  <2>2. v \in [1..n -> Bits]
    BY <2>1
  <2> HIDE DEF v
  <2> QED BY <1>3, <2>2, SeqDef
<1> HIDE DEF v
<1> QED BY <1>2, <1>4, <1>5 DEF P

(* Bits have the same value on a mask they go up to just when they agree   *)
(* on its places.                                                          *)
LEMMA ValuesAgree ==
  ASSUME NEW b \in Seq(Bits), NEW c \in Seq(Bits), NEW mask \in Seq(BOOLEAN),
         \A i \in DOMAIN mask : mask[i] => i \in DOMAIN b /\ i \in DOMAIN c
  PROVE  MaskedValue(b, mask) = MaskedValue(c, mask)
           <=> \A i \in DOMAIN mask : mask[i] => b[i] = c[i]
<1> DEFINE P == Places(b, mask)
<1>1. P = {i \in DOMAIN mask : mask[i]} /\ Places(c, mask) = P
  BY DEF Places
<1>2. P \in SUBSET Nat /\ IsFiniteSet(P)
  BY PlacesAre
<1>3. ASSUME MaskedValue(b, mask) = MaskedValue(c, mask), NEW i \in DOMAIN mask, mask[i]
      PROVE  b[i] = c[i]
  <2>1. i \in P
    BY <1>1, <1>3
  <2> HIDE DEF P
  <2>2. MaskedValue(b, mask)[Rank(i, P)] = b[i]
    BY <2>1, ValueIs DEF P
  <2>3. MaskedValue(c, mask)[Rank(i, P)] = c[i]
    <3>1. \A j \in Places(c, mask) : MaskedValue(c, mask)[Rank(j, Places(c, mask))] = c[j]
      BY ValueIs
    <3>2. Places(c, mask) = P
      BY <1>1
    <3> QED BY <2>1, <3>1, <3>2
  <2> QED BY <1>3, <2>2, <2>3
<1>4. ASSUME \A i \in DOMAIN mask : mask[i] => b[i] = c[i]
      PROVE  MaskedValue(b, mask) = MaskedValue(c, mask)
  <2> DEFINE n == Cardinality(P)
  <2>1. \A k \in 1..n : \E i \in P : Rank(i, P) = k
    <3> HIDE DEF P
    <3> QED BY <1>2, RankIs
  <2>2. /\ MaskedValue(b, mask) = [k \in 1..n |-> b[CHOOSE i \in P : Rank(i, P) = k]]
        /\ MaskedValue(c, mask) = [k \in 1..n |-> c[CHOOSE i \in P : Rank(i, P) = k]]
    BY <1>1 DEF MaskedValue
  <2> HIDE DEF P, n
  <2>3. ASSUME NEW k \in 1..n
        PROVE  b[CHOOSE i \in P : Rank(i, P) = k] = c[CHOOSE i \in P : Rank(i, P) = k]
    <3>1. (CHOOSE i \in P : Rank(i, P) = k) \in P
      BY <2>1
    <3> QED BY <1>1, <1>4, <3>1
  <2> QED BY <2>2, <2>3
<1> QED BY <1>3, <1>4

-----------------------------------------------------------------------------
(* The tree.  A node is above a name that goes through it, when its        *)
(* instructions have gone to the nodes below it.                           *)
Names == Seq(Seq(Bits))

Above(p, name) ==
  /\ p.specs = {} /\ Len(p.name) < Len(name)
  /\ \A i \in 1..Len(p.name) : p.name[i] = name[i]

NodesTyped ==
  \A n \in nodes :
    /\ n \in [name : Names, specs : SUBSET Specs, mask : Seq(BOOLEAN), global : Seq(BOOLEAN)]
    /\ \E s \in Specs : Len(n.mask) = Len(iset[s])
    /\ \A s \in n.specs : FixedIn(s, n.mask)

NamesUnique == \A n, m \in nodes : n.name = m.name => n = m

AllThere == \A s \in Specs : \E n \in nodes : s \in n.specs

PathsThere ==
  \A n \in nodes : \A k \in 0..Len(n.name) - 1 :
    \E p \in nodes : Len(p.name) = k /\ Above(p, n.name)

ValuesTheirs ==
  \A n, p \in nodes : Above(p, n.name) =>
    \A s \in n.specs : ValueOf(s, p) = n.name[Len(p.name) + 1] /\ FixedIn(s, p.mask)

GlobalTested ==
  \A n \in nodes : \A i \in DOMAIN n.global : n.global[i] =>
    \E p \in nodes : (p = n \/ Above(p, n.name)) /\ i \in DOMAIN p.mask /\ p.mask[i]

RootThere == \E r \in nodes : r.name = <<>> /\ (r.specs = {} \/ Several(r))

TreeInv ==
  /\ iset \in Sets
  /\ NodesTyped /\ NamesUnique /\ AllThere /\ PathsThere /\ ValuesTheirs
  /\ GlobalTested /\ RootThere

LEMMA AppendIs ==
  ASSUME NEW name \in Names, NEW v \in Seq(Bits)
  PROVE  /\ Append(name, v) \in Names
         /\ Len(name) \in Nat /\ Len(Append(name, v)) = Len(name) + 1
         /\ \A i \in 1..Len(name) : Append(name, v)[i] = name[i]
         /\ Append(name, v)[Len(name) + 1] = v
BY AppendProperties, LenProperties DEF Names

LEMMA AppendUnique ==
  ASSUME NEW name \in Names, NEW v \in Seq(Bits), NEW other \in Names, NEW w \in Seq(Bits),
         Append(name, v) = Append(other, w)
  PROVE  name = other /\ v = w
BY AppendInjective DEF Names

(* Nothing is below a node that holds instructions. *)
LEMMA NothingBelow ==
  ASSUME TreeInv, NEW n \in nodes, NEW m \in nodes, m.specs # {},
         Len(m.name) < Len(n.name), \A i \in 1..Len(m.name) : m.name[i] = n.name[i]
  PROVE  FALSE
<1>1. n.name \in Names /\ m.name \in Names
  BY DEF TreeInv, NodesTyped
<1>2. Len(m.name) \in 0..Len(n.name) - 1
  BY <1>1, LenProperties DEF Names
<1>3. PICK p \in nodes : Len(p.name) = Len(m.name) /\ Above(p, n.name)
  BY <1>2 DEF TreeInv, PathsThere
<1>4. \A i \in 1..Len(m.name) : p.name[i] = m.name[i]
  BY <1>3 DEF Above
<1>5. p.name \in Names
  BY DEF TreeInv, NodesTyped
<1>6. p.name = m.name
  BY <1>1, <1>3, <1>4, <1>5, SeqEqual DEF Names
<1> QED BY <1>3, <1>6 DEF TreeInv, NamesUnique, Above

LEMMA CardinalityOfNone ==
  ASSUME NEW n, n.specs = {} PROVE ~Several(n)
BY FS_EmptySet DEF Several

(* The values of instructions, and of the mask of a node. *)
LEMMA ValueTyped ==
  ASSUME TreeInv, NEW n \in nodes, NEW s \in Specs
  PROVE  ValueOf(s, n) \in Seq(Bits)
<1>1. n.mask \in Seq(BOOLEAN) /\ iset[s] \in Seq(Bits)
  BY SetIs DEF TreeInv, NodesTyped
<1> QED BY <1>1, ValueIs DEF ValueOf

(* A son takes the instructions of one value. *)
Son(n, s) ==
  Tree(Append(n.name, ValueOf(s, n)), {r \in n.specs : ValueOf(r, n) = ValueOf(s, n)}, n.global)

Emptied(n) == [n EXCEPT !.specs = {}]

LEMMA SonsAre ==
  \A n : SonsOf(n) = {Son(n, s) : s \in n.specs}
BY DEF SonsOf, Son

LEMMA SonIs ==
  ASSUME TreeInv, NEW n \in nodes, NEW s \in n.specs
  PROVE  LET x == Son(n, s)
             common == SpecListMask(x.specs)
         IN /\ x = [name |-> Append(n.name, ValueOf(s, n)), specs |-> x.specs,
                    mask |-> Unmask(common, n.global), global |-> common]
            /\ x.specs = {r \in n.specs : ValueOf(r, n) = ValueOf(s, n)}
            /\ s \in x.specs /\ x.specs \in SUBSET Specs
            /\ x \in [name : Names, specs : SUBSET Specs, mask : Seq(BOOLEAN),
                      global : Seq(BOOLEAN)]
            /\ \E r \in Specs : Len(x.mask) = Len(iset[r])
            /\ \A r \in x.specs : FixedIn(r, x.mask)
<1> DEFINE x == Son(n, s)
           specs == {r \in n.specs : ValueOf(r, n) = ValueOf(s, n)}
           common == SpecListMask(specs)
           name == Append(n.name, ValueOf(s, n))
           mask == Unmask(common, n.global)
<1>1. x = [name |-> name, specs |-> specs, mask |-> mask, global |-> common]
  BY DEF Son, Tree
<1>2. specs \in SUBSET Specs /\ s \in specs /\ s \in Specs /\ iset \in Sets
  BY DEF TreeInv, NodesTyped
<1>3. name \in Names
  <2>1. n.name \in Names
    BY DEF TreeInv, NodesTyped
  <2> QED BY <1>2, <2>1, ValueTyped, AppendIs
<1> HIDE DEF x, specs, name
<1>4. /\ common \in Seq(BOOLEAN)
      /\ \E r \in Specs : Len(common) = Len(iset[r])
      /\ \A r \in specs : FixedIn(r, common)
  BY <1>2, MaskIs
<1>5. /\ mask = [i \in DOMAIN common |-> common[i] /\ ~(i \in DOMAIN n.global /\ n.global[i])]
  BY DEF Unmask
<1> HIDE DEF common
<1>6. mask \in Seq(BOOLEAN) /\ Len(mask) = Len(common) /\ DOMAIN mask = DOMAIN common
  <2>1. DOMAIN common = 1..Len(common) /\ Len(common) \in Nat
    BY <1>4, LenProperties
  <2>2. mask \in [1..Len(common) -> BOOLEAN]
    <3>1. \A i \in 1..Len(common) : (common[i] /\ ~(i \in DOMAIN n.global /\ n.global[i])) \in BOOLEAN
      OBVIOUS
    <3> HIDE DEF mask
    <3> QED BY <1>5, <2>1, <3>1
  <2> HIDE DEF mask
  <2> QED BY <2>1, <2>2, SeqDef, LenProperties
<1>7. \A r \in specs : FixedIn(r, mask)
  <2> HIDE DEF mask
  <2> QED BY <1>4, <1>5, <1>6 DEF FixedIn
<1> HIDE DEF mask
<1>8. x.specs = specs /\ x.mask = mask
  BY <1>1
<1>9. /\ x = [name |-> name, specs |-> x.specs, mask |-> mask, global |-> common]
      /\ x \in [name : Names, specs : SUBSET Specs, mask : Seq(BOOLEAN), global : Seq(BOOLEAN)]
  BY <1>1, <1>2, <1>3, <1>4, <1>6
<1>10. \E r \in Specs : Len(x.mask) = Len(iset[r])
  BY <1>4, <1>6, <1>8
<1> QED BY <1>2, <1>7, <1>8, <1>9, <1>10 DEF x, specs, common, name, mask

-----------------------------------------------------------------------------
(* MakeTree: where the nodes it leaves come from. *)
Origin(x, n) ==
  \/ ~Several(n) /\ x = n
  \/ Several(n) /\ x = Emptied(n)
  \/ Several(n) /\ \E s \in n.specs : x = Son(n, s)

Grown ==
  \A x : x \in nodes' <=> \E n \in nodes : Origin(x, n)

LEMMA MakeTreeGrows ==
  ASSUME nodes' = UNION {IF Several(n) THEN {[n EXCEPT !.specs = {}]} \cup SonsOf(n)
                         ELSE {n} : n \in nodes}
  PROVE  Grown
<1> DEFINE From(n) == IF Several(n) THEN {[n EXCEPT !.specs = {}]} \cup SonsOf(n) ELSE {n}
<1>1. \A n, x : x \in From(n) <=> Origin(x, n)
  BY SonsAre DEF Origin, Emptied
<1>2. nodes' = UNION {From(n) : n \in nodes}
  OBVIOUS
<1> HIDE DEF From
<1>3. \A x : x \in nodes' <=> \E n \in nodes : x \in From(n)
  BY <1>2
<1> QED BY <1>1, <1>3 DEF Grown

LEMMA EmptiedIs ==
  ASSUME TreeInv, NEW n \in nodes
  PROVE  /\ Emptied(n).name = n.name /\ Emptied(n).specs = {}
         /\ Emptied(n).mask = n.mask /\ Emptied(n).global = n.global
         /\ Emptied(n) \in [name : Names, specs : SUBSET Specs, mask : Seq(BOOLEAN),
                            global : Seq(BOOLEAN)]
BY DEF TreeInv, NodesTyped, Emptied

(* A node is there, emptied perhaps, or it is a new son of one that is. *)
LEMMA OriginIs ==
  ASSUME TreeInv, NEW n \in nodes, NEW x, Origin(x, n)
  PROVE  \/ /\ x.name = n.name /\ x.mask = n.mask /\ x.global = n.global
            /\ x.specs = IF Several(n) THEN {} ELSE n.specs
            /\ x = IF Several(n) THEN Emptied(n) ELSE n
         \/ /\ Several(n) /\ \E s \in n.specs : x = Son(n, s)
            /\ n.specs # {} /\ x.specs # {}
            /\ x.specs \subseteq n.specs
            /\ \E v \in Seq(Bits) : /\ x.name = Append(n.name, v)
                                    /\ \A r \in x.specs : ValueOf(r, n) = v
<1>1. CASE ~Several(n) /\ x = n
  BY <1>1
<1>2. CASE Several(n) /\ x = Emptied(n)
  BY <1>2, EmptiedIs
<1>3. ASSUME Several(n), NEW s \in n.specs, x = Son(n, s)
      PROVE  /\ Several(n) /\ \E r \in n.specs : x = Son(n, r)
             /\ n.specs # {} /\ x.specs # {}
             /\ x.specs \subseteq n.specs
             /\ \E v \in Seq(Bits) : /\ x.name = Append(n.name, v)
                                     /\ \A r \in x.specs : ValueOf(r, n) = v
  <2>1. /\ x.name = Append(n.name, ValueOf(s, n)) /\ s \in x.specs
        /\ x.specs = {r \in n.specs : ValueOf(r, n) = ValueOf(s, n)}
    <3>1. x = [name |-> Append(n.name, ValueOf(s, n)), specs |-> x.specs,
               mask |-> x.mask, global |-> x.global]
      BY <1>3, SonIs
    <3> QED BY <1>3, <3>1, SonIs
  <2>2. ValueOf(s, n) \in Seq(Bits)
    BY ValueTyped DEF TreeInv, NodesTyped
  <2> QED BY <1>3, <2>1, <2>2
<1> QED BY <1>1, <1>2, <1>3 DEF Origin

LEMMA GrownUnique ==
  ASSUME TreeInv, Grown PROVE NamesUnique'
<1> SUFFICES ASSUME NEW x \in nodes', NEW y \in nodes', x.name = y.name PROVE x = y
  BY DEF NamesUnique
<1>1. PICK n \in nodes : Origin(x, n)
  BY DEF Grown
<1>2. PICK m \in nodes : Origin(y, m)
  BY DEF Grown
<1>3. n.name \in Names /\ m.name \in Names
  BY DEF TreeInv, NodesTyped
<1>4. ASSUME NEW a \in nodes, NEW b \in nodes, NEW v \in Seq(Bits),
             a.name = Append(b.name, v), b.specs # {}
      PROVE  FALSE
  <2>1. a.name \in Names /\ b.name \in Names
    BY DEF TreeInv, NodesTyped
  <2>2. Len(b.name) < Len(a.name) /\ \A i \in 1..Len(b.name) : b.name[i] = a.name[i]
    BY <1>4, <2>1, AppendIs
  <2> QED BY <1>4, <2>2, NothingBelow
<1>5. CASE x.name = n.name /\ y.name = m.name
  <2>1. n = m
    BY <1>5 DEF TreeInv, NamesUnique
  <2>2. ASSUME NEW z \in nodes', Origin(z, n), z.name = n.name
        PROVE  z = IF Several(n) THEN Emptied(n) ELSE n
    <3>1. ASSUME NEW v \in Seq(Bits), z.name = Append(n.name, v)
          PROVE  FALSE
      BY <1>3, <2>2, <3>1, AppendIs
    <3> QED BY <2>2, <3>1, OriginIs
  <2> QED BY <1>1, <1>2, <1>5, <2>1, <2>2
<1>6. CASE x.name # n.name /\ y.name # m.name
  <2>1. PICK s \in n.specs : x = Son(n, s)
    BY <1>1, <1>6, OriginIs
  <2>2. PICK r \in m.specs : y = Son(m, r)
    BY <1>2, <1>6, OriginIs
  <2>3. x.name = Append(n.name, ValueOf(s, n))
    <3>1. x = [name |-> Append(n.name, ValueOf(s, n)), specs |-> x.specs,
               mask |-> x.mask, global |-> x.global]
      BY <2>1, SonIs
    <3> QED BY <3>1
  <2>4. y.name = Append(m.name, ValueOf(r, m))
    <3>1. y = [name |-> Append(m.name, ValueOf(r, m)), specs |-> y.specs,
               mask |-> y.mask, global |-> y.global]
      BY <2>2, SonIs
    <3> QED BY <3>1
  <2>5. ValueOf(s, n) \in Seq(Bits) /\ ValueOf(r, m) \in Seq(Bits)
    <3>1. s \in Specs
      BY DEF TreeInv, NodesTyped
    <3>2. r \in Specs
      BY DEF TreeInv, NodesTyped
    <3> QED BY <3>1, <3>2, ValueTyped
  <2>6. n.name = m.name /\ ValueOf(s, n) = ValueOf(r, m)
    <3> DEFINE v == ValueOf(s, n)
               w == ValueOf(r, m)
    <3>1. Append(n.name, v) = Append(m.name, w) /\ v \in Seq(Bits) /\ w \in Seq(Bits)
      BY <2>3, <2>4, <2>5
    <3> HIDE DEF v, w
    <3>2. n.name = m.name /\ v = w
      BY <1>3, <3>1, AppendUnique
    <3> QED BY <3>2 DEF v, w
  <2>7. n = m
    BY <2>6 DEF TreeInv, NamesUnique
  <2> QED BY <2>1, <2>2, <2>6, <2>7 DEF Son
<1>7. CASE x.name = n.name /\ y.name # m.name
  BY <1>1, <1>2, <1>4, <1>7, OriginIs
<1>8. CASE x.name # n.name /\ y.name = m.name
  BY <1>1, <1>2, <1>4, <1>8, OriginIs
<1> QED BY <1>5, <1>6, <1>7, <1>8

LEMMA GrownTyped ==
  ASSUME TreeInv, Grown, UNCHANGED iset PROVE NodesTyped'
<1> SUFFICES ASSUME NEW x \in nodes'
             PROVE  /\ x \in [name : Names, specs : SUBSET Specs, mask : Seq(BOOLEAN),
                              global : Seq(BOOLEAN)]
                    /\ \E s \in Specs : Len(x.mask) = Len(iset[s])
                    /\ \A s \in x.specs : FixedIn(s, x.mask)
  BY DEF NodesTyped, Specs, FixedIn, Names
<1>1. PICK n \in nodes : Origin(x, n)
  BY DEF Grown
<1>2. CASE ~Several(n) /\ x = n
  BY <1>2 DEF TreeInv, NodesTyped
<1>3. CASE Several(n) /\ x = Emptied(n)
  BY <1>3, EmptiedIs DEF TreeInv, NodesTyped
<1>4. CASE \E s \in n.specs : x = Son(n, s)
  BY <1>4, SonIs
<1> QED BY <1>1, <1>2, <1>3, <1>4 DEF Origin

LEMMA GrownAll ==
  ASSUME TreeInv, Grown, UNCHANGED iset PROVE AllThere'
<1> SUFFICES ASSUME NEW s \in Specs PROVE \E x \in nodes' : s \in x.specs
  BY DEF AllThere, Specs
<1>1. PICK n \in nodes : s \in n.specs
  BY DEF TreeInv, AllThere
<1>2. CASE Several(n)
  <2>1. Son(n, s) \in nodes'
    BY <1>1, <1>2 DEF Grown, Origin
  <2>2. s \in Son(n, s).specs
    BY <1>1, SonIs
  <2> QED BY <2>1, <2>2
<1>3. CASE ~Several(n)
  BY <1>1, <1>3 DEF Grown, Origin
<1> QED BY <1>2, <1>3

(* A node that was above others still is. *)
LEMMA StillAbove ==
  ASSUME Grown, NEW p \in nodes, p.specs = {}
  PROVE  p \in nodes'
BY CardinalityOfNone DEF Grown, Origin

LEMMA AboveSon ==
  ASSUME TreeInv, NEW n \in nodes, NEW v \in Seq(Bits), NEW p, p.name \in Names
  PROVE  Above(p, Append(n.name, v))
           <=> \/ Above(p, n.name)
               \/ p.specs = {} /\ p.name = n.name
<1>1. n.name \in Names
  BY DEF TreeInv, NodesTyped
<1>2. /\ Append(n.name, v) \in Names
      /\ Len(n.name) \in Nat /\ Len(Append(n.name, v)) = Len(n.name) + 1
      /\ \A i \in 1..Len(n.name) : Append(n.name, v)[i] = n.name[i]
      /\ Append(n.name, v)[Len(n.name) + 1] = v
  BY <1>1, AppendIs
<1>3. Len(p.name) \in Nat
  BY LenProperties DEF Names
<1>4. CASE Len(p.name) < Len(n.name)
  <2>1. \A i \in 1..Len(p.name) : Append(n.name, v)[i] = n.name[i]
    BY <1>2, <1>3, <1>4
  <2> QED BY <1>2, <1>3, <1>4, <2>1 DEF Above
<1>5. CASE Len(p.name) = Len(n.name)
  <2>1. (\A i \in 1..Len(p.name) : p.name[i] = Append(n.name, v)[i]) <=> p.name = n.name
    <3>1. (\A i \in 1..Len(p.name) : p.name[i] = n.name[i]) => p.name = n.name
      BY <1>1, <1>5, SeqEqual DEF Names
    <3> QED BY <1>2, <1>5, <3>1
  <2> QED BY <1>2, <1>3, <1>5, <2>1 DEF Above
<1>6. CASE Len(p.name) > Len(n.name)
  BY <1>2, <1>3, <1>6 DEF Above
<1> QED BY <1>2, <1>3, <1>4, <1>5, <1>6

(* Where a node that is above others comes from. *)
LEMMA AboveOrigin ==
  ASSUME TreeInv, Grown, NEW p \in nodes', p.specs = {}
  PROVE  \E q \in nodes : /\ p.name = q.name /\ p.mask = q.mask
                          /\ q.specs = {} \/ Several(q)
                          /\ q.specs = {} => p = q
<1>1. PICK q \in nodes : Origin(p, q)
  BY DEF Grown
<1>2. /\ p.name = q.name /\ p.mask = q.mask
      /\ p.specs = IF Several(q) THEN {} ELSE q.specs
      /\ p = IF Several(q) THEN Emptied(q) ELSE q
  BY <1>1, OriginIs
<1>3. q.specs = {} => ~Several(q)
  BY CardinalityOfNone
<1> QED BY <1>2, <1>3

LEMMA GrownPaths ==
  ASSUME TreeInv, Grown PROVE PathsThere'
<1> SUFFICES ASSUME NEW x \in nodes', NEW k \in 0..Len(x.name) - 1
             PROVE  \E p \in nodes' : Len(p.name) = k /\ Above(p, x.name)
  BY DEF PathsThere, Above
<1>1. PICK n \in nodes : Origin(x, n)
  BY DEF Grown
<1>2. n.name \in Names /\ \A p \in nodes : p.name \in Names
  BY DEF TreeInv, NodesTyped
<1>3. ASSUME k \in 0..Len(n.name) - 1
      PROVE  \E p \in nodes : /\ p \in nodes' /\ Len(p.name) = k
                              /\ Above(p, n.name) /\ p.name \in Names
  <2>1. PICK p \in nodes : Len(p.name) = k /\ Above(p, n.name)
    BY <1>3 DEF TreeInv, PathsThere
  <2>2. p \in nodes'
    BY <2>1, StillAbove DEF Above
  <2> QED BY <1>2, <2>1, <2>2
<1>4. CASE x.name = n.name
  BY <1>3, <1>4
<1>5. ASSUME Several(n), NEW v \in Seq(Bits), x.name = Append(n.name, v)
      PROVE  \E p \in nodes' : Len(p.name) = k /\ Above(p, x.name)
  <2>1. Len(n.name) \in Nat /\ Len(x.name) = Len(n.name) + 1
    BY <1>2, <1>5, AppendIs
  <2>2. CASE k = Len(n.name)
    <3>1. Emptied(n) \in nodes'
      BY <1>5 DEF Grown, Origin
    <3>2. Emptied(n).name = n.name /\ Emptied(n).specs = {}
      BY EmptiedIs
    <3>3. Above(Emptied(n), x.name)
      BY <1>2, <1>5, <3>2, AboveSon
    <3> QED BY <2>2, <3>1, <3>2, <3>3
  <2>3. CASE k # Len(n.name)
    <3>1. k \in 0..Len(n.name) - 1
      BY <2>1, <2>3
    <3>2. PICK p \in nodes : /\ p \in nodes' /\ Len(p.name) = k
                             /\ Above(p, n.name) /\ p.name \in Names
      BY <1>3, <3>1
    <3>3. Above(p, x.name)
      BY <1>5, <3>2, AboveSon
    <3> QED BY <3>2, <3>3
  <2> QED BY <2>2, <2>3
<1> QED BY <1>1, <1>4, <1>5, OriginIs

LEMMA GrownValues ==
  ASSUME TreeInv, Grown, UNCHANGED iset PROVE ValuesTheirs'
<1> SUFFICES ASSUME NEW x \in nodes', NEW p \in nodes', Above(p, x.name), NEW s \in x.specs
             PROVE  ValueOf(s, p) = x.name[Len(p.name) + 1] /\ FixedIn(s, p.mask)
  BY DEF ValuesTheirs, Above, ValueOf, FixedIn
<1>1. PICK n \in nodes : Origin(x, n)
  BY DEF Grown
<1>2. p.specs = {}
  BY DEF Above
<1>3. PICK q \in nodes : /\ p.name = q.name /\ p.mask = q.mask
                         /\ q.specs = {} \/ Several(q)
                         /\ q.specs = {} => p = q
  BY <1>2, AboveOrigin
<1>4. n.name \in Names /\ q.name \in Names /\ Len(n.name) \in Nat /\ Len(q.name) \in Nat
  BY LenProperties DEF TreeInv, NodesTyped, Names
<1>5. ASSUME Above(p, n.name)
      PROVE  q.specs = {} /\ p = q /\ Above(q, n.name)
  <2>1. CASE q.specs = {}
    BY <1>3, <1>5, <2>1
  <2>2. CASE q.specs # {}
    <3>1. Len(q.name) < Len(n.name) /\ \A i \in 1..Len(q.name) : q.name[i] = n.name[i]
      BY <1>3, <1>5 DEF Above
    <3> QED BY <2>2, <3>1, NothingBelow
  <2> QED BY <2>1, <2>2
<1>6. CASE x.name = n.name /\ x.specs = IF Several(n) THEN {} ELSE n.specs
  <2>1. s \in n.specs
    BY <1>6
  <2>2. p = q /\ Above(q, n.name)
    BY <1>5, <1>6
  <2> QED BY <1>6, <2>1, <2>2 DEF TreeInv, ValuesTheirs
<1>7. ASSUME NEW v \in Seq(Bits), x.name = Append(n.name, v), x.specs \subseteq n.specs,
             n.specs # {}, \A r \in x.specs : ValueOf(r, n) = v
      PROVE  ValueOf(s, p) = x.name[Len(p.name) + 1] /\ FixedIn(s, p.mask)
  <2>1. Above(p, n.name) \/ p.name = n.name
    <3>1. p.name \in Names
      BY <1>3, <1>4
    <3> QED BY <1>7, <3>1, AboveSon
  <2>2. CASE Above(p, n.name)
    <3>1. p = q /\ Above(q, n.name)
      BY <1>5, <2>2
    <3>2. s \in n.specs
      BY <1>7
    <3>3. ValueOf(s, q) = n.name[Len(q.name) + 1] /\ FixedIn(s, q.mask)
      BY <3>1, <3>2 DEF TreeInv, ValuesTheirs
    <3>4. Len(q.name) + 1 \in 1..Len(n.name)
      BY <1>4, <3>1 DEF Above
    <3>5. x.name[Len(q.name) + 1] = n.name[Len(q.name) + 1]
      BY <1>4, <1>7, <3>4, AppendIs
    <3> QED BY <3>1, <3>3, <3>5
  <2>3. CASE p.name = n.name
    <3>1. q = n
      BY <1>3, <2>3 DEF TreeInv, NamesUnique
    <3>2. ValueOf(s, p) = v
      BY <1>3, <1>7, <3>1 DEF ValueOf
    <3>3. x.name[Len(p.name) + 1] = v
      BY <1>4, <1>7, <2>3, AppendIs
    <3>4. FixedIn(s, n.mask)
      BY <1>7 DEF TreeInv, NodesTyped
    <3> QED BY <1>3, <3>1, <3>2, <3>3, <3>4
  <2> QED BY <2>1, <2>2, <2>3
<1> QED BY <1>1, <1>6, <1>7, OriginIs

LEMMA GrownGlobal ==
  ASSUME TreeInv, Grown PROVE GlobalTested'
<1> SUFFICES ASSUME NEW x \in nodes', NEW i \in DOMAIN x.global, x.global[i]
             PROVE  \E p \in nodes' : /\ p = x \/ Above(p, x.name)
                                      /\ i \in DOMAIN p.mask /\ p.mask[i]
  BY DEF GlobalTested, Above
<1>1. PICK n \in nodes : Origin(x, n)
  BY DEF Grown
<1>2. ASSUME i \in DOMAIN n.global, n.global[i]
      PROVE  \E p \in nodes : /\ p = n \/ (p \in nodes' /\ Above(p, n.name) /\ p.name \in Names)
                              /\ i \in DOMAIN p.mask /\ p.mask[i]
  <2>1. PICK p \in nodes : (p = n \/ Above(p, n.name)) /\ i \in DOMAIN p.mask /\ p.mask[i]
    BY <1>2 DEF TreeInv, GlobalTested
  <2>2. Above(p, n.name) => p \in nodes'
    BY StillAbove DEF Above
  <2>3. p.name \in Names
    BY DEF TreeInv, NodesTyped
  <2> QED BY <2>1, <2>2, <2>3
<1>3. CASE x.name = n.name /\ x.mask = n.mask /\ x.global = n.global
  BY <1>2, <1>3
<1>4. ASSUME Several(n), NEW s \in n.specs, x = Son(n, s)
      PROVE  \E p \in nodes' : /\ p = x \/ Above(p, x.name)
                               /\ i \in DOMAIN p.mask /\ p.mask[i]
  <2> DEFINE common == SpecListMask(x.specs)
             v == ValueOf(s, n)
  <2>1. /\ x.name = Append(n.name, v) /\ x.global = common
        /\ x.mask = [j \in DOMAIN common |->
                       common[j] /\ ~(j \in DOMAIN n.global /\ n.global[j])]
        /\ v \in Seq(Bits)
    <3>1. x = [name |-> Append(n.name, v), specs |-> x.specs,
               mask |-> Unmask(common, n.global), global |-> common]
      BY <1>4, SonIs
    <3>2. v \in Seq(Bits)
      BY ValueTyped DEF TreeInv, NodesTyped
    <3> HIDE DEF common, v
    <3>3. Unmask(common, n.global) = [j \in DOMAIN common |->
                       common[j] /\ ~(j \in DOMAIN n.global /\ n.global[j])]
      BY DEF Unmask
    <3> QED BY <3>1, <3>2, <3>3
  <2> HIDE DEF common, v
  <2>2. CASE ~(i \in DOMAIN n.global /\ n.global[i])
    <3>1. i \in DOMAIN x.mask /\ x.mask[i]
      BY <2>1, <2>2
    <3> QED BY <3>1
  <2>3. CASE i \in DOMAIN n.global /\ n.global[i]
    <3>1. PICK p \in nodes : /\ p = n \/ (p \in nodes' /\ Above(p, n.name) /\ p.name \in Names)
                             /\ i \in DOMAIN p.mask /\ p.mask[i]
      BY <1>2, <2>3
    <3>2. CASE p = n
      <4>1. Emptied(n) \in nodes'
        BY <1>4 DEF Grown, Origin
      <4>2. Emptied(n).name = n.name /\ Emptied(n).specs = {} /\ Emptied(n).mask = n.mask
            /\ n.name \in Names
        BY EmptiedIs DEF TreeInv, NodesTyped
      <4>3. Above(Emptied(n), x.name)
        BY <2>1, <4>2, AboveSon
      <4> QED BY <3>1, <3>2, <4>1, <4>2, <4>3
    <3>3. CASE p # n
      <4>1. Above(p, x.name)
        BY <2>1, <3>1, <3>3, AboveSon
      <4> QED BY <3>1, <3>3, <4>1
    <3> QED BY <3>2, <3>3
  <2> QED BY <2>2, <2>3
<1> QED BY <1>1, <1>3, <1>4, OriginIs

LEMMA GrownRoot ==
  ASSUME TreeInv, Grown PROVE RootThere'
<1>1. PICK r \in nodes : r.name = <<>> /\ (r.specs = {} \/ Several(r))
  BY DEF TreeInv, RootThere
<1>2. CASE r.specs = {}
  BY <1>1, <1>2, StillAbove DEF RootThere
<1>3. CASE Several(r)
  <2>1. Emptied(r) \in nodes' /\ Emptied(r).name = r.name /\ Emptied(r).specs = {}
    BY <1>3, EmptiedIs DEF Grown, Origin
  <2> QED BY <1>1, <2>1 DEF RootThere
<1> QED BY <1>1, <1>2, <1>3

LEMMA IsASeqOne ==
  ASSUME NEW S, NEW v \in S
  PROVE  <<v>> \in Seq(S) /\ Len(<<v>>) = 1 /\ <<v>>[1] = v
OBVIOUS

LEMMA TreeFramed ==
  ASSUME TreeInv, UNCHANGED <<iset, nodes>> PROVE TreeInv'
<1>1. NodesTyped' /\ NamesUnique' /\ AllThere'
  BY DEF TreeInv, NodesTyped, NamesUnique, AllThere, Names, Specs, FixedIn
<1>2. PathsThere'
  BY DEF TreeInv, PathsThere, Above
<1>3. GlobalTested'
  BY DEF TreeInv, GlobalTested, Above
<1>4. RootThere'
  BY DEF TreeInv, RootThere, Several
<1>5. ValuesTheirs'
  BY DEF TreeInv, ValuesTheirs, FixedIn, ValueOf, Above
<1>6. iset' \in Sets
  BY DEF TreeInv
<1> QED BY <1>1, <1>2, <1>3, <1>4, <1>5, <1>6 DEF TreeInv

LEMMA TreeGrows ==
  ASSUME TreeInv, MakeTree PROVE TreeInv'
<1>1. UNCHANGED iset
  BY DEF MakeTree
<1>2. CASE UNCHANGED nodes
  BY <1>1, <1>2, TreeFramed
<1>3. CASE ~UNCHANGED nodes
  <2>1. Grown
    BY <1>3, MakeTreeGrows DEF MakeTree
  <2> QED BY <1>1, <2>1, GrownUnique, GrownTyped, GrownAll, GrownPaths, GrownValues,
             GrownGlobal, GrownRoot DEF TreeInv
<1> QED BY <1>2, <1>3

(* The tree starts as its root, with a son if there is one instruction. *)
LEMMA TreeStarts ==
  ASSUME Init PROVE TreeInv
<1>1. iset \in Sets /\ nodes = FirstNodes /\ Specs # {} /\ IsFiniteSet(Specs)
      /\ Cardinality(Specs) \in Nat /\ Cardinality(Specs) # 0
  BY SetIs, FS_CardinalityType, FS_EmptySet DEF Init
<1> DEFINE mask == SpecListMask(Specs)
           root == Root(Specs)
<1>2. /\ mask \in Seq(BOOLEAN)
      /\ \E s \in Specs : Len(mask) = Len(iset[s])
      /\ \A s \in Specs : FixedIn(s, mask)
  BY <1>1, MaskIs
<1>3. /\ root = [name |-> <<>>, specs |-> root.specs, mask |-> mask, global |-> mask]
      /\ root.specs = IF Cardinality(Specs) > 1 THEN Specs ELSE {}
  BY DEF Root
<1> HIDE DEF mask, root
<1>4. <<>> \in Names /\ Len(<<>>) = 0
  BY EmptySeq DEF Names
<1>5. root \in [name : Names, specs : SUBSET Specs, mask : Seq(BOOLEAN), global : Seq(BOOLEAN)]
  BY <1>2, <1>3, <1>4
<1>6. CASE Cardinality(Specs) > 1
  <2>1. nodes = {root} /\ root.specs = Specs /\ Several(root)
    BY <1>1, <1>3, <1>6 DEF FirstNodes, Several, root
  <2>2. NodesTyped
    BY <1>2, <1>3, <1>5, <2>1 DEF NodesTyped
  <2>3. NamesUnique /\ AllThere /\ RootThere
    BY <1>1, <1>3, <2>1 DEF NamesUnique, AllThere, RootThere
  <2>4. \A n, p \in nodes : ~Above(p, n.name)
    BY <1>1, <2>1 DEF Above
  <2>5. PathsThere
    BY <1>3, <1>4, <2>1 DEF PathsThere
  <2>6. GlobalTested
    BY <1>3, <2>1 DEF GlobalTested
  <2> QED BY <1>1, <2>2, <2>3, <2>4, <2>5, <2>6 DEF TreeInv, ValuesTheirs
<1>7. CASE ~(Cardinality(Specs) > 1)
  <2>1. PICK s : Specs = {s}
    BY <1>1, <1>7, FS_Singleton
  <2> DEFINE own == SpecListMask({s})
             v == ValueOf(s, root)
             son == [name |-> <<v>>, specs |-> {s}, mask |-> own, global |-> own]
  <2>2. nodes = {root} \cup {son}
    <3>1. nodes = {Root(Specs)} \cup
             {[name |-> <<ValueOf(r, Root(Specs))>>, specs |-> {r},
               mask |-> SpecListMask({r}), global |-> SpecListMask({r})] : r \in Specs}
      BY <1>1, <1>7 DEF FirstNodes
    <3> QED BY <2>1, <3>1 DEF root
  <2>3. /\ own \in Seq(BOOLEAN)
        /\ \E r \in Specs : Len(own) = Len(iset[r])
        /\ FixedIn(s, own)
    BY <1>1, <2>1, MaskIs
  <2>4. v \in Seq(Bits)
    <3>1. root.mask = mask /\ iset[s] \in Seq(Bits)
      BY <1>1, <1>3, <2>1, SetIs
    <3> QED BY <1>2, <3>1, ValueIs DEF ValueOf
  <2>5. v = ValueOf(s, root)
    OBVIOUS
  <2> HIDE DEF own, v
  <2>6. <<v>> \in Names /\ Len(<<v>>) = 1 /\ <<v>>[1] = v
    BY <2>4, IsASeqOne DEF Names
  <2>7. /\ son.name = <<v>> /\ son.specs = {s} /\ son.mask = own /\ son.global = own
        /\ son \in [name : Names, specs : SUBSET Specs, mask : Seq(BOOLEAN),
                    global : Seq(BOOLEAN)]
    BY <2>1, <2>3, <2>6
  <2> HIDE DEF son
  <2>8. root.specs = {} /\ root.name = <<>> /\ root.mask = mask /\ root.global = mask
    BY <1>3, <1>7
  <2>9. NodesTyped
    BY <1>2, <1>5, <2>2, <2>3, <2>7, <2>8 DEF NodesTyped
  <2>10. son.name # root.name
    BY <1>4, <2>6, <2>7, <2>8
  <2>11. NamesUnique /\ AllThere /\ RootThere
    BY <2>1, <2>2, <2>7, <2>8, <2>10 DEF NamesUnique, AllThere, RootThere
  <2>12. Above(root, son.name) /\ \A n, p \in nodes : Above(p, n.name) => n = son /\ p = root
    BY <1>4, <2>2, <2>6, <2>7, <2>8 DEF Above
  <2>13. PathsThere
    <3> SUFFICES ASSUME NEW n \in nodes, NEW k \in 0..Len(n.name) - 1
                 PROVE  \E p \in nodes : Len(p.name) = k /\ Above(p, n.name)
      BY DEF PathsThere
    <3>1. n = son
      <4>1. Len(root.name) = 0
        BY <1>4, <2>8
      <4>2. n = root => k \in 0..0 - 1
        BY <4>1
      <4> QED BY <2>2, <4>2
    <3>2. k = 0
      <4>1. Len(n.name) = 1
        BY <2>6, <2>7, <3>1
      <4> QED BY <4>1
    <3>3. root \in nodes /\ Len(root.name) = k /\ Above(root, n.name)
      BY <1>4, <2>2, <2>8, <2>12, <3>1, <3>2
    <3> QED BY <3>3
  <2>14. ValuesTheirs
    <3>1. FixedIn(s, mask)
      BY <1>2, <2>1
    <3>2. Len(root.name) + 1 = 1
      BY <1>4, <2>8
    <3> QED BY <2>5, <2>6, <2>7, <2>8, <2>12, <3>1, <3>2 DEF ValuesTheirs
  <2>15. GlobalTested
    BY <2>2, <2>7, <2>8 DEF GlobalTested
  <2> QED BY <1>1, <2>9, <2>11, <2>13, <2>14, <2>15 DEF TreeInv
<1> QED BY <1>6, <1>7

-----------------------------------------------------------------------------
(* The walk. *)
CodeInv ==
  /\ memory \in Memories
  /\ code \in Seq(Bits) /\ Len(code) <= Len(memory)
  /\ \A i \in 1..Len(code) : code[i] = memory[i]
  /\ IF IsRisc THEN Len(code) = WordSize ELSE Len(code) % Chunk = 0

TableInv ==
  /\ \E t \in nodes : t.name = table /\ t.specs = {}
  /\ \A p \in nodes : Above(p, table) => MaskedValue(memory, p.mask) = table[Len(p.name) + 1]

IsThere(s) == Matches(memory, iset[s])

(* What is in memory is still to be found below the table. *)
AheadInv ==
  \A n \in nodes : \A s \in n.specs : IsThere(s) =>
    \E t \in nodes : t.name = table /\ Above(t, n.name)

WalkInv ==
  /\ phase \in {"built", "walk", "found"} => \A n \in nodes : ~Several(n)
  /\ phase \in {"walk", "found"} => CodeInv /\ TableInv
  /\ phase = "walk" => AheadInv

LEMMA MemoryIs ==
  ASSUME iset \in Sets, NEW m \in Memories
  PROVE  /\ m \in Seq(Bits) /\ Len(m) \in Nat /\ DOMAIN m = 1..Len(m) /\ Len(m) % Chunk = 0
         /\ \A s \in Specs : Len(iset[s]) <= Len(m)
<1>1. m \in Seq({0, 1}) /\ Len(m) % Chunk = 0
      /\ \A k \in DOMAIN iset : Len(m) >= Len(iset[k])
  BY MemoriesAssumption
<1>2. m \in Seq(Bits)
  BY <1>1, SeqMonotonic DEF Bits
<1>3. Len(m) \in Nat /\ DOMAIN m = 1..Len(m)
  BY <1>2, LenProperties
<1>4. \A s \in Specs : Len(iset[s]) <= Len(m)
  BY <1>1, <1>3, SetIs DEF Specs
<1> QED BY <1>1, <1>2, <1>3, <1>4

(* What is read, at the first word or up to some length. *)
LEMMA ReadIs ==
  ASSUME NEW m \in Seq(Bits), NEW len \in Nat, len <= Len(m)
  PROVE  /\ SubSeq(m, 1, len) \in Seq(Bits) /\ Len(SubSeq(m, 1, len)) = len
         /\ \A i \in 1..len : SubSeq(m, 1, len)[i] = m[i]
<1>1. Len(m) \in Nat /\ \A i \in 1..len : m[i] \in Bits
  BY ElementOfSeq, LenProperties
<1>2. /\ SubSeq(m, 1, len) \in Seq(Bits)
      /\ Len(SubSeq(m, 1, len)) = IF 1 <= len THEN len - 1 + 1 ELSE 0
      /\ \A i \in 1..len - 1 + 1 : SubSeq(m, 1, len)[i] = m[1 + i - 1]
  BY <1>1, SubSeqProperties
<1> QED BY <1>2

LEMMA RiscLength ==
  ASSUME iset \in Sets, IsRisc
  PROVE  \A s \in Specs : Len(iset[s]) = WordSize
BY DEF IsRisc, Lengths

LEMMA TableNode ==
  ASSUME TreeInv, NEW t \in nodes, t.name = table
  PROVE  Node(table) = t
BY DEF TreeInv, NamesUnique, Node

(* Enough is read when a table is looked up: its opcode is that of memory. *)
LEMMA OpcodeIs ==
  ASSUME TreeInv, CodeInv, ~NeedsChunk, NEW t \in nodes, t.name = table
  PROVE  Opcode = MaskedValue(memory, t.mask)
<1>1. Node(table) = t
  BY TableNode
<1>2. t.mask \in Seq(BOOLEAN) /\ iset \in Sets
  BY DEF TreeInv, NodesTyped
<1>3. PICK s \in Specs : Len(t.mask) = Len(iset[s])
  BY DEF TreeInv, NodesTyped
<1>4. /\ memory \in Seq(Bits) /\ code \in Seq(Bits) /\ Len(memory) \in Nat /\ Len(code) \in Nat
      /\ DOMAIN memory = 1..Len(memory) /\ DOMAIN code = 1..Len(code)
      /\ DOMAIN t.mask = 1..Len(t.mask) /\ Len(t.mask) \in Nat
      /\ Len(iset[s]) <= Len(memory)
  BY <1>2, MemoryIs, LenProperties DEF CodeInv
<1>5. Len(t.mask) <= Len(code)
  <2>1. CASE IsRisc
    BY <1>2, <1>3, <1>4, <2>1, RiscLength DEF CodeInv
  <2>2. CASE ~IsRisc
    BY <1>1, <1>4, <2>2 DEF NeedsChunk
  <2> QED BY <2>1, <2>2
<1>6. \A i \in DOMAIN t.mask : i \in DOMAIN code /\ i \in DOMAIN memory
  BY <1>3, <1>4, <1>5
<1>7. \A i \in DOMAIN t.mask : code[i] = memory[i]
  BY <1>4, <1>6 DEF CodeInv
<1>8. MaskedValue(code, t.mask) = MaskedValue(memory, t.mask)
  BY <1>2, <1>4, <1>6, <1>7, ValuesAgree
<1> QED BY <1>1, <1>8 DEF Opcode

(* An instruction that is in memory has the value of the memory on a mask  *)
(* it fixes, and one that has this value has the bits of the memory there. *)
LEMMA ValueInMemory ==
  ASSUME TreeInv, memory \in Memories, NEW p \in nodes, NEW s \in Specs, FixedIn(s, p.mask)
  PROVE  /\ IsThere(s) => MaskedValue(memory, p.mask) = ValueOf(s, p)
         /\ MaskedValue(memory, p.mask) = ValueOf(s, p) =>
              \A i \in DOMAIN p.mask : p.mask[i] => iset[s][i] = memory[i]
<1>1. /\ p.mask \in Seq(BOOLEAN) /\ iset \in Sets /\ memory \in Seq(Bits) /\ iset[s] \in Seq(Bits)
      /\ DOMAIN memory = 1..Len(memory) /\ DOMAIN iset[s] = 1..Len(iset[s])
      /\ Len(iset[s]) <= Len(memory) /\ Len(iset[s]) \in Nat /\ Len(memory) \in Nat
  BY SetIs, MemoryIs DEF TreeInv, NodesTyped
<1>2. \A i \in DOMAIN p.mask : p.mask[i] => i \in DOMAIN memory /\ i \in DOMAIN iset[s]
  BY <1>1 DEF FixedIn
<1>3. MaskedValue(memory, p.mask) = ValueOf(s, p)
        <=> \A i \in DOMAIN p.mask : p.mask[i] => memory[i] = iset[s][i]
  BY <1>1, <1>2, ValuesAgree DEF ValueOf
<1>4. IsThere(s) => \A i \in DOMAIN p.mask : p.mask[i] => memory[i] = iset[s][i]
  BY <1>2 DEF IsThere, Matches, FixedIn
<1> QED BY <1>3, <1>4

LEMMA InTable ==
  ASSUME TreeInv, CodeInv, TableInv, ~NeedsChunk
  PROVE  \E t \in nodes : /\ t.name = table /\ t.specs = {} /\ Node(table) = t
                          /\ table \in Names
                          /\ Opcode = MaskedValue(memory, t.mask) /\ Opcode \in Seq(Bits)
<1>1. PICK t \in nodes : t.name = table /\ t.specs = {}
  BY DEF TableInv
<1>2. Node(table) = t /\ Opcode = MaskedValue(memory, t.mask)
  BY <1>1, TableNode, OpcodeIs
<1>3. table \in Names /\ t.mask \in Seq(BOOLEAN) /\ iset \in Sets
  BY <1>1 DEF TreeInv, NodesTyped
<1>4. memory \in Seq(Bits)
  BY <1>3, MemoryIs DEF CodeInv
<1>5. MaskedValue(memory, t.mask) \in Seq(Bits)
  BY <1>3, <1>4, ValueIs
<1> QED BY <1>1, <1>2, <1>3, <1>5

(* An instruction that is in memory is in the entry of the opcode, or below*)
(* the node of that entry.                                                 *)
LEMMA EntryLeads ==
  ASSUME TreeInv, CodeInv, TableInv, AheadInv, ~NeedsChunk,
         NEW m \in nodes, NEW s \in m.specs, IsThere(s)
  PROVE  \E e \in Entry(Opcode) : e = m \/ Above(e, m.name)
<1> DEFINE v == Opcode
<1>1. PICK t \in nodes : /\ t.name = table /\ t.specs = {} /\ table \in Names
                         /\ v = MaskedValue(memory, t.mask) /\ v \in Seq(Bits)
  BY InTable
<1>2. s \in Specs /\ m.name \in Names /\ \A p \in nodes : p.name \in Names
  BY DEF TreeInv, NodesTyped
<1>3. Above(t, m.name)
  BY <1>1 DEF AheadInv, TreeInv, NamesUnique
<1>4. ValueOf(s, t) = m.name[Len(t.name) + 1] /\ FixedIn(s, t.mask)
  BY <1>3 DEF TreeInv, ValuesTheirs
<1>5. MaskedValue(memory, t.mask) = ValueOf(s, t)
  BY <1>2, <1>4, ValueInMemory DEF CodeInv
<1>6. /\ \A p \in nodes : p \in Entry(Opcode) <=> p.name = Append(table, v)
  BY DEF Entry
<1> HIDE DEF v
<1>7. /\ Append(table, v) \in Names /\ Len(table) \in Nat
      /\ Len(Append(table, v)) = Len(table) + 1
      /\ \A i \in 1..Len(table) : Append(table, v)[i] = table[i]
      /\ Append(table, v)[Len(table) + 1] = v
  BY <1>1, AppendIs
<1>8. \A i \in 1..Len(table) + 1 : Append(table, v)[i] = m.name[i]
  <2> TAKE i \in 1..Len(table) + 1
  <2>1. CASE i = Len(table) + 1
    BY <1>1, <1>4, <1>5, <1>7, <2>1
  <2>2. CASE i # Len(table) + 1
    <3>1. i \in 1..Len(table)
      BY <1>7, <2>2
    <3> QED BY <1>1, <1>3, <1>7, <3>1 DEF Above
  <2> QED BY <2>1, <2>2
<1>9. Len(m.name) \in Nat /\ Len(table) < Len(m.name)
  BY <1>1, <1>2, <1>3, LenProperties DEF Above, Names
<1>10. CASE Len(m.name) = Len(table) + 1
  <2>1. m.name = Append(table, v)
    BY <1>2, <1>7, <1>8, <1>10, SeqEqual DEF Names
  <2> QED BY <1>6, <2>1
<1>11. CASE Len(m.name) # Len(table) + 1
  <2>1. Len(table) + 1 \in 0..Len(m.name) - 1
    BY <1>7, <1>9, <1>11
  <2>2. PICK e \in nodes : Len(e.name) = Len(table) + 1 /\ Above(e, m.name)
    BY <2>1 DEF TreeInv, PathsThere
  <2>3. \A i \in 1..Len(table) + 1 : e.name[i] = m.name[i]
    BY <2>2 DEF Above
  <2>4. /\ e.name \in Seq(Seq(Bits)) /\ Append(table, v) \in Seq(Seq(Bits))
        /\ Len(e.name) = Len(Append(table, v))
        /\ \A i \in 1..Len(e.name) : e.name[i] = Append(table, v)[i]
    BY <1>2, <1>7, <1>8, <2>2, <2>3 DEF Names
  <2>5. e.name = Append(table, v)
    BY <2>4, SeqEqual
  <2> QED BY <1>6, <2>2, <2>5
<1> QED BY <1>10, <1>11

(* Below an entry, the values that lead there are those of the memory.     *)
LEMMA EntryAgrees ==
  ASSUME TreeInv, CodeInv, TableInv, ~NeedsChunk,
         NEW n \in Entry(Opcode), NEW p \in nodes, Above(p, n.name)
  PROVE  MaskedValue(memory, p.mask) = n.name[Len(p.name) + 1]
<1> DEFINE v == Opcode
<1>1. PICK t \in nodes : /\ t.name = table /\ t.specs = {} /\ table \in Names
                         /\ v = MaskedValue(memory, t.mask) /\ v \in Seq(Bits)
  BY InTable
<1>2. n \in nodes /\ n.name = Append(t.name, v) /\ p.name \in Names
  BY <1>1 DEF Entry, TreeInv, NodesTyped
<1> HIDE DEF v
<1>3. Above(p, t.name) \/ p.name = t.name
  BY <1>1, <1>2, AboveSon
<1>4. /\ Len(table) \in Nat
      /\ \A i \in 1..Len(table) : n.name[i] = table[i]
      /\ n.name[Len(table) + 1] = v
  BY <1>1, <1>2, AppendIs
<1>5. CASE Above(p, t.name)
  <2>1. MaskedValue(memory, p.mask) = table[Len(p.name) + 1]
    BY <1>1, <1>5 DEF TableInv
  <2>2. Len(p.name) + 1 \in 1..Len(table)
    BY <1>1, <1>2, <1>4, <1>5, LenProperties DEF Above, Names
  <2> QED BY <1>4, <2>1, <2>2
<1>6. CASE p.name = t.name
  <2>1. p = t
    BY <1>6 DEF TreeInv, NamesUnique
  <2> QED BY <1>1, <1>4, <2>1
<1> QED BY <1>3, <1>5, <1>6

-----------------------------------------------------------------------------
(* The invariant, whose last two parts are the properties. *)
FetchInv == TreeInv /\ WalkInv /\ FetchFinds /\ TestedBitsAgree

(* The generator keeps its tree, and leaves no node of several.            *)
LEMMA MadeStep ==
  ASSUME FetchInv, Build PROVE FetchInv'
<1>1. TreeInv'
  <2>1. CASE MakeTree
    BY <2>1, TreeGrows DEF FetchInv
  <2>2. CASE TreeMade
    BY <2>2, TreeFramed DEF FetchInv, TreeMade
  <2> QED BY <2>1, <2>2 DEF Build
<1>2. /\ phase' \in {"build", "refused", "built"}
      /\ phase' = "built" => \A n \in nodes' : ~Several(n)
  BY DEF Build, MakeTree, TreeMade
<1>3. WalkInv'
  BY <1>2 DEF WalkInv, Several
<1>4. FetchFinds' /\ TestedBitsAgree'
  BY <1>2 DEF FetchFinds, TestedBitsAgree
<1> QED BY <1>1, <1>3, <1>4 DEF FetchInv

(* A fetch starts at the root, that all the instructions are below.        *)
LEMMA StartStep ==
  ASSUME FetchInv, StartFetch PROVE FetchInv'
<1>1. /\ phase' = "walk" /\ table' = <<>> /\ memory' \in Memories
      /\ iset' = iset /\ nodes' = nodes
      /\ code' = IF IsRisc THEN SubSeq(memory', 1, WordSize) ELSE <<>>
  BY DEF StartFetch
<1>2. TreeInv'
  BY <1>1, TreeFramed DEF FetchInv
<1>3. TreeInv /\ iset \in Sets /\ \A n \in nodes : ~Several(n)
  BY DEF FetchInv, WalkInv, StartFetch, TreeInv
<1>4. PICK r \in nodes : r.name = <<>> /\ r.specs = {}
  BY <1>3 DEF TreeInv, RootThere
<1>5. CodeInv'
  <2> PICK m \in Memories : m = memory'
    BY <1>1
  <2>1. /\ m \in Seq(Bits) /\ Len(m) \in Nat
        /\ \A s \in Specs : Len(iset[s]) <= Len(m)
    BY <1>3, MemoryIs
  <2> PICK c : c = code'
    OBVIOUS
  <2>2. /\ c \in Seq(Bits) /\ Len(c) <= Len(m)
        /\ \A i \in 1..Len(c) : c[i] = m[i]
        /\ IF IsRisc THEN Len(c) = WordSize ELSE Len(c) % Chunk = 0
    <3>1. CASE IsRisc
      <4>1. 1 \in Specs
        BY <1>3, SetIs
      <4>2. WordSize \in Nat /\ WordSize <= Len(m)
        BY <1>3, <2>1, <3>1, <4>1, RiscLength, ChunkAssumption
      <4>3. c = SubSeq(m, 1, WordSize)
        BY <1>1, <3>1
      <4>4. /\ SubSeq(m, 1, WordSize) \in Seq(Bits) /\ Len(SubSeq(m, 1, WordSize)) = WordSize
            /\ \A i \in 1..WordSize : SubSeq(m, 1, WordSize)[i] = m[i]
        BY <2>1, <4>2, ReadIs
      <4> QED BY <3>1, <4>2, <4>3, <4>4
    <3>2. CASE ~IsRisc
      <4>1. c = <<>>
        BY <1>1, <3>2
      <4>2. c \in Seq(Bits) /\ Len(c) = 0
        BY <4>1, EmptySeq
      <4>3. 0 % Chunk = 0
        BY ChunkAssumption
      <4> QED BY <2>1, <3>2, <4>2, <4>3
    <3> QED BY <3>1, <3>2
  <2>3. IsRisc' <=> IsRisc
    BY <1>1 DEF IsRisc, Lengths, Specs
  <2> QED BY <2>2, <2>3 DEF CodeInv
<1>6. TableInv'
  <2>1. \A p \in nodes : ~Above(p, <<>>)
    <3> TAKE p \in nodes
    <3>1. p.name \in Names
      BY <1>3 DEF TreeInv, NodesTyped
    <3>2. Len(p.name) \in Nat /\ Len(<<>>) = 0
      BY <3>1, LenProperties, EmptySeq DEF Names
    <3> QED BY <3>2 DEF Above
  <2> QED BY <1>1, <1>4, <2>1 DEF TableInv, Above
<1>7. AheadInv'
  <2> SUFFICES ASSUME NEW n \in nodes, NEW s \in n.specs
               PROVE  Above(r, n.name)
    BY <1>1, <1>4 DEF AheadInv, Above
  <2>1. n.name # <<>> /\ n.name \in Names
    BY <1>3, <1>4 DEF TreeInv, NamesUnique, NodesTyped
  <2>2. Len(n.name) \in Nat /\ Len(n.name) # 0 /\ Len(<<>>) = 0
    BY <2>1, LenProperties, EmptySeq DEF Names
  <2> QED BY <1>4, <2>2 DEF Above
<1>8. WalkInv'
  BY <1>1, <1>3, <1>5, <1>6, <1>7 DEF WalkInv, Several
<1> QED BY <1>1, <1>2, <1>8 DEF FetchInv, FetchFinds, TestedBitsAgree

(* A chunk is read only when the mask goes on after it, and so does the    *)
(* memory.                                                                 *)
LEMMA ReadStep ==
  ASSUME FetchInv, ReadChunk PROVE FetchInv'
<1>1. /\ phase = "walk" /\ phase' = "walk" /\ NeedsChunk
      /\ table' = table /\ memory' = memory /\ iset' = iset /\ nodes' = nodes
      /\ code' = SubSeq(memory, 1, Len(code) + Chunk)
  BY DEF ReadChunk
<1>2. TreeInv'
  BY <1>1, TreeFramed DEF FetchInv
<1>3. TreeInv /\ CodeInv /\ TableInv /\ AheadInv /\ iset \in Sets /\ \A n \in nodes : ~Several(n)
  BY <1>1 DEF FetchInv, WalkInv, TreeInv
<1>4. CodeInv'
  <2>1. /\ memory \in Seq(Bits) /\ Len(memory) \in Nat /\ Len(memory) % Chunk = 0
        /\ \A s \in Specs : Len(iset[s]) <= Len(memory)
    BY <1>3, MemoryIs DEF CodeInv
  <2>2. ~IsRisc /\ Len(code) \in Nat /\ Len(code) % Chunk = 0 /\ Len(code) < Len(Node(table).mask)
    BY <1>1, <1>3, LenProperties DEF NeedsChunk, CodeInv
  <2>3. PICK t \in nodes : t.name = table /\ Node(table) = t
    BY <1>3, TableNode DEF TableInv
  <2>4. PICK s \in Specs : Len(t.mask) = Len(iset[s])
    BY <1>3 DEF TreeInv, NodesTyped
  <2>5. Len(iset[s]) \in Nat
    BY <1>3, SetIs
  <2>6. Len(code) < Len(memory)
    BY <2>1, <2>2, <2>3, <2>4, <2>5
  <2> DEFINE a == Len(code)
             b == Len(memory)
  <2>7. /\ a + Chunk \in Nat /\ a + Chunk <= b /\ (a + Chunk) % Chunk = 0
    <3>1. a \in Nat /\ b \in Nat /\ a % Chunk = 0 /\ b % Chunk = 0 /\ a < b
      BY <2>1, <2>2, <2>6
    <3>2. Chunk \in Nat \ {0}
      BY ChunkAssumption
    <3> HIDE DEF a, b
    <3> QED BY <3>1, <3>2, NextMultiple
  <2> PICK c : c = code'
    OBVIOUS
  <2>8. /\ c \in Seq(Bits) /\ Len(c) = a + Chunk
        /\ \A i \in 1..a + Chunk : c[i] = memory[i]
    <3>1. c = SubSeq(memory, 1, a + Chunk)
      BY <1>1
    <3> HIDE DEF a, b
    <3> QED BY <2>1, <2>7, <3>1, ReadIs DEF b
  <2>9. IsRisc' <=> IsRisc
    BY <1>1 DEF IsRisc, Lengths, Specs
  <2> HIDE DEF a
  <2> QED BY <1>1, <1>3, <2>2, <2>7, <2>8, <2>9 DEF CodeInv
<1>5. TableInv'
  BY <1>1, <1>3 DEF TableInv, Above
<1>6. AheadInv'
  BY <1>1, <1>3 DEF AheadInv, Above, IsThere
<1>7. WalkInv'
  BY <1>1, <1>3, <1>4, <1>5, <1>6 DEF WalkInv, Several
<1> QED BY <1>1, <1>2, <1>7 DEF FetchInv, FetchFinds, TestedBitsAgree

(* The end of a walk at the node n that the opcode leads to. *)
LEMMA FoundAgrees ==
  ASSUME TreeInv, CodeInv, TableInv, ~NeedsChunk,
         NEW n \in Entry(Opcode), NEW s \in n.specs
  PROVE  \A i \in DOMAIN Node(table).global :
           Node(table).global[i] => iset[s][i] = memory[i]
<1>1. PICK t \in nodes : /\ t.name = table /\ t.specs = {} /\ Node(table) = t
                         /\ table \in Names /\ Opcode \in Seq(Bits)
  BY InTable
<1>2. n \in nodes /\ n.name = Append(t.name, Opcode)
  BY <1>1 DEF Entry
<1>3. s \in Specs /\ memory \in Memories /\ \A p \in nodes : p.name \in Names
  BY <1>2 DEF TreeInv, NodesTyped, CodeInv
<1> SUFFICES ASSUME NEW i \in DOMAIN t.global, t.global[i]
             PROVE  iset[s][i] = memory[i]
  BY <1>1
<1>4. PICK p \in nodes : (p = t \/ Above(p, t.name)) /\ i \in DOMAIN p.mask /\ p.mask[i]
  BY <1>1 DEF TreeInv, GlobalTested
<1>5. Above(p, n.name)
  BY <1>1, <1>2, <1>3, <1>4, AboveSon
<1>6. MaskedValue(memory, p.mask) = n.name[Len(p.name) + 1]
  BY <1>5, EntryAgrees
<1>7. ValueOf(s, p) = n.name[Len(p.name) + 1] /\ FixedIn(s, p.mask)
  BY <1>2, <1>5 DEF TreeInv, ValuesTheirs
<1> QED BY <1>3, <1>4, <1>6, <1>7, ValueInMemory

(* A node that does not hold several instructions holds one at most.       *)
LEMMA OneOnly ==
  ASSUME TreeInv, NEW n \in nodes, ~Several(n), NEW s \in n.specs, NEW r \in n.specs
  PROVE  s = r
<1>1. n.specs \subseteq Specs /\ IsFiniteSet(Specs)
  BY SetIs DEF TreeInv, NodesTyped
<1>2. IsFiniteSet(n.specs) /\ Cardinality(n.specs) \in Nat
  BY <1>1, FS_Subset, FS_CardinalityType
<1>3. Cardinality(n.specs) # 0
  BY <1>2, FS_EmptySet
<1>4. Cardinality(n.specs) = 1
  BY <1>2, <1>3 DEF Several
<1>5. PICK x : n.specs = {x}
  BY <1>2, <1>4, FS_Singleton
<1> QED BY <1>5

(* A table is looked up: the walk goes on at the entry, or ends with it.   *)
LEMMA LookUpStep ==
  ASSUME FetchInv, LookUp PROVE FetchInv'
<1>1. /\ phase = "walk" /\ ~NeedsChunk
      /\ memory' = memory /\ iset' = iset /\ nodes' = nodes /\ code' = code
  BY DEF LookUp
<1>2. TreeInv'
  BY <1>1, TreeFramed DEF FetchInv
<1>3. TreeInv /\ CodeInv /\ TableInv /\ AheadInv /\ \A n \in nodes : ~Several(n)
  BY <1>1 DEF FetchInv, WalkInv
<1>4. CodeInv' /\ \A n \in nodes' : ~Several(n)
  <2>1. IsRisc' <=> IsRisc
    BY <1>1 DEF IsRisc, Lengths, Specs
  <2> QED BY <1>1, <1>3, <2>1 DEF CodeInv
<1>5. ASSUME UNCHANGED table PROVE TableInv'
  BY <1>1, <1>3, <1>5 DEF TableInv, Above
<1>6. ASSUME NEW s \in Specs, IsThere(s)
      PROVE  \E m \in nodes : s \in m.specs /\ \E e \in Entry(Opcode) : e = m \/ Above(e, m.name)
  <2>1. PICK m \in nodes : s \in m.specs
    BY <1>3 DEF TreeInv, AllThere
  <2> QED BY <1>1, <1>3, <1>6, <2>1, EntryLeads
<1>7. CASE Entry(Opcode) = {} /\ result' = UNKNOWN /\ phase' = "found" /\ UNCHANGED table
  <2>1. \A s \in Specs : ~IsThere(s)
    BY <1>6, <1>7
  <2>2. FetchFinds'
    BY <1>1, <2>1 DEF FetchFinds, IsThere, Specs, Matches
  <2>3. TestedBitsAgree'
    BY <1>7 DEF TestedBitsAgree
  <2>4. WalkInv'
    BY <1>4, <1>5, <1>7 DEF WalkInv
  <2> QED BY <1>2, <2>2, <2>3, <2>4 DEF FetchInv
<1>8. ASSUME NEW n \in Entry(Opcode), n.specs = {}, table' = n.name, UNCHANGED <<phase, result>>
      PROVE  FetchInv'
  <2>1. n \in nodes /\ \A e \in Entry(Opcode) : e = n
    BY <1>3 DEF Entry, TreeInv, NamesUnique
  <2>2. TableInv'
    <3>1. \A p \in nodes : Above(p, n.name) =>
            MaskedValue(memory, p.mask) = n.name[Len(p.name) + 1]
      BY <1>1, <1>3, EntryAgrees
    <3> QED BY <1>1, <1>8, <2>1, <3>1 DEF TableInv, Above
  <2>3. AheadInv'
    <3> SUFFICES ASSUME NEW m \in nodes, NEW s \in m.specs, IsThere(s)
                 PROVE  \E t \in nodes : t.name = n.name /\ Above(t, m.name)
      BY <1>1, <1>8 DEF AheadInv, Above, IsThere, Matches
    <3>1. PICK e \in Entry(Opcode) : e = m \/ Above(e, m.name)
      BY <1>1, <1>3, EntryLeads
    <3>2. e = n /\ m # n
      BY <1>8, <2>1
    <3> QED BY <2>1, <3>1, <3>2
  <2>4. WalkInv'
    BY <1>1, <1>4, <1>8, <2>2, <2>3 DEF WalkInv
  <2>5. phase' = "walk"
    BY <1>1, <1>8
  <2> QED BY <1>2, <2>4, <2>5 DEF FetchInv, FetchFinds, TestedBitsAgree
<1>9. ASSUME NEW n \in Entry(Opcode), n.specs # {}, result' \in n.specs,
             phase' = "found", UNCHANGED table
      PROVE  FetchInv'
  <2>1. n \in nodes /\ \A e \in Entry(Opcode) : e = n
    BY <1>3 DEF Entry, TreeInv, NamesUnique
  <2>2. FetchFinds'
    <3> SUFFICES ASSUME NEW s \in Specs, IsThere(s)
                 PROVE  result' = s
      BY <1>1 DEF FetchFinds, IsThere, Specs, Matches
    <3>1. PICK m \in nodes : s \in m.specs /\ \E e \in Entry(Opcode) : e = m \/ Above(e, m.name)
      BY <1>6
    <3>2. n = m
      BY <1>9, <2>1, <3>1 DEF Above
    <3> QED BY <1>3, <1>9, <2>1, <3>1, <3>2, OneOnly
  <2>3. TestedBitsAgree'
    <3> PICK r \in n.specs : r = result'
      BY <1>9
    <3>1. \A i \in DOMAIN Node(table).global : Node(table).global[i] => iset[r][i] = memory[i]
      BY <1>1, <1>3, FoundAgrees
    <3>2. Node(table)' = Node(table)
      BY <1>1, <1>9 DEF Node
    <3> QED BY <1>1, <3>1, <3>2 DEF TestedBitsAgree
  <2>4. WalkInv'
    BY <1>4, <1>5, <1>9 DEF WalkInv
  <2> QED BY <1>2, <2>2, <2>3, <2>4 DEF FetchInv
<1> QED BY <1>7, <1>8, <1>9 DEF LookUp

LEMMA FetchFramed ==
  ASSUME FetchInv, UNCHANGED vars PROVE FetchInv'
<1>1. UNCHANGED <<iset, nodes>>
  BY DEF vars
<1>2. TreeInv'
  BY <1>1, TreeFramed DEF FetchInv
<1>3. CodeInv => CodeInv'
  BY DEF CodeInv, IsRisc, Lengths, Specs, vars
<1>4. TableInv => TableInv'
  BY DEF TableInv, Above, vars
<1>5. AheadInv => AheadInv'
  BY DEF AheadInv, Above, IsThere, Matches, vars
<1>6. WalkInv'
  BY <1>3, <1>4, <1>5 DEF FetchInv, WalkInv, Several, vars
<1>7. FetchFinds'
  BY DEF FetchInv, FetchFinds, Matches, Specs, vars
<1>8. TestedBitsAgree'
  BY DEF FetchInv, TestedBitsAgree, Node, vars
<1> QED BY <1>2, <1>6, <1>7, <1>8 DEF FetchInv

(* What is kept of the tree and of the walk, from the generator to the    *)
(* end of every fetch.                                                     *)
THEOREM FetchInvariant == Spec => []FetchInv
<1>1. Init => FetchInv
  BY TreeStarts DEF Init, FetchInv, WalkInv, FetchFinds, TestedBitsAgree
<1>2. FetchInv /\ [Next]_vars => FetchInv'
  BY MadeStep, StartStep, ReadStep, LookUpStep, FetchFramed DEF Next, Fetch
<1> QED BY <1>1, <1>2, PTL DEF Spec

(* FetchFinds: whatever the lengths of the instructions and the sharing of *)
(* their bits, an instruction that is in memory is the one that is found.  *)
THEOREM InstructionsFound == Spec => []FetchFinds
<1>1. FetchInv => FetchFinds
  BY DEF FetchInv
<1> QED BY <1>1, FetchInvariant, PTL

(* TestedBitsAgree: what is found has the bits of the memory wherever a    *)
(* table on the way looked.                                                *)
THEOREM NothingElseFound == Spec => []TestedBitsAgree
<1>1. FetchInv => TestedBitsAgree
  BY DEF FetchInv
<1> QED BY <1>1, FetchInvariant, PTL

-----------------------------------------------------------------------------
(* What a reading keeps true: it holds all that it allocated, and the two  *)
(* lists are, in the order of their addresses, sections of the file.       *)
ReadingRecord ==
  [ok : BOOLEAN, heap : SUBSET Block, held : SUBSET Block, text : Seq(Nat), data : Seq(Nat)]

Listed(f, l, S) ==
  /\ l \in Seq(S) /\ \A i \in S : \E k \in 1..Len(l) : l[k] = i
  /\ \A k, m \in 1..Len(l) :
       k < m => f.sects[l[k]].at <= f.sects[l[m]].at

ReadingOf(f, r, T, D) ==
  /\ r \in ReadingRecord /\ r.heap = r.held
  /\ r.ok => Listed(f, r.text, T) /\ Listed(f, r.data, D)

LEMMA FileIs ==
  ASSUME NEW f \in Files
  PROVE  /\ f.sects \in Seq(SectionHeader) /\ Len(f.sects) \in Nat
         /\ DOMAIN f.sects = 1..Len(f.sects)
         /\ \A i \in DOMAIN f.sects :
              /\ f.sects[i] \in SectionHeader /\ f.sects[i].at \in Nat /\ f.sects[i].size \in Nat
              /\ End(f.sects[i]) \in Nat /\ End(f.sects[i]) <= Space
<1>1. f.sects \in Seq(SectionHeader)
  BY FilesAssumption
<1>2. Len(f.sects) \in Nat /\ DOMAIN f.sects = 1..Len(f.sects)
  BY <1>1, LenProperties
<1>3. \A i \in DOMAIN f.sects : f.sects[i] \in SectionHeader
  BY <1>1, <1>2, ElementOfSeq
<1>4. \A i \in DOMAIN f.sects : f.sects[i].at \in Nat /\ f.sects[i].size \in Nat
  BY <1>3 DEF SectionHeader
<1>5. \A i \in DOMAIN f.sects : End(f.sects[i]) \in Nat /\ End(f.sects[i]) <= Space
  BY <1>4, FilesAssumption DEF End
<1> QED BY <1>1, <1>2, <1>3, <1>4, <1>5

(* Where InsertAt puts the element and where it moves the others. *)
LEMMA InsertAtIs ==
  ASSUME NEW S, NEW q \in Seq(S), NEW e \in S, NEW k \in 1..Len(q) + 1
  PROVE  /\ InsertAt(q, k, e) \in Seq(S)
         /\ Len(InsertAt(q, k, e)) = Len(q) + 1
         /\ \A i \in 1..Len(q) + 1 :
              InsertAt(q, k, e)[i] = IF i < k THEN q[i] ELSE IF i = k THEN e ELSE q[i - 1]
<1> DEFINE a == SubSeq(q, 1, k - 1)
           b == SubSeq(q, k, Len(q))
<1>1. Len(q) \in Nat /\ k \in Int /\ \A i \in 1..Len(q) : q[i] \in S
  BY ElementOfSeq, LenProperties
<1>2. /\ a \in Seq(S) /\ Len(a) = k - 1
      /\ \A i \in 1..k - 1 : a[i] = q[i]
  <2>1. \A i \in 1..k - 1 : q[i] \in S  BY <1>1
  <2>2. /\ a \in Seq(S)
        /\ Len(a) = IF 1 <= k - 1 THEN k - 1 - 1 + 1 ELSE 0
        /\ \A i \in 1..k - 1 - 1 + 1 : a[i] = q[1 + i - 1]
    <3>1. k - 1 \in Int  BY <1>1
    <3> QED  BY <2>1, <3>1, SubSeqProperties
  <2> QED  BY <2>2, <1>1
<1>3. /\ b \in Seq(S) /\ Len(b) = Len(q) - k + 1
      /\ \A i \in 1..Len(q) - k + 1 : b[i] = q[k + i - 1]
  <2>1. \A i \in k..Len(q) : q[i] \in S  BY <1>1
  <2>2. /\ b \in Seq(S)
        /\ Len(b) = IF k <= Len(q) THEN Len(q) - k + 1 ELSE 0
        /\ \A i \in 1..Len(q) - k + 1 : b[i] = q[k + i - 1]
    BY <1>1, <2>1, SubSeqProperties
  <2> QED  BY <2>2, <1>1
<1>4. InsertAt(q, k, e) = (a \o <<e>>) \o b
  BY DEF InsertAt
<1>5. <<e>> \in Seq(S) /\ Len(<<e>>) = 1 /\ <<e>>[1] = e
  OBVIOUS
<1> HIDE DEF a, b
<1> DEFINE c == a \o <<e>>
           r == c \o b
<1>6. /\ c \in Seq(S)
      /\ Len(c) = k
      /\ \A i \in 1..k : c[i] = IF i <= k - 1 THEN a[i] ELSE e
  BY <1>1, <1>2, <1>5, ConcatProperties
<1> HIDE DEF c
<1>7. /\ r \in Seq(S)
      /\ Len(r) = Len(q) + 1
      /\ \A i \in 1..Len(q) + 1 : r[i] = IF i <= k THEN c[i] ELSE b[i - k]
  <2>2. /\ r \in Seq(S)
        /\ Len(r) = Len(c) + Len(b)
        /\ \A i \in 1..Len(c) + Len(b) : r[i] = IF i <= Len(c) THEN c[i] ELSE b[i - Len(c)]
    BY <1>3, <1>6, ConcatProperties
  <2> HIDE DEF r
  <2>3. Len(c) + Len(b) = Len(q) + 1  BY <1>1, <1>3, <1>6
  <2> QED  BY <1>6, <2>2, <2>3
<1> HIDE DEF r
<1>8. ASSUME NEW i \in 1..Len(q) + 1
      PROVE  r[i] = IF i < k THEN q[i] ELSE IF i = k THEN e ELSE q[i - 1]
  <2>1. CASE i < k
    <3>1. i \in 1..k /\ i \in 1..k - 1 /\ i <= k - 1 /\ i <= k  BY <2>1, <1>1
    <3>2. c[i] = a[i]  BY <1>6, <3>1
    <3> QED  BY <2>1, <3>1, <3>2, <1>2, <1>7
  <2>2. CASE i = k
    <3>1. k \in 1..k /\ ~(k <= k - 1) /\ k <= k  BY <1>1
    <3>2. c[k] = e  BY <1>6, <3>1
    <3>3. r[i] = c[i]  BY <2>2, <3>1, <1>7
    <3> QED  BY <1>1, <2>2, <3>1, <3>2, <3>3
  <2>3. CASE i > k
    <3>1. i - k \in 1..Len(q) - k + 1 /\ ~(i <= k) /\ ~(i < k) /\ k + (i - k) - 1 = i - 1
      BY <2>3, <1>1
    <3>2. b[i - k] = q[i - 1]  BY <1>3, <3>1
    <3> QED  BY <2>3, <3>1, <3>2, <1>7
  <2> QED  BY <1>1, <2>1, <2>2, <2>3
<1> QED  BY <1>4, <1>7, <1>8 DEF r, c

(* A section is put after those that are not above it, before the others.  *)
LEMMA PlacedIs ==
  ASSUME NEW f \in Files, NEW S \in SUBSET DOMAIN f.sects, NEW i \in DOMAIN f.sects,
         NEW l, Listed(f, l, S)
  PROVE  Listed(f, Placed(f, l, i), S \cup {i})
<1> DEFINE T == S \cup {i}
           at(j) == f.sects[j].at
           after == {k \in DOMAIN l : at(l[k]) > at(i)}
           p == IF after = {} THEN Len(l) + 1 ELSE Min(after)
           q == InsertAt(l, p, i)
<1>1. l \in Seq(S) /\ l \in Seq(T) /\ Len(l) \in Nat /\ DOMAIN l = 1..Len(l)
  BY SeqMonotonic, LenProperties DEF Listed
<1>2. \A k \in 1..Len(l) : l[k] \in S
  BY <1>1, ElementOfSeq
<1>3. \A j \in T : at(j) \in Nat
  BY FileIs
<1> HIDE DEF at
<1>4. \A k, m \in 1..Len(l) : k < m => at(l[k]) <= at(l[m])
  BY DEF Listed, at
<1>5. /\ p \in 1..Len(l) + 1
      /\ \A k \in 1..Len(l) : k < p => at(l[k]) <= at(i)
      /\ \A k \in 1..Len(l) : k >= p => at(i) < at(l[k])
  <2>1. CASE after = {}
    BY <2>1, <1>1, <1>2, <1>3
  <2>2. CASE after # {}
    <3>1. after \in SUBSET Nat  BY <1>1
    <3>2. PICK m \in after : \A n \in after : m <= n
      <4> HIDE DEF after
      <4> QED  BY <2>2, <3>1, LeastOf
    <3>3. p \in after /\ \A n \in after : p <= n
      <4>1. p = Min(after)  BY <2>2
      <4> HIDE DEF after, p
      <4> QED  BY <3>2, <4>1 DEF Min
    <3>4. p \in 1..Len(l) /\ at(i) < at(l[p])
      <4> HIDE DEF p
      <4>1. at(l[p]) \in Nat /\ at(i) \in Nat  BY <1>1, <1>2, <1>3, <3>3
      <4> QED  BY <1>1, <3>3, <4>1
    <3> HIDE DEF p
    <3>5. \A k \in 1..Len(l) : k < p => at(l[k]) <= at(i)
      <4> SUFFICES ASSUME NEW k \in 1..Len(l), k < p, ~(at(l[k]) <= at(i))  PROVE FALSE
        OBVIOUS
      <4>1. at(l[k]) \in Nat /\ at(i) \in Nat  BY <1>2, <1>3
      <4>2. k \in after  BY <1>1, <4>1
      <4> QED  BY <3>3, <3>4, <4>2
    <3>6. \A k \in 1..Len(l) : k >= p => at(i) < at(l[k])
      <4> SUFFICES ASSUME NEW k \in 1..Len(l), k >= p  PROVE at(i) < at(l[k])
        OBVIOUS
      <4>1. at(l[k]) \in Nat /\ at(l[p]) \in Nat /\ at(i) \in Nat  BY <1>2, <1>3, <3>4
      <4>2. k = p \/ p < k  BY <3>4
      <4> QED  BY <1>4, <3>4, <4>1, <4>2
    <3> QED  BY <1>1, <3>4, <3>5, <3>6
  <2> QED  BY <2>1, <2>2
<1> HIDE DEF p
<1>6. /\ q \in Seq(T) /\ Len(q) = Len(l) + 1
      /\ \A k \in 1..Len(l) + 1 : q[k] = IF k < p THEN l[k] ELSE IF k = p THEN i ELSE l[k - 1]
  <2>1. i \in T  OBVIOUS
  <2> HIDE DEF T
  <2> QED  BY <2>1, <1>1, <1>5, InsertAtIs
<1> HIDE DEF q
<1>7. ASSUME NEW k \in 1..Len(q), NEW m \in 1..Len(q), k < m
      PROVE  at(q[k]) <= at(q[m])
  <2>0. /\ k \in 1..Len(l) + 1 /\ m \in 1..Len(l) + 1 /\ k - 1 \in Int /\ m - 1 \in Int
        /\ p \in Int /\ i \in T
    BY <1>1, <1>5, <1>6
  <2>1. CASE m < p
    <3>1. k < p /\ k \in 1..Len(l) /\ m \in 1..Len(l)  BY <2>0, <2>1, <1>5, <1>7
    <3> QED  BY <3>1, <2>0, <2>1, <1>4, <1>6, <1>7
  <2>2. CASE m = p
    <3>1. k < p /\ k \in 1..Len(l)  BY <2>0, <2>2, <1>5, <1>7
    <3> QED  BY <3>1, <2>0, <2>2, <1>5, <1>6
  <2>3. CASE m > p
    <3>1. m - 1 \in 1..Len(l) /\ m - 1 >= p /\ q[m] = l[m - 1]
      BY <2>0, <2>3, <1>1, <1>5, <1>6
    <3>2. at(l[m - 1]) \in Nat /\ at(i) \in Nat /\ at(i) < at(l[m - 1])
      BY <3>1, <2>0, <1>2, <1>3, <1>5
    <3>3. CASE k < p
      <4>1. k \in 1..Len(l) /\ q[k] = l[k] /\ at(l[k]) \in Nat /\ at(l[k]) <= at(i)
        BY <3>3, <2>0, <1>2, <1>3, <1>5, <1>6
      <4> QED  BY <3>1, <3>2, <4>1
    <3>4. CASE k = p
      BY <3>1, <3>2, <3>4, <2>0, <1>6
    <3>5. CASE k > p
      <4>1. k - 1 \in 1..Len(l) /\ q[k] = l[k - 1] /\ k - 1 < m - 1
        BY <3>5, <2>0, <1>1, <1>5, <1>6, <1>7
      <4> QED  BY <3>1, <4>1, <1>4
    <3> QED  BY <2>0, <3>3, <3>4, <3>5
  <2> QED  BY <2>0, <2>1, <2>2, <2>3
<1>8. ASSUME NEW j \in T
      PROVE  \E k \in 1..Len(q) : q[k] = j
  <2>1. CASE j = i
    <3>1. p \in 1..Len(q) /\ p \in Int /\ q[p] = i  BY <1>1, <1>5, <1>6
    <3> QED  BY <2>1, <3>1
  <2>2. CASE j \in S
    <3>1. PICK k \in 1..Len(l) : l[k] = j  BY <2>2 DEF Listed
    <3>2. CASE k < p
      <4>1. k \in 1..Len(q) /\ q[k] = j  BY <3>1, <3>2, <1>1, <1>5, <1>6
      <4> QED  BY <4>1
    <3>3. CASE k >= p
      <4>1. k + 1 \in 1..Len(l) + 1 /\ ~(k + 1 < p) /\ k + 1 # p /\ (k + 1) - 1 = k
        BY <3>1, <3>3, <1>1, <1>5
      <4>2. q[k + 1] = j /\ k + 1 \in 1..Len(q)  BY <3>1, <4>1, <1>6
      <4> QED  BY <4>2
    <3> QED  BY <3>2, <3>3, <1>5
  <2> QED  BY <2>1, <2>2
<1>9. Listed(f, q, T)
  BY <1>6, <1>7, <1>8 DEF Listed, at
<1> QED  BY <1>9 DEF q, p, Placed, at

LEMMA TakeIs ==
  ASSUME NEW f, NEW T, NEW D, NEW r, ReadingOf(f, r, T, D), NEW b \in Block
  PROVE  /\ ReadingOf(f, Take(r, b), T, D) /\ ReadingOf(f, Failed(r), T, D)
         /\ Take(r, b).ok = r.ok /\ ~Failed(r).ok
         /\ Take(r, b).text = r.text /\ Take(r, b).data = r.data
         /\ Failed(r).text = r.text /\ Failed(r).data = r.data
<1>1. r \in ReadingRecord /\ r.heap = r.held
  BY DEF ReadingOf
<1>2. /\ Take(r, b) \in ReadingRecord /\ Take(r, b).heap = Take(r, b).held
      /\ Take(r, b).ok = r.ok /\ Take(r, b).text = r.text /\ Take(r, b).data = r.data
  BY <1>1 DEF Take, ReadingRecord
<1>3. /\ Failed(r) \in ReadingRecord /\ Failed(r).heap = Failed(r).held
      /\ ~Failed(r).ok /\ Failed(r).text = r.text /\ Failed(r).data = r.data
  BY <1>1 DEF Failed, ReadingRecord
<1> QED  BY <1>1, <1>2, <1>3 DEF ReadingOf

(* A reading that failed is one of any lists. *)
LEMMA FailedIsAny ==
  ASSUME NEW f, NEW T, NEW D, NEW T2, NEW D2, NEW r, ReadingOf(f, r, T, D), ~r.ok
  PROVE  ReadingOf(f, r, T2, D2)
BY DEF ReadingOf

LEMMA TableKeeps ==
  ASSUME NEW f, NEW T, NEW D, NEW r, ReadingOf(f, r, T, D), NEW n \in 1..Len(Tables),
         NEW q \in ReadTable(f, r, Tables[n])
  PROVE  ReadingOf(f, q, T, D)
<1>1. Tables[n] \in {"pgm", "sec", "names", "sym", "str"}
  BY DEF Tables
<1> DEFINE b == <<Tables[n], 0>>
<1>2. b \in Block
  BY <1>1 DEF Block
<1>3. q \in {Failed(r), Take(r, b), Failed(Take(r, b))}
  BY DEF ReadTable
<1> HIDE DEF b
<1>4. ReadingOf(f, Take(r, b), T, D) /\ ReadingOf(f, Failed(r), T, D)
  BY <1>2, TakeIs
<1>5. ReadingOf(f, Failed(Take(r, b)), T, D)
  BY <1>2, <1>4, TakeIs
<1> QED  BY <1>3, <1>4, <1>5

(* The tables are read one after the other. *)
TablesStep(f, n, readings) ==
  UNION {IF r.ok THEN ReadTable(f, r, Tables[n]) ELSE {r} : r \in readings}

LEMMA TablesAre ==
  ASSUME NEW f, NEW readings
  PROVE  \E h : /\ h[0] = readings /\ ReadTables(f, readings) = h[5]
                /\ \A n \in 1..5 : h[n] = TablesStep(f, n, h[n - 1])
<1> DEFINE h1 == TablesStep(f, 1, readings)
           h2 == TablesStep(f, 2, h1)
           h3 == TablesStep(f, 3, h2)
           h4 == TablesStep(f, 4, h3)
           h5 == TablesStep(f, 5, h4)
           h == [n \in 0..5 |-> IF n = 0 THEN readings ELSE IF n = 1 THEN h1
                   ELSE IF n = 2 THEN h2 ELSE IF n = 3 THEN h3 ELSE IF n = 4 THEN h4 ELSE h5]
           step(g) == [n \in 0..5 |-> IF n = 0 THEN readings ELSE TablesStep(f, n, g[n - 1])]
           g0 == CHOOSE g : g = step(g)
<1>1. h = step(h)
  <2>1. /\ h[0] = readings /\ h[1] = h1 /\ h[2] = h2 /\ h[3] = h3 /\ h[4] = h4 /\ h[5] = h5
    <3> HIDE DEF h1, h2, h3, h4, h5
    <3> QED  OBVIOUS
  <2>2. \A n \in 0..5 : n = 0 \/ n = 1 \/ n = 2 \/ n = 3 \/ n = 4 \/ n = 5
    OBVIOUS
  <2>3. \A n \in 1..5 : h[n] = TablesStep(f, n, h[n - 1])
    <3> TAKE n \in 1..5
    <3> HIDE DEF h
    <3>1. CASE n = 1  BY <2>1, <3>1
    <3>2. CASE n = 2  BY <2>1, <3>2
    <3>3. CASE n = 3  BY <2>1, <3>3
    <3>4. CASE n = 4  BY <2>1, <3>4
    <3>5. CASE n = 5  BY <2>1, <3>5
    <3> QED  BY <2>2, <3>1, <3>2, <3>3, <3>4, <3>5
  <2>4. h = [n \in 0..5 |-> h[n]]
    <3> HIDE DEF h1, h2, h3, h4, h5
    <3> QED  OBVIOUS
  <2> HIDE DEF h
  <2>5. \A n \in 0..5 : h[n] = IF n = 0 THEN readings ELSE TablesStep(f, n, h[n - 1])
    BY <2>1, <2>3
  <2> QED  BY <2>4, <2>5
<1>2. g0 = step(g0)
  <2> HIDE DEF step, h
  <2> QED  BY <1>1
<1>3. Len(Tables) = 5
  BY DEF Tables
<1>4. ReadTables(f, readings) = g0[5]
  BY <1>3 DEF ReadTables, Then, TablesStep
<1> HIDE DEF g0
<1>5. g0[0] = readings /\ \A n \in 1..5 : g0[n] = TablesStep(f, n, g0[n - 1])
  BY <1>2
<1> QED  BY <1>4, <1>5

LEMMA TablesKeep ==
  ASSUME NEW f, NEW T, NEW D, NEW readings, \A r \in readings : ReadingOf(f, r, T, D)
  PROVE  \A q \in ReadTables(f, readings) : ReadingOf(f, q, T, D)
<1>1. PICK h : /\ h[0] = readings /\ ReadTables(f, readings) = h[5]
               /\ \A n \in 1..5 : h[n] = TablesStep(f, n, h[n - 1])
  BY TablesAre
<1> DEFINE Keeps(n) == \A r \in h[n] : ReadingOf(f, r, T, D)
<1>2. Keeps(0)
  BY <1>1
<1>3. ASSUME NEW n \in 1..5, Keeps(n - 1)
      PROVE  Keeps(n)
  <2>1. n \in 1..Len(Tables)  BY DEF Tables
  <2> TAKE q \in h[n]
  <2>2. PICK r \in h[n - 1] : q \in IF r.ok THEN ReadTable(f, r, Tables[n]) ELSE {r}
    BY <1>1 DEF TablesStep
  <2> QED  BY <1>3, <2>1, <2>2, TableKeeps
<1> HIDE DEF Keeps
<1>4. Keeps(1)  BY <1>2, <1>3
<1>5. Keeps(2)  BY <1>4, <1>3
<1>6. Keeps(3)  BY <1>5, <1>3
<1>7. Keeps(4)  BY <1>6, <1>3
<1>8. Keeps(5)  BY <1>7, <1>3
<1> QED  BY <1>1, <1>8 DEF Keeps

-----------------------------------------------------------------------------
(* Section n of the file, on each of the readings; W are those wanted. *)
SectionsStep(f, n, list, W, readings) ==
  UNION {IF r.ok /\ n \in W THEN ReadSection(f, r, n, list) ELSE {r} : r \in readings}

SectionsRead(f, m, list, W, readings, g) ==
  [n \in 0..m |-> IF n = 0 THEN readings ELSE SectionsStep(f, n, list, W, g[n - 1])]

LEMMA SectionsCanBeRead ==
  ASSUME NEW f, NEW list, NEW W, NEW readings, NEW m \in Nat
  PROVE  \E g : g = SectionsRead(f, m, list, W, readings, g)
<1> DEFINE Bad == {n \in Nat : ~ \E g : g = SectionsRead(f, n, list, W, readings, g)}
<1> SUFFICES ASSUME Bad # {}  PROVE FALSE
  OBVIOUS
<1>1. PICK n \in Bad : \A k \in Bad : n <= k
  <2>1. Bad \in SUBSET Nat  OBVIOUS
  <2> HIDE DEF Bad
  <2> QED  BY <2>1, LeastOf
<1>2. n \in Nat /\ ~ \E g : g = SectionsRead(f, n, list, W, readings, g)
  OBVIOUS
<1>3. n # 0
  <2> SUFFICES ASSUME n = 0  PROVE FALSE
    OBVIOUS
  <2> DEFINE g == [k \in 0..0 |-> readings]
  <2>1. g = SectionsRead(f, 0, list, W, readings, g)
    BY DEF SectionsRead
  <2> QED  BY <1>2, <2>1
<1>4. n - 1 \in Nat /\ n - 1 \notin Bad
  BY <1>1, <1>2, <1>3
<1>5. PICK g : g = SectionsRead(f, n - 1, list, W, readings, g)
  BY <1>4
<1> DEFINE e == [k \in 0..n |-> IF k = n THEN SectionsStep(f, n, list, W, g[n - 1]) ELSE g[k]]
<1>6. /\ g[0] = readings
      /\ \A k \in 1..n - 1 : g[k] = SectionsStep(f, k, list, W, g[k - 1])
  <2>1. \A k \in 0..n - 1 :
          g[k] = IF k = 0 THEN readings ELSE SectionsStep(f, k, list, W, g[k - 1])
    BY <1>5 DEF SectionsRead
  <2> QED  BY <1>2, <1>3, <1>4, <2>1
<1>7. /\ e[n] = SectionsStep(f, n, list, W, g[n - 1])
      /\ \A k \in 0..n - 1 : e[k] = g[k]
      /\ e = [k \in 0..n |-> e[k]]
  BY <1>2, <1>3, <1>4
<1> HIDE DEF e
<1>8. \A k \in 0..n : e[k] = IF k = 0 THEN readings ELSE SectionsStep(f, k, list, W, e[k - 1])
  <2> TAKE k \in 0..n
  <2>1. CASE k = 0
    <3>1. 0 \in 0..n - 1  BY <1>2, <1>3, <1>4
    <3> QED  BY <2>1, <3>1, <1>6, <1>7
  <2>2. CASE k \in 1..n - 1
    <3>1. k - 1 \in 0..n - 1 /\ k \in 0..n - 1 /\ k # 0  BY <2>2, <1>2
    <3> QED  BY <2>2, <3>1, <1>6, <1>7
  <2>3. CASE k = n
    <3>1. n - 1 \in 0..n - 1  BY <1>2, <1>4
    <3> QED  BY <2>3, <3>1, <1>3, <1>7
  <2> QED  BY <1>2, <2>1, <2>2, <2>3
<1>9. e = SectionsRead(f, n, list, W, readings, e)
  <2>1. SectionsRead(f, n, list, W, readings, e)
          = [k \in 0..n |-> IF k = 0 THEN readings ELSE SectionsStep(f, k, list, W, e[k - 1])]
    BY DEF SectionsRead
  <2> QED  BY <1>7, <1>8, <2>1
<1> QED  BY <1>2, <1>9

TextOf(f) == {i \in DOMAIN f.sects : IsText(f.sects[i])}
DataOf(f) == {i \in DOMAIN f.sects : IsData(f.sects[i])}

LEMMA TextSectionsAre ==
  ASSUME NEW f \in Files, NEW readings
  PROVE  \E g : /\ g = SectionsRead(f, Len(f.sects), "text", TextOf(f), readings, g)
                /\ ReadSections(f, readings, "text", IsText) = g[Len(f.sects)]
<1> DEFINE N == Len(f.sects)
           step(g) == [n \in 0..N |->
                         IF n = 0 THEN readings
                         ELSE UNION {IF r.ok THEN IF IsText(f.sects[n])
                                                  THEN ReadSection(f, r, n, "text") ELSE {r}
                                     ELSE {r} : r \in g[n - 1]}]
           g0 == CHOOSE g : g = step(g)
<1>1. N \in Nat /\ DOMAIN f.sects = 1..N
  BY FileIs
<1>2. ReadSections(f, readings, "text", IsText) = g0[N]
  BY DEF ReadSections, Then
<1> HIDE DEF N
<1>3. ASSUME NEW g
      PROVE  step(g) = SectionsRead(f, N, "text", TextOf(f), readings, g)
  <2>1. ASSUME NEW n \in 0..N, n # 0
        PROVE  UNION {IF r.ok THEN IF IsText(f.sects[n])
                                   THEN ReadSection(f, r, n, "text") ELSE {r}
                      ELSE {r} : r \in g[n - 1]}
                 = SectionsStep(f, n, "text", TextOf(f), g[n - 1])
    <3>1. n \in TextOf(f) <=> IsText(f.sects[n])  BY <1>1, <2>1 DEF TextOf
    <3>2. CASE IsText(f.sects[n])
      BY <3>1, <3>2 DEF SectionsStep
    <3>3. CASE ~IsText(f.sects[n])
      BY <3>1, <3>3 DEF SectionsStep
    <3> QED  BY <3>2, <3>3
  <2> QED  BY <2>1 DEF SectionsRead
<1>4. g0 = step(g0)
  <2>1. \E g : g = step(g)
    <3> HIDE DEF step
    <3> QED  BY <1>1, <1>3, SectionsCanBeRead
  <2> HIDE DEF step
  <2> QED  BY <2>1
<1> HIDE DEF g0, step
<1> QED  BY <1>2, <1>3, <1>4 DEF N

LEMMA DataSectionsAre ==
  ASSUME NEW f \in Files, NEW readings
  PROVE  \E g : /\ g = SectionsRead(f, Len(f.sects), "data", DataOf(f), readings, g)
                /\ ReadSections(f, readings, "data", IsData) = g[Len(f.sects)]
<1> DEFINE N == Len(f.sects)
           step(g) == [n \in 0..N |->
                         IF n = 0 THEN readings
                         ELSE UNION {IF r.ok THEN IF IsData(f.sects[n])
                                                  THEN ReadSection(f, r, n, "data") ELSE {r}
                                     ELSE {r} : r \in g[n - 1]}]
           g0 == CHOOSE g : g = step(g)
<1>1. N \in Nat /\ DOMAIN f.sects = 1..N
  BY FileIs
<1>2. ReadSections(f, readings, "data", IsData) = g0[N]
  BY DEF ReadSections, Then
<1> HIDE DEF N
<1>3. ASSUME NEW g
      PROVE  step(g) = SectionsRead(f, N, "data", DataOf(f), readings, g)
  <2>1. ASSUME NEW n \in 0..N, n # 0
        PROVE  UNION {IF r.ok THEN IF IsData(f.sects[n])
                                   THEN ReadSection(f, r, n, "data") ELSE {r}
                      ELSE {r} : r \in g[n - 1]}
                 = SectionsStep(f, n, "data", DataOf(f), g[n - 1])
    <3>1. n \in DataOf(f) <=> IsData(f.sects[n])  BY <1>1, <2>1 DEF DataOf
    <3>2. CASE IsData(f.sects[n])
      BY <3>1, <3>2 DEF SectionsStep
    <3>3. CASE ~IsData(f.sects[n])
      BY <3>1, <3>3 DEF SectionsStep
    <3> QED  BY <3>2, <3>3
  <2> QED  BY <2>1 DEF SectionsRead
<1>4. g0 = step(g0)
  <2>1. \E g : g = step(g)
    <3> HIDE DEF step
    <3> QED  BY <1>1, <1>3, SectionsCanBeRead
  <2> HIDE DEF step
  <2> QED  BY <2>1
<1> HIDE DEF g0, step
<1> QED  BY <1>2, <1>3, <1>4 DEF N

(* The sections wanted among the n first ones. *)
First(n, W) == {i \in W : i <= n}

LEMMA TextSectionKeeps ==
  ASSUME NEW f \in Files, NEW T \in SUBSET DOMAIN f.sects, NEW D, NEW r,
         ReadingOf(f, r, T, D), NEW i \in DOMAIN f.sects, r.ok,
         NEW q \in ReadSection(f, r, i, "text")
  PROVE  ReadingOf(f, q, T \cup {i}, D)
<1> DEFINE b == <<"text", i>>
<1>1. i \in Nat /\ b \in Block /\ DOMAIN f.sects \subseteq Nat
  BY FileIs DEF Block
<1>2. q = Failed(r) \/ q = [Take(r, b) EXCEPT !["text"] = Placed(f, r["text"], i)]
  BY DEF ReadSection
<1> HIDE DEF b
<1>3. CASE q = Failed(r)
  BY <1>1, <1>3, TakeIs, FailedIsAny
<1>4. CASE q = [Take(r, b) EXCEPT !.text = Placed(f, r.text, i)]
  <2>1. /\ Take(r, b) \in ReadingRecord /\ Take(r, b).heap = Take(r, b).held
        /\ Take(r, b).ok = r.ok /\ Take(r, b).data = r.data
    <3>1. ReadingOf(f, Take(r, b), T, D)  BY <1>1, TakeIs
    <3>2. Take(r, b).ok = r.ok  BY DEF Take, ReadingOf, ReadingRecord
    <3>3. Take(r, b).data = r.data  BY DEF Take, ReadingOf, ReadingRecord
    <3> QED  BY <3>1, <3>2, <3>3 DEF ReadingOf
  <2>2. Listed(f, r.text, T) /\ Listed(f, r.data, D)
    BY DEF ReadingOf
  <2>3. Listed(f, Placed(f, r.text, i), T \cup {i})
    BY <2>2, PlacedIs
  <2>4. Placed(f, r.text, i) \in Seq(Nat)
    <3>1. T \cup {i} \subseteq Nat  BY <1>1
    <3>2. Placed(f, r.text, i) \in Seq(T \cup {i})  BY <2>3 DEF Listed
    <3> QED  BY <3>1, <3>2, SeqMonotonic
  <2>5. q \in ReadingRecord /\ q.heap = q.held
    BY <1>4, <2>1, <2>4 DEF ReadingRecord
  <2>6. q.text = Placed(f, r.text, i) /\ q.data = r.data
    BY <1>4, <2>1 DEF ReadingRecord
  <2> QED  BY <2>2, <2>3, <2>5, <2>6 DEF ReadingOf
<1> QED  BY <1>2, <1>3, <1>4

LEMMA DataSectionKeeps ==
  ASSUME NEW f \in Files, NEW T, NEW D \in SUBSET DOMAIN f.sects, NEW r,
         ReadingOf(f, r, T, D), NEW i \in DOMAIN f.sects, r.ok,
         NEW q \in ReadSection(f, r, i, "data")
  PROVE  ReadingOf(f, q, T, D \cup {i})
<1> DEFINE b == <<"data", i>>
<1>1. i \in Nat /\ b \in Block /\ DOMAIN f.sects \subseteq Nat
  BY FileIs DEF Block
<1>2. q = Failed(r) \/ q = [Take(r, b) EXCEPT !["data"] = Placed(f, r["data"], i)]
  BY DEF ReadSection
<1> HIDE DEF b
<1>3. CASE q = Failed(r)
  BY <1>1, <1>3, TakeIs, FailedIsAny
<1>4. CASE q = [Take(r, b) EXCEPT !.data = Placed(f, r.data, i)]
  <2>1. /\ Take(r, b) \in ReadingRecord /\ Take(r, b).heap = Take(r, b).held
        /\ Take(r, b).ok = r.ok /\ Take(r, b).text = r.text
    <3>1. ReadingOf(f, Take(r, b), T, D)  BY <1>1, TakeIs
    <3>2. Take(r, b).ok = r.ok  BY DEF Take, ReadingOf, ReadingRecord
    <3>3. Take(r, b).text = r.text  BY DEF Take, ReadingOf, ReadingRecord
    <3> QED  BY <3>1, <3>2, <3>3 DEF ReadingOf
  <2>2. Listed(f, r.text, T) /\ Listed(f, r.data, D)
    BY DEF ReadingOf
  <2>3. Listed(f, Placed(f, r.data, i), D \cup {i})
    BY <2>2, PlacedIs
  <2>4. Placed(f, r.data, i) \in Seq(Nat)
    <3>1. D \cup {i} \subseteq Nat  BY <1>1
    <3>2. Placed(f, r.data, i) \in Seq(D \cup {i})  BY <2>3 DEF Listed
    <3> QED  BY <3>1, <3>2, SeqMonotonic
  <2>5. q \in ReadingRecord /\ q.heap = q.held
    BY <1>4, <2>1, <2>4 DEF ReadingRecord
  <2>6. q.data = Placed(f, r.data, i) /\ q.text = r.text
    BY <1>4, <2>1 DEF ReadingRecord
  <2> QED  BY <2>2, <2>3, <2>5, <2>6 DEF ReadingOf
<1> QED  BY <1>2, <1>3, <1>4

(* All the sections of text, and all those of data. *)
LEMMA TextSectionsKeep ==
  ASSUME NEW f \in Files, NEW D, NEW readings, \A r \in readings : ReadingOf(f, r, {}, D)
  PROVE  \A q \in ReadSections(f, readings, "text", IsText) : ReadingOf(f, q, TextOf(f), D)
<1> DEFINE N == Len(f.sects)
           W == TextOf(f)
<1>1. N \in Nat /\ DOMAIN f.sects = 1..N /\ W \in SUBSET (1..N)
  BY FileIs DEF TextOf
<1>2. PICK g : /\ g = SectionsRead(f, N, "text", W, readings, g)
               /\ ReadSections(f, readings, "text", IsText) = g[N]
  BY TextSectionsAre
<1> DEFINE Keeps(n) == \A q \in g[n] : ReadingOf(f, q, First(n, W), D)
           Bad == {n \in 0..N : ~Keeps(n)}
<1>3. Bad = {}
  <2> SUFFICES ASSUME Bad # {}  PROVE FALSE
    OBVIOUS
  <2>1. PICK n \in Bad : \A k \in Bad : n <= k
    <3>1. Bad \in SUBSET Nat  BY <1>1
    <3> HIDE DEF Bad
    <3> QED  BY <3>1, LeastOf
  <2>2. n \in 0..N /\ ~Keeps(n)
    OBVIOUS
  <2>3. n # 0
    <3> SUFFICES ASSUME n = 0  PROVE FALSE
      OBVIOUS
    <3>1. g[0] = readings  BY <1>1, <1>2 DEF SectionsRead
    <3>2. First(0, W) = {}  BY <1>1 DEF First
    <3> QED  BY <2>2, <3>1, <3>2
  <2>4. n - 1 \in 0..N /\ Keeps(n - 1)
    <3>1. n - 1 \in 0..N /\ n - 1 \notin Bad  BY <1>1, <2>1, <2>2, <2>3
    <3> QED  BY <3>1
  <2>5. g[n] = SectionsStep(f, n, "text", W, g[n - 1])
    BY <1>1, <1>2, <2>2, <2>3 DEF SectionsRead
  <2>6. /\ n \in W => First(n, W) = First(n - 1, W) \cup {n}
        /\ n \notin W => First(n, W) = First(n - 1, W)
        /\ First(n - 1, W) \in SUBSET DOMAIN f.sects
        /\ n \in DOMAIN f.sects
    <3> HIDE DEF N, W
    <3> QED  BY <1>1, <2>2, <2>3 DEF First
  <2>7. ASSUME NEW q \in g[n]  PROVE ReadingOf(f, q, First(n, W), D)
    <3>1. PICK r \in g[n - 1] :
             q \in IF r.ok /\ n \in W THEN ReadSection(f, r, n, "text") ELSE {r}
      BY <2>5 DEF SectionsStep
    <3>2. ReadingOf(f, r, First(n - 1, W), D)
      BY <2>4
    <3>3. CASE r.ok /\ n \in W
      BY <2>6, <3>1, <3>2, <3>3, TextSectionKeeps
    <3>4. CASE r.ok /\ n \notin W
      BY <2>6, <3>1, <3>2, <3>4
    <3>5. CASE ~r.ok
      BY <3>1, <3>2, <3>5, FailedIsAny
    <3> QED  BY <3>3, <3>4, <3>5
  <2> QED  BY <2>2, <2>7
<1>4. Keeps(N)
  <2>1. N \in 0..N  BY <1>1
  <2> QED  BY <1>3, <2>1
<1>5. First(N, W) = W
  BY <1>1 DEF First
<1> QED  BY <1>2, <1>4, <1>5

LEMMA DataSectionsKeep ==
  ASSUME NEW f \in Files, NEW T, NEW readings, \A r \in readings : ReadingOf(f, r, T, {})
  PROVE  \A q \in ReadSections(f, readings, "data", IsData) : ReadingOf(f, q, T, DataOf(f))
<1> DEFINE N == Len(f.sects)
           W == DataOf(f)
<1>1. N \in Nat /\ DOMAIN f.sects = 1..N /\ W \in SUBSET (1..N)
  BY FileIs DEF DataOf
<1>2. PICK g : /\ g = SectionsRead(f, N, "data", W, readings, g)
               /\ ReadSections(f, readings, "data", IsData) = g[N]
  BY DataSectionsAre
<1> DEFINE Keeps(n) == \A q \in g[n] : ReadingOf(f, q, T, First(n, W))
           Bad == {n \in 0..N : ~Keeps(n)}
<1>3. Bad = {}
  <2> SUFFICES ASSUME Bad # {}  PROVE FALSE
    OBVIOUS
  <2>1. PICK n \in Bad : \A k \in Bad : n <= k
    <3>1. Bad \in SUBSET Nat  BY <1>1
    <3> HIDE DEF Bad
    <3> QED  BY <3>1, LeastOf
  <2>2. n \in 0..N /\ ~Keeps(n)
    OBVIOUS
  <2>3. n # 0
    <3> SUFFICES ASSUME n = 0  PROVE FALSE
      OBVIOUS
    <3>1. g[0] = readings  BY <1>1, <1>2 DEF SectionsRead
    <3>2. First(0, W) = {}  BY <1>1 DEF First
    <3> QED  BY <2>2, <3>1, <3>2
  <2>4. n - 1 \in 0..N /\ Keeps(n - 1)
    <3>1. n - 1 \in 0..N /\ n - 1 \notin Bad  BY <1>1, <2>1, <2>2, <2>3
    <3> QED  BY <3>1
  <2>5. g[n] = SectionsStep(f, n, "data", W, g[n - 1])
    BY <1>1, <1>2, <2>2, <2>3 DEF SectionsRead
  <2>6. /\ n \in W => First(n, W) = First(n - 1, W) \cup {n}
        /\ n \notin W => First(n, W) = First(n - 1, W)
        /\ First(n - 1, W) \in SUBSET DOMAIN f.sects
        /\ n \in DOMAIN f.sects
    <3> HIDE DEF N, W
    <3> QED  BY <1>1, <2>2, <2>3 DEF First
  <2>7. ASSUME NEW q \in g[n]  PROVE ReadingOf(f, q, T, First(n, W))
    <3>1. PICK r \in g[n - 1] :
             q \in IF r.ok /\ n \in W THEN ReadSection(f, r, n, "data") ELSE {r}
      BY <2>5 DEF SectionsStep
    <3>2. ReadingOf(f, r, T, First(n - 1, W))
      BY <2>4
    <3>3. CASE r.ok /\ n \in W
      BY <2>6, <3>1, <3>2, <3>3, DataSectionKeeps
    <3>4. CASE r.ok /\ n \notin W
      BY <2>6, <3>1, <3>2, <3>4
    <3>5. CASE ~r.ok
      BY <3>1, <3>2, <3>5, FailedIsAny
    <3> QED  BY <3>3, <3>4, <3>5
  <2> QED  BY <2>2, <2>7
<1>4. Keeps(N)
  <2>1. N \in 0..N  BY <1>1
  <2> QED  BY <1>3, <2>1
<1>5. First(N, W) = W
  BY <1>1 DEF First
<1> QED  BY <1>2, <1>4, <1>5

-----------------------------------------------------------------------------
(* What ElfRead leaves, in the three files. *)
LEMMA NothingRead ==
  ASSUME NEW f \in Files
  PROVE  ReadingOf(f, Reading, {}, {}) /\ ReadingOf(f, Failed(Reading), {}, {})
<1>1. ReadingOf(f, Reading, {}, {})
  <2>1. Reading \in ReadingRecord /\ Reading.heap = Reading.held
    BY DEF Reading, ReadingRecord
  <2>2. Listed(f, <<>>, {})
    <3>1. <<>> \in Seq({}) /\ Len(<<>>) = 0  BY EmptySeq
    <3>2. 1..0 = {}  OBVIOUS
    <3> QED  BY <3>1, <3>2 DEF Listed
  <2>3. Reading.text = <<>> /\ Reading.data = <<>>
    BY DEF Reading
  <2> QED  BY <2>1, <2>2, <2>3 DEF ReadingOf
<1>2. \E b : b \in Block
  <2>1. <<"pgm", 0>> \in Block  BY DEF Block
  <2> QED  BY <2>1
<1> QED  BY <1>1, <1>2, TakeIs

(* A program without text is refused. *)
LEMMA TextKeeps ==
  ASSUME NEW f \in Files, NEW D, NEW readings, \A r \in readings : ReadingOf(f, r, {}, D)
  PROVE  \A q \in ElfReadTextSecs(f, readings) :
           ReadingOf(f, q, TextOf(f), D) /\ (q.ok => q.text # <<>>)
<1> TAKE q \in ElfReadTextSecs(f, readings)
<1>1. PICK r \in ReadSections(f, readings, "text", IsText) :
         q \in IF r.ok THEN ReadText(f, r) ELSE {r}
  BY DEF ElfReadTextSecs, Then
<1>2. ReadingOf(f, r, TextOf(f), D)
  BY <1>1, TextSectionsKeep
<1> DEFINE b == <<"bytes", 0>>
<1>3. b \in Block
  BY DEF Block
<1>4. CASE ~r.ok
  <2>1. q = r  BY <1>1, <1>4
  <2> QED  BY <1>2, <1>4, <2>1
<1>5. CASE r.ok
  <2>1. q = Failed(r) \/ (q = Take(r, b) /\ r.text # <<>>)
    BY <1>1, <1>5 DEF ReadText
  <2> HIDE DEF b
  <2>2. CASE q = Failed(r)
    BY <1>2, <1>3, <2>2, TakeIs
  <2>3. CASE q = Take(r, b) /\ r.text # <<>>
    <3>1. ReadingOf(f, q, TextOf(f), D)  BY <1>2, <1>3, <2>3, TakeIs
    <3>2. Take(r, b).text = r.text  BY <1>2 DEF Take, ReadingOf, ReadingRecord
    <3> QED  BY <2>3, <3>1, <3>2
  <2> QED  BY <2>1, <2>2, <2>3
<1> QED  BY <1>4, <1>5

Headers(f) == {Reading, Failed(Reading)}

LEMMA ElfReadIs ==
  ASSUME NEW f \in Files, NEW readings \in SUBSET Headers(f),
         NEW q \in ElfReadDataSecs(f, ElfReadTextSecs(f, ReadTables(f, readings)))
  PROVE  ReadingOf(f, q, TextOf(f), DataOf(f)) /\ (q.ok => TextOf(f) # {})
<1> DEFINE whole == ElfReadTextSecs(f, ReadTables(f, readings))
<1>1. \A r \in readings : ReadingOf(f, r, {}, {})
  BY NothingRead DEF Headers
<1>2. \A r \in ReadTables(f, readings) : ReadingOf(f, r, {}, {})
  BY <1>1, TablesKeep
<1>3. \A r \in whole : ReadingOf(f, r, TextOf(f), {}) /\ (r.ok => r.text # <<>>)
  BY <1>2, TextKeeps
<1> HIDE DEF whole
<1>4. ReadingOf(f, q, TextOf(f), DataOf(f))
  BY <1>3, DataSectionsKeep DEF whole, ElfReadDataSecs
<1>5. ASSUME TextOf(f) = {}  PROVE ~q.ok
  <2>1. ASSUME NEW r \in whole  PROVE ReadingOf(f, r, {-1}, {})
    <3>1. ReadingOf(f, r, {}, {}) /\ (r.ok => r.text # <<>>)
      BY <1>3, <1>5
    <3>2. r.ok => FALSE
      <4> SUFFICES ASSUME r.ok  PROVE FALSE
        OBVIOUS
      <4>1. r.text \in Seq({}) /\ r.text # <<>>  BY <3>1 DEF ReadingOf, Listed
      <4>2. Len(r.text) \in Nat \ {0}  BY <4>1, EmptySeq
      <4>3. 1 \in 1..Len(r.text)  BY <4>2
      <4> QED  BY <4>1, <4>3, ElementOfSeq
    <3> QED  BY <3>1, <3>2, FailedIsAny
  <2>2. ReadingOf(f, q, {-1}, DataOf(f))
    BY <2>1, DataSectionsKeep DEF whole, ElfReadDataSecs
  <2> SUFFICES ASSUME q.ok  PROVE FALSE
    OBVIOUS
  <2>3. q.text \in Seq(Nat) /\ \E k \in 1..Len(q.text) : q.text[k] = -1
    BY <2>2 DEF ReadingOf, ReadingRecord, Listed
  <2>4. \A k \in 1..Len(q.text) : q.text[k] \in Nat
    BY <2>3, ElementOfSeq
  <2> QED  BY <2>3, <2>4
<1> QED  BY <1>4, <1>5

-----------------------------------------------------------------------------
(* What is open: the blocks of the heap, and the sections of each handle. *)
HeapIs == heap = UNION {Of(l, handle[l].blocks \cup {Handle}) : l \in {k \in Loaders : handle[k] # NULL}}

HandleOK(r) ==
  /\ r \in OpenLoader /\ TextOf(r.file) # {}
  /\ Listed(r.file, r.text, TextOf(r.file)) /\ Listed(r.file, r.data, DataOf(r.file))
  /\ r.end = TextEnd(r.file, r.text)

HandlesOK ==
  /\ handle \in [Loaders -> OpenLoader \cup {NULL}]
  /\ \A l \in Loaders : handle[l] # NULL => HandleOK(handle[l])

LoaderInv == HeapIs /\ HandlesOK

LEMMA HeapIsOf ==
  ASSUME HeapIs, NEW x
  PROVE  x \in heap <=> \E l \in Loaders : /\ handle[l] # NULL
                                           /\ \E b \in handle[l].blocks \cup {Handle} : x = <<l, b>>
BY DEF HeapIs, Of

LEMMA TextOfIs ==
  ASSUME NEW f \in Files
  PROVE  TextOf(f) \subseteq DOMAIN f.sects /\ DataOf(f) \subseteq DOMAIN f.sects
BY DEF TextOf, DataOf

LEMMA ListedIs ==
  ASSUME NEW f, NEW l, NEW S, Listed(f, l, S)
  PROVE  /\ Len(l) \in Nat /\ DOMAIN l = 1..Len(l)
         /\ \A k \in DOMAIN l : l[k] \in S
         /\ S # {} => Len(l) \in DOMAIN l /\ 1 \in DOMAIN l
<1>1. l \in Seq(S)
  BY DEF Listed
<1>2. Len(l) \in Nat /\ DOMAIN l = 1..Len(l) /\ \A k \in DOMAIN l : l[k] \in S
  BY <1>1, LenProperties, ElementOfSeq
<1>3. S # {} => \E k \in 1..Len(l) : TRUE
  BY DEF Listed
<1> QED  BY <1>2, <1>3

LEMMA HandleMade ==
  ASSUME NEW f \in Files, NEW r, ReadingOf(f, r, TextOf(f), DataOf(f)), r.ok, TextOf(f) # {}
  PROVE  LET new == [file |-> f, text |-> r.text, data |-> r.data, blocks |-> r.held,
                     end |-> TextEnd(f, r.text)]
         IN HandleOK(new) /\ new # NULL /\ new.blocks = r.heap /\ new.file = f
<1> DEFINE new == [file |-> f, text |-> r.text, data |-> r.data, blocks |-> r.held,
                   end |-> TextEnd(f, r.text)]
<1>1. /\ r.text \in Seq(Nat) /\ r.data \in Seq(Nat) /\ r.held \in SUBSET Block
      /\ r.heap = r.held
  BY DEF ReadingOf, ReadingRecord
<1>2. Listed(f, r.text, TextOf(f)) /\ Listed(f, r.data, DataOf(f))
  BY DEF ReadingOf
<1>3. TextEnd(f, r.text) \in Nat
  <2>1. Len(r.text) \in DOMAIN r.text  BY <1>2, ListedIs
  <2>2. r.text[Len(r.text)] \in TextOf(f)  BY <1>2, <2>1, ListedIs
  <2>3. r.text[Len(r.text)] \in DOMAIN f.sects  BY <2>2, TextOfIs
  <2> QED  BY <2>3, FileIs DEF TextEnd, Last
<1>4. new \in OpenLoader
  BY <1>1, <1>3 DEF OpenLoader
<1>5. HandleOK(new)
  BY <1>2, <1>4 DEF HandleOK
<1> QED  BY <1>1, <1>4, <1>5, NullAssumption

LEMMA OpenKeeps ==
  ASSUME LoaderInv, NEW h \in Loaders, NEW f \in Files, NEW readings, Open(h, f, readings),
         \A q \in readings : /\ ReadingOf(f, q, TextOf(f), DataOf(f))
                             /\ q.ok => TextOf(f) # {}
  PROVE  /\ LoaderInv'
         /\ \A l \in Loaders : handle'[l] = handle[l] \/ handle'[l].file = f
         /\ UNCHANGED <<config, image, loaded>>
<1>1. Closed(h) /\ UNCHANGED <<config, image, loaded>>
  BY DEF Open
<1>2. ASSUME NEW r, r.heap = r.held, Refuse(h, r)
      PROVE  LoaderInv' /\ handle' = handle
  <2>1. heap' = heap /\ handle' = handle
    <3>1. ElfCleanup(r.heap, r.held) = {}  BY <1>2 DEF ElfCleanup
    <3> QED  BY <1>2, <3>1 DEF Refuse, Of
  <2> QED  BY <2>1 DEF LoaderInv, HeapIs, HandlesOK
<1>3. ASSUME NEW r \in readings, r.ok, Record(h, f, r)
      PROVE  LoaderInv' /\ \A l \in Loaders : handle'[l] = handle[l] \/ handle'[l].file = f
  <2> DEFINE new == [file |-> f, text |-> r.text, data |-> r.data, blocks |-> r.held,
                     end |-> TextEnd(f, r.text)]
  <2>1. HandleOK(new) /\ new # NULL /\ new.blocks = r.heap /\ new.file = f
    BY <1>3, HandleMade
  <2>2. handle' = [handle EXCEPT ![h] = new] /\ heap' = heap \cup Of(h, r.heap \cup {Handle})
    BY <1>3 DEF Record
  <2>3. new \in OpenLoader
    BY <2>1 DEF HandleOK
  <2> HIDE DEF new
  <2>4. /\ handle' \in [Loaders -> OpenLoader \cup {NULL}]
        /\ handle'[h] = new /\ \A l \in Loaders \ {h} : handle'[l] = handle[l]
    BY <2>2, <2>3 DEF LoaderInv, HandlesOK
  <2>5. HandlesOK'
    BY <2>1, <2>4 DEF LoaderInv, HandlesOK
  <2>6. HeapIs'
    <3>1. handle[h] = NULL  BY <1>1 DEF Closed
    <3>2. \A x : x \in heap' <=>
                 \E l \in Loaders : /\ handle'[l] # NULL
                                    /\ \E b \in handle'[l].blocks \cup {Handle} : x = <<l, b>>
      <4> TAKE x
      <4>1. x \in heap' <=> x \in heap \/ \E b \in r.heap \cup {Handle} : x = <<h, b>>
        BY <2>2 DEF Of
      <4>2. x \in heap <=> \E l \in Loaders : /\ handle[l] # NULL
                                              /\ \E b \in handle[l].blocks \cup {Handle} : x = <<l, b>>
        BY HeapIsOf DEF LoaderInv
      <4>3. ASSUME x \in heap
            PROVE  \E l \in Loaders : /\ handle'[l] # NULL
                                      /\ \E b \in handle'[l].blocks \cup {Handle} : x = <<l, b>>
        <5>1. PICK l \in Loaders : /\ handle[l] # NULL
                                   /\ \E b \in handle[l].blocks \cup {Handle} : x = <<l, b>>
          BY <4>2, <4>3
        <5>2. handle'[l] = handle[l]  BY <2>4, <3>1, <5>1
        <5> QED  BY <5>1, <5>2
      <4>4. ASSUME NEW b \in r.heap \cup {Handle}, x = <<h, b>>
            PROVE  \E l \in Loaders : /\ handle'[l] # NULL
                                      /\ \E c \in handle'[l].blocks \cup {Handle} : x = <<l, c>>
        BY <2>1, <2>4, <4>4
      <4>5. ASSUME NEW l \in Loaders, handle'[l] # NULL,
                   NEW b \in handle'[l].blocks \cup {Handle}, x = <<l, b>>
            PROVE  x \in heap'
        <5>1. CASE l = h
          BY <2>1, <2>4, <4>1, <4>5, <5>1
        <5>2. CASE l # h
          <6>1. handle'[l] = handle[l]  BY <2>4, <5>2
          <6> QED  BY <4>1, <4>2, <4>5, <6>1
        <5> QED  BY <5>1, <5>2
      <4> QED  BY <4>1, <4>3, <4>4, <4>5
    <3> QED  BY <3>2 DEF HeapIs, Of
  <2> QED  BY <2>1, <2>4, <2>5, <2>6 DEF LoaderInv
<1>4. CASE Refuse(h, Reading)
  <2>1. Reading.heap = Reading.held  BY DEF Reading
  <2> QED  BY <1>1, <1>2, <1>4, <2>1
<1>5. ASSUME NEW r \in readings,
             IF asserts /\ r.text = <<>>
             THEN stopped' = TRUE /\ UNCHANGED <<heap, handle>>
             ELSE IF r.ok THEN Record(h, f, r) ELSE Refuse(h, r)
      PROVE  LoaderInv' /\ \A l \in Loaders : handle'[l] = handle[l] \/ handle'[l].file = f
  <2>1. CASE asserts /\ r.text = <<>>
    <3>1. UNCHANGED <<heap, handle>>  BY <1>5, <2>1
    <3> QED  BY <3>1 DEF LoaderInv, HeapIs, HandlesOK
  <2>2. CASE ~(asserts /\ r.text = <<>>) /\ r.ok
    BY <1>3, <1>5, <2>2
  <2>3. CASE ~(asserts /\ r.text = <<>>) /\ ~r.ok
    <3>1. r.heap = r.held  BY DEF ReadingOf
    <3>2. Refuse(h, r)  BY <1>5, <2>3
    <3> QED  BY <1>2, <3>1, <3>2
  <2> QED  BY <2>1, <2>2, <2>3
<1> QED  BY <1>1, <1>4, <1>5 DEF Open

(* The three loaders. *)
LEMMA OpenProgramKeeps ==
  ASSUME LoaderInv, NEW h \in Loaders, NEW f \in Files,
         Open32(h, f) \/ Open64(h, f) \/ OpenToy(h, f)
  PROVE  /\ LoaderInv'
         /\ \A l \in Loaders : handle'[l] = handle[l] \/ handle'[l].file = f
         /\ UNCHANGED <<config, image, loaded>>
<1>1. Header32(f) \in SUBSET Headers(f) /\ Header64(f) \in SUBSET Headers(f)
  BY DEF Headers, Header32, Header64
<1>2. CASE Open32(h, f)
  <2>1. \A q \in ElfRead32(f) :
          ReadingOf(f, q, TextOf(f), DataOf(f)) /\ (q.ok => TextOf(f) # {})
    BY <1>1, ElfReadIs DEF ElfRead32
  <2>2. Open(h, f, ElfRead32(f))  BY <1>2 DEF Open32
  <2> HIDE DEF LoaderInv
  <2> QED  BY <2>1, <2>2, OpenKeeps
<1>3. CASE Open64(h, f)
  <2>1. \A q \in ElfRead64(f) :
          ReadingOf(f, q, TextOf(f), DataOf(f)) /\ (q.ok => TextOf(f) # {})
    BY <1>1, ElfReadIs DEF ElfRead64, ReadTables64, ElfReadTextSecs64, ElfReadDataSecs64
  <2>2. Open(h, f, ElfRead64(f))  BY <1>3 DEF Open64
  <2> QED  BY <2>1, <2>2, OpenKeeps
<1>4. CASE OpenToy(h, f)
  <2>1. \A q \in ElfReadToy(f) :
          ReadingOf(f, q, TextOf(f), DataOf(f)) /\ (q.ok => TextOf(f) # {})
    BY <1>1, ElfReadIs
       DEF ElfReadToy, HeaderToy, ReadTablesToy, ElfReadTextSecsToy, ElfReadDataSecsToy
  <2>2. Open(h, f, ElfReadToy(f))  BY <1>4 DEF OpenToy
  <2> QED  BY <2>1, <2>2, OpenKeeps
<1> QED  BY <1>2, <1>3, <1>4

LEMMA CloseKeeps ==
  ASSUME LoaderInv, NEW h \in Loaders, Close(h)
  PROVE  /\ LoaderInv'
         /\ \A l \in Loaders : handle'[l] \in {handle[l], NULL}
         /\ UNCHANGED <<config, image, loaded>>
<1> DEFINE all == handle[h].blocks \cup {Handle}
<1>1. /\ handle[h] # NULL
      /\ heap' = {b \in heap : b[1] # h} \cup
                   Of(h, {b[2] : b \in {c \in heap : c[1] = h}} \ all)
      /\ handle' = [handle EXCEPT ![h] = NULL]
      /\ UNCHANGED <<config, image, loaded>>
  BY DEF Close, IsOpen, ElfCleanup
<1>2. /\ handle' \in [Loaders -> OpenLoader \cup {NULL}]
      /\ handle'[h] = NULL /\ \A l \in Loaders \ {h} : handle'[l] = handle[l]
  BY <1>1 DEF LoaderInv, HandlesOK
<1>3. {b[2] : b \in {c \in heap : c[1] = h}} \ all = {}
  <2> SUFFICES ASSUME NEW b \in heap, b[1] = h  PROVE b[2] \in all
    OBVIOUS
  <2>1. PICK l \in Loaders : /\ handle[l] # NULL
                             /\ \E x \in handle[l].blocks \cup {Handle} : b = <<l, x>>
    BY HeapIsOf DEF LoaderInv
  <2> QED  BY <2>1
<1>4. heap' = {b \in heap : b[1] # h}
  BY <1>1, <1>3 DEF Of
<1>5. HeapIs'
  <2>1. \A x : x \in {b \in heap : b[1] # h} <=>
               \E l \in Loaders : /\ handle'[l] # NULL
                                  /\ \E b \in handle'[l].blocks \cup {Handle} : x = <<l, b>>
    <3> TAKE x
    <3>1. x \in heap <=> \E l \in Loaders : /\ handle[l] # NULL
                                            /\ \E b \in handle[l].blocks \cup {Handle} : x = <<l, b>>
      BY HeapIsOf DEF LoaderInv
    <3>2. ASSUME x \in heap, x[1] # h
          PROVE  \E l \in Loaders : /\ handle'[l] # NULL
                                    /\ \E b \in handle'[l].blocks \cup {Handle} : x = <<l, b>>
      <4>1. PICK l \in Loaders : /\ handle[l] # NULL
                                 /\ \E b \in handle[l].blocks \cup {Handle} : x = <<l, b>>
        BY <3>1, <3>2
      <4>2. l # h  BY <3>2, <4>1
      <4> QED  BY <1>2, <4>1, <4>2
    <3>3. ASSUME NEW l \in Loaders, handle'[l] # NULL,
                 NEW b \in handle'[l].blocks \cup {Handle}, x = <<l, b>>
          PROVE  x \in heap /\ x[1] # h
      <4>1. l # h  BY <1>2, <3>3
      <4>2. handle'[l] = handle[l]  BY <1>2, <4>1
      <4> QED  BY <3>1, <3>3, <4>1, <4>2
    <3> QED  BY <3>2, <3>3
  <2> QED  BY <1>4, <2>1 DEF HeapIs, Of
<1>6. HandlesOK'
  BY <1>2 DEF LoaderInv, HandlesOK
<1> QED  BY <1>1, <1>2, <1>5, <1>6 DEF LoaderInv

-----------------------------------------------------------------------------
(* The memory holds the sections of f. *)
ImageOf(f, m) ==
  \A i \in DOMAIN f.sects :
    /\ SectType(f.sects[i]) \in {"text", "data"} =>
         \A a \in Bytes(f.sects[i]) :
           m[a] = IF IsText(f.sects[i]) \/ IsData(f.sects[i]) THEN i ELSE 0
    /\ f.sects[i].bss => \A a \in Bytes(f.sects[i]) : m[a] = 0

Empty == [a \in Addr |-> 0]
Images == [Addr -> Nat]

LEMMA GreatestIs ==
  ASSUME NEW n \in Nat, NEW S \in SUBSET (1..n), S # {}
  PROVE  Max(S) \in S /\ \A m \in S : m <= Max(S)
<1> DEFINE L == {k \in Nat : n - k \in S}
<1>1. L # {}
  <2>1. PICK s \in S : TRUE  OBVIOUS
  <2>2. n - s \in Nat /\ n - (n - s) = s  OBVIOUS
  <2> QED  BY <2>1, <2>2
<1>2. PICK k \in L : \A m \in L : k <= m
  <2>1. L \in SUBSET Nat  OBVIOUS
  <2> HIDE DEF L
  <2> QED  BY <1>1, <2>1, LeastOf
<1>3. n - k \in S
  OBVIOUS
<1>4. \A s \in S : n - k >= s
  <2> TAKE s \in S
  <2>1. n - s \in Nat /\ n - (n - s) = s  OBVIOUS
  <2>2. n - s \in L  BY <2>1
  <2> QED  BY <1>2, <2>1, <2>2
<1>5. \E x \in S : \A y \in S : x >= y
  BY <1>3, <1>4
<1>6. Max(S) \in S /\ \A y \in S : Max(S) >= y
  BY <1>5 DEF Max
<1> QED  BY <1>6

(* Sections in memory do not meet. *)
LEMMA SectionsApart ==
  ASSUME NEW f \in Files, NEW i \in DOMAIN f.sects, NEW j \in DOMAIN f.sects,
         InMemory(f.sects[i]), InMemory(f.sects[j]),
         NEW a \in Bytes(f.sects[i]), a \in Bytes(f.sects[j]) \cup Zeroed(f.sects[j])
  PROVE  i = j
<1> SUFFICES ASSUME i # j  PROVE FALSE
  OBVIOUS
<1>1. (Bytes(f.sects[i]) \cup Zeroed(f.sects[i])) \cap (Bytes(f.sects[j]) \cup Zeroed(f.sects[j])) = {}
  BY LinkedAssumption
<1> QED  BY <1>1

LEMMA KindsOfSections ==
  ASSUME NEW f \in Files, NEW i \in DOMAIN f.sects
  PROVE  /\ i \in TextOf(f) \cup DataOf(f) => InMemory(f.sects[i])
         /\ SectType(f.sects[i]) \in {"text", "data"} =>
              /\ InMemory(f.sects[i]) /\ ~f.sects[i].bss
              /\ f.sects[i].type = "progbits"
         /\ i \in TextOf(f) \cup DataOf(f) <=> IsText(f.sects[i]) \/ IsData(f.sects[i])
         /\ f.sects[i].bss => InMemory(f.sects[i])
<1>1. f.sects[i] \in SectionHeader
  BY FileIs
<1>2. i \in TextOf(f) \cup DataOf(f) => InMemory(f.sects[i])
  BY DEF TextOf, DataOf, IsText, IsData, InMemory
<1>3. SectType(f.sects[i]) \in {"text", "data"} =>
        f.sects[i].type = "progbits" /\ InMemory(f.sects[i])
  BY DEF SectType, InMemory
<1>4. f.sects[i].bss => f.sects[i].type = "nobits"
  BY LinkedAssumption
<1>5. i \in TextOf(f) \cup DataOf(f) <=> IsText(f.sects[i]) \/ IsData(f.sects[i])
  BY DEF TextOf, DataOf
<1> QED  BY <1>2, <1>3, <1>4, <1>5 DEF InMemory

(* gliss_loader_load, in a memory that holds nothing. *)
LEMMA FilledIs ==
  ASSUME HandlesOK, NEW h \in Loaders, handle[h] # NULL, image = Empty
  PROVE  Filled(h) \in Images /\ ImageOf(handle[h].file, Filled(h))
<1> DEFINE f == handle[h].file
           text == handle[h].text
           data == handle[h].data
           secs == text \o data
           over(a) == {k \in DOMAIN secs : a \in Bytes(f.sects[secs[k]])}
           All == TextOf(f) \cup DataOf(f)
<1>1. HandleOK(handle[h]) /\ f \in Files
  BY DEF HandlesOK, HandleOK, OpenLoader
<1>2. text \in Seq(All) /\ data \in Seq(All)
  <2>1. text \in Seq(TextOf(f)) /\ data \in Seq(DataOf(f))  BY <1>1 DEF HandleOK, Listed
  <2> QED  BY <2>1, SeqMonotonic
<1>3. /\ secs \in Seq(All) /\ Len(secs) \in Nat /\ DOMAIN secs = 1..Len(secs)
      /\ Len(secs) = Len(text) + Len(data) /\ Len(text) \in Nat /\ Len(data) \in Nat
      /\ \A k \in 1..Len(secs) : secs[k] \in All
  <2>1. Len(text) \in Nat /\ Len(data) \in Nat  BY <1>2, LenProperties
  <2> HIDE DEF text, data, All
  <2>2. secs \in Seq(All) /\ Len(secs) = Len(text) + Len(data)
    BY <1>2, ConcatProperties
  <2> HIDE DEF secs
  <2>3. Len(secs) \in Nat /\ DOMAIN secs = 1..Len(secs)  BY <2>2, LenProperties
  <2>4. \A k \in 1..Len(secs) : secs[k] \in All  BY <2>2, ElementOfSeq
  <2> QED  BY <2>1, <2>2, <2>3, <2>4
<1>4. \A i \in All : \E k \in DOMAIN secs : secs[k] = i
  <2> TAKE i \in All
  <2>1. CASE i \in TextOf(f)
    <3>1. PICK k \in 1..Len(text) : text[k] = i  BY <1>1, <2>1 DEF HandleOK, Listed
    <3>2. k \in 1..Len(secs) /\ k <= Len(text) /\ k \in 1..Len(text) + Len(data)
      <4> HIDE DEF secs, text, data
      <4> QED  BY <1>3, <3>1
    <3> HIDE DEF text, data, All
    <3>3. secs[k] = text[k]  BY <1>2, <3>2, ConcatProperties
    <3> HIDE DEF secs
    <3> QED  BY <1>3, <3>1, <3>2, <3>3
  <2>2. CASE i \in DataOf(f)
    <3>1. PICK m \in 1..Len(data) : data[m] = i  BY <1>1, <2>2 DEF HandleOK, Listed
    <3>2. PICK k : k = Len(text) + m  OBVIOUS
    <3>3. k \in 1..Len(secs) /\ ~(k <= Len(text)) /\ k - Len(text) = m /\ k \in 1..Len(text) + Len(data)
      <4> HIDE DEF secs, text, data
      <4> QED  BY <1>3, <3>1, <3>2
    <3> HIDE DEF text, data, All
    <3>4. secs[k] = data[k - Len(text)]  BY <1>2, <3>3, ConcatProperties
    <3> HIDE DEF secs
    <3> QED  BY <1>3, <3>1, <3>3, <3>4
  <2> QED  BY <2>1, <2>2
<1>5. All \subseteq DOMAIN f.sects
  BY <1>1, TextOfIs
<1>6. /\ Filled(h) = [a \in Addr |->
          IF zeroes /\ a \in ZeroedBy(f) THEN 0
          ELSE IF over(a) = {} THEN image[a] ELSE ByteOf(f, secs[Max(over(a))])]
  BY DEF Filled, Written
<1> HIDE DEF secs, All, text, data
<1>7. \A a : over(a) # {} => Max(over(a)) \in over(a)
  <2> TAKE a
  <2>1. over(a) \in SUBSET (1..Len(secs))  BY <1>3
  <2> HIDE DEF over
  <2> QED  BY <1>3, <2>1, GreatestIs
<1>8. \A a : over(a) # {} => /\ secs[Max(over(a))] \in All
                             /\ a \in Bytes(f.sects[secs[Max(over(a))]])
  <2> TAKE a
  <2> HAVE over(a) # {}
  <2>1. Max(over(a)) \in over(a)  BY <1>7
  <2>2. Max(over(a)) \in DOMAIN secs /\ a \in Bytes(f.sects[secs[Max(over(a))]])  BY <2>1
  <2> QED  BY <1>3, <2>2
<1>9. Filled(h) \in Images
  <2>1. ASSUME NEW a \in Addr
        PROVE  (IF zeroes /\ a \in ZeroedBy(f) THEN 0
                ELSE IF over(a) = {} THEN image[a] ELSE ByteOf(f, secs[Max(over(a))])) \in Nat
    <3>1. image[a] \in Nat  BY DEF Empty
    <3>2. over(a) # {} => ByteOf(f, secs[Max(over(a))]) \in Nat
      <4> HIDE DEF over
      <4>1. over(a) # {} => secs[Max(over(a))] \in DOMAIN f.sects  BY <1>5, <1>8
      <4>2. DOMAIN f.sects \subseteq Nat  BY <1>1, FileIs
      <4> QED  BY <4>1, <4>2 DEF ByteOf
    <3> QED  BY <3>1, <3>2
  <2> QED  BY <1>6, <2>1 DEF Images
<1>10. ASSUME NEW i \in DOMAIN f.sects, NEW a \in Bytes(f.sects[i]), InMemory(f.sects[i])
       PROVE  /\ a \in Addr
              /\ over(a) # {} => secs[Max(over(a))] = i
  <2>1. a \in Addr
    <3>1. /\ f.sects[i].at \in Nat /\ End(f.sects[i]) \in Nat /\ End(f.sects[i]) <= Space
      BY <1>1, FileIs
    <3> QED  BY <3>1, SpaceAssumption DEF Bytes, Addr
  <2>2. ASSUME over(a) # {}  PROVE secs[Max(over(a))] = i
    <3> DEFINE j == secs[Max(over(a))]
    <3>1. j \in All /\ a \in Bytes(f.sects[j])  BY <1>8, <2>2
    <3> HIDE DEF j
    <3>2. j \in DOMAIN f.sects /\ InMemory(f.sects[j])
      BY <1>1, <1>5, <3>1, KindsOfSections DEF All
    <3>3. i = j  BY <1>1, <1>10, <3>1, <3>2, SectionsApart
    <3> QED  BY <3>3 DEF j
  <2> QED  BY <2>1, <2>2
<1>11. ASSUME NEW i \in DOMAIN f.sects, NEW a \in Bytes(f.sects[i]),
              SectType(f.sects[i]) \in {"text", "data"}
       PROVE  Filled(h)[a] = IF IsText(f.sects[i]) \/ IsData(f.sects[i]) THEN i ELSE 0
  <2>1. /\ InMemory(f.sects[i]) /\ ~f.sects[i].bss /\ f.sects[i].type = "progbits"
        /\ i \in All <=> IsText(f.sects[i]) \/ IsData(f.sects[i])
    BY <1>1, <1>11, KindsOfSections DEF All
  <2>2. a \notin ZeroedBy(f)
    <3> SUFFICES ASSUME NEW j \in DOMAIN f.sects, a \in Zeroed(f.sects[j])  PROVE FALSE
      BY DEF ZeroedBy
    <3>1. f.sects[j].type = "nobits"  BY DEF Zeroed
    <3>2. InMemory(f.sects[j])  BY <3>1 DEF InMemory
    <3>3. i = j  BY <1>1, <2>1, <3>2, SectionsApart
    <3> QED  BY <2>1, <3>1, <3>3
  <2>3. a \in Addr /\ (over(a) # {} => secs[Max(over(a))] = i)
    BY <1>10, <2>1
  <2>4. CASE i \in All
    <3>1. PICK k \in DOMAIN secs : secs[k] = i  BY <1>4, <2>4
    <3>2. over(a) # {}
      <4>1. k \in over(a)  BY <3>1
      <4> QED  BY <4>1
    <3> HIDE DEF over
    <3>3. Filled(h)[a] = ByteOf(f, i)  BY <1>6, <2>2, <2>3, <3>2
    <3> QED  BY <2>1, <2>4, <3>3 DEF ByteOf
  <2>5. CASE i \notin All
    <3>1. over(a) = {}
      <4>1. over(a) # {} => secs[Max(over(a))] \in All  BY <1>8
      <4> HIDE DEF over
      <4> QED  BY <2>3, <2>5, <4>1
    <3>2. image[a] = 0  BY <2>3 DEF Empty
    <3> HIDE DEF over
    <3>3. Filled(h)[a] = 0  BY <1>6, <2>2, <2>3, <3>1, <3>2
    <3> QED  BY <2>1, <2>5, <3>3
  <2> QED  BY <2>4, <2>5
<1>12. ASSUME NEW i \in DOMAIN f.sects, NEW a \in Bytes(f.sects[i]), f.sects[i].bss
       PROVE  Filled(h)[a] = 0
  <2>1. InMemory(f.sects[i])  BY <1>1, <1>12, KindsOfSections
  <2>2. a \in Addr /\ (over(a) # {} => secs[Max(over(a))] = i)  BY <1>10, <2>1
  <2>3. image[a] = 0  BY <2>2 DEF Empty
  <2>4. ByteOf(f, i) = 0  BY <1>12 DEF ByteOf
  <2> HIDE DEF over
  <2> QED  BY <1>6, <2>2, <2>3, <2>4
<1>13. ImageOf(f, Filled(h))
  BY <1>11, <1>12 DEF ImageOf
<1> QED  BY <1>9, <1>13

(* The text: the last section of the list ends above the others. *)
LEMMA TextOfHandleFits ==
  ASSUME HandlesOK, NEW h \in Loaders, handle[h] # NULL,
         NEW k \in DOMAIN handle[h].text
  PROVE  LET f == handle[h].file
             text == handle[h].text
         IN /\ f.sects[text[k]].at >= f.sects[text[1]].at
            /\ End(f.sects[text[k]]) <= handle[h].end
<1> DEFINE f == handle[h].file
           text == handle[h].text
           n == Len(text)
           s == f.sects[text[k]]
           last == f.sects[text[n]]
<1>1. /\ f \in Files /\ Listed(f, text, TextOf(f)) /\ TextOf(f) # {}
      /\ handle[h].end = TextEnd(f, text)
  BY DEF HandlesOK, HandleOK, OpenLoader
<1> HIDE DEF f, text
<1>2. /\ n \in Nat /\ DOMAIN text = 1..n /\ n \in DOMAIN text /\ 1 \in DOMAIN text
      /\ \A m \in DOMAIN text : text[m] \in TextOf(f)
  BY <1>1, ListedIs
<1>3. \A m \in DOMAIN text : text[m] \in DOMAIN f.sects /\ IsText(f.sects[text[m]])
  BY <1>2 DEF TextOf
<1>4. \A m \in DOMAIN text : /\ f.sects[text[m]].at \in Nat /\ f.sects[text[m]].size \in Nat
                             /\ f.sects[text[m]].size > 0 /\ InMemory(f.sects[text[m]])
  <2> TAKE m \in DOMAIN text
  <2>1. f.sects[text[m]].at \in Nat /\ f.sects[text[m]].size \in Nat  BY <1>1, <1>3, FileIs
  <2>2. f.sects[text[m]].size > 0  BY <1>1, <1>3, LinkedAssumption
  <2>3. InMemory(f.sects[text[m]])  BY <1>3 DEF IsText, InMemory
  <2> QED  BY <2>1, <2>2, <2>3
<1>5. k \in DOMAIN text
  BY DEF text
<1>6. \A l, m \in 1..n : l < m => f.sects[text[l]].at <= f.sects[text[m]].at
  BY <1>1 DEF Listed
<1>7. f.sects[text[k]].at >= f.sects[text[1]].at
  <2>1. k = 1 \/ 1 < k  BY <1>2, <1>5
  <2> QED  BY <1>2, <1>4, <1>5, <1>6, <2>1
<1>8. s.at <= last.at
  <2>1. k = n \/ k < n  BY <1>2, <1>5
  <2> QED  BY <1>2, <1>4, <1>5, <1>6, <2>1
<1>9. /\ s.at \in Nat /\ s.size \in Nat /\ last.at \in Nat /\ last.size \in Nat /\ last.size > 0
  BY <1>2, <1>4, <1>5
<1>10. End(s) <= End(last)
  <2>1. CASE text[k] = text[n]
    BY <1>9, <2>1 DEF End
  <2>2. CASE text[k] # text[n]
    <3>1. last.at \in Bytes(last)  BY <1>9 DEF Bytes, End
    <3>2. last.at \notin Bytes(s)
      <4> SUFFICES ASSUME last.at \in Bytes(s)  PROVE FALSE
        OBVIOUS
      <4>1. /\ text[k] \in DOMAIN f.sects /\ text[n] \in DOMAIN f.sects
            /\ InMemory(s) /\ InMemory(last)
        BY <1>2, <1>3, <1>4, <1>5
      <4>2. last.at \in Bytes(last) \cup Zeroed(last)  BY <3>1
      <4>3. text[k] = text[n]  BY <1>1, <4>1, <4>2, SectionsApart
      <4> QED  BY <2>2, <4>3
    <3> HIDE DEF s, last
    <3>3. ~(last.at <= s.at + s.size - 1)  BY <1>8, <1>9, <3>2 DEF Bytes, End
    <3>4. s.at + s.size <= last.at + last.size  BY <1>9, <3>3
    <3> QED  BY <3>4 DEF End
  <2> QED  BY <2>1, <2>2
<1>11. handle[h].end = End(last)
  BY <1>1 DEF TextEnd, Last
<1> QED  BY <1>7, <1>10, <1>11 DEF f, text

-----------------------------------------------------------------------------
(* FoldLeft goes through the sets of the first indexes: a function on all  *)
(* the sets of indexes takes their greatest off, one after the other.      *)
Steps(n, A) == [1..n -> [A -> A]]
Folds(A, b, n, F) ==
  \E g \in [SUBSET (1..n) -> A] :
    /\ g[{}] = b
    /\ \A s \in SUBSET (1..n) : s # {} => g[s] = F[Max(s)][g[s \ {Max(s)}]]

LEMMA SubsetRecursion ==
  ASSUME NEW A, NEW b \in A, NEW n \in Nat, NEW F \in Steps(n, A)
  PROVE  Folds(A, b, n, F)
<1> DEFINE Good(m) ==
             \E g \in [SUBSET (1..m) -> A] :
               /\ g[{}] = b
               /\ \A s \in SUBSET (1..m) : s # {} => g[s] = F[Max(s)][g[s \ {Max(s)}]]
           Bad == {m \in 0..n : ~Good(m)}
<1> SUFFICES ASSUME Bad # {}  PROVE FALSE
  <2> SUFFICES Good(n)
    BY DEF Folds
  <2> HIDE DEF Good
  <2>1. n \in 0..n  OBVIOUS
  <2> QED  BY <2>1
<1>1. PICK m \in Bad : \A k \in Bad : m <= k
  <2>1. Bad \in SUBSET Nat  OBVIOUS
  <2> HIDE DEF Bad
  <2> QED  BY <2>1, LeastOf
<1>2. m \in 0..n /\ ~Good(m)
  <2> HIDE DEF Good
  <2> QED  OBVIOUS
<1>3. m # 0
  <2> SUFFICES ASSUME m = 0  PROVE Good(0)
    BY <1>2
  <2> DEFINE g == [s \in SUBSET (1..0) |-> b]
  <2>1. 1..0 = {}  OBVIOUS
  <2>2. g \in [SUBSET (1..0) -> A] /\ g[{}] = b  OBVIOUS
  <2>3. \A s \in SUBSET (1..0) : s = {}  BY <2>1
  <2> HIDE DEF g
  <2> QED  BY <2>2, <2>3
<1>4. m - 1 \in 0..n /\ Good(m - 1) /\ m \in 1..n
  <2> HIDE DEF Good
  <2>1. m - 1 \in 0..n /\ m \in 1..n  BY <1>2, <1>3
  <2>2. m - 1 \notin Bad
    <3> HIDE DEF Bad
    <3> QED  BY <1>1, <2>1
  <2> QED  BY <2>1, <2>2
<1>5. PICK g \in [SUBSET (1..m - 1) -> A] :
        /\ g[{}] = b
        /\ \A s \in SUBSET (1..m - 1) : s # {} => g[s] = F[Max(s)][g[s \ {Max(s)}]]
  BY <1>4
<1> DEFINE e == [s \in SUBSET (1..m) |-> IF m \in s THEN F[m][g[s \ {m}]] ELSE g[s]]
<1>6. \A s \in SUBSET (1..m) : /\ s \ {m} \in SUBSET (1..m - 1)
                               /\ m \notin s => s \in SUBSET (1..m - 1)
  BY <1>4
<1>7. e \in [SUBSET (1..m) -> A]
  <2> SUFFICES ASSUME NEW s \in SUBSET (1..m)
               PROVE  (IF m \in s THEN F[m][g[s \ {m}]] ELSE g[s]) \in A
    OBVIOUS
  <2>1. g[s \ {m}] \in A  BY <1>5, <1>6
  <2>2. F[m] \in [A -> A]  BY <1>4 DEF Steps
  <2>3. F[m][g[s \ {m}]] \in A  BY <2>1, <2>2
  <2>4. m \notin s => g[s] \in A  BY <1>5, <1>6
  <2> QED  BY <2>3, <2>4
<1>8. e[{}] = b
  BY <1>5
<1>9. ASSUME NEW s \in SUBSET (1..m), s # {}
      PROVE  e[s] = F[Max(s)][e[s \ {Max(s)}]]
  <2>0. m \in Nat  BY <1>2
  <2>1. Max(s) \in s /\ \A k \in s : k <= Max(s)
    BY <1>9, <2>0, GreatestIs
  <2>2. CASE m \in s
    <3>1. Max(s) = m
      <4>1. m <= Max(s) /\ Max(s) \in 1..m  BY <2>1, <2>2
      <4> QED  BY <2>0, <4>1
    <3>2. e[s] = F[m][g[s \ {m}]]  BY <2>2
    <3>3. e[s \ {m}] = g[s \ {m}]
      <4>1. s \ {m} \in SUBSET (1..m) /\ m \notin s \ {m}  OBVIOUS
      <4> QED  BY <4>1
    <3> QED  BY <3>1, <3>2, <3>3
  <2>3. CASE m \notin s
    <3>1. s \in SUBSET (1..m - 1)  BY <1>6, <2>3
    <3>2. g[s] = F[Max(s)][g[s \ {Max(s)}]]  BY <1>5, <1>9, <3>1
    <3>3. e[s] = g[s]  BY <2>3
    <3>4. e[s \ {Max(s)}] = g[s \ {Max(s)}]
      <4>1. s \ {Max(s)} \in SUBSET (1..m) /\ m \notin s \ {Max(s)}  BY <2>3
      <4> QED  BY <4>1
    <3> QED  BY <3>2, <3>3, <3>4
  <2> QED  BY <2>2, <2>3
<1>10. Good(m)
  <2> HIDE DEF e
  <2> QED  BY <1>7, <1>8, <1>9
<1> QED  BY <1>2, <1>10

LEMMA FirstOnes ==
  ASSUME NEW n \in Nat, NEW k \in 1..n
  PROVE  /\ 1..k \in SUBSET (1..n) /\ 1..k # {} /\ Max(1..k) = k
         /\ (1..k) \ {k} = 1..k - 1 /\ 1..k - 1 \in SUBSET (1..n)
<1>1. 1..k \in SUBSET (1..k) /\ 1..k # {} /\ k \in Nat /\ k \in 1..k
  OBVIOUS
<1>2. Max(1..k) \in 1..k /\ k <= Max(1..k)
  BY <1>1, GreatestIs
<1>3. Max(1..k) = k
  BY <1>2
<1>4. (1..k) \ {k} = 1..k - 1
  OBVIOUS
<1> QED  BY <1>1, <1>3, <1>4

(* SizeOf is a sum. *)
LEMMA SizeOfIs ==
  ASSUME NEW strings, NEW n \in Nat, strings \in Seq(String), n = Len(strings)
  PROVE  \E h : /\ h[0] = 0 /\ h[n] = SizeOf(strings)
                /\ \A k \in 1..n : h[k] = h[k - 1] + Len(strings[k]) + 1
<1> DEFINE step(g) == [s \in SUBSET DOMAIN strings |->
                         IF s = {} THEN 0
                         ELSE g[s \ {Max(s)}] + Len(strings[Max(s)]) + 1]
           g0 == CHOOSE g : g = step(g)
           F == [k \in 1..n |-> [x \in Nat |-> x + Len(strings[k]) + 1]]
<1>1. DOMAIN strings = 1..n /\ \A k \in 1..n : Len(strings[k]) \in Nat
  <2>1. DOMAIN strings = 1..n /\ \A k \in 1..n : strings[k] \in String
    BY LenProperties, ElementOfSeq
  <2> QED  BY <2>1, LenProperties DEF String
<1>2. SizeOf(strings) = g0[DOMAIN strings]
  BY DEF SizeOf, FoldLeft, MapThenFoldSet
<1>3. F \in [1..n -> [Nat -> Nat]] /\ \A k \in 1..n, x \in Nat : F[k][x] = x + Len(strings[k]) + 1
  BY <1>1
<1> HIDE DEF F
<1>4. PICK g \in [SUBSET (1..n) -> Nat] :
        /\ g[{}] = 0
        /\ \A s \in SUBSET (1..n) : s # {} => g[s] = F[Max(s)][g[s \ {Max(s)}]]
  <2>1. F \in Steps(n, Nat) /\ n \in Nat  BY <1>3, LenProperties DEF Steps
  <2>2. Folds(Nat, 0, n, F)  BY <2>1, SubsetRecursion
  <2> QED  BY <2>2 DEF Folds
<1>5. g = step(g)
  <2>1. ASSUME NEW s \in SUBSET (1..n), s # {}
        PROVE  g[s] = g[s \ {Max(s)}] + Len(strings[Max(s)]) + 1
    <3>1. Max(s) \in 1..n  BY <2>1, GreatestIs
    <3>2. s \ {Max(s)} \in SUBSET (1..n)  OBVIOUS
    <3>3. g[s \ {Max(s)}] \in Nat  BY <3>2
    <3> QED  BY <1>3, <1>4, <2>1, <3>1, <3>3
  <2>2. g = [s \in SUBSET (1..n) |-> g[s]]  OBVIOUS
  <2> QED  BY <1>1, <1>4, <2>1, <2>2
<1>6. g0 = step(g0)
  <2> HIDE DEF step
  <2> QED  BY <1>5
<1> HIDE DEF g0
<1>7. /\ g0[{}] = 0
      /\ \A k \in 1..n : g0[1..k] = g0[1..k - 1] + Len(strings[k]) + 1
  <2>1. g0[{}] = 0  BY <1>6
  <2>2. ASSUME NEW k \in 1..n
        PROVE  g0[1..k] = g0[1..k - 1] + Len(strings[k]) + 1
    <3>1. /\ 1..k \in SUBSET (1..n) /\ 1..k # {} /\ Max(1..k) = k /\ (1..k) \ {k} = 1..k - 1
      BY FirstOnes
    <3>2. g0[1..k] = g0[(1..k) \ {Max(1..k)}] + Len(strings[Max(1..k)]) + 1
      BY <1>1, <1>6, <3>1
    <3> QED  BY <3>1, <3>2
  <2> QED  BY <2>1, <2>2
<1> DEFINE h == [k \in 0..n |-> g0[1..k]]
<1>8. h[0] = 0 /\ h[n] = SizeOf(strings) /\ \A k \in 1..n : h[k] = h[k - 1] + Len(strings[k]) + 1
  <2>1. 1..0 = {} /\ 0 \in 0..n /\ n \in 0..n /\ \A k \in 1..n : k \in 0..n /\ k - 1 \in 0..n
    OBVIOUS
  <2> QED  BY <1>1, <1>2, <1>7, <2>1
<1> QED  BY <1>8

-----------------------------------------------------------------------------
(* What PUSH32 and the PUSH8 of a string leave in the memory. *)
PointsAt(m, a, n) == m[a] = n /\ m[a + 1] = 0 /\ m[a + 2] = 0 /\ m[a + 3] = 0

HoldsString(m, a, s) == m[a + Len(s)] = 0 /\ \A i \in 1..Len(s) : m[a + i - 1] = s[i]

LEMMA Put32Is ==
  ASSUME NEW mem \in Images, NEW p \in Nat, NEW n \in Nat
  PROVE  /\ Put32(mem, p, n) \in Images
         /\ p + 4 <= Space => PointsAt(Put32(mem, p, n), p, n)
         /\ \A x \in Addr : x \notin p..p + 3 => Put32(mem, p, n)[x] = mem[x]
<1> DEFINE m1 == [mem EXCEPT ![p] = n]
           m2 == [m1 EXCEPT ![p + 1] = 0]
           m3 == [m2 EXCEPT ![p + 2] = 0]
           m4 == [m3 EXCEPT ![p + 3] = 0]
<1>1. m1 \in Images /\ m2 \in Images /\ m3 \in Images /\ m4 \in Images
  BY DEF Images
<1>2. Put32(mem, p, n) = m4
  BY DEF Put32
<1>3. \A x \in Addr : x \notin p..p + 3 => m4[x] = mem[x]
  <2> TAKE x \in Addr
  <2> HAVE x \notin p..p + 3
  <2>1. x # p /\ x # p + 1 /\ x # p + 2 /\ x # p + 3  OBVIOUS
  <2> QED  BY <1>1, <2>1 DEF Images
<1>4. p + 4 <= Space => m4[p] = n /\ m4[p + 1] = 0 /\ m4[p + 2] = 0 /\ m4[p + 3] = 0
  <2> HAVE p + 4 <= Space
  <2>1. p \in Addr /\ p + 1 \in Addr /\ p + 2 \in Addr /\ p + 3 \in Addr
    BY SpaceAssumption DEF Addr
  <2>2. p # p + 1 /\ p # p + 2 /\ p # p + 3 /\ p + 1 # p + 2 /\ p + 1 # p + 3 /\ p + 2 # p + 3
    OBVIOUS
  <2>3. m1[p] = n /\ m2[p + 1] = 0 /\ m3[p + 2] = 0 /\ m4[p + 3] = 0
    BY <1>1, <2>1 DEF Images
  <2>4. m2[p] = m1[p] /\ m3[p] = m2[p] /\ m4[p] = m3[p]  BY <1>1, <2>1, <2>2 DEF Images
  <2>5. m3[p + 1] = m2[p + 1] /\ m4[p + 1] = m3[p + 1]  BY <1>1, <2>1, <2>2 DEF Images
  <2>6. m4[p + 2] = m3[p + 2]  BY <1>1, <2>1, <2>2 DEF Images
  <2> QED  BY <2>3, <2>4, <2>5, <2>6
<1> HIDE DEF m4
<1> QED  BY <1>1, <1>2, <1>3, <1>4 DEF PointsAt

LEMMA PutStringIs ==
  ASSUME NEW mem \in Images, NEW q \in Nat, NEW s \in String
  PROVE  /\ PutString(mem, q, s) \in Images
         /\ q + Len(s) < Space => HoldsString(PutString(mem, q, s), q, s)
         /\ \A x \in Addr : x \notin q..q + Len(s) => PutString(mem, q, s)[x] = mem[x]
<1> DEFINE e == Append(s, 0)
<1>1. s \in Seq(Nat) /\ Len(s) \in Nat /\ \A i \in 1..Len(s) : s[i] \in Nat
  <2>1. \A i \in 1..Len(s) : s[i] \in Character  BY ElementOfSeq DEF String
  <2>2. Len(s) \in Nat  BY LenProperties DEF String
  <2>3. s \in Seq(Nat)
    <3>1. s \in Seq(Character) /\ DOMAIN s = 1..Len(s)  BY LenProperties DEF String
    <3>2. s \in [1..Len(s) -> Character]  BY <3>1, LenProperties
    <3>3. \A c \in Character : c \in Nat  BY DEF Character
    <3>4. s \in [1..Len(s) -> Nat]  BY <3>2, <3>3
    <3> QED  BY <2>2, <3>4, SeqDef
  <2> QED  BY <2>1, <2>2, <2>3 DEF Character
<1>2. /\ Len(e) = Len(s) + 1 /\ e[Len(s) + 1] = 0
      /\ \A i \in 1..Len(s) : e[i] = s[i]
      /\ \A i \in 1..Len(s) + 1 : e[i] \in Nat
  <2>1. e \in Seq(Nat)  BY <1>1
  <2>2. Len(e) = Len(s) + 1  BY <1>1
  <2>3. \A i \in 1..Len(e) : e[i] \in Nat  BY <2>1, ElementOfSeq
  <2>4. e[Len(s) + 1] = 0 /\ \A i \in 1..Len(s) : e[i] = s[i]  BY <1>1
  <2> QED  BY <2>2, <2>3, <2>4
<1> HIDE DEF e
<1>3. PutString(mem, q, s) = [x \in Addr |-> IF x \in q..q + Len(s) THEN e[x - q + 1] ELSE mem[x]]
  BY DEF PutString, e
<1>4. \A x \in Addr : x \in q..q + Len(s) => x - q + 1 \in 1..Len(s) + 1
  BY <1>1 DEF Addr
<1>5. PutString(mem, q, s) \in Images
  <2> SUFFICES ASSUME NEW x \in Addr
               PROVE  (IF x \in q..q + Len(s) THEN e[x - q + 1] ELSE mem[x]) \in Nat
    BY <1>3 DEF Images
  <2> QED  BY <1>2, <1>4 DEF Images
<1>6. ASSUME q + Len(s) < Space
      PROVE  HoldsString(PutString(mem, q, s), q, s)
  <2>1. \A i \in 1..Len(s) + 1 : /\ q + i - 1 \in Addr /\ q + i - 1 \in q..q + Len(s)
                                 /\ (q + i - 1) - q + 1 = i
    BY <1>1, <1>6, SpaceAssumption DEF Addr
  <2>2. \A i \in 1..Len(s) + 1 : PutString(mem, q, s)[q + i - 1] = e[i]
    BY <1>3, <2>1
  <2>3. Len(s) + 1 \in 1..Len(s) + 1 /\ q + (Len(s) + 1) - 1 = q + Len(s)  BY <1>1
  <2>4. PutString(mem, q, s)[q + Len(s)] = 0  BY <1>2, <2>2, <2>3
  <2>5. \A i \in 1..Len(s) : PutString(mem, q, s)[q + i - 1] = s[i]
    <3> TAKE i \in 1..Len(s)
    <3>1. i \in 1..Len(s) + 1  BY <1>1
    <3> QED  BY <1>2, <2>2, <3>1
  <2> QED  BY <2>4, <2>5 DEF HoldsString
<1> QED  BY <1>3, <1>5, <1>6

(* The step of PutStrings. *)
Pushed == [mem : Images, ptr : Nat, str : Nat]
Push(at, s) == [mem |-> PutString(Put32(at.mem, at.ptr, at.str), at.str, s),
                ptr |-> at.ptr + 4, str |-> at.str + Len(s) + 1]

LEMMA PushIs ==
  ASSUME NEW at \in Pushed, NEW s \in String
  PROVE  /\ Push(at, s) \in Pushed
         /\ \A x \in Addr : x \notin at.ptr..at.ptr + 3 /\ x \notin at.str..at.str + Len(s)
              => Push(at, s).mem[x] = at.mem[x]
         /\ at.ptr + 4 <= at.str /\ at.str + Len(s) < Space =>
              /\ PointsAt(Push(at, s).mem, at.ptr, at.str)
              /\ HoldsString(Push(at, s).mem, at.str, s)
<1> DEFINE m1 == Put32(at.mem, at.ptr, at.str)
           m2 == PutString(m1, at.str, s)
<1>1. at.mem \in Images /\ at.ptr \in Nat /\ at.str \in Nat
  BY DEF Pushed
<1>2. Len(s) \in Nat
  BY LenProperties DEF String
<1>3. /\ m1 \in Images
      /\ at.ptr + 4 <= Space => PointsAt(m1, at.ptr, at.str)
      /\ \A x \in Addr : x \notin at.ptr..at.ptr + 3 => m1[x] = at.mem[x]
  BY <1>1, Put32Is
<1> HIDE DEF m1
<1>4. /\ m2 \in Images
      /\ at.str + Len(s) < Space => HoldsString(m2, at.str, s)
      /\ \A x \in Addr : x \notin at.str..at.str + Len(s) => m2[x] = m1[x]
  BY <1>1, <1>3, PutStringIs
<1>5. Push(at, s) = [mem |-> m2, ptr |-> at.ptr + 4, str |-> at.str + Len(s) + 1]
  BY DEF Push, m1
<1> HIDE DEF m2
<1>6. Push(at, s).mem = m2
  BY <1>5
<1>7. Push(at, s) \in Pushed
  BY <1>1, <1>2, <1>4, <1>5 DEF Pushed
<1>8. ASSUME at.ptr + 4 <= at.str, at.str + Len(s) < Space
      PROVE  PointsAt(m2, at.ptr, at.str)
  <2>1. \A x \in at.ptr..at.ptr + 3 : x \in Addr /\ x \notin at.str..at.str + Len(s)
    BY <1>1, <1>2, <1>8, SpaceAssumption DEF Addr
  <2>2. \A x \in at.ptr..at.ptr + 3 : m2[x] = m1[x]
    BY <1>4, <2>1
  <2>3. PointsAt(m1, at.ptr, at.str)
    BY <1>1, <1>2, <1>3, <1>8, SpaceAssumption
  <2>4. at.ptr \in at.ptr..at.ptr + 3 /\ at.ptr + 1 \in at.ptr..at.ptr + 3
        /\ at.ptr + 2 \in at.ptr..at.ptr + 3 /\ at.ptr + 3 \in at.ptr..at.ptr + 3
    BY <1>1
  <2> QED  BY <2>2, <2>3, <2>4 DEF PointsAt
<1> QED  BY <1>3, <1>4, <1>6, <1>7, <1>8

(* PutStrings pushes the strings one after the other. *)
LEMMA PushesAre ==
  ASSUME NEW mem \in Images, NEW ptr \in Nat, NEW str \in Nat,
         NEW strings \in Seq(String), NEW n, n = Len(strings)
  PROVE  \E r \in [0..n -> Pushed] :
           /\ r[0] = [mem |-> mem, ptr |-> ptr, str |-> str]
           /\ \A k \in 1..n : r[k] = Push(r[k - 1], strings[k])
           /\ PutStrings(mem, ptr, str, strings)
                = [r[n] EXCEPT !.mem = Put32(r[n].mem, r[n].ptr, 0)]
<1> DEFINE base == [mem |-> mem, ptr |-> ptr, str |-> str]
           step(g) == [s \in SUBSET DOMAIN strings |->
                         IF s = {} THEN base
                         ELSE LET x == Max(s)
                                  at == g[s \ {x}]
                                  st == strings[x]
                              IN [mem |-> PutString(Put32(at.mem, at.ptr, at.str), at.str, st),
                                  ptr |-> at.ptr + 4, str |-> at.str + Len(st) + 1]]
           g0 == CHOOSE g : g = step(g)
           F == [k \in 1..n |-> [x \in Pushed |-> Push(x, strings[k])]]
<1>1. n \in Nat /\ DOMAIN strings = 1..n /\ \A k \in 1..n : strings[k] \in String
  BY LenProperties, ElementOfSeq
<1>2. PutStrings(mem, ptr, str, strings)
        = [g0[DOMAIN strings] EXCEPT !.mem = Put32(g0[DOMAIN strings].mem, g0[DOMAIN strings].ptr, 0)]
  BY DEF PutStrings, FoldLeft, MapThenFoldSet
<1>3. F \in Steps(n, Pushed) /\ \A k \in 1..n, x \in Pushed : F[k][x] = Push(x, strings[k])
  BY <1>1, PushIs DEF Steps
<1> HIDE DEF F
<1>4. base \in Pushed
  BY DEF Pushed
<1>5. PICK g \in [SUBSET (1..n) -> Pushed] :
        /\ g[{}] = base
        /\ \A s \in SUBSET (1..n) : s # {} => g[s] = F[Max(s)][g[s \ {Max(s)}]]
  <2> HIDE DEF base
  <2>1. Folds(Pushed, base, n, F)  BY <1>1, <1>3, <1>4, SubsetRecursion
  <2> QED  BY <2>1 DEF Folds
<1>6. \A s \in SUBSET (1..n) : s # {} => g[s] = Push(g[s \ {Max(s)}], strings[Max(s)])
  <2> TAKE s \in SUBSET (1..n)
  <2> HAVE s # {}
  <2>1. Max(s) \in 1..n  BY <1>1, GreatestIs
  <2>2. g[s \ {Max(s)}] \in Pushed  OBVIOUS
  <2> QED  BY <1>3, <1>5, <2>1, <2>2
<1>7. g = step(g)
  <2> HIDE DEF base
  <2>1. \A s \in SUBSET (1..n) : g[s] = IF s = {} THEN base ELSE Push(g[s \ {Max(s)}], strings[Max(s)])
    BY <1>5, <1>6
  <2>2. g = [s \in SUBSET (1..n) |->
               IF s = {} THEN base ELSE Push(g[s \ {Max(s)}], strings[Max(s)])]
    BY <2>1
  <2> QED  BY <1>1, <2>2 DEF Push
<1>8. g0 = step(g0)
  <2> HIDE DEF step
  <2> QED  BY <1>7
<1>9. g0 = [s \in SUBSET (1..n) |->
              IF s = {} THEN base ELSE Push(g0[s \ {Max(s)}], strings[Max(s)])]
  <2> HIDE DEF g0, base
  <2> QED  BY <1>1, <1>8 DEF Push
<1> HIDE DEF g0, base
<1> DEFINE r == [k \in 0..n |-> g0[1..k]]
<1>10. 1..0 = {} /\ 0 \in 0..n /\ n \in 0..n /\ \A k \in 1..n : k \in 0..n /\ k - 1 \in 0..n
  BY <1>1
<1>11. g0[{}] = base
  BY <1>9
<1>12. \A k \in 1..n : g0[1..k] = Push(g0[1..k - 1], strings[k])
  <2> TAKE k \in 1..n
  <2>1. /\ 1..k \in SUBSET (1..n) /\ 1..k # {} /\ Max(1..k) = k
        /\ (1..k) \ {k} = 1..k - 1
    BY <1>1, FirstOnes
  <2> QED  BY <1>9, <2>1
<1>13. r[0] = base /\ r[n] = g0[DOMAIN strings] /\ \A k \in 1..n : r[k] = Push(r[k - 1], strings[k])
  BY <1>1, <1>10, <1>11, <1>12
<1>14. \A k \in 0..n : r[k] \in Pushed
  <2> HIDE DEF r
  <2> DEFINE Bad == {k \in 0..n : r[k] \notin Pushed}
  <2> SUFFICES ASSUME Bad # {}  PROVE FALSE
    OBVIOUS
  <2>1. PICK k \in Bad : \A m \in Bad : k <= m
    <3>1. Bad \in SUBSET Nat  OBVIOUS
    <3> HIDE DEF Bad
    <3> QED  BY <3>1, LeastOf
  <2>2. k # 0  BY <1>4, <1>13
  <2>3. k \in 1..n /\ k - 1 \in 0..n  BY <1>1, <2>2
  <2>4. k - 1 \notin Bad
    <3>1. k \in Nat /\ ~(k <= k - 1)  BY <2>3
    <3> HIDE DEF Bad
    <3> QED  BY <2>1, <3>1
  <2>5. r[k - 1] \in Pushed  BY <2>3, <2>4
  <2>6. r[k] \in Pushed  BY <1>1, <1>13, <2>3, <2>5, PushIs
  <2> QED  BY <2>6
<1>15. r \in [0..n -> Pushed]
  <2>1. DOMAIN r = 0..n /\ r = [k \in 0..n |-> r[k]]  OBVIOUS
  <2> HIDE DEF r
  <2> QED  BY <1>14, <2>1
<1> HIDE DEF r
<1> QED  BY <1>2, <1>13, <1>15 DEF base

(* A table of pointers, ended by a null one, to strings from str on, the   *)
(* first of which is at str.                                               *)
Table(m, ptr, str, top, strings) ==
  /\ PointsAt(m, ptr + 4 * Len(strings), 0)
  /\ \A k \in 1..Len(strings) : \E q \in str..top - 1 :
       /\ (k = 1 => q = str) /\ q + Len(strings[k]) < top
       /\ PointsAt(m, ptr + 4 * (k - 1), q) /\ HoldsString(m, q, strings[k])

(* What does not write between the bounds of a table leaves it. *)
LEMMA TableStays ==
  ASSUME NEW m, NEW w, NEW ptr \in Nat, NEW str \in Nat, NEW top \in Nat,
         NEW strings \in Seq(String), Table(m, ptr, str, top, strings),
         \A x \in Nat : x \in ptr..ptr + 4 * Len(strings) + 3 \/ x \in str..top - 1 => w[x] = m[x]
  PROVE  Table(w, ptr, str, top, strings)
<1>1. Len(strings) \in Nat /\ \A k \in 1..Len(strings) : strings[k] \in String /\ Len(strings[k]) \in Nat
  <2>1. Len(strings) \in Nat /\ \A k \in 1..Len(strings) : strings[k] \in String
    BY LenProperties, ElementOfSeq
  <2> QED  BY <2>1, LenProperties DEF String
<1>2. ASSUME NEW a \in Nat, a >= ptr, a <= ptr + 4 * Len(strings), NEW n, PointsAt(m, a, n)
      PROVE  PointsAt(w, a, n)
  <2>1. \A x \in a..a + 3 : x \in Nat /\ x \in ptr..ptr + 4 * Len(strings) + 3
    BY <1>1, <1>2
  <2>2. w[a] = m[a] /\ w[a + 1] = m[a + 1] /\ w[a + 2] = m[a + 2] /\ w[a + 3] = m[a + 3]
    BY <2>1
  <2> QED  BY <1>2, <2>2 DEF PointsAt
<1>3. ASSUME NEW q \in str..top - 1, NEW s \in String, q + Len(s) < top, HoldsString(m, q, s)
      PROVE  HoldsString(w, q, s)
  <2>1. Len(s) \in Nat  BY LenProperties DEF String
  <2>2. q + Len(s) \in Nat /\ q + Len(s) \in str..top - 1  BY <1>3, <2>1
  <2>3. \A i \in 1..Len(s) : q + i - 1 \in Nat /\ q + i - 1 \in str..top - 1  BY <1>3, <2>1
  <2> QED  BY <1>3, <2>2, <2>3 DEF HoldsString
<1>4. PointsAt(w, ptr + 4 * Len(strings), 0)
  BY <1>1, <1>2 DEF Table
<1>5. ASSUME NEW k \in 1..Len(strings)
      PROVE  \E q \in str..top - 1 :
               /\ (k = 1 => q = str) /\ q + Len(strings[k]) < top
               /\ PointsAt(w, ptr + 4 * (k - 1), q) /\ HoldsString(w, q, strings[k])
  <2>1. PICK q \in str..top - 1 :
          /\ (k = 1 => q = str) /\ q + Len(strings[k]) < top
          /\ PointsAt(m, ptr + 4 * (k - 1), q) /\ HoldsString(m, q, strings[k])
    BY DEF Table
  <2>2. ptr + 4 * (k - 1) \in Nat /\ ptr + 4 * (k - 1) >= ptr
        /\ ptr + 4 * (k - 1) <= ptr + 4 * Len(strings)
    BY <1>1
  <2>3. PointsAt(w, ptr + 4 * (k - 1), q)  BY <1>2, <2>1, <2>2
  <2>4. HoldsString(w, q, strings[k])  BY <1>1, <1>3, <2>1
  <2> QED  BY <2>1, <2>3, <2>4
<1> QED  BY <1>4, <1>5 DEF Table

LEMMA PutStringsIs ==
  ASSUME NEW mem \in Images, NEW ptr \in Nat, NEW str \in Nat, NEW strings \in Seq(String),
         ptr + 4 * (Len(strings) + 1) <= str, str + SizeOf(strings) <= Space
  PROVE  LET r == PutStrings(mem, ptr, str, strings) IN
         /\ r.mem \in Images /\ SizeOf(strings) \in Nat /\ r.str = str + SizeOf(strings)
         /\ Table(r.mem, ptr, str, r.str, strings)
         /\ \A x \in Addr : /\ x \notin ptr..ptr + 4 * Len(strings) + 3
                            /\ x \notin str..r.str - 1
                            => r.mem[x] = mem[x]
<1> DEFINE n == Len(strings)
<1>1. n \in Nat /\ \A k \in 1..n : strings[k] \in String /\ Len(strings[k]) \in Nat
  <2>1. Len(strings) \in Nat /\ \A k \in 1..Len(strings) : strings[k] \in String
    BY LenProperties, ElementOfSeq
  <2> QED  BY <2>1, LenProperties DEF String
<1>2. PICK r \in [0..n -> Pushed] :
        /\ r[0] = [mem |-> mem, ptr |-> ptr, str |-> str]
        /\ \A k \in 1..n : r[k] = Push(r[k - 1], strings[k])
        /\ PutStrings(mem, ptr, str, strings)
             = [r[n] EXCEPT !.mem = Put32(r[n].mem, r[n].ptr, 0)]
  BY PushesAre
<1>3. PICK h : /\ h[0] = 0 /\ h[n] = SizeOf(strings)
               /\ \A k \in 1..n : h[k] = h[k - 1] + Len(strings[k]) + 1
  BY <1>1, SizeOfIs
<1> DEFINE Good(k) ==
             /\ h[k] \in Nat
             /\ r[k].ptr = ptr + 4 * k /\ r[k].str = str + h[k]
             /\ \A x \in Addr : /\ x \notin ptr..ptr + 4 * k - 1
                                /\ x \notin str..str + h[k] - 1
                                => r[k].mem[x] = mem[x]
             /\ str + h[k] <= Space =>
                  \A j \in 1..k : \E q \in str..str + h[k] - 1 :
                    /\ (j = 1 => q = str)
                    /\ q + Len(strings[j]) < str + h[k]
                    /\ PointsAt(r[k].mem, ptr + 4 * (j - 1), q)
                    /\ HoldsString(r[k].mem, q, strings[j])
<1>4. Good(0)
  BY <1>2, <1>3
<1>5. ASSUME NEW k \in 1..n, Good(k - 1)
      PROVE  Good(k)
  <2> DEFINE at == r[k - 1]
             s == strings[k]
             to == r[k]
  <2>1. /\ k \in Nat /\ k - 1 \in 0..n /\ k \in 0..n /\ n \in Nat /\ k - 1 \in Nat
        /\ s \in String /\ Len(s) \in Nat /\ at \in Pushed
    BY <1>1, <1>2
  <2>2. to = Push(at, s)  BY <1>2
  <2>3. h[k - 1] \in Nat /\ at.ptr = ptr + 4 * (k - 1) /\ at.str = str + h[k - 1]
    BY <1>5
  <2>4. h[k] = h[k - 1] + Len(s) + 1  BY <1>3
  <2>5. to.ptr = at.ptr + 4 /\ to.str = at.str + Len(s) + 1  BY <2>2 DEF Push
  <2>6. h[k] \in Nat /\ to.ptr = ptr + 4 * k /\ to.str = str + h[k]
    BY <2>1, <2>3, <2>4, <2>5
  <2>7. \A x \in Addr : x \notin at.ptr..at.ptr + 3 /\ x \notin at.str..at.str + Len(s)
                          => to.mem[x] = at.mem[x]
    BY <2>1, <2>2, PushIs
  <2>8. at.ptr + 4 <= at.str /\ at.str + Len(s) < Space =>
          PointsAt(to.mem, at.ptr, at.str) /\ HoldsString(to.mem, at.str, s)
    BY <2>1, <2>2, PushIs
  <2>9. \A x \in Addr : /\ x \notin ptr..ptr + 4 * (k - 1) - 1
                        /\ x \notin str..str + h[k - 1] - 1
                        => at.mem[x] = mem[x]
    BY <1>5
  <2>10. str + h[k - 1] <= Space =>
           \A j \in 1..k - 1 : \E q \in str..str + h[k - 1] - 1 :
             /\ (j = 1 => q = str)
             /\ q + Len(strings[j]) < str + h[k - 1]
             /\ PointsAt(at.mem, ptr + 4 * (j - 1), q)
             /\ HoldsString(at.mem, q, strings[j])
    BY <1>5
  <2> HIDE DEF at, to, s, Good
  <2>11. ASSUME NEW x \in Addr, x \notin ptr..ptr + 4 * k - 1, x \notin str..str + h[k] - 1
         PROVE  to.mem[x] = mem[x]
    <3>1. x \in Int  BY SpaceAssumption DEF Addr
    <3>2. x \notin at.ptr..at.ptr + 3  BY <2>1, <2>3, <2>11, <3>1
    <3>3. x \notin at.str..at.str + Len(s)  BY <2>1, <2>3, <2>4, <2>11, <3>1
    <3>4. x \notin ptr..ptr + 4 * (k - 1) - 1  BY <2>1, <2>11, <3>1
    <3>5. x \notin str..str + h[k - 1] - 1  BY <2>1, <2>3, <2>4, <2>11, <3>1
    <3> QED  BY <2>7, <2>9, <3>2, <3>3, <3>4, <3>5
  <2>12. ASSUME str + h[k] <= Space, NEW j \in 1..k
         PROVE  \E q \in str..str + h[k] - 1 :
                  /\ (j = 1 => q = str)
                  /\ q + Len(strings[j]) < str + h[k]
                  /\ PointsAt(to.mem, ptr + 4 * (j - 1), q)
                  /\ HoldsString(to.mem, q, strings[j])
    <3>0. ptr + 4 * k <= str /\ 4 * k = 4 * (k - 1) + 4
      BY <2>1
    <3>1. CASE j = k
      <4>1. at.ptr + 4 <= at.str /\ at.str + Len(s) < Space
        BY <2>1, <2>3, <2>4, <2>12, <3>0, SpaceAssumption
      <4>2. PointsAt(to.mem, at.ptr, at.str) /\ HoldsString(to.mem, at.str, s)
        BY <2>8, <4>1
      <4>3. at.str \in str..str + h[k] - 1 /\ at.str + Len(s) < str + h[k]
        BY <2>1, <2>3, <2>4
      <4>4. j = 1 => at.str = str
        <5>1. SUFFICES ASSUME j = 1  PROVE at.str = str
          OBVIOUS
        <5>2. k - 1 = 0  BY <3>1, <5>1
        <5>3. h[k - 1] = 0  BY <1>3, <5>2
        <5> QED  BY <2>3, <5>3
      <4> QED  BY <2>3, <3>1, <4>2, <4>3, <4>4 DEF s
    <3>2. CASE j # k
      <4>1. j \in 1..k - 1 /\ j \in 1..n /\ str + h[k - 1] <= Space
        BY <2>1, <2>3, <2>4, <2>12, <3>2, SpaceAssumption
      <4>2. PICK q \in str..str + h[k - 1] - 1 :
              /\ (j = 1 => q = str)
              /\ q + Len(strings[j]) < str + h[k - 1]
              /\ PointsAt(at.mem, ptr + 4 * (j - 1), q)
              /\ HoldsString(at.mem, q, strings[j])
        BY <2>10, <4>1
      <4>3. strings[j] \in String /\ Len(strings[j]) \in Nat  BY <1>1, <4>1
      <4>4. 4 * (j - 1) + 4 <= 4 * (k - 1) /\ 4 * (j - 1) \in Nat  BY <2>1, <4>1
      <4>5. \A x \in (ptr + 4 * (j - 1))..(ptr + 4 * (j - 1) + 3) : to.mem[x] = at.mem[x]
        <5> TAKE x \in (ptr + 4 * (j - 1))..(ptr + 4 * (j - 1) + 3)
        <5>1. x \in Nat /\ x <= ptr + 4 * (k - 1) - 1  BY <2>1, <4>4
        <5>2. x \in Addr  BY <2>1, <2>3, <2>12, <2>6, <3>0, <5>1, SpaceAssumption DEF Addr
        <5>3. x \notin at.ptr..at.ptr + 3 /\ x \notin at.str..at.str + Len(s)
          BY <2>1, <2>3, <3>0, <5>1
        <5> QED  BY <2>7, <5>2, <5>3
      <4>6. \A x \in q..q + Len(strings[j]) : to.mem[x] = at.mem[x]
        <5> TAKE x \in q..q + Len(strings[j])
        <5>1. x \in Nat /\ x >= str /\ x < str + h[k - 1]  BY <2>3, <4>2, <4>3
        <5>2. x \in Addr  BY <2>3, <4>1, <5>1, SpaceAssumption DEF Addr
        <5>3. x \notin at.ptr..at.ptr + 3 /\ x \notin at.str..at.str + Len(s)
          BY <2>1, <2>3, <3>0, <5>1
        <5> QED  BY <2>7, <5>2, <5>3
      <4>7. PointsAt(to.mem, ptr + 4 * (j - 1), q)
        <5> DEFINE p == ptr + 4 * (j - 1)
        <5>1. p \in Nat  BY <4>4
        <5>2. PointsAt(at.mem, p, q) /\ \A x \in p..p + 3 : to.mem[x] = at.mem[x]
          BY <4>2, <4>5
        <5> HIDE DEF p
        <5>3. p \in p..p + 3 /\ p + 1 \in p..p + 3 /\ p + 2 \in p..p + 3 /\ p + 3 \in p..p + 3
          BY <5>1
        <5>4. PointsAt(to.mem, p, q)  BY <5>2, <5>3 DEF PointsAt
        <5> QED  BY <5>4 DEF p
      <4>8. HoldsString(to.mem, q, strings[j])
        <5>1. q \in Int  BY <2>3
        <5>2. q + Len(strings[j]) \in q..q + Len(strings[j])  BY <4>3, <5>1
        <5>3. \A i \in 1..Len(strings[j]) : q + i - 1 \in q..q + Len(strings[j])  BY <4>3, <5>1
        <5> QED  BY <4>2, <4>6, <5>2, <5>3 DEF HoldsString
      <4>9. q \in str..str + h[k] - 1 /\ q + Len(strings[j]) < str + h[k]
        <5> DEFINE lo == h[k - 1]
                   hi == h[k]
                   len == Len(strings[j])
        <5>1. /\ lo \in Nat /\ hi \in Nat /\ hi = lo + Len(s) + 1 /\ Len(s) \in Nat
              /\ q \in str..str + lo - 1 /\ q + len < str + lo /\ len \in Nat
          BY <2>1, <2>3, <2>4, <2>6, <4>2, <4>3
        <5> HIDE DEF lo, hi, len
        <5>2. q \in str..str + hi - 1 /\ q + len < str + hi  BY <5>1
        <5> QED  BY <5>2 DEF hi, len
      <4> QED  BY <4>2, <4>7, <4>8, <4>9
    <3> QED  BY <3>1, <3>2
  <2> QED  BY <2>6, <2>11, <2>12 DEF Good, to
<1>6. \A k \in 0..n : Good(k)
  <2> HIDE DEF Good
  <2> DEFINE Bad == {k \in 0..n : ~Good(k)}
  <2> SUFFICES ASSUME Bad # {}  PROVE FALSE
    OBVIOUS
  <2>1. PICK k \in Bad : \A m \in Bad : k <= m
    <3>1. Bad \in SUBSET Nat  OBVIOUS
    <3> HIDE DEF Bad
    <3> QED  BY <3>1, LeastOf
  <2>2. k # 0  BY <1>4
  <2>3. k \in 1..n /\ k - 1 \in 0..n  BY <1>1, <2>2
  <2>4. k - 1 \notin Bad
    <3>1. k \in Nat /\ ~(k <= k - 1)  BY <2>3
    <3> HIDE DEF Bad
    <3> QED  BY <2>1, <3>1
  <2>5. Good(k)  BY <1>5, <2>3, <2>4
  <2> QED  BY <2>5
<1>6a. /\ \A x \in Addr : x \notin ptr..ptr + 4 * n - 1 /\ x \notin str..str + h[n] - 1
                              => r[n].mem[x] = mem[x]
       /\ \A j \in 1..n : \E q \in str..str + h[n] - 1 :
            /\ (j = 1 => q = str)
            /\ q + Len(strings[j]) < str + h[n]
            /\ PointsAt(r[n].mem, ptr + 4 * (j - 1), q)
            /\ HoldsString(r[n].mem, q, strings[j])
       /\ r[n].ptr = ptr + 4 * n /\ r[n].str = str + h[n] /\ h[n] \in Nat
  <2>1. n \in 0..n  BY <1>1
  <2>2. Good(n)
    <3> HIDE DEF Good
    <3> QED  BY <1>6, <2>1
  <2> QED  BY <1>3, <2>2
<1> HIDE DEF Good
<1> DEFINE out == PutStrings(mem, ptr, str, strings)
           m == Put32(r[n].mem, r[n].ptr, 0)
<1>7. n \in 0..n /\ r[n] \in Pushed
  BY <1>1, <1>2
<1>8. out.mem = m /\ out.str = r[n].str
  BY <1>2, <1>7 DEF Pushed
<1>9. r[n].ptr = ptr + 4 * n /\ r[n].str = str + SizeOf(strings) /\ SizeOf(strings) \in Nat
  BY <1>3, <1>6a
<1>10. r[n].mem \in Images /\ r[n].ptr \in Nat
  BY <1>7 DEF Pushed
<1>11. /\ m \in Images
       /\ r[n].ptr + 4 <= Space => PointsAt(m, r[n].ptr, 0)
       /\ \A x \in Addr : x \notin r[n].ptr..r[n].ptr + 3 => m[x] = r[n].mem[x]
  <2> DEFINE e == r[n].mem
             p == r[n].ptr
  <2>1. e \in Images /\ p \in Nat /\ 0 \in Nat  BY <1>10
  <2> HIDE DEF e, p
  <2>2. /\ Put32(e, p, 0) \in Images
        /\ p + 4 <= Space => PointsAt(Put32(e, p, 0), p, 0)
        /\ \A x \in Addr : x \notin p..p + 3 => Put32(e, p, 0)[x] = e[x]
    BY <2>1, Put32Is
  <2> QED  BY <2>2 DEF e, p
<1> HIDE DEF m, out
<1>12. PointsAt(m, ptr + 4 * n, 0)
  BY <1>1, <1>9, <1>11, SpaceAssumption
<1>13. ASSUME NEW x \in Addr, x \notin ptr..ptr + 4 * n + 3, x \notin str..out.str - 1
       PROVE  m[x] = mem[x]
  <2>1. x \in Int  BY SpaceAssumption DEF Addr
  <2>2. x \notin r[n].ptr..r[n].ptr + 3 /\ x \notin ptr..ptr + 4 * n - 1
    BY <1>1, <1>9, <1>13, <2>1
  <2>3. r[n].mem[x] = mem[x]  BY <1>3, <1>6a, <1>8, <1>9, <1>13, <2>2
  <2> QED  BY <1>11, <2>2, <2>3
<1>14. ASSUME NEW k \in 1..n
       PROVE  \E q \in str..out.str - 1 :
                /\ (k = 1 => q = str)
                /\ q + Len(strings[k]) < out.str
                /\ PointsAt(m, ptr + 4 * (k - 1), q) /\ HoldsString(m, q, strings[k])
  <2>1. PICK q \in str..out.str - 1 :
          /\ (k = 1 => q = str)
          /\ q + Len(strings[k]) < out.str
          /\ PointsAt(r[n].mem, ptr + 4 * (k - 1), q) /\ HoldsString(r[n].mem, q, strings[k])
    BY <1>3, <1>6a, <1>8, <1>9
  <2>2. strings[k] \in String /\ Len(strings[k]) \in Nat  BY <1>1
  <2>3. \A x \in (ptr + 4 * (k - 1))..(ptr + 4 * (k - 1) + 3) : m[x] = r[n].mem[x]
    <3> TAKE x \in (ptr + 4 * (k - 1))..(ptr + 4 * (k - 1) + 3)
    <3>1. x \in Nat /\ x <= ptr + 4 * n - 1  BY <1>1
    <3>2. x \in Addr  BY <1>1, <1>9, <3>1, SpaceAssumption DEF Addr
    <3>3. x \notin r[n].ptr..r[n].ptr + 3  BY <1>1, <1>9, <3>1
    <3> QED  BY <1>11, <3>2, <3>3
  <2>4. \A x \in q..q + Len(strings[k]) : m[x] = r[n].mem[x]
    <3> TAKE x \in q..q + Len(strings[k])
    <3>1. x \in Nat /\ x >= str /\ x < out.str  BY <1>8, <1>9, <2>1, <2>2
    <3>2. x \in Addr  BY <1>8, <1>9, <3>1, SpaceAssumption DEF Addr
    <3>3. x \notin r[n].ptr..r[n].ptr + 3  BY <1>1, <1>9, <3>1
    <3> QED  BY <1>11, <3>2, <3>3
  <2>5. PointsAt(m, ptr + 4 * (k - 1), q)
    <3> DEFINE p == ptr + 4 * (k - 1)
    <3>1. p \in Nat  BY <1>1
    <3>2. PointsAt(r[n].mem, p, q) /\ \A x \in p..p + 3 : m[x] = r[n].mem[x]
      BY <2>1, <2>3
    <3> HIDE DEF p
    <3>3. p \in p..p + 3 /\ p + 1 \in p..p + 3 /\ p + 2 \in p..p + 3 /\ p + 3 \in p..p + 3
      BY <3>1
    <3>4. PointsAt(m, p, q)  BY <3>2, <3>3 DEF PointsAt
    <3> QED  BY <3>4 DEF p
  <2>6. HoldsString(m, q, strings[k])
    <3>1. q \in Int  BY <1>8, <1>9
    <3>2. q + Len(strings[k]) \in q..q + Len(strings[k])  BY <2>2, <3>1
    <3>3. \A i \in 1..Len(strings[k]) : q + i - 1 \in q..q + Len(strings[k])  BY <2>2, <3>1
    <3> QED  BY <2>1, <2>4, <3>2, <3>3 DEF HoldsString
  <2> QED  BY <2>1, <2>5, <2>6
<1> QED  BY <1>8, <1>9, <1>11, <1>12, <1>13, <1>14 DEF Table, out

-----------------------------------------------------------------------------
(* What the program reads of a table. *)
LEMMA MinIs ==
  ASSUME NEW S \in SUBSET Nat, NEW n \in S, \A m \in S : n <= m
  PROVE  Min(S) = n
<1>1. \E x \in S : \A y \in S : x <= y
  OBVIOUS
<1>2. Min(S) \in S /\ \A y \in S : Min(S) <= y
  BY <1>1 DEF Min
<1>3. Min(S) <= n /\ n <= Min(S) /\ Min(S) \in Nat /\ n \in Nat
  BY <1>2
<1> QED  BY <1>3

LEMMA StringAtIs ==
  ASSUME NEW mem \in Images, NEW q \in Nat, NEW s \in String, q + Len(s) < Space,
         HoldsString(mem, q, s)
  PROVE  StringAt(mem, q) = s
<1> DEFINE S == {k \in 0..Space - 1 - q : mem[q + k] = 0}
<1>1. /\ Len(s) \in Nat /\ DOMAIN s = 1..Len(s) /\ s = [i \in 1..Len(s) |-> s[i]]
      /\ \A i \in 1..Len(s) : s[i] # 0
  <2>1. s \in Seq(Character)  BY DEF String
  <2>2. s \in [1..Len(s) -> Character] /\ Len(s) \in Nat  BY <2>1, LenProperties
  <2>3. \A c \in Character : c # 0  BY DEF Character
  <2> QED  BY <2>2, <2>3
<1>2. mem[q + Len(s)] = 0 /\ \A i \in 1..Len(s) : mem[q + i - 1] = s[i]
  BY DEF HoldsString
<1>3. S \in SUBSET Nat
  OBVIOUS
<1>4. Len(s) \in S
  BY <1>1, <1>2, SpaceAssumption
<1>5. \A m \in S : Len(s) <= m
  <2> SUFFICES ASSUME NEW m \in S, m < Len(s)  PROVE FALSE
    BY <1>1, <1>3
  <2>1. m \in Nat /\ m + 1 \in 1..Len(s) /\ q + (m + 1) - 1 = q + m  BY <1>1
  <2>2. mem[q + m] = s[m + 1]  BY <1>2, <2>1
  <2> QED  BY <1>1, <2>1, <2>2
<1> HIDE DEF S
<1>6. Min(S) = Len(s)
  BY <1>3, <1>4, <1>5, MinIs
<1>7. StringAt(mem, q) = [i \in 1..Len(s) |-> mem[q + i - 1]]
  BY <1>6 DEF StringAt, S
<1> QED  BY <1>1, <1>2, <1>7

LEMMA WordIs ==
  ASSUME NEW mem, NEW a, NEW n \in Nat, PointsAt(mem, a, n)
  PROVE  Word(mem, a) = n
BY DEF Word, PointsAt

LEMMA StringsAtAre ==
  ASSUME NEW mem \in Images, NEW ptr \in Nat, NEW str \in Nat, NEW top \in Nat,
         NEW strings \in Seq(String), Table(mem, ptr, str, top, strings),
         ptr + 4 * Len(strings) + 4 <= Space, top <= Space, 0 < str
  PROVE  StringsAt(mem, ptr) = strings
<1> DEFINE n == Len(strings)
           S == {k \in 0..(Space - 4 - ptr) \div 4 : Word(mem, ptr + 4 * k) = 0}
<1>1. /\ n \in Nat /\ DOMAIN strings = 1..n /\ strings = [i \in 1..n |-> strings[i]]
      /\ \A k \in 1..n : strings[k] \in String
  <2>1. n \in Nat /\ DOMAIN strings = 1..n /\ \A k \in 1..n : strings[k] \in String
    BY LenProperties, ElementOfSeq
  <2>2. strings \in [1..n -> String]  BY LenProperties
  <2> QED  BY <2>1, <2>2
<1>2. Word(mem, ptr + 4 * n) = 0
  BY WordIs DEF Table
<1>3. \A k \in 1..n : Word(mem, ptr + 4 * (k - 1)) # 0 /\ StringAt(mem, Word(mem, ptr + 4 * (k - 1))) = strings[k]
  <2> TAKE k \in 1..n
  <2>1. PICK q \in str..top - 1 :
          /\ q + Len(strings[k]) < top
          /\ PointsAt(mem, ptr + 4 * (k - 1), q) /\ HoldsString(mem, q, strings[k])
    BY DEF Table
  <2>2. q \in Nat /\ q # 0  OBVIOUS
  <2>3. Word(mem, ptr + 4 * (k - 1)) = q  BY <2>1, <2>2, WordIs
  <2>4. strings[k] \in String /\ Len(strings[k]) \in Nat  BY <1>1, LenProperties DEF String
  <2>5. q + Len(strings[k]) < Space  BY <2>1, <2>2, <2>4, SpaceAssumption
  <2>6. StringAt(mem, q) = strings[k]  BY <2>1, <2>2, <2>4, <2>5, StringAtIs
  <2> QED  BY <2>2, <2>3, <2>6
<1>4. S \in SUBSET Nat
  OBVIOUS
<1>5. n \in S
  <2>1. Space - 4 - ptr \in Int /\ 4 * n <= Space - 4 - ptr  BY <1>1, SpaceAssumption
  <2>2. n <= (Space - 4 - ptr) \div 4  BY <1>1, <2>1
  <2>3. (Space - 4 - ptr) \div 4 \in Int  BY <2>1
  <2> QED  BY <1>1, <1>2, <2>2, <2>3
<1>6. \A m \in S : n <= m
  <2> SUFFICES ASSUME NEW m \in S, m < n  PROVE FALSE
    BY <1>1, <1>4
  <2>1. m \in Nat /\ m + 1 \in 1..n /\ (m + 1) - 1 = m  BY <1>1, <1>4
  <2>2. Word(mem, ptr + 4 * m) # 0  BY <1>3, <2>1
  <2>3. Word(mem, ptr + 4 * m) = 0  OBVIOUS
  <2> QED  BY <2>2, <2>3
<1> HIDE DEF S, n
<1>7. Min(S) = n
  BY <1>4, <1>5, <1>6, MinIs
<1>8. StringsAt(mem, ptr) = [i \in 1..n |-> StringAt(mem, Word(mem, ptr + 4 * (i - 1)))]
  BY <1>7 DEF StringsAt, S
<1> QED  BY <1>1, <1>3, <1>8

(* Rounding up to a page goes up, to a number that is one of the unit. *)
LEMMA RoundUpIs ==
  ASSUME NEW n \in Nat, NEW unit \in Nat \ {0}
  PROVE  RoundUp(n, unit) \in Nat /\ n <= RoundUp(n, unit)
<1>1. PICK a \in Nat : a = n + unit - 1
  OBVIOUS
<1>2. a \div unit \in Nat
  OBVIOUS
<1>3. PICK q \in Nat : q = a \div unit
  BY <1>2
<1>4. a = unit * (a \div unit) + (a % unit)
  OBVIOUS
<1>5. a % unit \in 0..unit - 1
  OBVIOUS
<1>6. RoundUp(n, unit) = q * unit
  BY <1>1, <1>3 DEF RoundUp
<1>7. PICK p \in Nat : p = q * unit /\ p = unit * q
  OBVIOUS
<1>8. n <= p
  BY <1>1, <1>3, <1>4, <1>5, <1>7
<1> QED  BY <1>6, <1>7, <1>8

LEMMA RoundUpToWords ==
  ASSUME NEW n \in Nat
  PROVE  RoundUp(n, 4) \in Nat /\ n <= RoundUp(n, 4) /\ RoundUp(n, 4) % 4 = 0
BY DEF RoundUp

-----------------------------------------------------------------------------
(* The inductive invariant, in six parts.  The stages from which on each   *)
(* thing is known.                                                         *)
Counting == {"signals"} \cup Handled
Started == {"sim", "profile"} \cup Counting
Furnished == {"reclose", "state"} \cup Started
Filling == {"fill"} \cup Furnished
Argued == {"close", "reopen", "load"} \cup Filling

(* The loader, and whose program is open. *)
LoaderPart ==
  LoaderInv /\ \A l \in Loaders : handle[l] # NULL => handle[l].file = cmd.program

(* The command, the registers and the counts have their types. *)
Environment == [sp : Nat, argc : Nat, argv : Nat, envp : Nat, brk : Nat]
TypePart ==
  /\ build \in Builds /\ asserts \in BOOLEAN /\ zeroes \in BOOLEAN /\ stopped \in BOOLEAN
  /\ stage \in Stages /\ cmd \in Commands
  /\ env \in Environment /\ regs \in [sp : Nat, argc : Nat, argv : Nat, envp : Nat]
  /\ exit \in Addr /\ pc \in Code \cup {0} /\ (stage \in Filling => pc \in Code)
  /\ fetched \in BOOLEAN /\ (fetched => stage = "run")

(* The program in the memory. *)
MemoryPart ==
  /\ image \in Images
  /\ loaded = NULL => image = Empty
  /\ loaded # NULL => loaded = cmd.program /\ ImageOf(loaded, image)
  /\ stage \in Filling => loaded # NULL /\ env.brk = RoundUp(BrkInit(cmd.program), Page)

(* The arguments. *)
ArgumentsPart ==
  /\ stage \in {"envp"} \cup Argued => argv \in ArgvOf(cmd)
  /\ stage \in Argued => envp \in EnvpOf(cmd)

(* The stack, once it is filled, and the registers, once they are set. *)
StackFilled ==
  /\ env.sp % 4 = 0 /\ Word(image, env.sp) = env.argc /\ env.argc = Len(argv)
  /\ StringsAt(image, env.argv) = argv /\ StringsAt(image, env.envp) = envp
  /\ argv # <<>> => StringAt(image, env.envp + 4 * (Len(envp) + 1)) = argv[1]
  /\ env.brk <= env.sp
StackPart ==
  /\ stage \in Furnished => StackFilled
  /\ stage \in Started => regs = [sp |-> env.sp, argc |-> env.argc, argv |-> env.argv, envp |-> env.envp]

(* The counts, and the files they come from and go to. *)
Counts == [Idents -> 0..Cap]
Counted(c) == [i \in Idents |-> [id |-> i, count |-> c[i]]]
ProfileOf(p, c) == p \in Seq(ProfileEntry) /\ Range(p) = Range(Counted(c))
IsProfile(p) == p \in {NULL} \cup Seq(ProfileEntry)
Tally(n, i) ==
  Plus(Plus(n, executed[i]), IF fetched /\ i = Ident[pc] THEN 1 ELSE 0)
Tallies ==
  \A i \in Idents, n \in 0..Cap : Tells(begun, i, n) => counts[i] = Tally(n, i)
CountsPart ==
  /\ IsProfile(profile) /\ IsProfile(begun)
  /\ counts \in Counts /\ executed \in Counts
  /\ stage \in Stages \ (Counting \cup {"over"}) => profile = begun
  /\ stage \notin {"run", "write", "leave"} => executed = Zero
  /\ stage \in Counting /\ cmd.profile => Tallies
  /\ stage = "leave" /\ cmd.profile => profile = Sorted(Counted(counts))

MainInv == LoaderPart /\ TypePart /\ MemoryPart /\ ArgumentsPart /\ StackPart /\ CountsPart

-----------------------------------------------------------------------------
(* It holds of a process of which nothing is left. *)
LEMMA ZeroIs ==
  Zero \in Counts /\ \A i \in Idents : Zero[i] = 0
BY SimulatorAssumption DEF Zero, Counts

LEMMA NothingOpen ==
  ASSUME heap = {}, handle = [h \in Loaders |-> NULL]
  PROVE  LoaderPart
<1>1. \A l \in Loaders : handle[l] = NULL
  OBVIOUS
<1>2. HeapIs
  BY <1>1 DEF HeapIs
<1>3. HandlesOK
  BY <1>1 DEF HandlesOK
<1> QED  BY <1>1, <1>2, <1>3 DEF LoaderPart, LoaderInv

LEMMA InitKeeps ==
  ASSUME SimulatorInit
  PROVE  MainInv
<1>1. LoaderPart
  BY NothingOpen DEF SimulatorInit, LoaderInit
<1>2. TypePart
  <2>1. 0 \in Addr  BY SpaceAssumption DEF Addr
  <2> QED  BY <2>1
           DEF SimulatorInit, LoaderInit, TypePart, Environment, Environment0, Registers, Stages, Filling,
               Furnished, Started, Counting, Handled
<1>3. MemoryPart
  BY DEF SimulatorInit, LoaderInit, MemoryPart, Images, Empty, Filling, Furnished, Started,
         Counting, Handled
<1>4. ArgumentsPart
  BY DEF SimulatorInit, ArgumentsPart, Argued, Filling, Furnished, Started, Counting, Handled
<1>5. StackPart
  BY DEF SimulatorInit, StackPart, Furnished, Started, Counting, Handled
<1>6. CountsPart
  BY ZeroIs DEF SimulatorInit, CountsPart, IsProfile, Counting, Handled
<1> QED  BY <1>1, <1>2, <1>3, <1>4, <1>5, <1>6 DEF MainInv

LEMMA ClearedKeeps ==
  ASSUME MainInv, Cleared, cmd' \in Commands, IsProfile(profile'),
         \/ stage' = "over" /\ begun' = begun
         \/ stage' = "open" /\ begun' = profile /\ profile' = profile
  PROVE  MainInv'
<1>1. LoaderPart'
  <2>1. heap' = {} /\ handle' = [h \in Loaders |-> NULL]  BY DEF Cleared
  <2>2. \A l \in Loaders : handle'[l] = NULL  BY <2>1
  <2>3. HeapIs'  BY <2>1, <2>2 DEF HeapIs
  <2>4. HandlesOK'  BY <2>1, <2>2 DEF HandlesOK
  <2> QED  BY <2>2, <2>3, <2>4 DEF LoaderPart, LoaderInv
<1>2. TypePart'
  <2>1. 0 \in Addr  BY SpaceAssumption DEF Addr
  <2>2. TypePart /\ UNCHANGED config  BY DEF MainInv, Cleared
  <2> QED  BY <2>1, <2>2
           DEF Cleared, TypePart, config, Environment, Environment0, Registers, Stages, Filling,
               Furnished, Started, Counting, Handled
<1>3. MemoryPart'
  BY DEF Cleared, MemoryPart, Images, Empty, Filling, Furnished, Started, Counting, Handled
<1>4. ArgumentsPart'
  BY DEF ArgumentsPart, Argued, Filling, Furnished, Started, Counting, Handled
<1>5. StackPart'
  BY DEF StackPart, Furnished, Started, Counting, Handled
<1>6. CountsPart'
  <2>1. IsProfile(profile) /\ IsProfile(begun)  BY DEF MainInv, CountsPart
  <2>2. counts' = Zero /\ executed' = Zero  BY DEF Cleared
  <2> QED  BY <2>1, <2>2, ZeroIs DEF CountsPart, IsProfile, Counting, Handled
<1> QED  BY <1>1, <1>2, <1>3, <1>4, <1>5, <1>6 DEF MainInv

-----------------------------------------------------------------------------
(* The steps, by what they may change. *)
Signal == stage \in Handled /\ SetEnded
Quiet ==
  \/ FindExit \/ NewSim \/ LoadProfile \/ InstallHandlers \/ OpenOutput
  \/ RunUnwatched \/ FetchWatched \/ StepWatched \/ StopRun \/ WriteProfile \/ Signal
Opening == OpenFirst \/ OpenToLoad
Closing == CloseFirst \/ CloseLoaded
Clearing == Begin \/ Dies \/ KillWriting

LEMMA StepIs ==
  ASSUME SimulatorNext
  PROVE  \/ Quiet \/ Opening \/ Closing \/ Clearing
         \/ MakeArgv \/ MakeEnvp \/ LoadImage \/ FillEnv \/ NewState
BY DEF SimulatorNext, Prepare, Loop, Leave, Interrupt, Alarm, Kill, Signal, Quiet, Opening, Closing,
       Clearing

Back(S) == stage' \in S => stage \in S
StagesBack ==
  /\ Back({"envp"} \cup Argued) /\ Back(Argued) /\ Back(Filling) /\ Back(Furnished)
  /\ Back(Started)

LEMMA StagesMove ==
  ASSUME TypePart,
         \/ stage' = stage
         \/ stage' = "over"
         \/ stage = "open" /\ stage' = "exit"
         \/ stage = "reopen" /\ stage' = "load"
         \/ stage = "close" /\ stage' = "reopen"
         \/ stage = "reclose" /\ stage' = "state"
         \/ stage = "exit" /\ stage' = "argv"
         \/ stage = "sim" /\ stage' = "profile"
         \/ stage = "profile" /\ stage' = "signals"
         \/ stage = "signals" /\ stage' = "output"
         \/ stage = "output" /\ stage' = "run"
         \/ stage = "run" /\ stage' = "write"
         \/ stage = "write" /\ stage' = "leave"
  PROVE  StagesBack /\ stage' \in Stages
<1>1. stage' \in Stages
  BY DEF TypePart, Stages
<1>2. Back({"envp"} \cup Argued)
  BY DEF Back, Argued, Filling, Furnished, Started, Counting, Handled
<1>3. Back(Argued)
  BY DEF Back, Argued, Filling, Furnished, Started, Counting, Handled
<1>4. Back(Filling)
  BY DEF Back, Filling, Furnished, Started, Counting, Handled
<1>5. Back(Furnished)
  BY DEF Back, Furnished, Started, Counting, Handled
<1>6. Back(Started)
  BY DEF Back, Started, Counting, Handled
<1> QED  BY <1>1, <1>2, <1>3, <1>4, <1>5, <1>6 DEF StagesBack

(* What the quiet steps leave, and where they go. *)
LEMMA QuietIs ==
  ASSUME TypePart, Quiet
  PROVE  UNCHANGED <<loaderVars, options, env, regs>> /\ StagesBack /\ stage' \in Stages
<1>1. CASE FindExit
  <2>1. stage = "exit" /\ stage' \in {"argv", "over"}
    BY <1>1 DEF FindExit, At, Goto, GiveUp
  <2> QED  BY <1>1, <2>1, StagesMove DEF FindExit
<1>2. CASE NewSim
  <2>1. stage = "sim" /\ stage' \in {"profile", "over"}
    BY <1>2 DEF NewSim, At, Goto, GiveUp
  <2> QED  BY <1>2, <2>1, StagesMove DEF NewSim, process
<1>3. CASE LoadProfile
  <2>1. stage = "profile" /\ stage' \in {"signals", "over"}
    BY <1>3 DEF LoadProfile, At, Goto, GiveUp
  <2> QED  BY <1>3, <2>1, StagesMove DEF LoadProfile, process
<1>4. CASE InstallHandlers
  <2>1. stage = "signals" /\ stage' = "output"
    BY <1>4 DEF InstallHandlers, At, Goto
  <2> QED  BY <1>4, <2>1, StagesMove DEF InstallHandlers, process
<1>5. CASE OpenOutput
  <2>1. stage = "output" /\ stage' \in {"run", "over"}
    BY <1>5 DEF OpenOutput, At, Goto, GiveUp
  <2> QED  BY <1>5, <2>1, StagesMove DEF OpenOutput, process
<1>6. CASE RunUnwatched \/ FetchWatched \/ StepWatched \/ Signal
  <2>1. stage' = stage /\ UNCHANGED <<loaderVars, options, process>>
    BY <1>6 DEF RunUnwatched, FetchWatched, StepWatched, Signal, SetEnded
  <2> QED  BY <2>1, StagesMove DEF process
<1>7. CASE StopRun
  <2>1. stage = "run" /\ stage' = "write"
    BY <1>7 DEF StopRun, At, Goto
  <2> QED  BY <1>7, <2>1, StagesMove DEF StopRun, process
<1>8. CASE WriteProfile
  <2>1. stage = "write" /\ stage' = "leave"
    BY <1>8 DEF WriteProfile, At, Goto
  <2> QED  BY <1>8, <2>1, StagesMove DEF WriteProfile, process
<1> QED  BY <1>1, <1>2, <1>3, <1>4, <1>5, <1>6, <1>7, <1>8 DEF Quiet

LEMMA OpeningIs ==
  ASSUME TypePart, LoaderPart, Opening
  PROVE  /\ LoaderPart' /\ UNCHANGED <<config, image, loaded>> /\ stopped' \in BOOLEAN
         /\ UNCHANGED <<options, process, running, alarm, profiling, files>>
         /\ StagesBack /\ stage' \in Stages
         /\ stage \in {"open", "reopen"} /\ stage' \in {"exit", "load", "over"}
<1> DEFINE f == cmd.program
<1>1. \/ Open32(H, f) \/ Open64(H, f) \/ OpenToy(H, f)
  BY DEF Opening, OpenFirst, OpenToLoad, OpenProgram
<1>2. UNCHANGED <<options, process, running, alarm, profiling, files>>
  BY DEF Opening, OpenFirst, OpenToLoad, OpenProgram
<1>3. \/ stage = "open" /\ stage' \in {"exit", "over"}
      \/ stage = "reopen" /\ stage' \in {"load", "over"}
  BY DEF Opening, OpenFirst, OpenToLoad, OpenProgram, At, Goto
<1>4. H \in Loaders /\ f \in Files
  BY SimulatorAssumption, CommandsAssumption DEF TypePart
<1>5. LoaderInv
  BY DEF LoaderPart
<1> HIDE DEF f
<1>6. /\ LoaderInv'
      /\ \A l \in Loaders : handle'[l] = handle[l] \/ handle'[l].file = f
      /\ UNCHANGED <<config, image, loaded>>
  BY <1>1, <1>4, <1>5, OpenProgramKeeps
<1>7. LoaderPart'
  <2>1. cmd' = cmd  BY <1>2 DEF options
  <2> QED  BY <1>6, <2>1 DEF LoaderPart, f
<1>8. stopped' \in BOOLEAN
  BY <1>1 DEF Open32, Open64, OpenToy, Open, Refuse, Record, TypePart
<1>9. StagesBack /\ stage' \in Stages
  BY <1>3, StagesMove
<1> QED  BY <1>2, <1>3, <1>6, <1>7, <1>8, <1>9

LEMMA ClosingIs ==
  ASSUME TypePart, LoaderPart, Closing
  PROVE  /\ LoaderPart' /\ UNCHANGED <<config, image, loaded>> /\ stopped' \in BOOLEAN
         /\ UNCHANGED <<options, process, running, alarm, profiling, files>>
         /\ StagesBack /\ stage' \in Stages
         /\ stage \in {"close", "reclose"} /\ stage' \in {"reopen", "state", "over"}
<1>1. Close(H)
  BY DEF Closing, CloseFirst, CloseLoaded, CloseProgram, Close32, Close64, CloseToy
<1>2. UNCHANGED <<options, process, running, alarm, profiling, files>>
  BY DEF Closing, CloseFirst, CloseLoaded, CloseProgram
<1>3. \/ stage = "close" /\ stage' \in {"reopen", "over"}
      \/ stage = "reclose" /\ stage' = "state"
  BY DEF Closing, CloseFirst, CloseLoaded, CloseProgram, At, Goto, GiveUp
<1>4. H \in Loaders /\ LoaderInv
  BY SimulatorAssumption DEF LoaderPart
<1>6. /\ LoaderInv'
      /\ \A l \in Loaders : handle'[l] \in {handle[l], NULL}
      /\ UNCHANGED <<config, image, loaded>>
  BY <1>1, <1>4, CloseKeeps
<1>7. LoaderPart'
  <2>1. cmd' = cmd  BY <1>2 DEF options
  <2> QED  BY <1>6, <2>1 DEF LoaderPart
<1>8. stopped' \in BOOLEAN
  BY <1>1 DEF Close, TypePart
<1>9. StagesBack /\ stage' \in Stages
  BY <1>3, StagesMove
<1> QED  BY <1>2, <1>3, <1>6, <1>7, <1>8, <1>9

-----------------------------------------------------------------------------
(* The break is above the segments, so above the sections in memory. *)
LEMMA HighestIs ==
  ASSUME NEW f \in Files
  PROVE  LET ends == {0} \cup {End(s) : s \in f.segs}
         IN Max(ends) \in Nat /\ \A x \in ends : x <= Max(ends)
<1> DEFINE segs == f.segs
           ends == {0} \cup {End(s) : s \in segs}
<1>1. IsFiniteSet(segs) /\ \A s \in segs : s.at \in Nat /\ s.size \in Nat
  BY FilesAssumption
<1> HIDE DEF segs
<1>2. PICK q \in Seq(segs) : \A s \in segs : \E n \in 1..Len(q) : q[n] = s
  BY <1>1 DEF IsFiniteSet
<1>3. Len(q) \in Nat /\ \A i \in 1..Len(q) : q[i] \in segs /\ End(q[i]) \in Nat
  <2>1. Len(q) \in Nat /\ \A i \in 1..Len(q) : q[i] \in segs  BY LenProperties, ElementOfSeq
  <2> QED  BY <1>1, <2>1 DEF End
<1> DEFINE n == Len(q)
           upTo(k) == {0} \cup {End(q[i]) : i \in 1..k}
           Good(k) == \E x \in upTo(k) : x \in Nat /\ \A y \in upTo(k) : x >= y
           Bad == {k \in 0..n : ~Good(k)}
<1>4. Good(n)
  <2> SUFFICES ASSUME Bad # {}  PROVE FALSE
    <3> HIDE DEF Good
    <3>1. n \in 0..n  BY <1>3
    <3> QED  BY <3>1
  <2>1. PICK k \in Bad : \A m \in Bad : k <= m
    <3>1. Bad \in SUBSET Nat  OBVIOUS
    <3> HIDE DEF Bad
    <3> QED  BY <3>1, LeastOf
  <2>2. k \in 0..n /\ ~Good(k)
    <3> HIDE DEF Good
    <3> QED  OBVIOUS
  <2>3. k # 0
    <3>1. upTo(0) = {0}  OBVIOUS
    <3> QED  BY <2>2, <3>1
  <2>4. k \in 1..n /\ k - 1 \in 0..n /\ k - 1 < k  BY <1>3, <2>2, <2>3
  <2>5. Good(k - 1)
    <3>1. k - 1 \notin Bad
      <4> HIDE DEF Bad
      <4> QED  BY <2>1, <2>4
    <3> HIDE DEF Good
    <3> QED  BY <2>4, <3>1
  <2>6. PICK x \in upTo(k - 1) : x \in Nat /\ \A y \in upTo(k - 1) : x >= y
    BY <2>5
  <2>7. End(q[k]) \in Nat  BY <1>3, <2>4
  <2>8. upTo(k) = upTo(k - 1) \cup {End(q[k])}
    <3>1. 1..k = (1..k - 1) \cup {k}  BY <2>4
    <3> QED  BY <3>1
  <2> HIDE DEF upTo
  <2>9. CASE x >= End(q[k])
    BY <2>2, <2>6, <2>8, <2>9
  <2>10. CASE ~(x >= End(q[k]))
    <3>1. \A y \in upTo(k - 1) : y \in Nat
      <4>1. \A i \in 1..k - 1 : i \in 1..n  BY <2>4
      <4> QED  BY <1>3, <4>1 DEF upTo
    <3>2. \A y \in upTo(k) : End(q[k]) >= y  BY <2>6, <2>7, <2>8, <2>10, <3>1
    <3> QED  BY <2>2, <2>7, <2>8, <3>2
  <2> QED  BY <2>9, <2>10
<1>5. upTo(n) = ends
  <2>1. \A s \in segs : \E i \in 1..n : q[i] = s  BY <1>2
  <2>2. \A i \in 1..n : q[i] \in segs  BY <1>3
  <2> QED  BY <2>1, <2>2
<1> HIDE DEF upTo, ends
<1>6. PICK x \in ends : x \in Nat /\ \A y \in ends : x >= y
  BY <1>4, <1>5
<1>7. Max(ends) \in ends /\ \A y \in ends : Max(ends) >= y
  BY <1>6 DEF Max
<1>8. ends \subseteq Nat
  <2>1. \A s \in segs : End(s) \in Nat  BY <1>1 DEF End
  <2> QED  BY <2>1 DEF ends
<1>9. Max(ends) \in Nat /\ \A y \in ends : y <= Max(ends)
  BY <1>7, <1>8
<1> QED  BY <1>9 DEF ends, segs

LEMMA BreakIs ==
  ASSUME NEW f \in Files
  PROVE  /\ RoundUp(BrkInit(f), Page) \in Nat
         /\ \A i \in DOMAIN f.sects :
              InMemory(f.sects[i]) => End(f.sects[i]) <= RoundUp(BrkInit(f), Page)
<1> DEFINE ends == {0} \cup {End(s) : s \in f.segs}
<1>1. Max(ends) \in Nat /\ \A x \in ends : x <= Max(ends)
  BY HighestIs
<1>2. PICK top \in Nat : top = Max(ends)
  BY <1>1
<1>3. BrkInit(f) = RoundUp(top, Page)
  BY <1>2 DEF BrkInit
<1>4. BrkInit(f) \in Nat /\ top <= BrkInit(f)
  BY <1>3, RoundUpIs, SpaceAssumption
<1>5. RoundUp(BrkInit(f), Page) \in Nat /\ BrkInit(f) <= RoundUp(BrkInit(f), Page)
  BY <1>4, RoundUpIs, SpaceAssumption
<1>6. ASSUME NEW i \in DOMAIN f.sects, InMemory(f.sects[i])
      PROVE  End(f.sects[i]) <= RoundUp(BrkInit(f), Page)
  <2>1. PICK g \in f.segs : End(f.sects[i]) <= End(g)  BY <1>6, LinkedAssumption
  <2>2. End(g) \in ends  OBVIOUS
  <2>3. End(g) <= top  BY <1>1, <1>2, <2>2
  <2>4. End(f.sects[i]) \in Nat  BY FileIs
  <2>5. End(g) \in Nat  BY FilesAssumption DEF End
  <2> QED  BY <1>4, <1>5, <2>1, <2>3, <2>4, <2>5
<1> QED  BY <1>5, <1>6

(* The arguments are sequences of strings. *)
LEMMA LinesAre ==
  ASSUME NEW f, f.ended \in BOOLEAN, f.lines \in Seq(String)
  PROVE  Lines(f) \in Seq(String)
<1>1. CASE f.ended \/ f.lines = <<>>
  BY <1>1 DEF Lines
<1>2. CASE ~(f.ended \/ f.lines = <<>>)
  <2>1. f.lines # <<>> /\ Lines(f) = Front(f.lines)  BY <1>2 DEF Lines
  <2>2. Front(f.lines) \in Seq(String)
    <3> DEFINE n == Len(f.lines) - 1
    <3>1. n \in Int /\ \A i \in 1..n : f.lines[i] \in String
      <4>1. Len(f.lines) \in Nat /\ \A i \in 1..Len(f.lines) : f.lines[i] \in String
        BY LenProperties, ElementOfSeq
      <4> QED  BY <4>1
    <3>2. Front(f.lines) = SubSeq(f.lines, 1, n)  BY DEF Front
    <3> HIDE DEF n
    <3> QED  BY <3>1, <3>2, SubSeqProperties
  <2> QED  BY <2>1, <2>2
<1> QED  BY <1>1, <1>2

LEMMA ArgumentsAre ==
  ASSUME NEW c \in Commands
  PROVE  ArgvOf(c) \subseteq Seq(String) /\ EnvpOf(c) \subseteq Seq(String)
<1>1. /\ c.app \in String /\ c.table \in Seq(String) /\ c.environ \in Seq(String)
      /\ c.argvFile # NULL => Lines(c.argvFile) \in Seq(String)
      /\ c.envpFile # NULL => Lines(c.envpFile) \in Seq(String)
  BY CommandsAssumption, LinesAre
<1>2. <<c.app>> \in Seq(String)
  BY <1>1
<1>3. <<c.app>> \o c.table \in Seq(String)
  BY <1>1, <1>2, ConcatProperties
<1>4. c.argvFile # NULL => <<c.app>> \o Lines(c.argvFile) \in Seq(String)
  BY <1>1, <1>2, ConcatProperties
<1>5. c.envpFile # NULL => c.environ \o Lines(c.envpFile) \in Seq(String)
  BY <1>1, ConcatProperties
<1>6. <<>> \in Seq(String)
  BY EmptySeq
<1>7. ArgvOf(c) \subseteq Seq(String)
  BY <1>3, <1>4, <1>6 DEF ArgvOf
<1>8. EnvpOf(c) \subseteq Seq(String)
  BY <1>1, <1>5 DEF EnvpOf
<1> QED  BY <1>7, <1>8

LEMMA SizeIsNat ==
  ASSUME NEW strings \in Seq(String)
  PROVE  SizeOf(strings) \in Nat
<1> DEFINE n == Len(strings)
<1>1. n \in Nat /\ \A k \in 1..n : Len(strings[k]) \in Nat
  <2>1. n \in Nat /\ \A k \in 1..n : strings[k] \in String
    BY LenProperties, ElementOfSeq
  <2> QED  BY <2>1, LenProperties DEF String
<1>2. PICK h : /\ h[0] = 0 /\ h[n] = SizeOf(strings)
               /\ \A k \in 1..n : h[k] = h[k - 1] + Len(strings[k]) + 1
  BY <1>1, SizeOfIs
<1> DEFINE Bad == {k \in 0..n : h[k] \notin Nat}
<1> SUFFICES ASSUME Bad # {}  PROVE FALSE
  BY <1>1, <1>2
<1>3. PICK k \in Bad : \A m \in Bad : k <= m
  <2>1. Bad \in SUBSET Nat  OBVIOUS
  <2> HIDE DEF Bad
  <2> QED  BY <2>1, LeastOf
<1>4. k # 0
  BY <1>2
<1>5. k \in 1..n /\ k - 1 \in 0..n /\ k - 1 < k
  BY <1>1, <1>4
<1>6. k - 1 \notin Bad
  <2> HIDE DEF Bad
  <2> QED  BY <1>3, <1>5
<1>7. h[k - 1] \in Nat /\ h[k] = h[k - 1] + Len(strings[k]) + 1 /\ Len(strings[k]) \in Nat
  BY <1>1, <1>2, <1>5, <1>6
<1>8. h[k] \in Nat
  BY <1>7
<1> QED  BY <1>8

-----------------------------------------------------------------------------
(* gliss_stack_fill_env: the three parts of the stack do not meet, and are *)
(* above the break.                                                        *)
LEMMA FillIs ==
  ASSUME TypePart, MemoryPart, ArgumentsPart, FillEnv
  PROVE  /\ image' \in Images /\ (loaded # NULL => ImageOf(loaded, image'))
         /\ env' \in Environment /\ env'.brk = env.brk
         /\ StackFilled'
<1> DEFINE brk == RoundUp(BrkInit(cmd.program), Page)
           T == StackSize(argv, envp)
           n == Len(argv)
           m == Len(envp)
           A == SizeOf(argv)
           B == SizeOf(envp)
           sp == StackTop - T
           argvAt == sp + 4
           envpAt == argvAt + (n + 1) * 4
           str == envpAt + (m + 1) * 4
           m0 == Put32(image, sp, n)
           first == PutStrings(m0, argvAt, str, argv)
           second == PutStrings(first.mem, envpAt, first.str, envp)
<1>1. /\ image' = second.mem
      /\ env' = [env EXCEPT !.sp = sp, !.argc = n, !.argv = argvAt, !.envp = envpAt]
      /\ UNCHANGED <<argv, envp>> /\ stage = "fill"
  BY DEF FillEnv, options, At
<1>2. /\ image \in Images /\ loaded = cmd.program /\ env.brk = brk /\ ImageOf(loaded, image)
      /\ cmd \in Commands /\ cmd.program \in Files /\ env \in Environment
  BY <1>1, CommandsAssumption DEF MemoryPart, TypePart, Filling
<1>3. /\ argv \in ArgvOf(cmd) /\ envp \in EnvpOf(cmd)
      /\ argv \in Seq(String) /\ envp \in Seq(String)
  BY <1>1, <1>2, ArgumentsAre DEF ArgumentsPart, Argued, Filling
<1>4. n \in Nat /\ m \in Nat /\ A \in Nat /\ B \in Nat
  <2>1. n \in Nat /\ m \in Nat  BY <1>3, LenProperties
  <2>2. A \in Nat /\ B \in Nat  BY <1>3, SizeIsNat
  <2> QED  BY <2>1, <2>2
<1>5. brk \in Nat /\ brk + T <= StackTop
  BY <1>2, <1>3, BreakIs, RoomAssumption
<1>6. T \in Nat /\ (n + m + 2) * 4 + A + B + 4 <= T /\ T % 4 = 0
  <2>1. PICK t \in Nat : t = (n + m + 2) * 4 + A + B + 4  BY <1>4
  <2>2. T = RoundUp(t, 4)  BY <2>1 DEF StackSize
  <2> QED  BY <2>1, <2>2, RoundUpToWords
<1>7. /\ StackTop \in Nat /\ StackTop <= Space /\ StackTop % 4 = 0 /\ Space \in Nat
  BY SimulatorAssumption, SpaceAssumption
<1>8. brk \in Nat /\ cmd.program \in Files  BY <1>2, <1>5
<1> HIDE DEF brk, T, n, m, A, B
<1>9. /\ sp \in Nat /\ brk <= sp /\ sp % 4 = 0
      /\ argvAt \in Nat /\ envpAt \in Nat /\ str \in Nat
      /\ argvAt = sp + 4 /\ envpAt = argvAt + 4 * n + 4 /\ str = envpAt + 4 * m + 4
      /\ str + A + B <= StackTop
  BY <1>4, <1>5, <1>6, <1>7
<1> HIDE DEF sp, argvAt, envpAt, str
<1>10. /\ m0 \in Images /\ PointsAt(m0, sp, n)
       /\ \A x \in Addr : x \notin sp..sp + 3 => m0[x] = image[x]
  <2>1. sp + 4 <= Space  BY <1>4, <1>7, <1>9
  <2>2. /\ Put32(image, sp, n) \in Images
        /\ sp + 4 <= Space => PointsAt(Put32(image, sp, n), sp, n)
        /\ \A x \in Addr : x \notin sp..sp + 3 => Put32(image, sp, n)[x] = image[x]
    <3>1. image \in Images /\ sp \in Nat /\ n \in Nat  BY <1>2, <1>4, <1>9
    <3> QED  BY <3>1, Put32Is
  <2> QED  BY <2>1, <2>2
<1> HIDE DEF m0
<1>11. /\ first.mem \in Images /\ first.str = str + A
       /\ Table(first.mem, argvAt, str, str + A, argv)
       /\ \A x \in Addr : x \notin argvAt..argvAt + 4 * n + 3 /\ x \notin str..str + A - 1
                            => first.mem[x] = m0[x]
  <2>1. argvAt + 4 * (Len(argv) + 1) <= str /\ str + SizeOf(argv) <= Space
    BY <1>4, <1>7, <1>9 DEF n, A
  <2>2. LET r == PutStrings(m0, argvAt, str, argv) IN
         /\ r.mem \in Images /\ SizeOf(argv) \in Nat /\ r.str = str + SizeOf(argv)
         /\ Table(r.mem, argvAt, str, r.str, argv)
         /\ \A x \in Addr : /\ x \notin argvAt..argvAt + 4 * Len(argv) + 3
                            /\ x \notin str..r.str - 1
                            => r.mem[x] = m0[x]
    <3>1. m0 \in Images /\ argvAt \in Nat /\ str \in Nat /\ argv \in Seq(String)
      BY <1>3, <1>9, <1>10
    <3> QED  BY <2>1, <3>1, PutStringsIs
  <2>3. /\ first.mem \in Images /\ first.str = str + A
        /\ Table(first.mem, argvAt, str, first.str, argv)
        /\ \A x \in Addr : x \notin argvAt..argvAt + 4 * n + 3 /\ x \notin str..first.str - 1
                             => first.mem[x] = m0[x]
    BY <2>2 DEF n, A
  <2>4. (str + A) - 1 = str + A - 1
    BY <1>4, <1>9
  <2> HIDE DEF first
  <2>5. first.str - 1 = str + A - 1
    BY <2>3, <2>4
  <2> QED  BY <2>3, <2>5
<1>12. PICK str2 \in Nat : str2 = str + A
  BY <1>4, <1>9
<1> DEFINE fm == first.mem
<1>12a. second = PutStrings(fm, envpAt, str2, envp) /\ fm \in Images
  BY <1>11, <1>12
<1> HIDE DEF first, second, fm
<1>13. /\ second.mem \in Images /\ second.str = str2 + B
       /\ Table(second.mem, envpAt, str2, str2 + B, envp)
       /\ \A x \in Addr : x \notin envpAt..envpAt + 4 * m + 3 /\ x \notin str2..str2 + B - 1
                            => second.mem[x] = fm[x]
  <2>1. envpAt + 4 * (Len(envp) + 1) <= str2 /\ str2 + SizeOf(envp) <= Space
    BY <1>4, <1>7, <1>9, <1>12 DEF m, B
  <2>2. LET r == PutStrings(fm, envpAt, str2, envp) IN
         /\ r.mem \in Images /\ SizeOf(envp) \in Nat /\ r.str = str2 + SizeOf(envp)
         /\ Table(r.mem, envpAt, str2, r.str, envp)
         /\ \A x \in Addr : /\ x \notin envpAt..envpAt + 4 * Len(envp) + 3
                            /\ x \notin str2..r.str - 1
                            => r.mem[x] = fm[x]
    <3>1. fm \in Images /\ envpAt \in Nat /\ str2 \in Nat /\ envp \in Seq(String)
      BY <1>3, <1>9, <1>12a
    <3> QED  BY <2>1, <3>1, PutStringsIs
  <2> QED  BY <1>12a, <2>2 DEF m, B
<1> DEFINE w == second.mem
<1>14. w \in Images /\ image' = w
  BY <1>1, <1>13
<1> HIDE DEF second
<1>15. \A x \in Addr : x < sp => w[x] = image[x]
  <2> TAKE x \in Addr
  <2> HAVE x < sp
  <2>1. x \in Int  BY <1>7 DEF Addr
  <2>2. /\ x \notin sp..sp + 3 /\ x \notin argvAt..argvAt + 4 * n + 3 /\ x \notin str..str + A - 1
        /\ x \notin envpAt..envpAt + 4 * m + 3 /\ x \notin str2..str2 + B - 1
    BY <1>4, <1>9, <1>12, <2>1
  <2> QED  BY <1>10, <1>11, <1>13, <2>2 DEF fm
<1>16. Word(w, sp) = n
  <2>1. \A x \in sp..sp + 3 : w[x] = m0[x]
    <3> TAKE x \in sp..sp + 3
    <3>1. x \in Addr  BY <1>4, <1>7, <1>9 DEF Addr
    <3>2. /\ x \notin argvAt..argvAt + 4 * n + 3 /\ x \notin str..str + A - 1
          /\ x \notin envpAt..envpAt + 4 * m + 3 /\ x \notin str2..str2 + B - 1
      BY <1>4, <1>9, <1>12
    <3> QED  BY <1>11, <1>13, <3>1, <3>2 DEF fm
  <2>2. sp \in sp..sp + 3 /\ sp + 1 \in sp..sp + 3 /\ sp + 2 \in sp..sp + 3 /\ sp + 3 \in sp..sp + 3
    BY <1>9
  <2>3. PointsAt(w, sp, n)  BY <1>10, <2>1, <2>2 DEF PointsAt
  <2> QED  BY <1>4, <2>3, WordIs
<1>17. Table(w, argvAt, str, str + A, argv)
  <2>1. \A x \in Nat : x \in argvAt..argvAt + 4 * Len(argv) + 3 \/ x \in str..(str + A) - 1
                         => w[x] = fm[x]
    <3> TAKE x \in Nat
    <3> HAVE x \in argvAt..argvAt + 4 * Len(argv) + 3 \/ x \in str..(str + A) - 1
    <3>1. x \in argvAt..argvAt + 4 * n + 3 \/ x \in str..(str + A) - 1  BY DEF n
    <3>2. x \in Addr  BY <1>4, <1>7, <1>9, <3>1 DEF Addr
    <3>3. x \notin envpAt..envpAt + 4 * m + 3 /\ x \notin str2..str2 + B - 1
      BY <1>4, <1>9, <1>12, <3>1
    <3> QED  BY <1>13, <3>2, <3>3
  <2>2. str + A \in Nat  BY <1>4, <1>9
  <2>3. Table(fm, argvAt, str, str + A, argv)  BY <1>11 DEF fm
  <2>4. PICK top \in Nat : top = str + A  BY <2>2
  <2>5. /\ Table(fm, argvAt, str, top, argv)
        /\ \A x \in Nat : x \in argvAt..argvAt + 4 * Len(argv) + 3 \/ x \in str..top - 1
                           => w[x] = fm[x]
    BY <2>1, <2>3, <2>4
  <2>6. argvAt \in Nat /\ str \in Nat /\ argv \in Seq(String)  BY <1>3, <1>9
  <2>7. Table(w, argvAt, str, top, argv)
    <3> HIDE DEF w
    <3> QED  BY <2>5, <2>6, TableStays
  <2> QED  BY <2>4, <2>7
<1>17a. StringsAt(w, argvAt) = argv
  <2>1. argvAt + 4 * Len(argv) + 4 <= Space /\ str + A <= Space /\ 0 < str /\ str + A \in Nat
    BY <1>4, <1>7, <1>9 DEF n
  <2> QED  BY <1>3, <1>9, <1>14, <1>17, <2>1, StringsAtAre
<1>18. StringsAt(w, envpAt) = envp
  <2>1. str2 + B \in Nat  BY <1>4, <1>12
  <2>2. envpAt + 4 * Len(envp) + 4 <= Space /\ str2 + B <= Space /\ 0 < str2
    BY <1>4, <1>7, <1>9, <1>12 DEF m
  <2> QED  BY <1>3, <1>9, <1>13, <1>14, <2>1, <2>2, StringsAtAre
<1>18a. argv # <<>> => StringAt(w, str) = argv[1]
  <2> SUFFICES ASSUME argv # <<>>  PROVE StringAt(w, str) = argv[1]
    OBVIOUS
  <2>1. 1 \in 1..n /\ argv[1] \in String /\ Len(argv[1]) \in Nat
    <3>1. 1 \in 1..Len(argv) /\ argv[1] \in String
      BY <1>3, <1>4, LenProperties, ElementOfSeq, EmptySeq DEF n
    <3> QED  BY <3>1, LenProperties DEF String, n
  <2>2. PICK q \in str..(str + A) - 1 :
          /\ 1 = 1 => q = str
          /\ q + Len(argv[1]) < str + A /\ HoldsString(w, q, argv[1])
    BY <1>17, <2>1 DEF Table, n
  <2>3. q = str  BY <2>2
  <2>4. HoldsString(w, str, argv[1])  BY <2>2, <2>3
  <2>5. str + Len(argv[1]) < Space
    <3>1. /\ str + A <= Space /\ str \in Nat /\ A \in Nat /\ Space \in Nat
          /\ Len(argv[1]) \in Nat
      BY <1>4, <1>7, <1>9, <2>1
    <3>2. str + Len(argv[1]) < str + A  BY <2>2, <2>3
    <3> DEFINE len == Len(argv[1])
    <3>3. len \in Nat /\ str + len < str + A  BY <3>1, <3>2
    <3> HIDE DEF len
    <3>4. str + len < Space  BY <3>1, <3>3
    <3> QED  BY <3>4 DEF len
  <2> HIDE DEF w
  <2> QED  BY <1>9, <1>14, <2>1, <2>4, <2>5, StringAtIs
<1>19. ImageOf(loaded, w)
  <2>1. ASSUME NEW i \in DOMAIN cmd.program.sects, NEW a \in Bytes(cmd.program.sects[i]),
               InMemory(cmd.program.sects[i])
        PROVE  w[a] = image[a]
    <3> DEFINE s == cmd.program.sects[i]
    <3>1. s.at \in Nat /\ End(s) \in Nat /\ End(s) <= Space  BY <1>2, FileIs
    <3>2. End(s) <= brk  BY <1>2, <2>1, BreakIs DEF brk
    <3> HIDE DEF s
    <3>3. a \in s.at..End(s) - 1  BY DEF Bytes, s
    <3>4. a \in Addr /\ a < sp  BY <1>7, <1>8, <1>9, <3>1, <3>2, <3>3 DEF Addr
    <3> QED  BY <1>15, <3>4
  <2>2. \A i \in DOMAIN cmd.program.sects :
          \/ SectType(cmd.program.sects[i]) \in {"text", "data"}
          \/ cmd.program.sects[i].bss
          => InMemory(cmd.program.sects[i])
    BY <1>2, KindsOfSections
  <2> QED  BY <1>2, <2>1, <2>2 DEF ImageOf
<1>20. /\ env' \in Environment /\ env'.brk = env.brk /\ env'.sp = sp /\ env'.argc = n
       /\ env'.argv = argvAt /\ env'.envp = envpAt
  BY <1>1, <1>2, <1>4, <1>9 DEF Environment
<1>21. StackFilled'
  <2>1. env'.envp + 4 * (Len(envp') + 1) = str
    BY <1>1, <1>4, <1>9, <1>20 DEF m
  <2>2. argv' # <<>> => StringAt(image', env'.envp + 4 * (Len(envp') + 1)) = argv'[1]
    BY <1>1, <1>14, <1>18a, <2>1
  <2> QED  BY <1>1, <1>2, <1>9, <1>14, <1>16, <1>17a, <1>18, <1>20, <2>2 DEF StackFilled, n
<1> QED  BY <1>2, <1>14, <1>19, <1>20, <1>21

-----------------------------------------------------------------------------
(* The order write_profiling_file puts the entries in. *)
EntryLists(n) == [1..n -> ProfileEntry]

LEMMA ExchangeIs ==
  ASSUME NEW n \in Nat, NEW s \in EntryLists(n), NEW i \in 1..n, NEW j \in 1..n, i # j
  PROVE  LET t == Exchange(s, i, j) IN
         /\ t \in EntryLists(n)
         /\ \A e : (\E p \in 1..n : t[p] = e) <=> (\E p \in 1..n : s[p] = e)
         /\ \A p \in 1..n : p # i /\ p # j => t[p] = s[p]
         /\ t[i] \in {s[i], s[j]} /\ t[j] \in {s[i], s[j]}
         /\ t[i].count >= t[j].count /\ t[i].count >= s[i].count
<1> DEFINE t == Exchange(s, i, j)
<1>1. /\ s[i].count \in Int /\ s[j].count \in Int /\ s[i] \in ProfileEntry /\ s[j] \in ProfileEntry
  <2>1. s[i] \in ProfileEntry /\ s[j] \in ProfileEntry  BY DEF EntryLists
  <2> QED  BY <2>1, SimulatorAssumption DEF ProfileEntry
<1>2. CASE s[j].count > s[i].count
  <2>1. t = [s EXCEPT ![i] = s[j], ![j] = s[i]]  BY <1>2 DEF Exchange
  <2>2. /\ t \in EntryLists(n) /\ t[i] = s[j] /\ t[j] = s[i]
        /\ \A p \in 1..n : p # i /\ p # j => t[p] = s[p]
    BY <1>1, <2>1 DEF EntryLists
  <2> HIDE DEF t
  <2>3. \A e : (\E p \in 1..n : t[p] = e) <=> (\E p \in 1..n : s[p] = e)
    <3> TAKE e
    <3>1. ASSUME NEW p \in 1..n, t[p] = e  PROVE \E q \in 1..n : s[q] = e
      BY <2>2, <3>1
    <3>2. ASSUME NEW p \in 1..n, s[p] = e  PROVE \E q \in 1..n : t[q] = e
      BY <2>2, <3>2
    <3> QED  BY <3>1, <3>2
  <2> QED  BY <1>1, <1>2, <2>2, <2>3 DEF t
<1>3. CASE ~(s[j].count > s[i].count)
  <2>1. t = s  BY <1>3 DEF Exchange
  <2> HIDE DEF t
  <2> QED  BY <1>1, <1>3, <2>1 DEF t
<1> QED  BY <1>2, <1>3

(* Exchanges goes through the following entries. *)
LEMMA ExchangesGo ==
  ASSUME NEW n \in Nat, NEW s \in EntryLists(n), NEW i \in 1..n
  PROVE  \E r : /\ r[0] = s /\ r[n - i] = Exchanges(s, i)
                /\ \A k \in 1..n - i : r[k] = Exchange(r[k - 1], i, i + k)
<1> DEFINE m == n - i
           next == [k \in 1..m |-> i + k]
           step(g) == [S \in SUBSET DOMAIN next |->
                         IF S = {} THEN s ELSE Exchange(g[S \ {Max(S)}], i, next[Max(S)])]
           g0 == CHOOSE g : g = step(g)
           F == [k \in 1..m |-> [x \in EntryLists(n) |-> Exchange(x, i, i + k)]]
<1>1. m \in Nat /\ DOMAIN next = 1..m /\ \A k \in 1..m : next[k] = i + k /\ i + k \in 1..n /\ i + k # i
  OBVIOUS
<1>2. Exchanges(s, i) = g0[1..m]
  <2>1. Len(s) = n
    <3>1. s \in Seq(ProfileEntry) /\ s \in [1..n -> ProfileEntry]
      BY SeqDef DEF EntryLists
    <3> QED  BY <3>1, LenProperties
  <2>2. Exchanges(s, i) = g0[DOMAIN next]
    BY <2>1 DEF Exchanges, FoldLeft, MapThenFoldSet
  <2> QED  BY <1>1, <2>2
<1>3. F \in Steps(m, EntryLists(n)) /\ \A k \in 1..m, x \in EntryLists(n) : F[k][x] = Exchange(x, i, i + k)
  <2>1. \A k \in 1..m, x \in EntryLists(n) : Exchange(x, i, i + k) \in EntryLists(n)
    BY <1>1, ExchangeIs
  <2> QED  BY <2>1 DEF Steps
<1> HIDE DEF F, m, next
<1>4. PICK g \in [SUBSET (1..m) -> EntryLists(n)] :
        /\ g[{}] = s
        /\ \A S \in SUBSET (1..m) : S # {} => g[S] = F[Max(S)][g[S \ {Max(S)}]]
  <2>1. Folds(EntryLists(n), s, m, F)  BY <1>1, <1>3, SubsetRecursion
  <2> QED  BY <2>1 DEF Folds
<1>5. \A S \in SUBSET (1..m) : S # {} => g[S] = Exchange(g[S \ {Max(S)}], i, next[Max(S)])
  <2> TAKE S \in SUBSET (1..m)
  <2> HAVE S # {}
  <2>1. Max(S) \in 1..m  BY <1>1, GreatestIs
  <2>2. g[S \ {Max(S)}] \in EntryLists(n)  OBVIOUS
  <2> QED  BY <1>1, <1>3, <1>4, <2>1, <2>2
<1>6. g = step(g)
  <2>1. g = [S \in SUBSET (1..m) |-> g[S]]  OBVIOUS
  <2> QED  BY <1>1, <1>4, <1>5, <2>1
<1>7. g0 = step(g0)
  <2> HIDE DEF step
  <2> QED  BY <1>6
<1> HIDE DEF g0
<1> DEFINE r == [k \in 0..m |-> g0[1..k]]
<1>8. 1..0 = {} /\ 0 \in 0..m /\ m \in 0..m /\ \A k \in 1..m : k \in 0..m /\ k - 1 \in 0..m
  BY <1>1
<1>9. g0[{}] = s
  BY <1>7
<1>10. \A k \in 1..m : g0[1..k] = Exchange(g0[1..k - 1], i, i + k)
  <2> TAKE k \in 1..m
  <2>1. /\ 1..k \in SUBSET (1..m) /\ 1..k # {} /\ Max(1..k) = k
        /\ (1..k) \ {k} = 1..k - 1
    BY <1>1, FirstOnes
  <2>2. next[k] = i + k  BY <1>1
  <2> QED  BY <1>1, <1>7, <2>1, <2>2
<1>11. r[0] = s /\ r[m] = Exchanges(s, i) /\ \A k \in 1..m : r[k] = Exchange(r[k - 1], i, i + k)
  BY <1>2, <1>8, <1>9, <1>10
<1> HIDE DEF r
<1> QED  BY <1>11 DEF m

(* The first of the entries becomes the greatest of them. *)
LEMMA ExchangesAre ==
  ASSUME NEW n \in Nat, NEW s \in EntryLists(n), NEW i \in 1..n
  PROVE  LET t == Exchanges(s, i) IN
         /\ t \in EntryLists(n)
         /\ \A e : (\E p \in 1..n : t[p] = e) <=> (\E p \in 1..n : s[p] = e)
         /\ \A p \in 1..i - 1 : t[p] = s[p]
         /\ \A p \in i..n : \E q \in i..n : t[p] = s[q]
         /\ \A p \in i + 1..n : t[i].count >= t[p].count
<1> DEFINE m == n - i
<1>1. m \in Nat /\ i \in Nat /\ \A k \in 1..m : i + k \in 1..n /\ i + k # i /\ i + k \in i..n
  OBVIOUS
<1>2. PICK r : /\ r[0] = s /\ r[m] = Exchanges(s, i)
               /\ \A k \in 1..m : r[k] = Exchange(r[k - 1], i, i + k)
  BY ExchangesGo
<1> DEFINE Good(k) ==
             /\ r[k] \in EntryLists(n)
             /\ \A e : (\E p \in 1..n : r[k][p] = e) <=> (\E p \in 1..n : s[p] = e)
             /\ \A p \in 1..i - 1 : r[k][p] = s[p]
             /\ \A p \in i..n : \E q \in i..n : r[k][p] = s[q]
             /\ \A p \in i + 1..i + k : r[k][i].count >= r[k][p].count
<1>3. Good(0)
  <2>1. i + 1..i + 0 = {}  OBVIOUS
  <2> QED  BY <1>2, <2>1
<1>4. ASSUME NEW k \in 1..m, Good(k - 1)
      PROVE  Good(k)
  <2> DEFINE u == r[k - 1]
             t == r[k]
             j == i + k
  <2>1. t = Exchange(u, i, j) /\ u \in EntryLists(n) /\ j \in 1..n /\ i # j /\ k \in Nat /\ i \in i..n /\ j \in i..n
    BY <1>1, <1>2, <1>4
  <2> HIDE DEF u, t, j
  <2>2. /\ t \in EntryLists(n)
        /\ \A e : (\E p \in 1..n : t[p] = e) <=> (\E p \in 1..n : u[p] = e)
        /\ \A p \in 1..n : p # i /\ p # j => t[p] = u[p]
        /\ t[i] \in {u[i], u[j]} /\ t[j] \in {u[i], u[j]}
        /\ t[i].count >= t[j].count /\ t[i].count >= u[i].count
    <3>1. LET v == Exchange(u, i, j) IN
          /\ v \in EntryLists(n)
          /\ \A e : (\E p \in 1..n : v[p] = e) <=> (\E p \in 1..n : u[p] = e)
          /\ \A p \in 1..n : p # i /\ p # j => v[p] = u[p]
          /\ v[i] \in {u[i], u[j]} /\ v[j] \in {u[i], u[j]}
          /\ v[i].count >= v[j].count /\ v[i].count >= u[i].count
      BY <2>1, ExchangeIs
    <3> QED  BY <2>1, <3>1
  <2>3. /\ \A e : (\E p \in 1..n : u[p] = e) <=> (\E p \in 1..n : s[p] = e)
        /\ \A p \in 1..i - 1 : u[p] = s[p]
        /\ \A p \in i..n : \E q \in i..n : u[p] = s[q]
        /\ \A p \in i + 1..i + (k - 1) : u[i].count >= u[p].count
    BY <1>4 DEF u
  <2>4. \A e : (\E p \in 1..n : t[p] = e) <=> (\E p \in 1..n : s[p] = e)
    BY <2>2, <2>3
  <2>5. \A p \in 1..i - 1 : t[p] = s[p]
    <3> TAKE p \in 1..i - 1
    <3>1. p \in 1..n /\ p # i /\ p # j  BY <1>1 DEF j
    <3> QED  BY <2>2, <2>3, <3>1
  <2>6. \A p \in i..n : \E q \in i..n : t[p] = s[q]
    <3> TAKE p \in i..n
    <3>1. CASE p = i \/ p = j
      <4>1. t[p] = u[i] \/ t[p] = u[j]  BY <2>2, <3>1
      <4> QED  BY <2>1, <2>3, <4>1
    <3>2. CASE p # i /\ p # j
      <4>1. p \in 1..n  BY <1>1
      <4>2. t[p] = u[p]  BY <2>2, <3>2, <4>1
      <4> QED  BY <2>3, <4>2
    <3> QED  BY <3>1, <3>2
  <2>7. \A p \in i + 1..i + k : t[i].count >= t[p].count
    <3> TAKE p \in i + 1..i + k
    <3>1. CASE p = j
      BY <2>2, <3>1
    <3>2. CASE p # j
      <4>1. p \in i + 1..i + (k - 1) /\ p \in 1..n /\ p # i
        BY <1>1, <2>1, <3>2 DEF j
      <4>2. t[p] = u[p]  BY <2>2, <3>2, <4>1
      <4>3. u[i].count >= u[p].count  BY <2>3, <4>1
      <4>4. t[i].count \in Int /\ u[i].count \in Int /\ u[p].count \in Int
        <5>1. t[i] \in ProfileEntry /\ u[i] \in ProfileEntry /\ u[p] \in ProfileEntry
          BY <2>1, <2>2, <4>1 DEF EntryLists
        <5> QED  BY <5>1, SimulatorAssumption DEF ProfileEntry
      <4> QED  BY <2>2, <4>2, <4>3, <4>4
    <3> QED  BY <3>1, <3>2
  <2> QED  BY <2>2, <2>4, <2>5, <2>6, <2>7 DEF t
<1>5. Good(m)
  <2> HIDE DEF Good
  <2> DEFINE Bad == {k \in 0..m : ~Good(k)}
  <2> SUFFICES ASSUME Bad # {}  PROVE FALSE
    <3>1. m \in 0..m  BY <1>1
    <3> QED  BY <3>1
  <2>1. PICK k \in Bad : \A l \in Bad : k <= l
    <3>1. Bad \in SUBSET Nat  OBVIOUS
    <3> HIDE DEF Bad
    <3> QED  BY <3>1, LeastOf
  <2>2. k # 0  BY <1>3
  <2>3. k \in 1..m /\ k - 1 \in 0..m  BY <1>1, <2>2
  <2>4. k - 1 \notin Bad
    <3>1. k \in Nat /\ ~(k <= k - 1)  BY <2>3
    <3> HIDE DEF Bad
    <3> QED  BY <2>1, <3>1
  <2>5. Good(k)  BY <1>4, <2>3, <2>4
  <2> QED  BY <2>5
<1>6. i + m = n
  OBVIOUS
<1> HIDE DEF m
<1> QED  BY <1>2, <1>5, <1>6

(* Sorted does it from each of them. *)
LEMMA SortedGoes ==
  ASSUME NEW n \in Nat, NEW s \in EntryLists(n)
  PROVE  \E r : /\ r[0] = s /\ r[n] = Sorted(s)
                /\ \A k \in 1..n : r[k] = Exchanges(r[k - 1], k)
<1> DEFINE next == [k \in DOMAIN s |-> k]
           step(g) == [S \in SUBSET DOMAIN next |->
                         IF S = {} THEN s ELSE Exchanges(g[S \ {Max(S)}], next[Max(S)])]
           g0 == CHOOSE g : g = step(g)
           F == [k \in 1..n |-> [x \in EntryLists(n) |-> Exchanges(x, k)]]
<1>1. DOMAIN next = 1..n /\ \A k \in 1..n : next[k] = k
  BY DEF EntryLists
<1>2. Sorted(s) = g0[1..n]
  <2>1. Sorted(s) = g0[DOMAIN next]
    BY DEF Sorted, FoldLeft, MapThenFoldSet
  <2> QED  BY <1>1, <2>1
<1>3. F \in Steps(n, EntryLists(n)) /\ \A k \in 1..n, x \in EntryLists(n) : F[k][x] = Exchanges(x, k)
  <2>1. \A k \in 1..n, x \in EntryLists(n) : Exchanges(x, k) \in EntryLists(n)
    BY ExchangesAre
  <2> QED  BY <2>1 DEF Steps
<1> HIDE DEF F, next
<1>4. PICK g \in [SUBSET (1..n) -> EntryLists(n)] :
        /\ g[{}] = s
        /\ \A S \in SUBSET (1..n) : S # {} => g[S] = F[Max(S)][g[S \ {Max(S)}]]
  <2>1. Folds(EntryLists(n), s, n, F)  BY <1>3, SubsetRecursion
  <2> QED  BY <2>1 DEF Folds
<1>5. \A S \in SUBSET (1..n) : S # {} => g[S] = Exchanges(g[S \ {Max(S)}], next[Max(S)])
  <2> TAKE S \in SUBSET (1..n)
  <2> HAVE S # {}
  <2>1. Max(S) \in 1..n  BY GreatestIs
  <2>2. g[S \ {Max(S)}] \in EntryLists(n)  OBVIOUS
  <2> QED  BY <1>1, <1>3, <1>4, <2>1, <2>2
<1>6. g = step(g)
  <2>1. g = [S \in SUBSET (1..n) |-> g[S]]  OBVIOUS
  <2> QED  BY <1>1, <1>4, <1>5, <2>1
<1>7. g0 = step(g0)
  <2> HIDE DEF step
  <2> QED  BY <1>6
<1> HIDE DEF g0
<1> DEFINE r == [k \in 0..n |-> g0[1..k]]
<1>8. 1..0 = {} /\ 0 \in 0..n /\ n \in 0..n /\ \A k \in 1..n : k \in 0..n /\ k - 1 \in 0..n
  OBVIOUS
<1>9. g0[{}] = s
  BY <1>7
<1>10. \A k \in 1..n : g0[1..k] = Exchanges(g0[1..k - 1], k)
  <2> TAKE k \in 1..n
  <2>1. /\ 1..k \in SUBSET (1..n) /\ 1..k # {} /\ Max(1..k) = k
        /\ (1..k) \ {k} = 1..k - 1
    BY FirstOnes
  <2>2. next[k] = k  BY <1>1
  <2>3. g0[1..k] = Exchanges(g0[(1..k) \ {Max(1..k)}], next[Max(1..k)])
    BY <1>1, <1>7, <2>1
  <2> QED  BY <2>1, <2>2, <2>3
<1>11. r[0] = s /\ r[n] = Sorted(s) /\ \A k \in 1..n : r[k] = Exchanges(r[k - 1], k)
  BY <1>2, <1>8, <1>9, <1>10
<1> HIDE DEF r
<1> QED  BY <1>11

LEMMA SortedIs ==
  ASSUME NEW n \in Nat, NEW s \in EntryLists(n)
  PROVE  LET t == Sorted(s) IN
         /\ t \in EntryLists(n)
         /\ \A e : (\E p \in 1..n : t[p] = e) <=> (\E p \in 1..n : s[p] = e)
         /\ \A p, q \in 1..n : p < q => t[p].count >= t[q].count
<1>1. PICK r : /\ r[0] = s /\ r[n] = Sorted(s)
               /\ \A k \in 1..n : r[k] = Exchanges(r[k - 1], k)
  BY SortedGoes
<1> DEFINE Good(k) ==
             /\ r[k] \in EntryLists(n)
             /\ \A e : (\E p \in 1..n : r[k][p] = e) <=> (\E p \in 1..n : s[p] = e)
             /\ \A p \in 1..k : \A q \in p + 1..n : r[k][p].count >= r[k][q].count
<1>2. Good(0)
  BY <1>1
<1>3. ASSUME NEW k \in 1..n, Good(k - 1)
      PROVE  Good(k)
  <2> DEFINE u == r[k - 1]
             t == r[k]
  <2>1. t = Exchanges(u, k) /\ u \in EntryLists(n) /\ k \in Nat
    BY <1>1, <1>3
  <2> HIDE DEF u, t
  <2>2. /\ t \in EntryLists(n)
        /\ \A e : (\E p \in 1..n : t[p] = e) <=> (\E p \in 1..n : u[p] = e)
        /\ \A p \in 1..k - 1 : t[p] = u[p]
        /\ \A p \in k..n : \E q \in k..n : t[p] = u[q]
        /\ \A p \in k + 1..n : t[k].count >= t[p].count
    <3>1. LET v == Exchanges(u, k) IN
          /\ v \in EntryLists(n)
          /\ \A e : (\E p \in 1..n : v[p] = e) <=> (\E p \in 1..n : u[p] = e)
          /\ \A p \in 1..k - 1 : v[p] = u[p]
          /\ \A p \in k..n : \E q \in k..n : v[p] = u[q]
          /\ \A p \in k + 1..n : v[k].count >= v[p].count
      BY <2>1, ExchangesAre
    <3> QED  BY <2>1, <3>1
  <2>3. /\ \A e : (\E p \in 1..n : u[p] = e) <=> (\E p \in 1..n : s[p] = e)
        /\ \A p \in 1..k - 1 : \A q \in p + 1..n : u[p].count >= u[q].count
    BY <1>3 DEF u
  <2>4. \A e : (\E p \in 1..n : t[p] = e) <=> (\E p \in 1..n : s[p] = e)
    BY <2>2, <2>3
  <2>5. ASSUME NEW p \in 1..k, NEW q \in p + 1..n
        PROVE  t[p].count >= t[q].count
    <3>1. CASE p = k
      BY <2>2, <3>1
    <3>2. CASE p # k
      <4>1. p \in 1..k - 1 /\ t[p] = u[p]  BY <2>1, <2>2, <3>2
      <4>2. CASE q \in 1..k - 1
        BY <2>2, <2>3, <4>1, <4>2
      <4>3. CASE q \notin 1..k - 1
        <5>1. q \in k..n  BY <2>1, <4>1, <4>3
        <5>2. PICK l \in k..n : t[q] = u[l]  BY <2>2, <5>1
        <5>3. l \in p + 1..n  BY <2>1, <4>1
        <5> QED  BY <2>3, <4>1, <5>2, <5>3
      <4> QED  BY <4>2, <4>3
    <3> QED  BY <3>1, <3>2
  <2> QED  BY <2>2, <2>4, <2>5 DEF t
<1>4. Good(n)
  <2> HIDE DEF Good
  <2> DEFINE Bad == {k \in 0..n : ~Good(k)}
  <2> SUFFICES ASSUME Bad # {}  PROVE FALSE
    <3>1. n \in 0..n  OBVIOUS
    <3> QED  BY <3>1
  <2>1. PICK k \in Bad : \A l \in Bad : k <= l
    <3>1. Bad \in SUBSET Nat  OBVIOUS
    <3> HIDE DEF Bad
    <3> QED  BY <3>1, LeastOf
  <2>2. k # 0  BY <1>2
  <2>3. k \in 1..n /\ k - 1 \in 0..n  BY <2>2
  <2>4. k - 1 \notin Bad
    <3>1. k \in Nat /\ ~(k <= k - 1)  BY <2>3
    <3> HIDE DEF Bad
    <3> QED  BY <2>1, <3>1
  <2>5. Good(k)  BY <1>3, <2>3, <2>4
  <2> QED  BY <2>5
<1>5. \A p, q \in 1..n : p < q => q \in p + 1..n
  OBVIOUS
<1> QED  BY <1>1, <1>4, <1>5

-----------------------------------------------------------------------------
(* Profiles: what one tells of an instruction. *)
LEMMA CountedIs ==
  ASSUME NEW c \in Counts
  PROVE  /\ Counted(c) \in EntryLists(IdentCount) /\ IdentCount \in Nat \ {0}
         /\ \A i \in Idents : Counted(c)[i] = [id |-> i, count |-> c[i]]
BY SimulatorAssumption DEF Counts, Counted, EntryLists, ProfileEntry, Idents

LEMMA EntriesOf ==
  ASSUME NEW c \in Counts, NEW p, ProfileOf(p, c)
  PROVE  \A e : e \in Range(p) <=> \E i \in Idents : e = [id |-> i, count |-> c[i]]
<1>1. Range(p) = Range(Counted(c)) /\ DOMAIN Counted(c) = Idents
  BY DEF ProfileOf, Counted
<1>2. \A e : e \in Range(Counted(c)) <=> \E i \in Idents : e = Counted(c)[i]
  BY <1>1 DEF Range
<1>3. \A i \in Idents : Counted(c)[i] = [id |-> i, count |-> c[i]]
  BY CountedIs
<1> DEFINE all == Counted(c)
<1>4. \A e : e \in Range(p) <=> \E i \in Idents : e = all[i]
  BY <1>1, <1>2
<1>5. \A i \in Idents : all[i] = [id |-> i, count |-> c[i]]
  BY <1>3
<1> HIDE DEF all
<1> TAKE e
<1>6. ASSUME NEW i \in Idents, e = all[i]
      PROVE  \E j \in Idents : e = [id |-> j, count |-> c[j]]
  BY <1>5, <1>6
<1>7. ASSUME NEW i \in Idents, e = [id |-> i, count |-> c[i]]
      PROVE  \E j \in Idents : e = all[j]
  <2>1. e = all[i]  BY <1>5, <1>7
  <2> QED  BY <2>1
<1> QED  BY <1>4, <1>6, <1>7

LEMMA SortedCounts ==
  ASSUME NEW c \in Counts
  PROVE  /\ ProfileOf(Sorted(Counted(c)), c)
         /\ Sorted(Counted(c)) \in EntryLists(IdentCount)
         /\ \A p, q \in Idents :
              p < q => Sorted(Counted(c))[p].count >= Sorted(Counted(c))[q].count
<1> DEFINE s == Counted(c)
           t == Sorted(s)
<1>1. s \in EntryLists(IdentCount) /\ IdentCount \in Nat
  BY CountedIs
<1> HIDE DEF s
<1>2. /\ t \in EntryLists(IdentCount)
      /\ \A e : (\E p \in 1..IdentCount : t[p] = e) <=> (\E p \in 1..IdentCount : s[p] = e)
      /\ \A p, q \in 1..IdentCount : p < q => t[p].count >= t[q].count
  BY <1>1, SortedIs
<1> HIDE DEF t
<1>3. t \in Seq(ProfileEntry)
  BY <1>1, <1>2, SeqDef DEF EntryLists
<1>4. Range(t) = Range(s)
  BY <1>1, <1>2 DEF Range, EntryLists
<1> QED  BY <1>2, <1>3, <1>4 DEF ProfileOf, ProfileEntry, Idents, s, t

(* What a process killed while it writes leaves is a profile. *)
LEMMA CutIsProfile ==
  ASSUME counts \in Counts, NEW p \in Cut
  PROVE  IsProfile(p)
<1>1. Entries = Sorted(Counted(counts)) /\ IdentCount \in Nat \ {0}
  BY SimulatorAssumption DEF Entries, Counted
<1>2. Entries \in EntryLists(IdentCount)
  BY <1>1, SortedCounts
<1>3. ASSUME NEW n \in 0..IdentCount
      PROVE  SubSeq(Entries, 1, n) \in Seq(ProfileEntry)
  <2>1. n \in Int /\ \A i \in 1..n : Entries[i] \in ProfileEntry
    BY <1>1, <1>2 DEF EntryLists
  <2> HIDE DEF EntryLists
  <2> QED  BY <2>1, SubSeqProperties
<1>4. ASSUME NEW n \in 0..IdentCount - 1, NEW e \in ProfileEntry
      PROVE  Append(SubSeq(Entries, 1, n), e) \in Seq(ProfileEntry)
  <2>1. n \in 0..IdentCount  BY <1>1
  <2> QED  BY <1>3, <2>1, AppendProperties
<1> QED  BY <1>3, <1>4 DEF Cut, IsProfile

(* Saturating sums. *)
LEMMA PlusIs ==
  ASSUME NEW n \in Nat, NEW m \in Nat
  PROVE  /\ Plus(n, m) \in 0..Cap /\ Plus(Plus(n, m), 0) = Plus(n, m)
         /\ Plus(Plus(n, m), 1) = Plus(n, Plus(m, 1))
         /\ n <= Cap => Plus(n, 0) = n
BY SimulatorAssumption DEF Plus

(* The counts follow the instructions executed. *)
LEMMA TallyKept ==
  ASSUME UNCHANGED <<begun, counts, executed, fetched, pc>>
  PROVE  Tallies' = Tallies
BY DEF Tallies, Tally, Tells, Plus

LEMMA FetchTallies ==
  ASSUME TypePart, CountsPart, FetchWatched
  PROVE  CountsPart'
<1>1. /\ stage = "run" /\ stage' = "run" /\ ~fetched /\ fetched'
      /\ UNCHANGED <<cmd, pc, executed, profile, begun>>
      /\ counts' = IF cmd.profile THEN [counts EXCEPT ![Ident[pc]] = Plus(@, 1)] ELSE counts
  BY DEF FetchWatched, At, options, files
<1>2. IsProfile(profile) /\ IsProfile(begun) /\ counts \in Counts /\ executed \in Counts
  BY DEF CountsPart
<1>3. Ident[pc] \in Idents
  <2>1. pc \in Code  BY <1>1 DEF TypePart, Filling, Furnished, Started, Counting, Handled
  <2> QED  BY <2>1, SimulatorAssumption
<1>4. \A n \in 0..Cap : Plus(n, 1) \in 0..Cap
  <2> TAKE n \in 0..Cap
  <2>1. n \in Nat  BY SimulatorAssumption
  <2> QED  BY <2>1, PlusIs
<1>5. counts' \in Counts
  BY <1>1, <1>2, <1>3, <1>4 DEF Counts
<1>6. ASSUME cmd.profile, NEW i \in Idents, NEW n \in 0..Cap, Tells(begun, i, n)
      PROVE  counts'[i] = Tally(n, i)'
  <2>1. counts[i] = Tally(n, i)
    BY <1>1, <1>6 DEF CountsPart, Tallies, Counting, Handled
  <2>2. n \in Nat /\ executed[i] \in Nat
    <3>1. executed[i] \in 0..Cap  BY <1>2 DEF Counts
    <3> QED  BY <3>1, SimulatorAssumption
  <2> DEFINE v == Plus(n, executed[i])
  <2>3. counts[i] = Plus(v, 0) /\ Tally(n, i)' = Plus(v, IF i = Ident[pc] THEN 1 ELSE 0)
    BY <1>1, <2>1 DEF Tally, Plus
  <2>4. Plus(v, 0) = v  BY <2>2, PlusIs
  <2> HIDE DEF v
  <2>5. counts'[i] = IF i = Ident[pc] THEN Plus(counts[i], 1) ELSE counts[i]
    BY <1>1, <1>2, <1>3, <1>6 DEF Counts
  <2> QED  BY <2>3, <2>4, <2>5
<1>7. cmd.profile => Tallies'
  BY <1>1, <1>6 DEF Tallies, Tells
<1> QED  BY <1>1, <1>2, <1>5, <1>7 DEF CountsPart, Counting, Handled

LEMMA StepTallies ==
  ASSUME TypePart, CountsPart, StepWatched
  PROVE  CountsPart'
<1>1. /\ stage = "run" /\ stage' = "run" /\ fetched /\ ~fetched'
      /\ UNCHANGED <<cmd, counts, profile, begun>>
      /\ executed' = [executed EXCEPT ![Ident[pc]] = Plus(@, 1)]
  BY DEF StepWatched, Execute, At, options, files
<1>2. IsProfile(profile) /\ IsProfile(begun) /\ counts \in Counts /\ executed \in Counts
  BY DEF CountsPart
<1>3. Ident[pc] \in Idents
  <2>1. pc \in Code  BY <1>1 DEF TypePart, Filling, Furnished, Started, Counting, Handled
  <2> QED  BY <2>1, SimulatorAssumption
<1>4. \A n \in 0..Cap : Plus(n, 1) \in 0..Cap
  <2> TAKE n \in 0..Cap
  <2>1. n \in Nat  BY SimulatorAssumption
  <2> QED  BY <2>1, PlusIs
<1>5. executed' \in Counts
  BY <1>1, <1>2, <1>3, <1>4 DEF Counts
<1>6. ASSUME cmd.profile, NEW i \in Idents, NEW n \in 0..Cap, Tells(begun, i, n)
      PROVE  counts'[i] = Tally(n, i)'
  <2>1. counts[i] = Tally(n, i)
    BY <1>1, <1>6 DEF CountsPart, Tallies, Counting, Handled
  <2>2. n \in Nat /\ executed[i] \in Nat
    <3>1. executed[i] \in 0..Cap  BY <1>2 DEF Counts
    <3> QED  BY <3>1, SimulatorAssumption
  <2> DEFINE o == n
             x == executed[i]
  <2>3. /\ counts[i] = Plus(Plus(o, x), IF i = Ident[pc] THEN 1 ELSE 0)
        /\ Tally(n, i)' = Plus(Plus(o, executed'[i]), 0)
    BY <1>1, <2>1 DEF Tally, Plus
  <2>4. executed'[i] = IF i = Ident[pc] THEN Plus(x, 1) ELSE x
    BY <1>1, <1>2, <1>3, <1>6 DEF Counts
  <2>5. counts'[i] = counts[i]  BY <1>1
  <2>6. o \in Nat /\ x \in Nat /\ Plus(x, 1) \in Nat
    BY <2>2, SimulatorAssumption DEF Plus
  <2> HIDE DEF o, x
  <2>7. /\ Plus(Plus(o, x), 1) = Plus(o, Plus(x, 1)) /\ Plus(Plus(o, x), 0) = Plus(o, x)
        /\ Plus(Plus(o, Plus(x, 1)), 0) = Plus(o, Plus(x, 1))
    BY <2>6, PlusIs
  <2> QED  BY <2>3, <2>4, <2>5, <2>7 DEF o
<1>7. cmd.profile => Tallies'
  BY <1>1, <1>6 DEF Tallies, Tells
<1> QED  BY <1>1, <1>2, <1>5, <1>7 DEF CountsPart, Counting, Handled

LEMMA RunTallies ==
  ASSUME TypePart, CountsPart, RunUnwatched
  PROVE  CountsPart'
<1>1. /\ stage = "run" /\ stage' = "run" /\ cmd.mode # "watch"
      /\ UNCHANGED <<cmd, counts, profile, begun>>
      /\ executed' = [executed EXCEPT ![Ident[pc]] = Plus(@, 1)]
  BY DEF RunUnwatched, Execute, At, options, files
<1>2. IsProfile(profile) /\ IsProfile(begun) /\ counts \in Counts /\ executed \in Counts
  BY DEF CountsPart
<1>3. Ident[pc] \in Idents
  <2>1. pc \in Code  BY <1>1 DEF TypePart, Filling, Furnished, Started, Counting, Handled
  <2> QED  BY <2>1, SimulatorAssumption
<1>4. \A n \in 0..Cap : Plus(n, 1) \in 0..Cap
  <2> TAKE n \in 0..Cap
  <2>1. n \in Nat  BY SimulatorAssumption
  <2> QED  BY <2>1, PlusIs
<1>5. executed' \in Counts
  BY <1>1, <1>2, <1>3, <1>4 DEF Counts
<1>6. ~cmd.profile
  BY <1>1, CommandsAssumption DEF TypePart
<1> QED  BY <1>1, <1>2, <1>5, <1>6 DEF CountsPart, Counting, Handled

-----------------------------------------------------------------------------
(* The steps that prepare the counts, and write them. *)
LEMMA CountsStay ==
  ASSUME TypePart, CountsPart, UNCHANGED <<cmd, pc, fetched, counts, executed, profile, begun>>,
         \/ stage' = stage \/ stage' = "over"
         \/ stage \notin {"over", "profile"} \cup Counting /\ stage' \notin {"over"} \cup Counting
         \/ stage = "signals" /\ stage' = "output"
         \/ stage = "output" /\ stage' = "run"
         \/ stage = "run" /\ stage' = "write",
         stage' \in Stages, stage' = "over" => executed = Zero
  PROVE  CountsPart'
<1>1. IsProfile(profile') /\ IsProfile(begun') /\ counts' \in Counts /\ executed' \in Counts
  BY DEF CountsPart
<1>2. stage' \in Stages \ (Counting \cup {"over"}) => profile' = begun'
  <2>1. stage' \in Stages \ (Counting \cup {"over"}) => stage \in Stages \ (Counting \cup {"over"})
    BY DEF TypePart, Counting, Handled
  <2> QED  BY <2>1 DEF CountsPart
<1>3. stage' \notin {"run", "write", "leave"} => executed' = Zero
  BY DEF CountsPart, Counting, Handled
<1>4. stage' \in Counting /\ cmd'.profile => Tallies'
  <2>1. stage' \in Counting => stage \in Counting  BY DEF Counting, Handled
  <2>2. Tallies' = Tallies  BY TallyKept
  <2> QED  BY <2>1, <2>2 DEF CountsPart
<1>5. stage' = "leave" /\ cmd'.profile => profile' = Sorted(Counted(counts'))
  <2>1. stage' = "leave" => stage = "leave"  BY DEF Counting, Handled
  <2> QED  BY <2>1 DEF CountsPart
<1>6. CountsPart' = ( /\ IsProfile(profile') /\ IsProfile(begun')
                      /\ counts' \in Counts /\ executed' \in Counts
                      /\ stage' \in Stages \ (Counting \cup {"over"}) => profile' = begun'
                      /\ stage' \notin {"run", "write", "leave"} => executed' = Zero
                      /\ stage' \in Counting /\ cmd'.profile => Tallies'
                      /\ stage' = "leave" /\ cmd'.profile => profile' = Sorted(Counted(counts')) )
  BY DEF CountsPart, Sorted, Counted
<1> QED  BY <1>1, <1>2, <1>3, <1>4, <1>5, <1>6

LEMMA LoadTallies ==
  ASSUME TypePart, CountsPart, LoadProfile
  PROVE  CountsPart'
<1>1. /\ stage = "profile" /\ stage' \in {"signals", "over"} /\ ~fetched /\ ~fetched'
      /\ UNCHANGED <<cmd, pc, executed, begun>>
  BY DEF LoadProfile, At, Goto, GiveUp, options, running, TypePart
<1>2. /\ IsProfile(profile) /\ IsProfile(begun) /\ counts \in Counts /\ executed \in Counts
      /\ profile = begun /\ executed = Zero
  BY <1>1 DEF CountsPart, Stages, Counting, Handled
<1>3. CASE UNCHANGED <<counts, profile>> /\ (~cmd.profile \/ stage' = "over")
  BY <1>1, <1>2, <1>3 DEF CountsPart, Counting, Handled
<1>4. CASE counts' \in CountsRead /\ profile' = <<>> /\ stage' = "signals"
  <2>1. /\ counts' \in Counts
        /\ \A i \in Idents, n \in 0..Cap : Tells(profile, i, n) => counts'[i] = n
    BY <1>4 DEF CountsRead, Counts
  <2>2. ASSUME NEW i \in Idents, NEW n \in 0..Cap, Tells(profile, i, n)
        PROVE  counts'[i] = Tally(n, i)'
    <3>1. executed'[i] = 0  BY <1>1, <1>2, ZeroIs
    <3>2. Tally(n, i)' = Plus(Plus(n, 0), 0)  BY <1>1, <3>1 DEF Tally, Plus
    <3>3. n \in Nat /\ n <= Cap  BY SimulatorAssumption
    <3>4. Plus(Plus(n, 0), 0) = n  BY <3>3, PlusIs
    <3> QED  BY <2>1, <2>2, <3>2, <3>4
  <2>3. Tallies'
    <3>1. begun' = profile  BY <1>1, <1>2
    <3> QED  BY <2>2, <3>1 DEF Tallies, Tells
  <2>4. IsProfile(profile')  BY <1>4, EmptySeq DEF IsProfile
  <2> QED  BY <1>1, <1>2, <1>4, <2>1, <2>3, <2>4 DEF CountsPart, Counting, Handled
<1>5. \/ UNCHANGED <<counts, profile>> /\ (~cmd.profile \/ stage' = "over")
      \/ counts' \in CountsRead /\ profile' = <<>> /\ stage' = "signals"
  BY DEF LoadProfile, Goto, GiveUp
<1> QED  BY <1>3, <1>4, <1>5

LEMMA WriteTallies ==
  ASSUME TypePart, CountsPart, WriteProfile
  PROVE  CountsPart'
<1>1. /\ stage = "write" /\ stage' = "leave"
      /\ UNCHANGED <<cmd, pc, fetched, counts, executed, begun>>
      /\ profile' = IF cmd.profile THEN Sorted(Counted(counts)) ELSE profile
  BY DEF WriteProfile, At, Goto, options, running, profiling, Counted, Entries
<1>2. IsProfile(profile) /\ IsProfile(begun) /\ counts \in Counts /\ executed \in Counts
  BY DEF CountsPart
<1>3. IsProfile(profile')
  <2>1. ProfileOf(Sorted(Counted(counts)), counts)  BY <1>2, SortedCounts
  <2> QED  BY <1>1, <1>2, <2>1 DEF IsProfile, ProfileOf
<1>4. Tallies' = Tallies
  BY <1>1, TallyKept
<1>5. cmd.profile => Tallies
  BY <1>1 DEF CountsPart, Counting, Handled
<1>6. Sorted(Counted(counts))' = Sorted(Counted(counts))
  <2>1. counts' = counts  BY <1>1
  <2> QED  BY <2>1 DEF Sorted, Counted
<1> QED  BY <1>1, <1>2, <1>3, <1>4, <1>5, <1>6 DEF CountsPart, Counting, Handled

-----------------------------------------------------------------------------
(* Each step keeps each part. *)
LEMMA QuietLoader ==
  ASSUME LoaderPart, UNCHANGED <<heap, handle, cmd>>
  PROVE  LoaderPart'
BY DEF LoaderPart, LoaderInv, HeapIs, HandlesOK

LEMMA QuietMemory ==
  ASSUME MemoryPart, UNCHANGED <<image, loaded, cmd, env>>, Back(Filling)
  PROVE  MemoryPart'
BY DEF MemoryPart, Back

LEMMA QuietArguments ==
  ASSUME ArgumentsPart, UNCHANGED <<argv, envp, cmd>>, Back({"envp"} \cup Argued), Back(Argued)
  PROVE  ArgumentsPart'
BY DEF ArgumentsPart, Back

LEMMA QuietStack ==
  ASSUME StackPart, UNCHANGED <<image, argv, envp, env, regs>>, Back(Furnished), Back(Started)
  PROVE  StackPart'
<1>1. StackFilled' = StackFilled
  BY DEF StackFilled, Word, StringsAt, StringAt
<1> QED  BY <1>1 DEF StackPart, Back

LEMMA OtherParts ==
  ASSUME MainInv, UNCHANGED <<cmd, argv, envp, env, regs, image, loaded>>, StagesBack
  PROVE  MemoryPart' /\ ArgumentsPart' /\ StackPart'
BY QuietMemory, QuietArguments, QuietStack DEF MainInv, StagesBack

LEMMA QuietTypes ==
  ASSUME TypePart, Quiet
  PROVE  TypePart'
<1>1. /\ UNCHANGED <<loaderVars, cmd, env, regs>> /\ StagesBack /\ stage' \in Stages
  BY QuietIs DEF options
<1>2. SUFFICES /\ exit' \in Addr /\ pc' \in Code \cup {0} /\ (stage' \in Filling => pc' \in Code)
               /\ fetched' \in BOOLEAN /\ (fetched' => stage' = "run")
  BY <1>1 DEF TypePart, loaderVars, config
<1>3. stage' \in Filling => stage \in Filling
  BY <1>1 DEF StagesBack, Back
<1>4. CASE UNCHANGED <<exit, pc, fetched>> /\ (stage' = stage \/ stage # "run")
  BY <1>3, <1>4 DEF TypePart
<1>5. CASE FindExit
  <2>1. /\ UNCHANGED <<pc, fetched>> /\ stage = "exit"
        /\ exit' = exit \/ exit' \in {cmd.exit, cmd.program.exit} \ {NULL}
    BY <1>5 DEF FindExit, running, At
  <2>2. cmd.program \in Files /\ cmd.exit \in Code \cup {NULL}
    BY CommandsAssumption DEF TypePart
  <2>3. cmd.program.exit \in Addr \cup {NULL}
    BY <2>2, FilesAssumption DEF Addr
  <2>4. exit' \in Addr
    BY <2>1, <2>2, <2>3, SimulatorAssumption DEF TypePart
  <2> QED  BY <1>3, <2>1, <2>4 DEF TypePart
<1>6. CASE NewSim
  <2>1. UNCHANGED <<exit, fetched>> /\ stage = "sim" /\ (pc' = pc \/ pc' \in Code)
    <3>1. cmd.start \in Code \cup {NULL}  BY CommandsAssumption DEF TypePart
    <3> QED  BY <1>6, <3>1 DEF NewSim, process, At
  <2> QED  BY <1>3, <2>1 DEF TypePart
<1>7. CASE RunUnwatched
  <2>1. UNCHANGED <<exit, fetched>> /\ pc' \in Code /\ stage' = stage
    BY <1>7 DEF RunUnwatched, Execute, process
  <2> QED  BY <2>1 DEF TypePart
<1>7a. CASE StepWatched
  <2>1. UNCHANGED exit /\ pc' \in Code /\ stage' = stage /\ fetched' = FALSE
    BY <1>7a DEF StepWatched, Execute, process
  <2> QED  BY <2>1 DEF TypePart
<1>8. CASE FetchWatched
  <2>1. UNCHANGED <<exit, pc>> /\ stage = "run" /\ stage' = stage /\ fetched' = TRUE
    BY <1>8 DEF FetchWatched, process, At
  <2> QED  BY <1>3, <2>1 DEF TypePart
<1>9. CASE StopRun
  <2>1. UNCHANGED <<exit, pc>> /\ fetched' = fetched /\ ~fetched
    BY <1>9 DEF StopRun, process, running
  <2> QED  BY <1>3, <2>1 DEF TypePart
<1>10. CASE LoadProfile \/ InstallHandlers \/ OpenOutput \/ WriteProfile \/ Signal
  <2>1. UNCHANGED <<exit, pc, fetched>>
    BY <1>10 DEF LoadProfile, InstallHandlers, OpenOutput, WriteProfile, Signal, SetEnded, process, running
  <2>2. stage' = stage \/ stage # "run"
    BY <1>10 DEF LoadProfile, InstallHandlers, OpenOutput, WriteProfile, Signal, SetEnded, At
  <2> QED  BY <1>4, <2>1, <2>2
<1> QED  BY <1>5, <1>6, <1>7, <1>7a, <1>8, <1>9, <1>10 DEF Quiet

LEMMA QuietCounts ==
  ASSUME TypePart, CountsPart, Quiet
  PROVE  CountsPart'
<1>1. CASE FindExit
  <2>1. /\ stage = "exit" /\ stage' \in {"argv", "over"}
        /\ UNCHANGED <<cmd, pc, fetched, counts, executed, profile, begun>>
    BY <1>1 DEF FindExit, At, Goto, GiveUp, options, running, profiling, files
  <2>2. /\ stage \notin {"over", "profile"} \cup Counting /\ stage' \in Stages /\ executed = Zero
        /\ stage' = "over" \/ stage' \notin {"over"} \cup Counting
    BY <2>1 DEF Counting, Handled, Stages, CountsPart
  <2> QED  BY <2>1, <2>2, CountsStay
<1>2. CASE NewSim
  <2>1. /\ stage = "sim" /\ stage' \in {"profile", "over"}
        /\ UNCHANGED <<cmd, fetched, counts, executed, profile, begun>>
    BY <1>2 DEF NewSim, At, Goto, GiveUp, options, profiling, files
  <2>2. /\ stage \notin {"over"} \cup Counting /\ stage' \in Stages /\ executed = Zero
        /\ stage' = "over" \/ stage' \notin {"over"} \cup Counting
    BY <2>1 DEF Counting, Handled, Stages, CountsPart
  <2> QED  BY <2>1, <2>2 DEF CountsPart, Stages, Counting, Handled
<1>3. CASE LoadProfile
  BY <1>3, LoadTallies
<1>4. CASE InstallHandlers \/ OpenOutput
  <2>1. /\ \/ stage = "signals" /\ stage' = "output"
           \/ stage = "output" /\ stage' \in {"run", "over"}
        /\ UNCHANGED <<cmd, pc, fetched, counts, executed, profile, begun>>
    BY <1>4 DEF InstallHandlers, OpenOutput, At, Goto, GiveUp, options, running, profiling, files
  <2>2. stage' \in Stages /\ executed = Zero
    BY <2>1 DEF Stages, CountsPart
  <2> QED  BY <2>1, <2>2, CountsStay
<1>5. CASE RunUnwatched
  BY <1>5, RunTallies
<1>6. CASE FetchWatched
  BY <1>6, FetchTallies
<1>7. CASE StepWatched
  BY <1>7, StepTallies
<1>8. CASE StopRun
  <2>1. /\ stage = "run" /\ stage' = "write"
        /\ UNCHANGED <<cmd, pc, fetched, counts, executed, profile, begun>>
    BY <1>8 DEF StopRun, At, Goto, options, running, profiling, files
  <2>2. stage' \in Stages  BY <2>1 DEF Stages
  <2> QED  BY <2>1, <2>2, CountsStay
<1>9. CASE WriteProfile
  BY <1>9, WriteTallies
<1>10. CASE Signal
  <2>1. /\ stage' = stage /\ stage \in Handled
        /\ UNCHANGED <<cmd, pc, fetched, counts, executed, profile, begun>>
    BY <1>10 DEF Signal, SetEnded, options, profiling, files
  <2>2. stage' \in Stages /\ stage' # "over"  BY <2>1 DEF TypePart, Handled
  <2> QED  BY <2>1, <2>2, CountsStay
<1> QED  BY <1>1, <1>2, <1>3, <1>4, <1>5, <1>6, <1>7, <1>8, <1>9, <1>10 DEF Quiet

LEMMA QuietKeeps ==
  ASSUME MainInv, Quiet
  PROVE  MainInv'
<1>1. TypePart /\ LoaderPart /\ CountsPart
  BY DEF MainInv
<1>2. UNCHANGED <<loaderVars, options, env, regs>> /\ StagesBack
  BY <1>1, QuietIs
<1>3. UNCHANGED <<cmd, argv, envp, env, regs, image, loaded, heap, handle>>
  BY <1>2 DEF loaderVars, options
<1>4. MemoryPart' /\ ArgumentsPart' /\ StackPart'
  BY <1>2, <1>3, OtherParts
<1>5. LoaderPart'
  BY <1>1, <1>3, QuietLoader
<1> QED  BY <1>1, <1>4, <1>5, QuietTypes, QuietCounts DEF MainInv

LEMMA LoadersKeep ==
  ASSUME MainInv, Opening \/ Closing
  PROVE  MainInv'
<1>1. TypePart /\ LoaderPart /\ CountsPart
  BY DEF MainInv
<1>2. /\ LoaderPart' /\ UNCHANGED <<config, image, loaded>> /\ stopped' \in BOOLEAN
      /\ UNCHANGED <<options, process, running, alarm, profiling, files>>
      /\ StagesBack /\ stage' \in Stages
      /\ stage \in {"open", "reopen", "close", "reclose"}
      /\ stage' \in {"exit", "load", "over", "reopen", "state"}
  BY <1>1, OpeningIs, ClosingIs
<1>3. MemoryPart' /\ ArgumentsPart' /\ StackPart'
  BY <1>2, OtherParts DEF options, process
<1>4. TypePart'
  <2>1. stage' \in Filling => stage \in Filling  BY <1>2 DEF StagesBack, Back
  <2>2. ~fetched'  BY <1>1, <1>2 DEF TypePart, running
  <2> QED  BY <1>1, <1>2, <2>1, <2>2 DEF TypePart, config, options, process, running
<1>5. CountsPart'
  <2>1. UNCHANGED <<cmd, pc, fetched, counts, executed, profile, begun>>
    BY <1>2 DEF options, running, profiling, files
  <2>2. /\ stage \notin {"over", "profile"} \cup Counting /\ executed = Zero
        /\ stage' = "over" \/ stage' \notin {"over"} \cup Counting
    BY <1>1, <1>2 DEF Counting, Handled, CountsPart
  <2> QED  BY <1>1, <1>2, <2>1, <2>2, CountsStay
<1> QED  BY <1>2, <1>3, <1>4, <1>5 DEF MainInv

(* The steps before the run that neither read a profile nor count. *)
LEMMA EarlyCounts ==
  ASSUME MainInv, UNCHANGED <<cmd, pc, fetched, profiling, files>>,
         stage \in {"argv", "envp", "fill", "state"},
         stage' \in {"over", "envp", "close", "reclose", "sim"}
  PROVE  CountsPart' /\ stage' \in Stages
<1>1. TypePart /\ CountsPart
  BY DEF MainInv
<1>2. /\ stage \notin {"over", "profile"} \cup Counting /\ stage' \in Stages
      /\ stage' = "over" \/ stage' \notin {"over"} \cup Counting
      /\ executed = Zero
  BY <1>1 DEF Counting, Handled, Stages, CountsPart
<1>3. UNCHANGED <<cmd, pc, fetched, counts, executed, profile, begun>>
  BY DEF profiling, files
<1> QED  BY <1>1, <1>2, <1>3, CountsStay

LEMMA ArgumentsKeep ==
  ASSUME MainInv, MakeArgv \/ MakeEnvp
  PROVE  MainInv'
<1>1. /\ UNCHANGED <<loaderVars, cmd, process, running, alarm, profiling, files>>
      /\ \/ stage = "argv" /\ stage' = "envp" /\ argv' \in ArgvOf(cmd)
         \/ stage = "envp" /\ argv' = argv /\ stage' = "over"
         \/ stage = "envp" /\ argv' = argv /\ stage' = "close" /\ envp' \in EnvpOf(cmd)
  BY DEF MakeArgv, MakeEnvp, At, Goto, GiveUp
<1>2. LoaderPart'
  BY <1>1, QuietLoader DEF MainInv, loaderVars
<1>3. CountsPart' /\ stage' \in Stages
  <2>1. UNCHANGED <<cmd, pc, fetched, profiling, files>>  BY <1>1 DEF running
  <2>2. stage \in {"argv", "envp"} /\ stage' \in {"over", "envp", "close"}  BY <1>1
  <2> QED  BY <2>1, <2>2, EarlyCounts
<1>4. TypePart'
  <2>1. TypePart /\ stage \notin Filling /\ stage # "run" /\ stage' \notin Filling
    BY <1>1 DEF MainInv, Filling, Furnished, Started, Counting, Handled
  <2> QED  BY <1>1, <1>3, <2>1 DEF TypePart, loaderVars, config, process, running
<1>5. MemoryPart'
  <2>1. MemoryPart /\ stage' \notin Filling
    BY <1>1 DEF MainInv, Filling, Furnished, Started, Counting, Handled
  <2> QED  BY <1>1, <2>1 DEF MemoryPart, loaderVars
<1>6. ArgumentsPart'
  <2>1. stage = "envp" => argv \in ArgvOf(cmd)  BY DEF MainInv, ArgumentsPart
  <2>2. stage' \in {"envp", "over"} => stage' \notin Argued
    BY DEF Argued, Filling, Furnished, Started, Counting, Handled
  <2>3. stage' = "over" => stage' \notin {"envp"} \cup Argued
    BY <2>2
  <2> QED  BY <1>1, <2>1, <2>2, <2>3 DEF ArgumentsPart
<1>7. StackPart'
  <2>1. stage' \notin Furnished /\ stage' \notin Started
    BY <1>1 DEF Furnished, Started, Counting, Handled
  <2> QED  BY <2>1 DEF StackPart
<1> QED  BY <1>2, <1>3, <1>4, <1>5, <1>6, <1>7 DEF MainInv

LEMMA LoadKeeps ==
  ASSUME MainInv, LoadImage
  PROVE  MainInv'
<1> DEFINE f == cmd.program
<1>0. LoaderPart /\ TypePart /\ MemoryPart /\ ArgumentsPart /\ StackPart /\ CountsPart
  BY DEF MainInv
<1>1. /\ Load(H) /\ stage = "load" /\ stage' = "fill" /\ pc' = f.entry
      /\ env' = [env EXCEPT !.brk = RoundUp(BrkInit(f), Page)]
      /\ UNCHANGED <<options, regs, exit, fetched, ended, alarm, profiling, files>>
  BY DEF LoadImage, Load32, Load64, LoadToy, At, Goto
<1>2. /\ handle[H] # NULL /\ loaded = NULL /\ image' = Filled(H) /\ loaded' = handle[H].file
      /\ UNCHANGED <<config, heap, handle, stopped>>
  BY <1>1 DEF Load, IsOpen
<1>3. H \in Loaders /\ HandlesOK /\ handle[H].file = f /\ image = Empty
  BY <1>0, <1>2, SimulatorAssumption DEF LoaderPart, LoaderInv, MemoryPart
<1>4. cmd \in Commands /\ f \in Files /\ f.entry \in Code /\ cmd' = cmd
  BY <1>0, <1>1, CommandsAssumption DEF TypePart, options
<1>5. loaded' # NULL
  <2>1. handle[H] \in OpenLoader  BY <1>2, <1>3 DEF HandlesOK
  <2> QED  BY <1>2, <1>3, <1>4, NullAssumption
<1>6. RoundUp(BrkInit(f), Page) \in Nat
  BY <1>4, BreakIs
<1>7. LoaderPart'
  BY <1>0, <1>2, <1>4, QuietLoader
<1>8. TypePart'
  <2>1. env' \in Environment  BY <1>0, <1>1, <1>6 DEF TypePart, Environment
  <2>2. stage' \in Stages /\ ~fetched  BY <1>0, <1>1 DEF Stages, TypePart
  <2> QED  BY <1>0, <1>1, <1>2, <1>4, <2>1, <2>2 DEF TypePart, config
<1>9. MemoryPart'
  <2>1. image' \in Images /\ ImageOf(f, image')
    BY <1>2, <1>3, FilledIs
  <2>2. env'.brk = RoundUp(BrkInit(f), Page)
    BY <1>0, <1>1 DEF TypePart, Environment
  <2>3. loaded' = f
    BY <1>2, <1>3
  <2> QED  BY <1>4, <1>5, <2>1, <2>2, <2>3 DEF MemoryPart
<1>10. ArgumentsPart'
  <2>1. stage \in Argued  BY <1>1 DEF Argued
  <2> QED  BY <1>0, <1>1, <2>1 DEF ArgumentsPart, options
<1>11. StackPart'
  BY <1>1 DEF StackPart, Furnished, Started, Counting, Handled
<1>12. CountsPart'
  <2>1. /\ UNCHANGED <<cmd, fetched, counts, executed, profile, begun>>
        /\ stage = "load" /\ stage' = "fill"
    BY <1>1 DEF options, profiling, files
  <2> QED  BY <1>0, <2>1 DEF CountsPart, Stages, Counting, Handled
<1> QED  BY <1>7, <1>8, <1>9, <1>10, <1>11, <1>12 DEF MainInv

LEMMA FillKeeps ==
  ASSUME MainInv, FillEnv
  PROVE  MainInv'
<1>0. LoaderPart /\ TypePart /\ MemoryPart /\ ArgumentsPart /\ CountsPart
  BY DEF MainInv
<1>1. /\ stage = "fill" /\ stage' = "reclose"
      /\ UNCHANGED <<config, heap, handle, loaded, stopped, options, regs, exit, running,
                     alarm, profiling, files>>
  BY DEF FillEnv, At, Goto
<1>2. /\ image' \in Images /\ (loaded # NULL => ImageOf(loaded, image'))
      /\ env' \in Environment /\ env'.brk = env.brk
      /\ StackFilled'
  BY <1>0, FillIs
<1>3. stage \in Filling /\ stage \in Argued
  BY <1>1 DEF Filling, Argued
<1>4. LoaderPart'
  BY <1>0, <1>1, QuietLoader DEF options
<1>5. CountsPart' /\ stage' \in Stages
  <2>1. UNCHANGED <<cmd, pc, fetched, profiling, files>>  BY <1>1 DEF running, options
  <2> QED  BY <1>1, <2>1, EarlyCounts
<1>6. TypePart'
  <2>1. ~fetched  BY <1>0, <1>1 DEF TypePart
  <2> QED  BY <1>0, <1>1, <1>2, <1>3, <1>5, <2>1 DEF TypePart, config, options, running
<1>7. MemoryPart'
  BY <1>0, <1>1, <1>2, <1>3 DEF MemoryPart, options
<1>8. ArgumentsPart'
  BY <1>0, <1>1, <1>3 DEF ArgumentsPart, options
<1>9. StackPart'
  <2>1. stage' \notin Started  BY <1>1 DEF Started, Counting, Handled
  <2> QED  BY <1>2, <2>1 DEF StackPart
<1> QED  BY <1>4, <1>5, <1>6, <1>7, <1>8, <1>9 DEF MainInv

LEMMA StateKeeps ==
  ASSUME MainInv, NewState
  PROVE  MainInv'
<1>0. LoaderPart /\ TypePart /\ MemoryPart /\ ArgumentsPart /\ StackPart /\ CountsPart
  BY DEF MainInv
<1>1. /\ stage = "state"
      /\ UNCHANGED <<loaderVars, options, env, exit, running, alarm, profiling, files>>
      /\ \/ stage' = "over" /\ regs' = regs
         \/ stage' = "sim" /\ regs' = [r \in DOMAIN regs |-> env[r]]
  BY DEF NewState, At, Goto, GiveUp
<1>2. regs' = regs \/
        regs' = [sp |-> env.sp, argc |-> env.argc, argv |-> env.argv, envp |-> env.envp]
  <2>1. DOMAIN regs = {"sp", "argc", "argv", "envp"}  BY <1>0 DEF TypePart
  <2> QED  BY <1>1, <2>1
<1>3. LoaderPart'
  BY <1>0, <1>1, QuietLoader DEF options, loaderVars
<1>4. CountsPart' /\ stage' \in Stages
  <2>1. UNCHANGED <<cmd, pc, fetched, profiling, files>>  BY <1>1 DEF running, options
  <2> QED  BY <1>1, <2>1, EarlyCounts
<1>5. stage \in Filling /\ stage \in Argued /\ stage \in Furnished
  BY <1>1 DEF Filling, Argued, Furnished
<1>6. TypePart'
  <2>1. ~fetched  BY <1>0, <1>1 DEF TypePart
  <2>2. regs' \in [sp : Nat, argc : Nat, argv : Nat, envp : Nat]
    BY <1>0, <1>2 DEF TypePart, Environment
  <2> QED  BY <1>0, <1>1, <1>4, <1>5, <2>1, <2>2 DEF TypePart, loaderVars, config, options, running
<1>7. MemoryPart'
  <2>1. UNCHANGED <<image, loaded, cmd, env>>  BY <1>1 DEF loaderVars, options
  <2> QED  BY <1>0, <1>5, <2>1, QuietMemory DEF Back
<1>8. ArgumentsPart'
  BY <1>0, <1>1, <1>5 DEF ArgumentsPart, options
<1>9. StackPart'
  <2>1. UNCHANGED <<image, argv, envp, env>>  BY <1>1 DEF loaderVars, options
  <2>2. StackFilled'
    <3>1. StackFilled' = StackFilled  BY <2>1 DEF StackFilled, Word, StringsAt, StringAt
    <3> QED  BY <1>0, <1>5, <3>1 DEF StackPart
  <2>3. stage' = "over" => stage' \notin Started  BY DEF Started, Counting, Handled
  <2>4. stage' = "sim" =>
          regs' = [sp |-> env.sp, argc |-> env.argc, argv |-> env.argv, envp |-> env.envp]
    <3>1. DOMAIN regs = {"sp", "argc", "argv", "envp"}  BY <1>0 DEF TypePart
    <3> QED  BY <1>1, <3>1
  <2> QED  BY <1>1, <2>1, <2>2, <2>3, <2>4 DEF StackPart
<1> QED  BY <1>3, <1>4, <1>6, <1>7, <1>8, <1>9 DEF MainInv

LEMMA StutterKeeps ==
  ASSUME MainInv, UNCHANGED simulatorVars
  PROVE  MainInv'
<1>0. LoaderPart /\ TypePart /\ MemoryPart /\ ArgumentsPart /\ StackPart /\ CountsPart
  BY DEF MainInv
<1>1. UNCHANGED <<config, heap, handle, image, loaded, stopped, stage, cmd, argv, envp, env, regs, exit,
                  pc, fetched, profile, counts, begun, executed>>
  BY DEF simulatorVars, loaderVars, options, process, running, profiling, files
<1>2. LoaderPart'
  BY <1>0, <1>1, QuietLoader
<1>3. StagesBack
  BY <1>1 DEF StagesBack, Back
<1>4. MemoryPart' /\ ArgumentsPart' /\ StackPart'
  BY <1>1, <1>3, OtherParts
<1>5. TypePart'
  BY <1>0, <1>1 DEF TypePart, config
<1>6. CountsPart'
  <2>1. stage' \in Stages /\ (stage' = "over" => executed = Zero)
    BY <1>0, <1>1 DEF TypePart, CountsPart
  <2> QED  BY <1>0, <1>1, <2>1, CountsStay
<1> QED  BY <1>2, <1>4, <1>5, <1>6 DEF MainInv

LEMMA ProcessKeeps ==
  ASSUME MainInv, Clearing
  PROVE  MainInv'
<1>1. Cleared /\ cmd' \in Commands
  BY DEF Clearing, Begin, Dies, KillWriting, MainInv, TypePart
<1>2. \/ stage' = "over" /\ begun' = begun
      \/ stage' = "open" /\ begun' = profile /\ profile' = profile
  BY DEF Clearing, Begin, Dies, KillWriting, GiveUp, Goto, files
<1>3. IsProfile(profile')
  <2>1. IsProfile(profile) /\ counts \in Counts  BY DEF MainInv, CountsPart
  <2>2. CASE KillWriting
    BY <2>1, <2>2, CutIsProfile DEF KillWriting
  <2>3. CASE Begin \/ Dies
    BY <2>1, <2>3 DEF Begin, Dies, files
  <2> QED  BY <2>2, <2>3 DEF Clearing
<1> QED  BY <1>1, <1>2, <1>3, ClearedKeeps

-----------------------------------------------------------------------------
(* The inductive invariant of the simulator, over every process, command   *)
(* and file: the handles of the loader and their blocks, the program in the*)
(* memory, the arguments from the command to the stack, the counts.        *)
THEOREM MainInvariant == SimulatorSpec => []MainInv
<1>1. SimulatorInit => MainInv
  BY InitKeeps
<1>2. MainInv /\ [SimulatorNext]_simulatorVars => MainInv'
  <2> SUFFICES ASSUME MainInv, [SimulatorNext]_simulatorVars  PROVE MainInv'
    OBVIOUS
  <2>1. CASE SimulatorNext
    BY <2>1, StepIs, QuietKeeps, LoadersKeep, ArgumentsKeep, LoadKeeps, FillKeeps, StateKeeps,
       ProcessKeeps
  <2>2. CASE UNCHANGED simulatorVars
    BY <2>2, StutterKeeps
  <2> QED  BY <2>1, <2>2
<1> QED  BY <1>1, <1>2, PTL DEF SimulatorSpec

-----------------------------------------------------------------------------
(* What it tells. *)
LEMMA ReadyIs ==
  ASSUME MainInv
  PROVE  ProgramReady
<1>0. TypePart /\ MemoryPart /\ StackPart
  BY DEF MainInv
<1> SUFFICES ASSUME stage \in Started
             PROVE  /\ regs.sp % 4 = 0 /\ Word(image, regs.sp) = regs.argc
                    /\ regs.argc = Len(argv) /\ StringsAt(image, regs.argv) = argv
                    /\ StringsAt(image, regs.envp) = envp
                    /\ argv # <<>> => StringAt(image, regs.envp + 4 * (Len(envp) + 1)) = argv[1]
                    /\ env.brk <= regs.sp
                    /\ \A s \in Range(cmd.program.sects) : "alloc" \in s.flags => End(s) <= env.brk
  BY DEF ProgramReady, Started, Counting
<1>1. stage \in Furnished /\ stage \in Filling
  BY DEF Furnished, Filling
<1>2. /\ StackFilled
      /\ regs = [sp |-> env.sp, argc |-> env.argc, argv |-> env.argv, envp |-> env.envp]
      /\ env.brk = RoundUp(BrkInit(cmd.program), Page)
  BY <1>0, <1>1 DEF StackPart, MemoryPart
<1>3. /\ regs.sp = env.sp /\ regs.argc = env.argc /\ regs.argv = env.argv /\ regs.envp = env.envp
  BY <1>2
<1>4. ASSUME NEW s \in Range(cmd.program.sects), "alloc" \in s.flags
      PROVE  End(s) <= env.brk
  <2>1. PICK i \in DOMAIN cmd.program.sects : s = cmd.program.sects[i]  BY DEF Range
  <2>2. InMemory(cmd.program.sects[i])  BY <1>4, <2>1 DEF InMemory
  <2>3. cmd.program \in Files  BY <1>0, CommandsAssumption DEF TypePart
  <2> QED  BY <1>2, <2>1, <2>2, <2>3, BreakIs
<1> QED  BY <1>2, <1>3, <1>4 DEF StackFilled

LEMMA ProfileIs ==
  ASSUME MainInv
  PROVE  ProfileExact
<1>0. CountsPart
  BY DEF MainInv
<1> SUFFICES ASSUME stage = "leave", cmd.profile
             PROVE  /\ \A e \in Range(profile), old \in 0..Cap :
                         Tells(begun, e.id, old) => e.count = Plus(old, executed[e.id])
                    /\ {e.id : e \in Range(profile)} = Idents
                    /\ \A i, j \in DOMAIN profile : i < j => profile[i].count >= profile[j].count
  BY DEF ProfileExact
<1>1. /\ counts \in Counts /\ executed \in Counts /\ IsProfile(begun)
      /\ profile = Sorted(Counted(counts)) /\ Tallies
  BY <1>0 DEF CountsPart, Counting, Handled
<1>2. ~fetched
  BY DEF MainInv, TypePart
<1>3. /\ ProfileOf(profile, counts) /\ profile \in EntryLists(IdentCount)
      /\ \A p, q \in Idents : p < q => profile[p].count >= profile[q].count
  BY <1>1, SortedCounts
<1>4. ASSUME NEW i \in Idents, NEW old \in 0..Cap, Tells(begun, i, old)
      PROVE  counts[i] = Plus(old, executed[i])
  <2>1. counts[i] = Tally(old, i)  BY <1>1, <1>4 DEF Tallies
  <2>2. Tally(old, i) = Plus(Plus(old, executed[i]), 0)  BY <1>2 DEF Tally
  <2> DEFINE x == executed[i]
  <2>3. old \in 0..Cap /\ x \in 0..Cap  BY <1>1 DEF Counts
  <2> HIDE DEF x
  <2>4. Plus(Plus(old, x), 0) = Plus(old, x)  BY <2>3, SimulatorAssumption DEF Plus
  <2> QED  BY <2>1, <2>2, <2>4 DEF x
<1>5. \A e : e \in Range(profile) <=> \E i \in Idents : e = [id |-> i, count |-> counts[i]]
  BY <1>1, <1>3, EntriesOf
<1>6. ASSUME NEW e \in Range(profile), NEW old \in 0..Cap, Tells(begun, e.id, old)
      PROVE  e.count = Plus(old, executed[e.id])
  <2>1. PICK i \in Idents : e = [id |-> i, count |-> counts[i]]  BY <1>5
  <2>2. e.id = i /\ e.count = counts[i]  BY <2>1
  <2> QED  BY <1>4, <1>6, <2>2
<1>7. {e.id : e \in Range(profile)} = Idents
  <2>1. \A e \in Range(profile) : e.id \in Idents  BY <1>5
  <2>2. ASSUME NEW i \in Idents  PROVE \E e \in Range(profile) : e.id = i
    <3>1. [id |-> i, count |-> counts[i]] \in Range(profile)  BY <1>5
    <3>2. [id |-> i, count |-> counts[i]].id = i  OBVIOUS
    <3> QED  BY <3>1, <3>2
  <2> QED  BY <2>1, <2>2
<1>8. DOMAIN profile = Idents
  BY <1>3 DEF EntryLists, Idents
<1> QED  BY <1>3, <1>6, <1>7, <1>8

LEMMA TypesAre ==
  ASSUME MainInv
  PROVE  MainTypeOK
<1>0. LoaderPart /\ TypePart /\ MemoryPart /\ CountsPart
  BY DEF MainInv
<1>1. HeapIs /\ HandlesOK
  BY <1>0 DEF LoaderPart, LoaderInv
<1>2. \A b \in heap : b[1] \in Loaders
  BY <1>1, HeapIsOf
<1>3. ASSUME NEW h \in Loaders, handle[h] # NULL
      PROVE  /\ handle[h] \in OpenLoader
             /\ Range(handle[h].text \o handle[h].data) \subseteq DOMAIN handle[h].file.sects
  <2> DEFINE f == handle[h].file
             text == handle[h].text
             data == handle[h].data
  <2>1. /\ handle[h] \in OpenLoader /\ Listed(f, text, TextOf(f)) /\ Listed(f, data, DataOf(f))
    BY <1>1, <1>3 DEF HandlesOK, HandleOK
  <2>2. TextOf(f) \subseteq DOMAIN f.sects /\ DataOf(f) \subseteq DOMAIN f.sects
    BY DEF TextOf, DataOf
  <2>3. text \in Seq(DOMAIN f.sects) /\ data \in Seq(DOMAIN f.sects)
    <3>1. text \in Seq(TextOf(f)) /\ data \in Seq(DataOf(f))  BY <2>1 DEF Listed
    <3> QED  BY <2>2, <3>1, SeqMonotonic
  <2>4. text \o data \in Seq(DOMAIN f.sects)  BY <2>3, ConcatProperties
  <2>5. \A k \in DOMAIN (text \o data) : (text \o data)[k] \in DOMAIN f.sects
    BY <2>4, LenProperties, ElementOfSeq
  <2> QED  BY <2>1, <2>5 DEF Range
<1>4. loaded \in Files \cup {NULL}
  BY <1>0, CommandsAssumption DEF MemoryPart, TypePart
<1>5. LoaderTypeOK
  BY <1>0, <1>2, <1>3, <1>4 DEF LoaderTypeOK, TypePart, MemoryPart, Images
<1> QED  BY <1>0, <1>5 DEF MainTypeOK, TypePart, CountsPart, Counts, IsProfile

(* The variables of the simulator and those of its loader have their types.*)
THEOREM MainTypesHold == SimulatorSpec => []MainTypeOK
BY MainInvariant, TypesAre, PTL

(* No block of gliss_loader_open is lost when it fails, and none is left   *)
(* once gliss_loader_close is done: ElfCleanup frees what the static       *)
(* variables point to, and they point to all that was allocated.           *)
THEOREM NoBlockLost == SimulatorSpec => []NoLeak
<1>1. MainInv => NoLeak
  BY DEF MainInv, LoaderPart, LoaderInv, HeapIs, NoLeak
<1> QED  BY <1>1, MainInvariant, PTL

(* Text.bytes holds each section of text, though its size is that of the   *)
(* last of a list and the list is made by insertions.                      *)
THEOREM TextAlwaysFits == SimulatorSpec => []TextFits
<1>1. MainInv => TextFits
  BY TextOfHandleFits DEF MainInv, LoaderPart, LoaderInv, TextFits
<1> QED  BY <1>1, MainInvariant, PTL

(* gliss_loader_load leaves each section of the program in the memory, the *)
(* zeroes of GLISS_NOBITS_INIT and the stack pushed above it included.     *)
THEOREM ImageAlwaysLoaded == SimulatorSpec => []ImageLoaded
<1>1. MainInv => ImageLoaded
  BY DEF MainInv, MemoryPart, ImageOf, ImageLoaded
<1> QED  BY <1>1, MainInvariant, PTL

(* The program finds the arguments and the environment of the command from *)
(* its registers, whatever their numbers and their lengths.                *)
THEOREM ProgramAlwaysReady == SimulatorSpec => []ProgramReady
BY MainInvariant, ReadyIs, PTL

(* The profile counts each instruction once, over any number of processes, *)
(* and its entries come out of the exchanges of write_profiling_file none  *)
(* lost and in order.                                                      *)
THEOREM ProfileAlwaysExact == SimulatorSpec => []ProfileExact
BY MainInvariant, ProfileIs, PTL

=============================================================================
