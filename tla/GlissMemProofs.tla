--------------------------- MODULE GlissMemProofs ---------------------------
(***************************************************************************)
(* Proofs about the memories of a generated simulator.  Accesses leave a   *)
(* storage only where Contained says (AccessesContained); the callbacks of *)
(* io_mem.c reach every page (CallbacksSpread); and the four memories, in  *)
(* either byte order, implement the flat memory (LinkedMemoryIsFlat).      *)
(*                                                                         *)
(* The last one goes through what a page table is: the place of a byte in  *)
(* a block (SpotIs), in the address space (PlaceOf) and in a storage that  *)
(* may be turned (PeekIs, PokeIs); then an access is a load or a store of  *)
(* the flat memory on pages that have the bytes they had (SameBytes).      *)
(***************************************************************************)
EXTENDS GlissMem, TLAPS

-----------------------------------------------------------------------------
(* Division and remainder: bounds of a quotient. *)
LEMMA DivBelow ==
  ASSUME NEW a \in Nat, NEW p \in Nat, NEW b \in Nat \ {0}, a <= p * b + b - 1
  PROVE  a \div b <= p
  BY SMTT(30)

LEMMA DivAbove ==
  ASSUME NEW a \in Nat, NEW p \in Nat, NEW b \in Nat \ {0}, p * b <= a
  PROVE  p <= a \div b
  BY SMTT(30)

(* The quotient and the remainder are the only ones.                       *)
LEMMA Division ==
  ASSUME NEW x \in Nat, NEW b \in Nat \ {0}, NEW q \in Nat, NEW r \in 0..b - 1,
         x = q * b + r
  PROVE  x \div b = q /\ x % b = r
<1>1. x \div b = q
  BY DivBelow, DivAbove
<1>2. x = b * (x \div b) + (x % b)
  BY SMTT(30)
<1>3. b * q = q * b /\ q * b \in Nat /\ x % b \in Nat
  BY SMTT(30)
<1>4. x = q * b + (x % b)
  BY <1>1, <1>2, <1>3
<1> QED BY <1>1, <1>3, <1>4

(* Both are numbers, and give the number divided back. *)
LEMMA Euclid ==
  ASSUME NEW x \in Nat, NEW b \in Nat \ {0}
  PROVE  x \div b \in Nat /\ x % b \in 0..b - 1 /\ x = (x \div b) * b + (x % b)
BY SMTT(30)

(* Offset o of page m, the pages being counted around the address space.   *)
LEMMA Around ==
  ASSUME NEW b \in Nat \ {0}, NEW n \in Nat \ {0}, NEW m \in Nat, NEW o \in 0..b - 1
  PROVE  (m * b + o) % (b * n) = (m % n) * b + o
<1> DEFINE d == m \div n
           e == m % n
<1>1. d \in Nat /\ e \in 0..n - 1 /\ m = d * n + e
  BY Euclid
<1> HIDE DEF d, e
<1>2. m * b = d * (b * n) + e * b
  <2>1. m * b = (d * n + e) * b
    BY <1>1
  <2>2. (d * n + e) * b = d * (b * n) + e * b
    BY <1>1, SMTT(30)
  <2> QED BY <2>1, <2>2
<1>3. e * b + o \in 0..(b * n) - 1
  <2>1. e * b \in Nat /\ b * n \in Nat /\ e * b <= b * n - b
    BY <1>1, SMTT(30)
  <2> DEFINE u == e * b
             v == b * n
  <2> HIDE DEF u, v
  <2>2. u \in Nat /\ v \in Nat /\ u <= v - b
    BY <2>1 DEF u, v
  <2>3. u + o \in 0..v - 1
    BY <2>2
  <2> QED BY <2>3 DEF u, v
<1>4. b * n \in Nat \ {0} /\ d * (b * n) \in Nat /\ m * b + o \in Nat /\ e * b \in Nat
  BY <1>1, SMTT(30)
<1>5. m * b + o = d * (b * n) + (e * b + o)
  BY <1>2, <1>4
<1> DEFINE x == m * b + o
           y == b * n
           r == e * b + o
<1>6. x \in Nat /\ y \in Nat \ {0} /\ r \in 0..y - 1 /\ x = d * y + r
  BY <1>3, <1>4, <1>5
<1> HIDE DEF x, y, r
<1>7. x % y = r
  BY <1>1, <1>6, Division
<1> QED BY <1>7 DEF x, y, r, e

(* Address a of a space of n pages: its page and its offset.               *)
LEMMA Split ==
  ASSUME NEW b \in Nat \ {0}, NEW n \in Nat \ {0}, NEW a \in Nat, a < b * n
  PROVE  a \div b \in 0..n - 1 /\ a % b \in 0..b - 1 /\ a = (a \div b) * b + (a % b)
<1>1. a \div b \in Nat /\ a % b \in 0..b - 1 /\ a = (a \div b) * b + (a % b)
  BY Euclid
<1>2. a <= (n - 1) * b + b - 1
  BY SMTT(30)
<1>3. n - 1 \in Nat
  OBVIOUS
<1>4. a \div b <= n - 1
  BY <1>2, <1>3, DivBelow
<1> QED BY <1>1, <1>4

(* Offset o of page p. *)
LEMMA Join ==
  ASSUME NEW b \in Nat \ {0}, NEW p \in Nat, NEW o \in 0..b - 1
  PROVE  (p * b + o) \div b = p /\ (p * b + o) % b = o
<1>1. p * b \in Nat
  BY SMTT(30)
<1>2. p * b + o \in Nat
  BY <1>1
<1> QED BY <1>2, Division

(* Around s addresses, x is one number of places after a. *)
LEMMA Circle ==
  ASSUME NEW s \in Nat \ {0}, NEW a \in Nat, a < s, NEW x \in Nat, x < s
  PROVE  /\ (x - a + s) % s \in 0..s - 1
         /\ (a + ((x - a + s) % s)) % s = x
         /\ \A k \in 0..s - 1 : (a + k) % s = x => k = (x - a + s) % s
<1>1. \A y \in Nat : y < s => y % s = y
  BY SMTT(30)
<1>2. \A y \in Nat : s <= y /\ y < 2 * s => y % s = y - s
  <2> SUFFICES ASSUME NEW y \in Nat, s <= y, y < 2 * s PROVE y % s = y - s
    OBVIOUS
  <2>1. y = 1 * s + (y - s) /\ y - s \in 0..s - 1
    OBVIOUS
  <2> QED BY <2>1, Division
<1> DEFINE d == (x - a + s) % s
<1>3. d = IF x >= a THEN x - a ELSE x - a + s
  BY <1>1, <1>2
<1>4. \A k \in 0..s - 1 : (a + k) % s = IF a + k < s THEN a + k ELSE a + k - s
  BY <1>1, <1>2
<1> HIDE DEF d
<1>5. d \in 0..s - 1
  BY <1>3
<1>6. (a + d) % s = x
  BY <1>3, <1>4, <1>5
<1>7. \A k \in 0..s - 1 : (a + k) % s = x => k = d
  BY <1>3, <1>4
<1> QED BY <1>5, <1>6, <1>7 DEF d

-----------------------------------------------------------------------------
(* What holds of the build all along. *)
Linked == kind \in {"fast", "vfast", "mem16", "io"} /\ swap \in BOOLEAN

-----------------------------------------------------------------------------
(* Bounds. *)
LEMMA SizeFacts ==
  ASSUME Linked
  PROVE  /\ Size \in Nat \ {0} /\ Space \in Nat \ {0}
         /\ kind # "mem16" => Size = PageSize
         /\ kind = "mem16" => Size = Space
         /\ \A a \in Addr : a \in Nat /\ a < Space
         /\ \A a \in Nat : InPage(a) \in 0..Size - 1
<1>1. PageSize \in Nat \ {0} /\ Space \in Nat \ {0}
  BY PageAssumption, SMTT(30) DEF Space
<1>2. /\ Size \in Nat \ {0}
      /\ kind # "mem16" => Size = PageSize
      /\ kind = "mem16" => Size = Space
  BY <1>1 DEF Size, Linked
<1>3. \A a \in Nat : InPage(a) \in 0..Size - 1
  BY <1>2, SMTT(30) DEF InPage
<1> QED BY <1>1, <1>2, <1>3 DEF Addr

(* Within its page, an integer is within the storage, whichever way the    *)
(* storage is turned.                                                      *)
LEMMA DirectInside ==
  ASSUME Linked, NEW a \in Addr, NEW n \in Nat \ {0}, VfastDirect(a, n)
  PROVE  ~Outside(Index(InPage(a), n), n)
<1>1. /\ Size \in Nat /\ InPage(a) \in 0..Size - 1 /\ InPage(a) + n <= Size
  BY SizeFacts DEF VfastDirect, Direct
<1> QED BY <1>1 DEF Outside, Index

(* From where the storage of mem16 is left, the address space is, too. *)
LEMMA BeyondSpace ==
  ASSUME Linked, kind = "mem16", NEW a \in Addr, NEW n \in Nat \ {0}, Outside(Index(a, n), n)
  PROVE  a + n > Space
BY SizeFacts DEF Outside, Index

LEMMA FastContained ==
  ASSUME Linked, broken = "no", Fast, UNCHANGED <<kind, swap>>
  PROVE  Contained'
<1> USE DEF Linked
<1>1. kind' = "fast" /\ kind = "fast" /\ Size = PageSize /\ Size' = Size
  BY SizeFacts DEF Fast, Size
<1>2. ASSUME NEW a \in Starts, NEW n \in Width, NEW bytes \in [1..n -> Byte],
             FastWriteInt(a, bytes), broken' = "overflow"
      PROVE  Contained'
  <2>1. a \in Addr /\ n \in Nat \ {0} /\ Len(bytes) = n
    BY BoundsAssumption, WidthAssumption
  <2>2. Outside(InPage(a), n) /\ last' = Access("store", a, bytes)
    BY <1>2, <2>1 DEF FastWriteInt
  <2>3. InPage(a) + n > PageSize
    BY <1>1, <2>1, <2>2, SizeFacts DEF Outside
  <2> QED BY <1>1, <2>1, <2>2, <2>3 DEF Contained, Access, InPage
<1>3. CASE broken' # "overflow"
  BY <1>3 DEF Contained
<1> QED BY <1>2, <1>3 DEF Fast, FastReadInt, FastReadBlock, FastWriteBlock, FastCopy

LEMMA VfastContained ==
  ASSUME Linked, broken = "no", Vfast, UNCHANGED <<kind, swap>>
  PROVE  Contained'
<1>1. ASSUME NEW a \in Starts, NEW n \in Width, NEW bytes \in [1..n -> Byte],
             VfastWriteInt(a, bytes)
      PROVE  broken' # "overflow"
  <2>1. a \in Addr /\ n \in Nat \ {0} /\ Len(bytes) = n
    BY BoundsAssumption, WidthAssumption
  <2> QED BY <1>1, <2>1, DirectInside DEF VfastWriteInt
<1>2. ASSUME NEW a \in Starts, NEW n \in Width, VfastReadInt(a, n)
      PROVE  broken' # "overflow"
  BY <1>2 DEF VfastReadInt
<1>3. broken' # "overflow"
  BY <1>1, <1>2 DEF Vfast, VfastReadBlock, VfastWriteBlock, VfastCopy
<1> QED BY <1>3 DEF Contained

LEMMA Mem16Contained ==
  ASSUME Linked, broken = "no", Mem16, UNCHANGED <<kind, swap>>
  PROVE  Contained'
<1>1. kind' = "mem16" /\ kind = "mem16"
  BY DEF Mem16
<1>2. ASSUME NEW a \in Addr, NEW n \in Nat \ {0}, Bound16(a, n),
             last'.at = a, Len(last'.bytes) = n
      PROVE  Contained'
  <2>1. broken' = "overflow" => a + n > Space
    BY <1>1, <1>2, BeyondSpace DEF Bound16
  <2> QED BY <1>1, <1>2, <2>1 DEF Contained
<1>3. ASSUME NEW a \in Starts, NEW n \in Width,
             Mem16ReadInt(a, n) \/ \E bytes \in [1..n -> Byte] : Mem16WriteInt(a, bytes)
      PROVE  Contained'
  <2>1. a \in Addr /\ n \in Nat \ {0}
    BY BoundsAssumption, WidthAssumption
  <2>2. CASE Mem16ReadInt(a, n)
    <3>1. PICK junk \in Byte :
            last' = Access("load", a, Host(Peek(Storage, Index(a, n), n, junk)))
      BY <2>2 DEF Mem16ReadInt
    <3>2. Len(last'.bytes) = n /\ last'.at = a
      BY <2>1, <3>1 DEF Access, Host, Peek, Reverse
    <3> QED BY <1>2, <2>1, <2>2, <3>2 DEF Mem16ReadInt
  <2>3. ASSUME NEW bytes \in [1..n -> Byte], Mem16WriteInt(a, bytes)
        PROVE  Contained'
    <3>1. Len(bytes) = n /\ last'.at = a /\ last'.bytes = bytes
      BY <2>1, <2>3 DEF Mem16WriteInt, Access
    <3> QED BY <1>2, <2>1, <2>3, <3>1 DEF Mem16WriteInt
  <2> QED BY <1>3, <2>2, <2>3
<1>4. ASSUME NEW a \in Starts, NEW buf \in Blocks,
             Mem16ReadBlock(a, Len(buf)) \/ Mem16WriteBlock(a, buf)
      PROVE  Contained'
  <2>1. a \in Addr /\ Len(buf) \in Nat \ {0}
    BY BoundsAssumption
  <2>2. CASE Mem16ReadBlock(a, Len(buf))
    <3> DEFINE n == Len(buf)
    <3>1. PICK junk \in Byte :
            last' = Access("load", a,
                      [k \in 1..n |-> Peek(Storage, Index(a + k - 1, 1), 1, junk)[1]])
      BY <2>2 DEF Mem16ReadBlock
    <3>2. Len(last'.bytes) = n /\ last'.at = a
      BY <2>1, <3>1 DEF Access
    <3> QED BY <1>2, <2>1, <2>2, <3>2 DEF Mem16ReadBlock
  <2>3. CASE Mem16WriteBlock(a, buf)
    BY <1>2, <2>1, <2>3 DEF Mem16WriteBlock, Access
  <2> QED BY <1>4, <2>2, <2>3
<1>5. CASE Mem16Copy
  BY <1>5 DEF Mem16Copy, Contained
<1> QED BY <1>3, <1>4, <1>5 DEF Mem16

LEMMA IoContained ==
  ASSUME Linked, broken = "no", Io, UNCHANGED <<kind, swap>>
  PROVE  Contained'
<1> USE DEF Linked
<1>1. kind' = "io" /\ kind = "io" /\ Size = PageSize /\ Size' = Size
  BY SizeFacts DEF Io, Size
<1>2. ASSUME NEW a \in Starts, NEW n \in Width, NEW bytes \in [1..n -> Byte],
             IoWriteInt(a, bytes), broken' = "overflow"
      PROVE  Contained'
  <2>1. a \in Addr /\ n \in Nat \ {0} /\ Len(bytes) = n
    BY BoundsAssumption, WidthAssumption
  <2>2. Outside(InPage(a), n) /\ last' = Access("store", a, bytes)
    BY <1>2, <2>1 DEF IoWriteInt
  <2>3. InPage(a) + n > PageSize
    BY <1>1, <2>1, <2>2, SizeFacts DEF Outside
  <2> QED BY <1>1, <2>1, <2>2, <2>3 DEF Contained, Access, InPage
<1>3. CASE broken' # "overflow"
  BY <1>3 DEF Contained
<1> QED BY <1>2, <1>3 DEF Io, IoReadInt, IoReadBlock, IoWriteBlock, IoCopy,
             IoSetRange, IoUnsetRange, IoGetCallbackData

(* For every size of page and of access, the only accesses that leave a    *)
(* storage are those listed: in particular the reversed storages of        *)
(* vfast_mem.c are never left.                                             *)
THEOREM AccessesContained == Spec => []Contained
<1> DEFINE Inv == Linked /\ Contained
<1>1. Init => Inv
  BY BuildAssumption DEF Init, Linked, Contained
<1>2. Inv /\ [Next]_vars => Inv'
  <2> SUFFICES ASSUME Inv, [Next]_vars PROVE Inv'
    OBVIOUS
  <2>1. CASE Next
    <3>1. broken = "no" /\ UNCHANGED <<kind, swap>> /\ (Fast \/ Vfast \/ Mem16 \/ Io)
      BY <2>1 DEF Next
    <3> QED BY <3>1, FastContained, VfastContained, Mem16Contained, IoContained DEF Linked
  <2>2. CASE UNCHANGED vars
    BY <2>2 DEF vars, Linked, Contained, InPage, Size
  <2> QED BY <2>1, <2>2
<1> QED BY <1>1, <1>2, PTL DEF Spec

-----------------------------------------------------------------------------
(* The callbacks.  A page is its storage and its callback; the three       *)
(* memories that have none keep an empty list.                             *)
PageLike(x) == x = [storage |-> x.storage, info |-> x.info]
PagesLike == \A p \in DOMAIN pages : PageLike(pages[p])
Silent == kind # "io" => infos = <<>> /\ ~changed

(* Once the callbacks are spread, a page that was not unset has what the   *)
(* search of the code finds.                                               *)
Given == ~changed => \A p \in DOMAIN pages : p \in unset \/ pages[p].info = CallbackInfo(p)

CallbackInv == Linked /\ PagesLike /\ Silent /\ Given

(* What is true of page p with contents x when it was unset iff u.         *)
Current(x, p, u) == PageLike(x) /\ (u \/ x.info = CallbackInfo(p))

LEMMA NoCallback == ASSUME infos = <<>> PROVE \A p : CallbackInfo(p) = NULL
BY DEF CallbackInfo

LEMMA ExceptStorage ==
  ASSUME NEW x, NEW v, PageLike(x)
  PROVE  PageLike([x EXCEPT !.storage = v]) /\ [x EXCEPT !.storage = v].info = x.info
BY DEF PageLike

LEMMA ExceptInfo ==
  ASSUME NEW x, NEW v, PageLike(x)
  PROVE  /\ PageLike([x EXCEPT !.info = v]) /\ [x EXCEPT !.info = v].info = v
         /\ [x EXCEPT !.info = v].storage = x.storage
BY DEF PageLike

(* The pages new are those of pg, some with other bytes. *)
OnlyStores(new, pg) ==
  /\ DOMAIN new = DOMAIN pg
  /\ \A p \in DOMAIN pg :
       PageLike(pg[p]) => PageLike(new[p]) /\ new[p].info = pg[p].info

LEMMA ExceptStores ==
  ASSUME NEW pg, NEW q, NEW st
  PROVE  OnlyStores([pg EXCEPT ![q].storage = st], pg)
<1> DEFINE new == [pg EXCEPT ![q] = [pg[q] EXCEPT !.storage = st]]
<1>1. DOMAIN new = DOMAIN pg
  OBVIOUS
<1>2. ASSUME NEW p \in DOMAIN pg, PageLike(pg[p])
      PROVE  PageLike(new[p]) /\ new[p].info = pg[p].info
  <2>1. CASE p = q
    <3>1. new[p] = [pg[p] EXCEPT !.storage = st]
      BY <2>1
    <3> HIDE DEF new
    <3> QED BY <1>2, <3>1, ExceptStorage
  <2>2. CASE p # q
    BY <1>2, <2>2
  <2> QED BY <2>1, <2>2
<1> QED BY <1>1, <1>2 DEF OnlyStores

LEMMA PokeStores ==
  ASSUME NEW pg, NEW q, NEW i, NEW buf
  PROVE  OnlyStores([pg EXCEPT ![q].storage = Poke(@, i, buf)], pg)
<1> DEFINE st == Poke(pg[q].storage, i, buf)
<1>1. [pg EXCEPT ![q].storage = Poke(@, i, buf)] = [pg EXCEPT ![q].storage = st]
  OBVIOUS
<1> HIDE DEF st
<1>2. OnlyStores([pg EXCEPT ![q].storage = st], pg)
  BY ExceptStores
<1> QED BY <1>1, <1>2

LEMMA SpreadStores ==
  ASSUME NEW pg, NEW a, NEW buf
  PROVE  OnlyStores(Spread(pg, a, buf), pg)
<1> DEFINE spot == [k \in DOMAIN buf |-> Spot(a, k - 1)]
           to == [k \in DOMAIN buf |-> Index(spot[k][2], 1)]
           stored(q, i) == IF \E k \in DOMAIN buf : spot[k][1] = q /\ to[k] = i
                           THEN buf[CHOOSE k \in DOMAIN buf : spot[k][1] = q /\ to[k] = i]
                           ELSE pg[q].storage[i]
           new(q) == [i \in DOMAIN pg[q].storage |-> stored(q, i)]
<1>1. Spread(pg, a, buf) = [q \in DOMAIN pg |-> [pg[q] EXCEPT !.storage = new(q)]]
  BY DEF Spread
<1> HIDE DEF new
<1>2. DOMAIN Spread(pg, a, buf) = DOMAIN pg
  BY <1>1
<1>3. ASSUME NEW p \in DOMAIN pg, PageLike(pg[p])
      PROVE  PageLike(Spread(pg, a, buf)[p]) /\ Spread(pg, a, buf)[p].info = pg[p].info
  <2>1. Spread(pg, a, buf)[p] = [pg[p] EXCEPT !.storage = new(p)]
    BY <1>1
  <2> QED BY <1>3, <2>1, ExceptStorage
<1> QED BY <1>2, <1>3 DEF OnlyStores

LEMMA SameStores == ASSUME NEW pg PROVE OnlyStores(pg, pg)
BY DEF OnlyStores

(* The pages as they are once the callbacks have been brought up to date.  *)
LEMMA FastPagesKeep ==
  ASSUME CallbackInv, kind # "io", NEW s, NEW p \in DOMAIN FastPages(s)
  PROVE  PageLike(FastPages(s)[p]) /\ (p \in unset \/ FastPages(s)[p].info = NULL)
BY NoCallback DEF CallbackInv, PagesLike, Silent, Given, FastPages, PageLike

LEMMA VfastPagesKeep ==
  ASSUME CallbackInv, kind # "io", NEW s, NEW p \in DOMAIN VfastPages(s)
  PROVE  PageLike(VfastPages(s)[p]) /\ (p \in unset \/ VfastPages(s)[p].info = NULL)
BY NoCallback DEF CallbackInv, PagesLike, Silent, Given, VfastPages, PageLike

LEMMA UpdatedCurrent ==
  ASSUME CallbackInv, NEW p \in DOMAIN pages
  PROVE  /\ DOMAIN Updated = DOMAIN pages
         /\ Current(Updated[p], p, IF changed THEN FALSE ELSE p \in unset)
         /\ Updated[p].storage = pages[p].storage
<1>1. CASE changed
  <2>1. /\ DOMAIN Updated = DOMAIN pages
        /\ Updated[p] = [pages[p] EXCEPT !.info = CallbackInfo(p)]
    BY <1>1 DEF Updated
  <2> QED BY <1>1, <2>1, ExceptInfo DEF CallbackInv, PagesLike, Current
<1>2. CASE ~changed
  BY <1>2 DEF CallbackInv, PagesLike, Given, Updated, Current
<1> QED BY <1>1, <1>2

LEMMA IoPagesCurrent ==
  ASSUME CallbackInv, NEW s, NEW p \in DOMAIN IoPages(s)
  PROVE  Current(IoPages(s)[p], p, IF changed THEN FALSE ELSE p \in unset)
<1>1. CASE p \in DOMAIN pages
  BY <1>1, UpdatedCurrent DEF IoPages
<1>2. CASE p \notin DOMAIN pages
  BY <1>2 DEF IoPages, Current, PageLike
<1> QED BY <1>1, <1>2

LEMMA NotIoCurrent ==
  ASSUME CallbackInv, kind # "io", UNCHANGED <<kind, swap, infos, changed, unset>>,
         \A p \in DOMAIN pages' : PageLike(pages'[p]) /\ (p \in unset \/ pages'[p].info = NULL)
  PROVE  CallbackInv'
<1>1. infos' = <<>> /\ ~changed' /\ Linked'
  BY DEF CallbackInv, Silent, Linked
<1>2. \A p : CallbackInfo(p)' = NULL
  BY <1>1 DEF CallbackInfo
<1> QED BY <1>1, <1>2 DEF CallbackInv, PagesLike, Silent, Given, PageLike

LEMMA FastStores ==
  ASSUME CallbackInv, kind = "fast", NEW s, OnlyStores(pages', FastPages(s)),
         UNCHANGED <<kind, swap, infos, changed, unset>>
  PROVE  CallbackInv'
<1>1. \A p \in DOMAIN pages' : PageLike(pages'[p]) /\ (p \in unset \/ pages'[p].info = NULL)
  BY FastPagesKeep DEF OnlyStores
<1> QED BY <1>1, NotIoCurrent

LEMMA FastCurrent ==
  ASSUME CallbackInv, Fast, UNCHANGED <<kind, swap>>
  PROVE  CallbackInv'
<1>1. kind = "fast" /\ infos' = infos
  BY DEF Fast
<1>2. ASSUME UNCHANGED <<changed, unset>>, NEW s, OnlyStores(pages', FastPages(s))
      PROVE  CallbackInv'
  BY <1>1, <1>2, FastStores
<1>3. ASSUME NEW a, NEW n, FastReadInt(a, n) \/ FastReadBlock(a, n)
      PROVE  CallbackInv'
  BY <1>2, <1>3, SameStores DEF FastReadInt, FastReadBlock
<1>4. ASSUME NEW a, NEW bytes, FastWriteInt(a, bytes)
      PROVE  CallbackInv'
  <2>1. pages' = [FastPages({PageOf(a)}) EXCEPT ![PageOf(a)].storage =
                    Poke(@, InPage(a), Invert(bytes))]
    BY <1>4 DEF FastWriteInt
  <2>2. OnlyStores(pages', FastPages({PageOf(a)}))
    BY <2>1, PokeStores
  <2> QED BY <1>2, <1>4, <2>2 DEF FastWriteInt
<1>5. ASSUME NEW a, NEW buf, FastWriteBlock(a, buf)
      PROVE  CallbackInv'
  BY <1>2, <1>5, SpreadStores DEF FastWriteBlock
<1>6. CASE FastCopy
  <2>1. \A p \in DOMAIN pages' : p \in DOMAIN pages /\ pages'[p] = pages[p]
    BY <1>6 DEF FastCopy
  <2>2. \A p \in DOMAIN pages' : PageLike(pages'[p]) /\ (p \in unset \/ pages'[p].info = NULL)
    BY <1>1, <2>1, NoCallback DEF CallbackInv, PagesLike, Silent, Given
  <2> QED BY <1>1, <1>6, <2>2, NotIoCurrent DEF FastCopy
<1> QED BY <1>3, <1>4, <1>5, <1>6 DEF Fast

LEMMA VfastStores ==
  ASSUME CallbackInv, kind = "vfast", NEW s, OnlyStores(pages', VfastPages(s)),
         UNCHANGED <<kind, swap, infos, changed, unset>>
  PROVE  CallbackInv'
<1>1. \A p \in DOMAIN pages' : PageLike(pages'[p]) /\ (p \in unset \/ pages'[p].info = NULL)
  BY VfastPagesKeep DEF OnlyStores
<1> QED BY <1>1, NotIoCurrent

LEMMA VfastCurrent ==
  ASSUME CallbackInv, Vfast, UNCHANGED <<kind, swap>>
  PROVE  CallbackInv'
<1>1. kind = "vfast" /\ infos' = infos
  BY DEF Vfast
<1>2. ASSUME UNCHANGED <<changed, unset>>, NEW s, OnlyStores(pages', VfastPages(s))
      PROVE  CallbackInv'
  BY <1>1, <1>2, VfastStores
<1>3. ASSUME NEW a, NEW n, VfastReadInt(a, n) \/ VfastReadBlock(a, n)
      PROVE  CallbackInv'
  BY <1>2, <1>3, SameStores DEF VfastReadInt, VfastReadBlock
<1>4. ASSUME NEW a, NEW bytes, VfastWriteInt(a, bytes)
      PROVE  CallbackInv'
  <2>1. CASE VfastDirect(a, Len(bytes))
    <3>1. pages' = [VfastPages({PageOf(a)}) EXCEPT ![PageOf(a)].storage =
                      Poke(@, Index(InPage(a), Len(bytes)), Host(bytes))]
      BY <1>4, <2>1 DEF VfastWriteInt
    <3>2. OnlyStores(pages', VfastPages({PageOf(a)}))
      BY <3>1, PokeStores
    <3> QED BY <1>2, <1>4, <3>2 DEF VfastWriteInt
  <2>2. CASE ~VfastDirect(a, Len(bytes))
    BY <1>2, <1>4, <2>2, SpreadStores DEF VfastWriteInt
  <2> QED BY <2>1, <2>2
<1>5. ASSUME NEW a, NEW buf, VfastWriteBlock(a, buf)
      PROVE  CallbackInv'
  BY <1>2, <1>5, SpreadStores DEF VfastWriteBlock
<1>6. CASE VfastCopy
  <2>1. \A p \in DOMAIN pages' : PageLike(pages'[p]) /\ (p \in unset \/ pages'[p].info = NULL)
    BY <1>1, <1>6, NoCallback DEF VfastCopy, CallbackInv, PagesLike, Silent, Given
  <2> QED BY <1>1, <1>6, <2>1, NotIoCurrent DEF VfastCopy
<1> QED BY <1>3, <1>4, <1>5, <1>6 DEF Vfast

LEMMA Mem16Current ==
  ASSUME CallbackInv, Mem16, UNCHANGED <<kind, swap>>
  PROVE  CallbackInv'
<1>1. kind = "mem16" /\ infos' = infos /\ changed' = changed /\ unset' = unset
  BY DEF Mem16, Mem16ReadInt, Mem16WriteInt, Mem16ReadBlock, Mem16WriteBlock, Mem16Copy
<1>2. \E st : pages' = [pages EXCEPT ![0].storage = st] \/ pages' = pages
  BY DEF Mem16, Mem16ReadInt, Mem16WriteInt, Mem16ReadBlock, Mem16WriteBlock, Mem16Copy
<1>3. \A p \in DOMAIN pages : PageLike(pages[p]) /\ (p \in unset \/ pages[p].info = NULL)
  BY <1>1, NoCallback DEF CallbackInv, PagesLike, Silent, Given
<1>4. OnlyStores(pages', pages)
  <2>1. PICK st : pages' = [pages EXCEPT ![0].storage = st] \/ pages' = pages
    BY <1>2
  <2>2. CASE pages' = [pages EXCEPT ![0].storage = st]
    <3>1. OnlyStores([pages EXCEPT ![0].storage = st], pages)
      BY ExceptStores
    <3> QED BY <2>2, <3>1
  <2> QED BY <2>1, <2>2, SameStores
<1>5. \A p \in DOMAIN pages' : PageLike(pages'[p]) /\ (p \in unset \/ pages'[p].info = NULL)
  BY <1>3, <1>4 DEF OnlyStores
<1> QED BY <1>1, <1>5, NotIoCurrent

(* io_mem.c: an access leaves the pages current, all of them if it has     *)
(* spread the callbacks.                                                   *)
LEMMA IoCurrentPages ==
  ASSUME CallbackInv, UNCHANGED <<kind, swap, infos>>, Synchronise, kind = "io",
         \A p \in DOMAIN pages' : Current(pages'[p], p, IF changed THEN FALSE ELSE p \in unset)
  PROVE  CallbackInv'
<1>1. /\ \A p : CallbackInfo(p)' = CallbackInfo(p)
      /\ unset' = unset /\ ~changed'
      /\ kind' = "io" /\ Linked'
  BY DEF CallbackInfo, FirstMatch, Matches, First, Size, Synchronise, CallbackInv, Linked
<1> QED BY <1>1 DEF CallbackInv, PagesLike, Silent, Given, Current, PageLike

LEMMA IoCurrent ==
  ASSUME CallbackInv, Io, UNCHANGED <<kind, swap>>
  PROVE  CallbackInv'
<1>1. kind = "io"
  BY DEF Io
<1>2. ASSUME Synchronise, UNCHANGED infos, NEW s, OnlyStores(pages', IoPages(s))
      PROVE  CallbackInv'
  <2>1. \A p \in DOMAIN pages' : Current(pages'[p], p, IF changed THEN FALSE ELSE p \in unset)
    BY <1>2, IoPagesCurrent DEF Current, OnlyStores
  <2> QED BY <1>1, <1>2, <2>1, IoCurrentPages
<1>3. ASSUME NEW a, NEW bytes, IoWriteInt(a, bytes)
      PROVE  CallbackInv'
  <2>1. pages' = [IoPages({PageOf(a)}) EXCEPT ![PageOf(a)].storage =
                    Poke(@, InPage(a), Invert(bytes))]
    BY <1>3 DEF IoWriteInt
  <2>2. OnlyStores(pages', IoPages({PageOf(a)}))
    BY <2>1, PokeStores
  <2> QED BY <1>2, <1>3, <2>2 DEF IoWriteInt
<1>4. CASE IoCopy
  <2>1. infos' = <<>> /\ changed' = FALSE /\ Linked'
    BY <1>4 DEF IoCopy, CallbackInv, Linked
  <2>2. \A p \in DOMAIN pages' : PageLike(pages'[p]) /\ pages'[p].info = NULL
    BY <1>4, ExceptInfo DEF IoCopy, CallbackInv, PagesLike
  <2>3. \A p : CallbackInfo(p)' = NULL
    BY <2>1 DEF CallbackInfo
  <2> QED BY <1>1, <2>1, <2>2, <2>3 DEF CallbackInv, PagesLike, Silent, Given, PageLike
<1>5. ASSUME NEW s, NEW e, IoSetRange(s, e)
      PROVE  CallbackInv'
  BY <1>1, <1>5 DEF IoSetRange, CallbackInv, PagesLike, Silent, Given, Linked, PageLike
<1>6. ASSUME NEW s, NEW e, IoUnsetRange(s, e)
      PROVE  CallbackInv'
  <2> DEFINE cleared == Walk(RoundUp(s), RoundUp(e))
  <2>1. /\ pages' = [p \in DOMAIN pages |->
                       [Updated[p] EXCEPT !.info = IF p \in cleared THEN NULL ELSE @]]
        /\ unset' = unset \cup cleared
        /\ changed' = FALSE /\ infos' = infos
    BY <1>6 DEF IoUnsetRange
  <2> HIDE DEF cleared
  <2>2. ASSUME NEW p \in DOMAIN pages
        PROVE  /\ PageLike(pages'[p])
               /\ p \in unset' \/ pages'[p].info = CallbackInfo(p)
    <3>1. Current(Updated[p], p, IF changed THEN FALSE ELSE p \in unset)
      BY UpdatedCurrent
    <3>2. CASE p \in cleared
      BY <2>1, <3>1, <3>2, ExceptInfo DEF Current
    <3>3. CASE p \notin cleared
      <4>1. pages'[p] = [Updated[p] EXCEPT !.info = Updated[p].info]
        BY <2>1, <3>3
      <4> QED BY <2>1, <3>1, <4>1, ExceptInfo DEF Current
    <3> QED BY <3>2, <3>3
  <2>3. \A p : CallbackInfo(p)' = CallbackInfo(p)
    BY <2>1 DEF CallbackInfo, FirstMatch, Matches, First, Size
  <2>4. DOMAIN pages' = DOMAIN pages /\ Linked' /\ kind' = "io"
    BY <1>1, <2>1 DEF CallbackInv, Linked
  <2> QED BY <2>2, <2>3, <2>4 DEF CallbackInv, PagesLike, Silent, Given, PageLike
<1>7. ASSUME NEW a, NEW n, IoReadInt(a, n)
      PROVE  CallbackInv'
  <2>1. \E s : pages' = IoPages(s)
    BY <1>7 DEF IoReadInt
  <2>2. Synchronise /\ infos' = infos
    BY <1>7 DEF IoReadInt
  <2> QED BY <1>2, <2>1, <2>2, SameStores
<1>8. ASSUME NEW a, NEW buf,
             IoReadBlock(a, Len(buf)) \/ IoWriteBlock(a, buf) \/ IoGetCallbackData(a)
      PROVE  CallbackInv'
  BY <1>2, <1>8, SameStores, SpreadStores DEF IoReadBlock, IoWriteBlock, IoGetCallbackData
<1> QED BY <1>3, <1>4, <1>5, <1>6, <1>7, <1>8 DEF Io

(* The bounds a range is set for are addresses. *)
LEMMA RangesTyped ==
  ASSUME infos \in Seq(Info), [Next]_vars
  PROVE  infos' \in Seq(Info)
<1>1. ASSUME NEW b \in Bounds, IoSetRange(b[1], b[2])
      PROVE  infos' \in Seq(Info)
  <2>1. [start |-> b[1], end |-> b[2]] \in Info
    BY BoundsAssumption DEF Info
  <2> DEFINE r == [start |-> b[1], end |-> b[2]]
  <2> HIDE DEF r
  <2>2. infos' = <<r>> \o infos
    BY <1>1 DEF IoSetRange, r
  <2> QED BY <2>1, <2>2 DEF r
<1>2. CASE IoCopy
  BY <1>2 DEF IoCopy
<1>3. CASE UNCHANGED infos
  BY <1>3
<1> QED BY <1>1, <1>2, <1>3 DEF Next, Fast, Vfast, Mem16, Io, IoReadInt, IoWriteInt,
             IoReadBlock, IoWriteBlock, IoUnsetRange, IoGetCallbackData, vars

(* The comparisons of get_callback_info are those of the pages reached.    *)
LEMMA MatchesReached ==
  ASSUME Linked, NEW r \in Info, NEW p \in Nat
  PROVE  Matches(r, p) <=> Reaches(r, p)
<1>1. First(p) \in Int /\ Size \in Nat \ {0} /\ r.start \in Int /\ r.end \in Int
  BY SizeFacts DEF First, Info, Addr, Space
<1> QED BY <1>1 DEF Matches, Reaches

(* The search finds the first range of the list that reaches the page.     *)
LEMMA SearchFinds ==
  ASSUME Linked, infos \in Seq(Info), NEW p \in Nat
  PROVE  LET over == {i \in DOMAIN infos : Reaches(infos[i], p)}
         IN /\ over = {} => CallbackInfo(p) = NULL
            /\ \A i \in over : (\A j \in over : i <= j) => CallbackInfo(p) = infos[i]
<1>1. \A i \in DOMAIN infos : infos[i] \in Info /\ i \in 1..Len(infos)
  OBVIOUS
<1>2. \A i \in DOMAIN infos : Matches(infos[i], p) <=> Reaches(infos[i], p)
  BY <1>1, MatchesReached
<1> DEFINE over == {i \in DOMAIN infos : Reaches(infos[i], p)}
<1>3. ASSUME over = {}
      PROVE  CallbackInfo(p) = NULL
  BY <1>2, <1>3 DEF CallbackInfo, FirstMatch
<1>4. ASSUME NEW i \in over, \A j \in over : i <= j
      PROVE  CallbackInfo(p) = infos[i]
  <2>1. i \in DOMAIN infos /\ FirstMatch(i, p)
    <3>1. \A j \in 1..(i - 1) : j \in DOMAIN infos /\ ~(i <= j)
      BY <1>1
    <3> QED BY <1>2, <1>4, <3>1 DEF FirstMatch
  <2>2. \A j \in DOMAIN infos : FirstMatch(j, p) => j = i
    <3> SUFFICES ASSUME NEW j \in DOMAIN infos, FirstMatch(j, p) PROVE j = i
      OBVIOUS
    <3>1. j \in over
      BY <1>2 DEF FirstMatch
    <3>2. i <= j /\ i \in 1..Len(infos) /\ j \in 1..Len(infos)
      BY <1>1, <1>4, <3>1
    <3>3. ~(i < j)
      <4>1. i < j => i \in 1..(j - 1)
        BY <3>2
      <4> QED BY <2>1, <4>1 DEF FirstMatch
    <3> QED BY <3>2, <3>3
  <2> QED BY <2>1, <2>2 DEF CallbackInfo
<1> QED BY <1>3, <1>4

(* However ranges are set and unset and pages created, once an access has  *)
(* spread the callbacks the accesses to a page of io_mem.c that was not    *)
(* unset go to the newest range that reaches it.                           *)
THEOREM CallbacksSpread == Spec => []Spreads
<1>1. Init => CallbackInv
  <2> SUFFICES ASSUME Init PROVE CallbackInv
    OBVIOUS
  <2>1. Linked
    BY BuildAssumption DEF Init, Linked
  <2>2. \A p \in DOMAIN pages : PageLike(pages[p]) /\ pages[p].info = NULL
    BY DEF Init, PageLike
  <2> QED BY <2>1, <2>2, NoCallback DEF Init, CallbackInv, PagesLike, Silent, Given
<1>2. CallbackInv /\ [Next]_vars => CallbackInv'
  <2> SUFFICES ASSUME CallbackInv, [Next]_vars PROVE CallbackInv'
    OBVIOUS
  <2>1. CASE Next
    BY <2>1, FastCurrent, VfastCurrent, Mem16Current, IoCurrent DEF Next
  <2>2. CASE UNCHANGED vars
    <3>1. \A p : CallbackInfo(p)' = CallbackInfo(p)
      BY <2>2 DEF vars, CallbackInfo, FirstMatch, Matches, First, Size
    <3> QED BY <2>2, <3>1 DEF vars, CallbackInv, Linked, PagesLike, Silent, Given, PageLike
  <2> QED BY <2>1, <2>2
<1>3. Init => infos \in Seq(Info)
  BY DEF Init
<1>4. infos \in Seq(Info) /\ [Next]_vars => (infos \in Seq(Info))'
  BY RangesTyped
<1>5. CallbackInv /\ infos \in Seq(Info) => Spreads
  <2> SUFFICES ASSUME CallbackInv, infos \in Seq(Info), ~changed,
                      NEW a \in Addr, PageOf(a) \in DOMAIN pages \ unset
               PROVE  LET over == {i \in DOMAIN infos : Reaches(infos[i], PageOf(a))}
                      IN /\ over = {} => pages[PageOf(a)].info = NULL
                         /\ \A i \in over : (\A j \in over : i <= j)
                              => pages[PageOf(a)].info = infos[i]
    BY DEF Spreads
  <2>1. Linked /\ pages[PageOf(a)].info = CallbackInfo(PageOf(a))
    BY DEF CallbackInv, Given
  <2>2. PageOf(a) \in Nat
    BY <2>1, SizeFacts, Euclid DEF PageOf
  <2> QED BY <2>1, <2>2, SearchFinds
<1> QED BY <1>1, <1>2, <1>3, <1>4, <1>5, PTL DEF Spec

-----------------------------------------------------------------------------
(* Pages cut the addresses.  The three memories with pages.                *)
LEMMA PagedParts ==
  ASSUME Linked, kind # "mem16", NEW a \in Addr
  PROVE  /\ PageOf(a) \in Nat /\ PageOf(a) < NbPages
         /\ InPage(a) \in Offset
         /\ a = PageOf(a) * Size + InPage(a)
<1> DEFINE b == Size
           n == NbPages
<1>1. b \in Nat \ {0} /\ n \in Nat \ {0} /\ a \in Nat /\ a < b * n
  BY SizeFacts, PageAssumption DEF Space
<1> HIDE DEF b, n
<1>2. a \div b \in 0..n - 1 /\ a % b \in 0..b - 1 /\ a = (a \div b) * b + (a % b)
  BY <1>1, Split
<1>3. a \div b \in Nat /\ a \div b < n
  BY <1>1, <1>2
<1> QED BY <1>2, <1>3 DEF PageOf, InPage, Offset, b, n

LEMMA PlusAddr ==
  ASSUME Linked, NEW a \in Addr, NEW n \in Int
  PROVE  Plus(a, n) \in Addr
<1> DEFINE s == Space
<1>1. s \in Nat \ {0} /\ a \in Nat
  BY SizeFacts
<1> HIDE DEF s
<1>2. (a + n) % s \in 0..s - 1
  BY <1>1
<1> QED BY <1>2 DEF Plus, Addr, s

LEMMA PageByte ==
  ASSUME Linked, NEW p \in Nat, NEW o \in Offset
  PROVE  PageOf(p * Size + o) = p /\ InPage(p * Size + o) = o
<1>1. Size \in Nat \ {0} /\ o \in 0..Size - 1
  BY SizeFacts DEF Offset
<1>2. (p * Size + o) \div Size = p /\ (p * Size + o) % Size = o
  BY <1>1, Join
<1> QED BY <1>2 DEF PageOf, InPage

(* Where the byte k places after a lies. *)
LEMMA Where ==
  ASSUME Linked, kind # "mem16", NEW a \in Addr, NEW k \in Nat, NEW n \in Nat,
         NEW o \in Offset, InPage(a) + k = n * Size + o
  PROVE  PageOf(Plus(a, k)) = (PageOf(a) + n) % NbPages /\ InPage(Plus(a, k)) = o
<1> DEFINE m == PageOf(a) + n
           p == m % NbPages
<1>1. /\ Size \in Nat \ {0} /\ NbPages \in Nat \ {0} /\ o \in 0..Size - 1
      /\ Space = Size * NbPages
  BY SizeFacts, PageAssumption DEF Offset, Space
<1>2. /\ PageOf(a) \in Nat /\ InPage(a) \in Nat /\ a \in Nat
      /\ a = PageOf(a) * Size + InPage(a)
  BY PagedParts, SizeFacts DEF Offset
<1>3. m \in Nat /\ m * Size = PageOf(a) * Size + n * Size
  BY <1>1, <1>2, SMTT(30)
<1>4. PageOf(a) * Size \in Nat /\ n * Size \in Nat
  BY <1>1, <1>2, SMTT(30)
<1>5. a + k = m * Size + o
  BY <1>1, <1>2, <1>3, <1>4
<1>6. Plus(a, k) = p * Size + o
  BY <1>1, <1>3, <1>5, Around DEF Plus
<1>7. p \in Nat
  <2>1. m \in Nat
    BY <1>3
  <2> HIDE DEF m
  <2> QED BY <1>1, <2>1, Euclid
<1> QED BY <1>6, <1>7, PageByte

(* Each byte of a block goes where its address lies. *)
LEMMA SpotIs ==
  ASSUME Linked, kind # "mem16", NEW a \in Addr, NEW k \in Nat
  PROVE  Spot(a, k) = <<PageOf(Plus(a, k)), InPage(Plus(a, k))>>
<1> DEFINE r == InPage(a)
           d == k - Room(a)
           i == d \div Size
           o == d % Size
<1>1. /\ Size \in Nat \ {0} /\ NbPages \in Nat \ {0} /\ r \in 0..Size - 1
      /\ Room(a) = Size - r /\ PageOf(a) \in Nat /\ PageOf(a) < NbPages
  BY SizeFacts, PageAssumption, PagedParts DEF Offset, Room
<1>2. CASE k < Room(a)
  <2>1. r + k \in Offset /\ 0 * Size = 0
    BY <1>1, <1>2, SMTT(30) DEF Offset
  <2>2. InPage(a) + k = 0 * Size + (r + k)
    BY <1>1, <2>1
  <2>3. PageOf(Plus(a, k)) = (PageOf(a) + 0) % NbPages /\ InPage(Plus(a, k)) = r + k
    BY <2>1, <2>2, Where
  <2>4. (PageOf(a) + 0) % NbPages = PageOf(a)
    BY <1>1, SMTT(30)
  <2> QED BY <1>2, <2>3, <2>4 DEF Spot
<1>3. CASE ~(k < Room(a))
  <2>1. d \in Nat
    BY <1>1, <1>3
  <2>2. i \in Nat /\ o \in 0..Size - 1 /\ d = i * Size + o
    <3> HIDE DEF d
    <3> QED BY <1>1, <2>1, Euclid
  <2>3. i * Size \in Nat /\ (i + 1) * Size = i * Size + Size
    <3> HIDE DEF i
    <3> QED BY <1>1, <2>2, SMTT(30)
  <2>4. Spot(a, k) = <<PageOf(Plus(a, Room(a) + i * Size)), o>>
    BY <1>3 DEF Spot
  <2>5. r + k = Size + d
    BY <1>1
  <2> HIDE DEF i, o, d, r
  <2>6. i + 1 \in Nat /\ o \in Offset /\ 0 \in Offset /\ InPage(a) + k = (i + 1) * Size + o
    BY <1>1, <2>2, <2>3, <2>5 DEF Offset, r
  <2>7. PageOf(Plus(a, k)) = (PageOf(a) + (i + 1)) % NbPages /\ InPage(Plus(a, k)) = o
    BY <2>6, Where
  <2>8. /\ Room(a) + i * Size \in Nat
        /\ InPage(a) + (Room(a) + i * Size) = (i + 1) * Size + 0
    BY <1>1, <2>3 DEF r
  <2>9. PageOf(Plus(a, Room(a) + i * Size)) = (PageOf(a) + (i + 1)) % NbPages
    BY <2>6, <2>8, Where
  <2> QED BY <2>4, <2>7, <2>9
<1> QED BY <1>2, <1>3

(* Places: the byte k places after a is the one a block at a has there. *)
LEMMA PlaceOf ==
  ASSUME Linked, NEW a \in Addr, NEW x \in Addr
  PROVE  /\ Flat!Place(x, a) \in 0..Space - 1
         /\ Plus(a, Flat!Place(x, a)) = x
         /\ \A k \in 0..Space - 1 : Plus(a, k) = x => k = Flat!Place(x, a)
<1> DEFINE s == Space
<1>1. s \in Nat \ {0} /\ a \in Nat /\ a < s /\ x \in Nat /\ x < s
  BY SizeFacts
<1>2. Flat!Place(x, a) = (x - a + s) % s /\ \A k : Plus(a, k) = (a + k) % s
  BY DEF Flat!Place, Plus
<1> HIDE DEF s
<1>3. /\ (x - a + s) % s \in 0..s - 1
      /\ (a + ((x - a + s) % s)) % s = x
      /\ \A k \in 0..s - 1 : (a + k) % s = x => k = (x - a + s) % s
  BY <1>1, Circle
<1> QED BY <1>2, <1>3 DEF s

(* An address has a page and an offset, and no other has the same. *)
LEMMA AddrParts ==
  ASSUME Linked, NEW a \in Addr
  PROVE  /\ InPage(a) \in Offset
         /\ a = PageOf(a) * Size + InPage(a)
         /\ kind = "mem16" => PageOf(a) = 0 /\ InPage(a) = a
<1>1. CASE kind # "mem16"
  BY <1>1, PagedParts
<1>2. CASE kind = "mem16"
  <2>1. Size \in Nat \ {0} /\ a \in 0..Size - 1 /\ 0 * Size = 0
    BY <1>2, SizeFacts, SMTT(30)
  <2>2. 0 * Size + a = a
    BY <2>1
  <2>3. (0 * Size + a) \div Size = 0 /\ (0 * Size + a) % Size = a
    BY <2>1, Join
  <2>4. PageOf(a) = 0 /\ InPage(a) = a
    BY <2>2, <2>3 DEF PageOf, InPage
  <2> QED BY <2>1, <2>2, <2>4 DEF Offset
<1> QED BY <1>1, <1>2

(* Within a page, places are offsets: the same for the storage of mem16.   *)
LEMMA WithinPage ==
  ASSUME Linked, NEW a \in Addr, NEW n \in Nat, InPage(a) + n <= Size, NEW k \in 0..n - 1
  PROVE  /\ PageOf(Plus(a, k)) = PageOf(a)
         /\ InPage(Plus(a, k)) = InPage(a) + k
         /\ Plus(a, k) \in Addr
<1>1. Plus(a, k) \in Addr /\ Size \in Nat \ {0} /\ InPage(a) \in 0..Size - 1 /\ k \in Nat
  BY PlusAddr, SizeFacts, AddrParts DEF Offset
<1>2. CASE kind # "mem16"
  <2>1. k < Room(a)
    BY <1>1 DEF Room
  <2>2. Spot(a, k) = <<PageOf(a), InPage(a) + k>>
    BY <2>1 DEF Spot
  <2> QED BY <1>1, <1>2, <2>2, SpotIs
<1>3. CASE kind = "mem16"
  <2>1. a \in Nat /\ Size = Space /\ InPage(a) = a /\ a + k < Space /\ a + k \in Nat
    BY <1>1, <1>3, SizeFacts, AddrParts
  <2> DEFINE x == a + k
  <2>2. x % Space = x
    BY <2>1, SizeFacts, SMTT(30)
  <2>3. Plus(a, k) = a + k
    BY <2>2 DEF Plus
  <2> QED BY <1>1, <1>3, <2>1, <2>3, AddrParts
<1> QED BY <1>2, <1>3

-----------------------------------------------------------------------------
(* What the pages pg hold at address a, and what they are made of. *)
ByteIn(pg, a) ==
  IF PageOf(a) \in DOMAIN pg THEN pg[PageOf(a)].storage[Index(InPage(a), 1)] ELSE 0

Stored(pg) == \A p \in DOMAIN pg : PageLike(pg[p]) /\ DOMAIN pg[p].storage = Offset

(* Pages with the bytes of pages, new ones being zero. *)
SameBytes(pg) == Stored(pg) /\ \A x \in Addr : ByteIn(pg, x) = ByteAt(x)

(* The pages new are those of pg once bytes is written at a. *)
Written(new, pg, a, bytes) ==
  /\ Stored(new)
  /\ \A x \in Addr :
       ByteIn(new, x) = IF Flat!Place(x, a) < Len(bytes)
                        THEN bytes[Flat!Place(x, a) + 1] ELSE ByteIn(pg, x)

Within(a, n) == InPage(a) + n <= Size

(* An integer as it lies in a storage. *)
Turned(bytes) == IF Backwards THEN Reverse(bytes) ELSE bytes

LEMMA IndexOne ==
  ASSUME Linked
  PROVE  \A o \in Offset : Index(o, 1) \in Offset /\ Index(Index(o, 1), 1) = o
BY SizeFacts DEF Index, Offset

LEMMA ReverseFacts ==
  ASSUME NEW n \in Nat, NEW s, DOMAIN s = 1..n
  PROVE  /\ DOMAIN Reverse(s) = 1..n
         /\ \A k \in 1..n : Reverse(s)[k] = s[n - k + 1]
<1>1. Len(s) = n
  OBVIOUS
<1>2. \A k \in 1..n : (n - k) + 1 = n - k + 1
  OBVIOUS
<1> QED BY <1>1, <1>2 DEF Reverse

LEMMA ReverseTwice ==
  ASSUME NEW n \in Nat, NEW s, s = [k \in 1..n |-> s[k]]
  PROVE  Reverse(Reverse(s)) = s
<1> DEFINE r == Reverse(s)
<1>1. DOMAIN s = 1..n
  OBVIOUS
<1>2. DOMAIN r = 1..n /\ \A k \in 1..n : r[k] = s[n - k + 1]
  BY <1>1, ReverseFacts
<1> HIDE DEF r
<1>3. DOMAIN Reverse(r) = 1..n /\ \A k \in 1..n : Reverse(r)[k] = r[n - k + 1]
  BY <1>2, ReverseFacts
<1>4. ASSUME NEW k \in 1..n PROVE Reverse(r)[k] = s[k]
  <2>1. n - k + 1 \in 1..n /\ n - (n - k + 1) + 1 = k
    OBVIOUS
  <2> QED BY <1>2, <1>3, <2>1
<1>5. Reverse(r) = [k \in 1..n |-> Reverse(r)[k]]
  BY <1>3 DEF Reverse
<1> QED BY <1>4, <1>5 DEF r

(* The order of the host and back. *)
LEMMA HostTwice ==
  ASSUME NEW n \in Nat, NEW s, s = [k \in 1..n |-> s[k]]
  PROVE  /\ Host(Host(s)) = s
         /\ Invert(s) = s
         /\ Host(IF swap THEN Reverse(s) ELSE s) = s
BY ReverseTwice DEF Host, Invert

-----------------------------------------------------------------------------
(* Blocks. *)
LEMMA CollectIs ==
  ASSUME Linked, kind # "mem16", NEW a \in Addr, NEW n \in Nat, NEW pg,
         SpotPages(a, n) \subseteq DOMAIN pg, SameBytes(pg)
  PROVE  Collect(pg, a, n) = [k \in 1..n |-> ByteAt(Plus(a, k - 1))]
<1>1. ASSUME NEW k \in 1..n
      PROVE  pg[Spot(a, k - 1)[1]].storage[Index(Spot(a, k - 1)[2], 1)]
             = ByteAt(Plus(a, k - 1))
  <2> DEFINE j == k - 1
  <2>1. j \in Nat /\ j \in 0..n - 1
    OBVIOUS
  <2> HIDE DEF j
  <2>2. Spot(a, j) = <<PageOf(Plus(a, j)), InPage(Plus(a, j))>> /\ Plus(a, j) \in Addr
    BY <2>1, SpotIs, PlusAddr
  <2>3. Spot(a, j)[1] \in DOMAIN pg
    BY <2>1 DEF SpotPages
  <2>4. pg[Spot(a, j)[1]].storage[Index(Spot(a, j)[2], 1)] = ByteIn(pg, Plus(a, j))
    BY <2>2, <2>3 DEF ByteIn
  <2> QED BY <2>2, <2>4 DEF SameBytes, j
<1> QED BY <1>1 DEF Collect

LEMMA SpreadIs ==
  ASSUME Linked, kind # "mem16", NEW a \in Addr, NEW n \in 1..Space, NEW buf,
         DOMAIN buf = 1..n, NEW pg, Stored(pg), SpotPages(a, n) \subseteq DOMAIN pg
  PROVE  Written(Spread(pg, a, buf), pg, a, buf)
<1> DEFINE spot == [k \in DOMAIN buf |-> Spot(a, k - 1)]
           to == [k \in DOMAIN buf |-> Index(spot[k][2], 1)]
           hit(q, i) == \E k \in DOMAIN buf : spot[k][1] = q /\ to[k] = i
           stored(q, i) == IF hit(q, i)
                           THEN buf[CHOOSE k \in DOMAIN buf : spot[k][1] = q /\ to[k] = i]
                           ELSE pg[q].storage[i]
           st(q) == [i \in DOMAIN pg[q].storage |-> stored(q, i)]
           new == Spread(pg, a, buf)
<1>1. new = [q \in DOMAIN pg |-> [pg[q] EXCEPT !.storage = st(q)]]
  BY DEF Spread
<1>2. Space \in Nat /\ n \in Nat /\ Len(buf) = n
  BY SizeFacts
<1>3. ASSUME NEW k \in 1..n
      PROVE  /\ Plus(a, k - 1) \in Addr
             /\ spot[k] = <<PageOf(Plus(a, k - 1)), InPage(Plus(a, k - 1))>>
             /\ to[k] = Index(InPage(Plus(a, k - 1)), 1)
             /\ spot[k][1] \in DOMAIN pg
  <2> DEFINE j == k - 1
  <2>1. j \in Nat /\ j \in 0..n - 1
    BY <1>2
  <2> HIDE DEF j
  <2>2. Spot(a, j) = <<PageOf(Plus(a, j)), InPage(Plus(a, j))>> /\ Plus(a, j) \in Addr
    BY <2>1, SpotIs, PlusAddr
  <2>3. Spot(a, j)[1] \in DOMAIN pg
    BY <1>2, <2>1 DEF SpotPages
  <2>4. spot[k] = Spot(a, j)
    BY DEF j
  <2> QED BY <2>2, <2>3, <2>4 DEF j
<1> HIDE DEF spot
<1>4. ASSUME NEW x \in Addr, NEW k \in 1..n
      PROVE  spot[k][1] = PageOf(x) /\ to[k] = Index(InPage(x), 1)
             <=> k = Flat!Place(x, a) + 1
  <2> DEFINE y == Plus(a, k - 1)
  <2>1. y \in Addr /\ spot[k][1] = PageOf(y) /\ to[k] = Index(InPage(y), 1)
    BY <1>3
  <2>2. y = x => k - 1 = Flat!Place(x, a)
    BY <1>2, PlaceOf
  <2>3. k - 1 = Flat!Place(x, a) => y = x
    BY PlaceOf
  <2> HIDE DEF y, to
  <2>4. PageOf(y) = PageOf(x) /\ Index(InPage(y), 1) = Index(InPage(x), 1) <=> y = x
    BY <2>1, AddrParts, IndexOne
  <2>5. Flat!Place(x, a) \in Int /\ k \in Int
    BY PlaceOf
  <2> QED BY <2>1, <2>2, <2>3, <2>4, <2>5
<1> HIDE DEF to, st, new
<1>5. \A p \in DOMAIN new : /\ p \in DOMAIN pg /\ PageLike(new[p])
                            /\ new[p].storage = st(p)
  BY <1>1 DEF Stored, PageLike
<1>6. Stored(new)
  BY <1>5 DEF Stored, st
<1>7. ASSUME NEW x \in Addr
      PROVE  ByteIn(new, x) = IF Flat!Place(x, a) < Len(buf)
                              THEN buf[Flat!Place(x, a) + 1] ELSE ByteIn(pg, x)
  <2> DEFINE q == PageOf(x)
             i == Index(InPage(x), 1)
             m == Flat!Place(x, a)
  <2>1. m \in Nat /\ i \in Offset /\ q = PageOf(x) /\ i = Index(InPage(x), 1)
    BY PlaceOf, AddrParts, IndexOne
  <2>2. \A k \in 1..n : spot[k][1] = q /\ to[k] = i <=> k = m + 1
    BY <1>4
  <2> HIDE DEF q, i, m
  <2>3. CASE m < n
    <3>1. m + 1 \in 1..n
      BY <1>2, <2>1, <2>3
    <3>2. hit(q, i) /\ (CHOOSE k \in DOMAIN buf : spot[k][1] = q /\ to[k] = i) = m + 1
      BY <2>2, <3>1
    <3>3. q \in DOMAIN pg
      BY <1>3, <2>2, <3>1
    <3>4. st(q)[i] = buf[m + 1]
      BY <2>1, <3>2, <3>3 DEF st, Stored
    <3>5. q \in DOMAIN new
      BY <1>1, <3>3 DEF new
    <3>6. ByteIn(new, x) = buf[m + 1]
      BY <1>5, <2>1, <3>4, <3>5 DEF ByteIn
    <3> QED BY <1>2, <2>3, <3>6 DEF m
  <2>4. CASE ~(m < n)
    <3>1. ~hit(q, i)
      BY <1>2, <2>1, <2>2, <2>4
    <3>2. q \in DOMAIN pg => st(q)[i] = pg[q].storage[i]
      BY <2>1, <3>1 DEF st, Stored
    <3>3. DOMAIN new = DOMAIN pg
      BY <1>1 DEF new
    <3>4. ByteIn(new, x) = ByteIn(pg, x)
      BY <1>5, <2>1, <3>2, <3>3 DEF ByteIn
    <3> QED BY <1>2, <2>4, <3>4 DEF m
  <2> QED BY <2>3, <2>4
<1> QED BY <1>6, <1>7 DEF Written, new

-----------------------------------------------------------------------------
(* Integers within a page, and the storage of mem16. *)
LEMMA Inside ==
  ASSUME Linked, NEW a \in Addr, NEW n \in Nat, Within(a, n), NEW x \in Addr
  PROVE  /\ n <= Space
         /\ Flat!Place(x, a) < n =>
              /\ PageOf(x) = PageOf(a) /\ InPage(x) = InPage(a) + Flat!Place(x, a)
         /\ PageOf(x) = PageOf(a) /\ InPage(x) \in InPage(a)..InPage(a) + n - 1 =>
              Flat!Place(x, a) = InPage(x) - InPage(a)
<1>1. /\ Size \in Nat /\ Space \in Nat /\ Size <= Space /\ InPage(a) \in 0..Size - 1
      /\ InPage(a) + n <= Size
  <2>1. Size <= Space
    BY SizeFacts, PageAssumption, SMTT(30) DEF Space
  <2> QED BY <2>1, SizeFacts, AddrParts DEF Offset, Within
<1>2. Flat!Place(x, a) \in 0..Space - 1
  BY PlaceOf
<1>3. ASSUME Flat!Place(x, a) < n
      PROVE  PageOf(x) = PageOf(a) /\ InPage(x) = InPage(a) + Flat!Place(x, a)
  <2> DEFINE k == Flat!Place(x, a)
  <2>1. k \in 0..n - 1 /\ Plus(a, k) = x
    BY <1>2, <1>3, PlaceOf
  <2> HIDE DEF k
  <2>2. PageOf(Plus(a, k)) = PageOf(a) /\ InPage(Plus(a, k)) = InPage(a) + k
    BY <1>1, <2>1, WithinPage
  <2> QED BY <2>1, <2>2 DEF k
<1>4. ASSUME PageOf(x) = PageOf(a), InPage(x) \in InPage(a)..InPage(a) + n - 1
      PROVE  Flat!Place(x, a) = InPage(x) - InPage(a)
  <2> DEFINE k == InPage(x) - InPage(a)
  <2>1. k \in 0..n - 1 /\ InPage(a) + k = InPage(x) /\ k \in 0..Space - 1
    BY <1>1, <1>4
  <2> HIDE DEF k
  <2>2. /\ PageOf(Plus(a, k)) = PageOf(x) /\ InPage(Plus(a, k)) = InPage(x)
        /\ Plus(a, k) \in Addr
    BY <1>1, <1>4, <2>1, WithinPage
  <2>3. Plus(a, k) = x
    BY <2>2, AddrParts
  <2> QED BY <2>1, <2>3, PlaceOf DEF k
<1> QED BY <1>1, <1>3, <1>4

LEMMA PeekIs ==
  ASSUME Linked, NEW a \in Addr, NEW n \in Nat \ {0}, Within(a, n), NEW junk, NEW pg,
         PageOf(a) \in DOMAIN pg, SameBytes(pg)
  PROVE  Turned(Peek(pg[PageOf(a)].storage, Index(InPage(a), n), n, junk))
         = [k \in 1..n |-> ByteAt(Plus(a, k - 1))]
<1> DEFINE st == pg[PageOf(a)].storage
           o == InPage(a)
           i == Index(o, n)
           r == Peek(st, i, n, junk)
<1>1. /\ Size \in Nat /\ o \in 0..Size - 1 /\ o + n <= Size /\ DOMAIN st = 0..Size - 1
  BY SizeFacts, AddrParts DEF Offset, Within, SameBytes, Stored
<1>2. ASSUME NEW k \in 1..n
      PROVE  ByteAt(Plus(a, k - 1)) = st[Index(o + k - 1, 1)]
  <2> DEFINE j == k - 1
  <2>1. j \in 0..n - 1 /\ o + j = o + k - 1
    BY <1>1
  <2> HIDE DEF j
  <2>2. /\ PageOf(Plus(a, j)) = PageOf(a) /\ InPage(Plus(a, j)) = o + j
        /\ Plus(a, j) \in Addr
    BY <2>1, WithinPage DEF Within
  <2>3. ByteAt(Plus(a, j)) = ByteIn(pg, Plus(a, j))
    BY <2>2 DEF SameBytes
  <2>4. ByteIn(pg, Plus(a, j)) = st[Index(o + j, 1)]
    BY <2>2 DEF ByteIn
  <2> QED BY <2>1, <2>3, <2>4 DEF j
<1> HIDE DEF o, st
<1>3. CASE ~Backwards
  <2>1. \A k \in 1..n : i + k - 1 = o + k - 1 /\ Index(o + k - 1, 1) = o + k - 1
                        /\ o + k - 1 \in 0..Size - 1
    BY <1>1, <1>3 DEF Index
  <2>2. \A k \in 1..n : r[k] = st[o + k - 1]
    BY <1>1, <2>1 DEF Peek
  <2>3. \A k \in 1..n : r[k] = ByteAt(Plus(a, k - 1))
    BY <1>2, <2>1, <2>2
  <2> QED BY <1>3, <2>3 DEF Turned, Peek, o, st
<1>4. CASE Backwards
  <2>1. \A k \in 1..n : /\ n - k + 1 \in 1..n
                        /\ i + (n - k + 1) - 1 = Size - o - k
                        /\ Index(o + k - 1, 1) = Size - o - k
                        /\ Size - o - k \in 0..Size - 1
    BY <1>1, <1>4 DEF Index
  <2>2. \A k \in 1..n : r[n - k + 1] = st[Size - o - k]
    BY <1>1, <2>1 DEF Peek
  <2>3. DOMAIN r = 1..n
    BY DEF Peek
  <2> HIDE DEF r
  <2>4. \A k \in 1..n : Reverse(r)[k] = r[n - k + 1]
    BY <2>3, ReverseFacts
  <2>5. \A k \in 1..n : Reverse(r)[k] = ByteAt(Plus(a, k - 1))
    BY <1>2, <2>1, <2>2, <2>4
  <2>6. Reverse(r) = [k \in 1..n |-> Reverse(r)[k]]
    BY <2>3, ReverseFacts DEF Reverse
  <2>7. Turned(r) = [k \in 1..n |-> ByteAt(Plus(a, k - 1))]
    BY <1>4, <2>5, <2>6 DEF Turned
  <2> QED BY <2>7 DEF r, o, st
<1> QED BY <1>3, <1>4

LEMMA PokeIs ==
  ASSUME Linked, NEW a \in Addr, NEW n \in Nat \ {0}, Within(a, n), NEW buf,
         DOMAIN buf = 1..n, NEW pg, PageOf(a) \in DOMAIN pg, Stored(pg)
  PROVE  Written([pg EXCEPT ![PageOf(a)].storage =
                    Poke(@, Index(InPage(a), n), Turned(buf))], pg, a, buf)
<1> DEFINE q == PageOf(a)
           st == pg[q].storage
           o == InPage(a)
           i == Index(o, n)
           t == Turned(buf)
           ps == Poke(st, i, t)
           new == [pg EXCEPT ![q].storage = ps]
<1>1. /\ Size \in Nat /\ o \in 0..Size - 1 /\ o + n <= Size /\ DOMAIN st = 0..Size - 1
      /\ Len(buf) = n
  BY SizeFacts, AddrParts DEF Offset, Within, Stored
<1>2. /\ DOMAIN t = 1..n /\ Len(t) = n
      /\ \A k \in 1..n : t[k] = IF Backwards THEN buf[n - k + 1] ELSE buf[k]
  BY ReverseFacts DEF Turned
<1>3. /\ DOMAIN ps = 0..Size - 1
      /\ \A y \in 0..Size - 1 : ps[y] = IF y \in i..(i + n - 1) THEN t[y - i + 1] ELSE st[y]
  BY <1>1, <1>2 DEF Poke
<1>4. /\ DOMAIN new = DOMAIN pg
      /\ \A p \in DOMAIN pg : PageLike(new[p])
      /\ new[q].storage = ps
      /\ \A p \in DOMAIN pg : p # q => new[p] = pg[p]
  <2> HIDE DEF ps
  <2> QED BY DEF Stored, PageLike
<1> HIDE DEF new
<1>5. Stored(new)
  BY <1>3, <1>4 DEF Stored, Offset
<1>6. ASSUME NEW x \in Addr
      PROVE  ByteIn(new, x) = IF Flat!Place(x, a) < Len(buf)
                              THEN buf[Flat!Place(x, a) + 1] ELSE ByteIn(pg, x)
  <2> DEFINE m == Flat!Place(x, a)
             d == InPage(x)
             y == Index(d, 1)
  <2>1. /\ m \in Nat /\ d \in 0..Size - 1
        /\ m < n => PageOf(x) = q /\ d = o + m
        /\ PageOf(x) = q /\ d \in o..o + n - 1 => m = d - o
    BY PlaceOf, AddrParts, Inside DEF Offset
  <2> HIDE DEF m, d, o, ps, t, st
  <2>2. CASE PageOf(x) # q
    <3>1. ~(m < n)
      BY <2>1, <2>2
    <3>2. ByteIn(new, x) = ByteIn(pg, x)
      BY <1>4, <2>2 DEF ByteIn
    <3> QED BY <1>1, <3>1, <3>2 DEF m
  <2>3. CASE PageOf(x) = q
    <3>1. /\ y \in 0..Size - 1
          /\ y \in i..(i + n - 1) <=> d \in o..o + n - 1
          /\ d \in o..o + n - 1 => /\ y - i + 1 \in 1..n
                                   /\ IF Backwards THEN n - (y - i + 1) + 1 = d - o + 1
                                                   ELSE y - i + 1 = d - o + 1
      BY <1>1, <2>1 DEF Index
    <3>2. ps[y] = IF d \in o..o + n - 1 THEN buf[d - o + 1] ELSE st[y]
      BY <1>2, <1>3, <3>1
    <3>3. m < n <=> d \in o..o + n - 1
      BY <1>1, <2>1, <2>3
    <3>4. ps[y] = IF m < n THEN buf[m + 1] ELSE st[y]
      BY <2>1, <2>3, <3>2, <3>3
    <3>5. ByteIn(new, x) = ps[y] /\ ByteIn(pg, x) = st[y]
      BY <1>4, <2>3 DEF ByteIn, d, st
    <3> QED BY <1>1, <3>4, <3>5 DEF m
  <2> QED BY <2>2, <2>3
<1>7. new = [pg EXCEPT ![PageOf(a)].storage =
                    Poke(@, Index(InPage(a), n), Turned(buf))]
  BY DEF new
<1> QED BY <1>5, <1>6, <1>7 DEF Written

-----------------------------------------------------------------------------
(* What every step does, as the flat memory sees it. *)
Rooted(pg) == kind = "mem16" => 0 \in DOMAIN pg
StorageInv == broken = "no" => Stored(pages) /\ Rooted(pages)
FlatEffect == StorageInv' /\ (broken' = "no" => FlatStep)

LEMMA After ==
  ASSUME UNCHANGED <<kind, swap>>
  PROVE  /\ \A x : ByteAt(x)' = ByteIn(pages', x)
         /\ Stored(pages') /\ Rooted(pages') => StorageInv'
BY DEF ByteAt, ByteIn, PageOf, InPage, Size, Index, Backwards, Stored, Offset,
       PageLike, Rooted, StorageInv

LEMMA SameAfter ==
  ASSUME UNCHANGED <<kind, swap>>, SameBytes(pages'), Rooted(pages')
  PROVE  StorageInv' /\ [x \in Addr |-> ByteAt(x)]' = [x \in Addr |-> ByteAt(x)]
<1>1. \A x \in Addr : ByteAt(x)' = ByteAt(x)
  BY After DEF SameBytes
<1> QED BY <1>1, After DEF SameBytes

LEMMA LoadEffect ==
  ASSUME Linked, UNCHANGED <<kind, swap>>, SameBytes(pages'), Rooted(pages'),
         NEW a \in Addr, NEW n \in Nat,
         last' = Access("load", a, [k \in 1..n |-> ByteAt(Plus(a, k - 1))])
  PROVE  FlatEffect
<1> DEFINE bytes == [k \in 1..n |-> ByteAt(Plus(a, k - 1))]
           flat == [x \in Addr |-> ByteAt(x)]
<1>1. Len(bytes) = n
  OBVIOUS
<1>2. \A k \in 1..n : ByteAt(Plus(a, k - 1)) = flat[Plus(a, k - 1)]
  BY PlusAddr, SizeFacts
<1>3. bytes = [k \in 1..n |-> flat[Plus(a, k - 1)]]
  BY <1>2
<1>4. flat' = flat
  BY SameAfter
<1> HIDE DEF bytes
<1>5. last'.op = "load" /\ last'.at = a /\ last'.bytes = bytes
  BY DEF Access, bytes
<1>6. last' = Flat!Access("load", a, bytes)
  BY DEF Access, Flat!Access, bytes
<1>7. Flat!Load(a, n)
  BY <1>3, <1>4, <1>6 DEF Flat!Load, Flat!Plus, Plus
<1>8. FlatStep
  BY <1>1, <1>5, <1>7 DEF FlatStep
<1> QED BY <1>8, SameAfter DEF FlatEffect

LEMMA DeviceEffect ==
  ASSUME Linked, UNCHANGED <<kind, swap>>, SameBytes(pages'), Rooted(pages'),
         NEW a, NEW bytes, last' = Access("device", a, bytes)
  PROVE  FlatEffect
<1>1. last'.op = "device" /\ last'.at = a /\ last'.bytes = bytes
  BY DEF Access
<1>2. Flat!Device(a, bytes)
  BY SameAfter DEF Flat!Device, Flat!Access, Access
<1> QED BY <1>1, <1>2, SameAfter DEF FlatStep, FlatEffect

LEMMA OtherEffect ==
  ASSUME Linked, UNCHANGED <<kind, swap>>, SameBytes(pages'), Rooted(pages'), last' = Idle
  PROVE  FlatEffect
<1>1. last'.op = "none"
  BY DEF Access, Idle
<1>2. Flat!Other
  BY SameAfter DEF Flat!Other, Flat!Idle, Flat!Access, Access, Idle
<1> QED BY <1>1, <1>2, SameAfter DEF FlatStep, FlatEffect

LEMMA StoreEffect ==
  ASSUME Linked, UNCHANGED <<kind, swap>>, NEW pg, SameBytes(pg), Rooted(pages'),
         NEW a, NEW bytes, Written(pages', pg, a, bytes), last' = Access("store", a, bytes)
  PROVE  FlatEffect
<1>1. last'.op = "store" /\ last'.at = a /\ last'.bytes = bytes
  BY DEF Access
<1> DEFINE flat == [x \in Addr |-> ByteAt(x)]
<1>2. \A x \in Addr : ByteAt(x)' = IF Flat!Place(x, a) < Len(bytes)
                                   THEN bytes[Flat!Place(x, a) + 1] ELSE flat[x]
  BY After DEF Written, SameBytes
<1>3. flat' = [x \in Addr |-> IF Flat!Place(x, a) < Len(bytes)
                              THEN bytes[Flat!Place(x, a) + 1] ELSE flat[x]]
  BY <1>2
<1>4. Flat!Addr = Addr
  BY DEF Flat!Addr, Addr
<1>5. Flat!Store(a, bytes)
  BY <1>3, <1>4 DEF Flat!Store, Flat!Access, Access
<1>6. FlatStep
  BY <1>1, <1>5 DEF FlatStep
<1> QED BY <1>6, After DEF Written, FlatEffect

LEMMA BrokenEffect ==
  ASSUME broken' # "no" PROVE FlatEffect
BY DEF FlatEffect, StorageInv

(* The pages an access asks for have the bytes they had, new ones zeros. *)
LEMMA NewPages ==
  ASSUME Linked, Stored(pages), NEW pg, DOMAIN pages \subseteq DOMAIN pg,
         \A p \in DOMAIN pg : PageLike(pg[p]),
         \A p \in DOMAIN pages : pg[p].storage = pages[p].storage,
         \A p \in DOMAIN pg : p \notin DOMAIN pages => pg[p].storage = Zeros
  PROVE  SameBytes(pg)
<1>1. Stored(pg)
  BY DEF Stored, Zeros
<1>2. ASSUME NEW x \in Addr
      PROVE  ByteIn(pg, x) = ByteAt(x)
  <2>1. Index(InPage(x), 1) \in Offset
    BY AddrParts, IndexOne
  <2> QED BY <2>1 DEF ByteIn, ByteAt, Zeros
<1> QED BY <1>1, <1>2 DEF SameBytes

LEMMA FastNew ==
  ASSUME Linked, Stored(pages), NEW s
  PROVE  SameBytes(FastPages(s)) /\ s \subseteq DOMAIN FastPages(s)
<1>1. \A p \in DOMAIN FastPages(s) : PageLike(FastPages(s)[p])
  BY DEF FastPages, Stored, PageLike
<1>2. /\ DOMAIN FastPages(s) = DOMAIN pages \cup s
      /\ \A p \in DOMAIN pages : FastPages(s)[p].storage = pages[p].storage
      /\ \A p \in s : p \notin DOMAIN pages => FastPages(s)[p].storage = Zeros
  BY DEF FastPages
<1> HIDE DEF FastPages
<1> QED BY <1>1, <1>2, NewPages

LEMMA VfastNew ==
  ASSUME Linked, Stored(pages), NEW s
  PROVE  SameBytes(VfastPages(s)) /\ s \subseteq DOMAIN VfastPages(s)
<1>1. \A p \in DOMAIN VfastPages(s) : PageLike(VfastPages(s)[p])
  BY DEF VfastPages, Stored, PageLike
<1>2. /\ DOMAIN VfastPages(s) = DOMAIN pages \cup s
      /\ \A p \in DOMAIN pages : VfastPages(s)[p].storage = pages[p].storage
      /\ \A p \in s : p \notin DOMAIN pages => VfastPages(s)[p].storage = Zeros
  BY DEF VfastPages
<1> QED BY <1>1, <1>2, NewPages

LEMMA IoNew ==
  ASSUME CallbackInv, Stored(pages), NEW s
  PROVE  SameBytes(IoPages(s)) /\ s \subseteq DOMAIN IoPages(s)
<1>1. \A p \in DOMAIN IoPages(s) : PageLike(IoPages(s)[p])
  BY IoPagesCurrent DEF Current
<1>2. /\ DOMAIN IoPages(s) = DOMAIN pages \cup s
      /\ \A p \in DOMAIN pages : IoPages(s)[p].storage = pages[p].storage
      /\ \A p \in s : p \notin DOMAIN pages => IoPages(s)[p].storage = Zeros
  BY UpdatedCurrent DEF IoPages
<1> QED BY <1>1, <1>2, NewPages DEF CallbackInv

-----------------------------------------------------------------------------
(* What the theorem assumes: no access is as large as the address space. *)
Moderate ==
  /\ Width \subseteq 1..Space
  /\ \A buf \in Blocks : Len(buf) \in 1..Space

FlatInv == CallbackInv /\ StorageInv

LEMMA BlockFacts ==
  ASSUME NEW buf \in Blocks
  PROVE  Len(buf) \in Nat \ {0} /\ DOMAIN buf = 1..Len(buf)
BY BoundsAssumption

LEMMA IntFacts ==
  ASSUME NEW n \in Width, NEW bytes \in [1..n -> Byte]
  PROVE  /\ n \in Nat \ {0} /\ Len(bytes) = n /\ DOMAIN bytes = 1..n
         /\ bytes = [k \in 1..n |-> bytes[k]]
BY WidthAssumption

LEMMA InsideWithin ==
  ASSUME Linked, NEW a \in Addr, NEW n \in Nat \ {0}
  PROVE  /\ ~Outside(Index(InPage(a), n), n) => Within(a, n)
         /\ ~Outside(InPage(a), n) => Within(a, n)
         /\ Direct(a, n) => Within(a, n)
         /\ VfastDirect(a, n) => Within(a, n)
<1>1. InPage(a) \in Nat /\ Size \in Nat
  BY AddrParts, SizeFacts DEF Offset
<1> QED BY <1>1 DEF Outside, Index, Within, Direct, VfastDirect

LEMMA FastFlat ==
  ASSUME Moderate, FlatInv, broken = "no", Fast, UNCHANGED <<kind, swap>>
  PROVE  FlatEffect
<1>1. /\ kind = "fast" /\ Linked /\ Stored(pages) /\ ~Backwards
      /\ Rooted(pages')
  BY DEF Fast, FlatInv, CallbackInv, StorageInv, Backwards, Rooted
<1>2. \A x : Turned(x) = x
  BY <1>1 DEF Turned
<1>3. \A o, n : Index(o, n) = o
  BY <1>1 DEF Index
<1>4. ASSUME NEW a \in Starts, NEW n \in Width, FastReadInt(a, n)
      PROVE  FlatEffect
  <2> DEFINE direct == Direct(a, n)
             pg == FastPages(IF direct THEN {PageOf(a)} ELSE SpotPages(a, n))
             val == IF direct THEN Peek(pg[PageOf(a)].storage, InPage(a), n, 0)
                    ELSE Collect(pg, a, n)
             all == [k \in 1..n |-> ByteAt(Plus(a, k - 1))]
  <2>1. a \in Addr /\ n \in Nat \ {0}
    BY BoundsAssumption, WidthAssumption
  <2>2. pages' = pg /\ last' = Access("load", a, Host(IF swap THEN Reverse(val) ELSE val))
    BY <1>4 DEF FastReadInt
  <2>3. SameBytes(pg) /\ (IF direct THEN PageOf(a) \in DOMAIN pg
                          ELSE SpotPages(a, n) \subseteq DOMAIN pg)
    BY <1>1, FastNew
  <2> HIDE DEF pg
  <2>4. val = all
    <3>1. CASE direct
      BY <1>1, <1>2, <1>3, <2>1, <2>3, <3>1, InsideWithin, PeekIs
    <3>2. CASE ~direct
      BY <1>1, <2>1, <2>3, <3>2, CollectIs
    <3> QED BY <3>1, <3>2
  <2>5. all = [k \in 1..n |-> all[k]]
    OBVIOUS
  <2> HIDE DEF val, all
  <2>6. Host(IF swap THEN Reverse(val) ELSE val) = all
    BY <2>1, <2>4, <2>5, HostTwice
  <2> QED BY <1>1, <2>1, <2>2, <2>3, <2>6, LoadEffect DEF all
<1>5. ASSUME NEW a \in Starts, NEW n \in Width, NEW bytes \in [1..n -> Byte],
             FastWriteInt(a, bytes)
      PROVE  FlatEffect
  <2> DEFINE p == PageOf(a)
             pg == FastPages({p})
  <2>1. a \in Addr
    BY BoundsAssumption
  <2>2. n \in Nat \ {0} /\ Len(bytes) = n /\ DOMAIN bytes = 1..n /\ Invert(bytes) = bytes
    BY IntFacts, HostTwice
  <2>3. /\ pages' = [pg EXCEPT ![p].storage = Poke(@, InPage(a), Invert(bytes))]
        /\ last' = Access("store", a, bytes)
        /\ broken' = IF Outside(InPage(a), Len(bytes)) THEN "overflow" ELSE "no"
    BY <1>5 DEF FastWriteInt
  <2>4. SameBytes(pg) /\ p \in DOMAIN pg
    BY <1>1, FastNew
  <2> HIDE DEF pg
  <2>5. CASE broken' # "no"
    BY <2>5, BrokenEffect
  <2>6. CASE broken' = "no"
    <3>1. Within(a, n)
      BY <1>1, <2>1, <2>2, <2>3, <2>6, InsideWithin
    <3>2. Written([pg EXCEPT ![p].storage = Poke(@, Index(InPage(a), n), Turned(bytes))],
                  pg, a, bytes)
      BY <1>1, <2>1, <2>2, <2>4, <3>1, PokeIs DEF SameBytes
    <3>3. Written(pages', pg, a, bytes)
      BY <1>2, <1>3, <2>2, <2>3, <3>2
    <3> QED BY <1>1, <2>3, <2>4, <3>3, StoreEffect
  <2> QED BY <2>5, <2>6
<1>6. ASSUME NEW a \in Starts, NEW buf \in Blocks, FastReadBlock(a, Len(buf))
      PROVE  FlatEffect
  <2> DEFINE n == Len(buf)
             pg == FastPages(SpotPages(a, n))
  <2>1. a \in Addr /\ n \in Nat /\ SameBytes(pg) /\ SpotPages(a, n) \subseteq DOMAIN pg
    BY <1>1, BoundsAssumption, BlockFacts, FastNew
  <2>2. pages' = pg /\ last' = Access("load", a, Collect(pg, a, n))
    BY <1>6 DEF FastReadBlock
  <2> HIDE DEF n, pg
  <2>3. Collect(pg, a, n) = [k \in 1..n |-> ByteAt(Plus(a, k - 1))]
    BY <1>1, <2>1, CollectIs
  <2> QED BY <1>1, <2>1, <2>2, <2>3, LoadEffect
<1>7. ASSUME NEW a \in Starts, NEW buf \in Blocks, FastWriteBlock(a, buf)
      PROVE  FlatEffect
  <2> DEFINE n == Len(buf)
             pg == FastPages(SpotPages(a, n))
  <2>1. /\ a \in Addr /\ n \in 1..Space /\ DOMAIN buf = 1..n
        /\ SameBytes(pg) /\ SpotPages(a, n) \subseteq DOMAIN pg
    BY <1>1, BoundsAssumption, BlockFacts, FastNew DEF Moderate
  <2>2. pages' = Spread(pg, a, buf) /\ last' = Access("store", a, buf)
    BY <1>7 DEF FastWriteBlock
  <2> HIDE DEF n, pg
  <2>3. Written(pages', pg, a, buf)
    BY <1>1, <2>1, <2>2, SpreadIs DEF SameBytes
  <2> QED BY <1>1, <2>1, <2>2, <2>3, StoreEffect
<1>8. CASE FastCopy
  <2>1. CASE broken' # "no"
    BY <2>1, BrokenEffect
  <2>2. CASE broken' = "no"
    <3>1. \A p \in DOMAIN pages : FastCopied(p)
      BY <1>8, <2>2 DEF FastCopy
    <3>2. {q \in DOMAIN pages : FastCopied(q)} = DOMAIN pages
      BY <3>1
    <3>3. pages' = [p \in DOMAIN pages |-> pages[p]] /\ last' = Idle
      BY <1>8, <3>2 DEF FastCopy
    <3>4. SameBytes(pages')
      BY <1>1, <3>3, NewPages DEF Stored
    <3> QED BY <1>1, <3>3, <3>4, OtherEffect
  <2> QED BY <2>1, <2>2
<1> QED BY <1>4, <1>5, <1>6, <1>7, <1>8 DEF Fast

LEMMA VfastFlat ==
  ASSUME Moderate, FlatInv, broken = "no", Vfast, UNCHANGED <<kind, swap>>
  PROVE  FlatEffect
<1>1. /\ kind = "vfast" /\ Linked /\ Stored(pages) /\ Backwards = swap
      /\ Rooted(pages')
  BY DEF Vfast, FlatInv, CallbackInv, StorageInv, Backwards, Rooted, Linked
<1>2. \A x : Turned(x) = Host(x)
  BY <1>1 DEF Turned, Host
<1>3. \A a, n : SpotPages(a, n) \subseteq VfastSpotPages(a, n)
  BY DEF VfastSpotPages
<1>4. ASSUME NEW a \in Starts, NEW n \in Width, VfastReadInt(a, n)
      PROVE  FlatEffect
  <2> DEFINE direct == VfastDirect(a, n)
             pg == VfastPages(IF direct THEN {PageOf(a)} ELSE VfastSpotPages(a, n))
             val == IF direct THEN Peek(pg[PageOf(a)].storage, Index(InPage(a), n), n, 0)
                    ELSE Collect(pg, a, n)
             all == [k \in 1..n |-> ByteAt(Plus(a, k - 1))]
  <2>1. a \in Addr /\ n \in Nat \ {0}
    BY BoundsAssumption, WidthAssumption
  <2>2. /\ pages' = pg /\ last' = Access("load", a, Host(val))
        /\ broken' = IF Unordered(a, n) THEN "order" ELSE "no"
    BY <1>4 DEF VfastReadInt
  <2>3. SameBytes(pg) /\ (IF direct THEN PageOf(a) \in DOMAIN pg
                          ELSE SpotPages(a, n) \subseteq DOMAIN pg)
    BY <1>1, <1>3, VfastNew
  <2> HIDE DEF pg
  <2>4. CASE broken' # "no"
    BY <2>4, BrokenEffect
  <2>5. CASE broken' = "no"
    <3>1. Host(val) = all
      <4>1. CASE direct
        BY <1>1, <1>2, <2>1, <2>3, <4>1, InsideWithin, PeekIs
      <4>2. CASE ~direct
        <5>1. ~swap
          BY <2>2, <2>5, <4>2 DEF Unordered
        <5> QED BY <1>1, <2>1, <2>3, <4>2, <5>1, CollectIs DEF Host
      <4> QED BY <4>1, <4>2
    <3> QED BY <1>1, <2>1, <2>2, <2>3, <3>1, LoadEffect
  <2> QED BY <2>4, <2>5
<1>5. ASSUME NEW a \in Starts, NEW n \in Width, NEW bytes \in [1..n -> Byte],
             VfastWriteInt(a, bytes)
      PROVE  FlatEffect
  <2>1. a \in Addr
    BY BoundsAssumption
  <2>2. n \in Nat \ {0} /\ Len(bytes) = n /\ DOMAIN bytes = 1..n /\ n \in 1..Space
    BY IntFacts DEF Moderate
  <2>3. last' = Access("store", a, bytes)
    BY <1>5 DEF VfastWriteInt
  <2>4. CASE VfastDirect(a, n)
    <3> DEFINE p == PageOf(a)
               pg == VfastPages({p})
    <3>1. pages' = [pg EXCEPT ![p].storage = Poke(@, Index(InPage(a), n), Host(bytes))]
      BY <1>5, <2>2, <2>4 DEF VfastWriteInt
    <3>2. SameBytes(pg) /\ p \in DOMAIN pg
      BY <1>1, VfastNew
    <3> HIDE DEF pg
    <3>3. Written([pg EXCEPT ![p].storage = Poke(@, Index(InPage(a), n), Turned(bytes))],
                  pg, a, bytes)
      BY <1>1, <2>1, <2>2, <2>4, <3>2, InsideWithin, PokeIs DEF SameBytes
    <3>4. Written(pages', pg, a, bytes)
      BY <1>2, <3>1, <3>3
    <3> QED BY <1>1, <2>3, <3>2, <3>4, StoreEffect
  <2>5. CASE ~VfastDirect(a, n)
    <3> DEFINE pg == VfastPages(VfastSpotPages(a, n))
    <3>1. /\ pages' = Spread(pg, a, Host(bytes))
          /\ broken' = IF Unordered(a, n) THEN "order" ELSE "no"
      BY <1>5, <2>2, <2>5 DEF VfastWriteInt
    <3>2. SameBytes(pg) /\ SpotPages(a, n) \subseteq DOMAIN pg
      BY <1>1, <1>3, VfastNew
    <3> HIDE DEF pg
    <3>3. CASE broken' # "no"
      BY <3>3, BrokenEffect
    <3>4. CASE broken' = "no"
      <4>1. Host(bytes) = bytes
        BY <2>5, <3>1, <3>4 DEF Unordered, Host
      <4>2. Written(pages', pg, a, bytes)
        BY <1>1, <2>1, <2>2, <3>1, <3>2, <4>1, SpreadIs DEF SameBytes
      <4> QED BY <1>1, <2>3, <3>2, <4>2, StoreEffect
    <3> QED BY <3>3, <3>4
  <2> QED BY <2>4, <2>5
<1>6. ASSUME NEW a \in Starts, NEW buf \in Blocks, VfastReadBlock(a, Len(buf))
      PROVE  FlatEffect
  <2> DEFINE n == Len(buf)
             pg == VfastPages(VfastSpotPages(a, n))
  <2>1. a \in Addr /\ n \in Nat /\ SameBytes(pg) /\ SpotPages(a, n) \subseteq DOMAIN pg
    BY <1>1, <1>3, BoundsAssumption, BlockFacts, VfastNew
  <2>2. pages' = pg /\ last' = Access("load", a, Collect(pg, a, n))
    BY <1>6 DEF VfastReadBlock
  <2> HIDE DEF n, pg
  <2>3. Collect(pg, a, n) = [k \in 1..n |-> ByteAt(Plus(a, k - 1))]
    BY <1>1, <2>1, CollectIs
  <2> QED BY <1>1, <2>1, <2>2, <2>3, LoadEffect
<1>7. ASSUME NEW a \in Starts, NEW buf \in Blocks, VfastWriteBlock(a, buf)
      PROVE  FlatEffect
  <2> DEFINE n == Len(buf)
             pg == VfastPages(VfastSpotPages(a, n))
  <2>1. /\ a \in Addr /\ n \in 1..Space /\ DOMAIN buf = 1..n
        /\ SameBytes(pg) /\ SpotPages(a, n) \subseteq DOMAIN pg
    BY <1>1, <1>3, BoundsAssumption, BlockFacts, VfastNew DEF Moderate
  <2>2. pages' = Spread(pg, a, buf) /\ last' = Access("store", a, buf)
    BY <1>7 DEF VfastWriteBlock
  <2> HIDE DEF n, pg
  <2>3. Written(pages', pg, a, buf)
    BY <1>1, <2>1, <2>2, SpreadIs DEF SameBytes
  <2> QED BY <1>1, <2>1, <2>2, <2>3, StoreEffect
<1>8. CASE VfastCopy
  <2>1. pages' = [p \in DOMAIN pages |-> pages[p]] /\ last' = Idle
    BY <1>8 DEF VfastCopy
  <2>2. SameBytes(pages')
    BY <1>1, <2>1, NewPages DEF Stored
  <2> QED BY <1>1, <2>1, <2>2, OtherEffect
<1> QED BY <1>4, <1>5, <1>6, <1>7, <1>8 DEF Vfast

-----------------------------------------------------------------------------
LEMMA Mem16Flat ==
  ASSUME Moderate, FlatInv, broken = "no", Mem16, UNCHANGED <<kind, swap>>
  PROVE  FlatEffect
<1>1. /\ kind = "mem16" /\ Linked /\ Stored(pages) /\ Backwards = swap
      /\ 0 \in DOMAIN pages /\ PageLike(pages[0]) /\ DOMAIN Storage = Offset
  BY DEF Mem16, FlatInv, CallbackInv, StorageInv, Backwards, Rooted, Linked,
         Stored, Storage
<1>2. \A x : Turned(x) = Host(x)
  BY <1>1 DEF Turned, Host
<1>3. \A a \in Addr : PageOf(a) = 0 /\ InPage(a) = a /\ a \in Offset
  BY <1>1, AddrParts
<1>4. SameBytes(pages)
  BY <1>1 DEF SameBytes, ByteIn, ByteAt
<1>5. ASSUME NEW a \in Starts, NEW n \in Width, Mem16ReadInt(a, n)
      PROVE  FlatEffect
  <2>1. a \in Addr /\ n \in Nat \ {0}
    BY BoundsAssumption, WidthAssumption
  <2>2. PICK junk \in Byte :
          last' = Access("load", a, Host(Peek(Storage, Index(a, n), n, junk)))
    BY <1>5 DEF Mem16ReadInt
  <2>3. pages' = pages /\ broken' = IF Outside(Index(a, n), n) THEN "overflow" ELSE "no"
    BY <1>5 DEF Mem16ReadInt, Bound16
  <2>4. CASE broken' # "no"
    BY <2>4, BrokenEffect
  <2>5. CASE broken' = "no"
    <3>1. Within(a, n) /\ PageOf(a) = 0 /\ InPage(a) = a
      BY <1>1, <1>3, <2>1, <2>3, <2>5, InsideWithin
    <3>2. Turned(Peek(pages[PageOf(a)].storage, Index(InPage(a), n), n, junk))
          = [k \in 1..n |-> ByteAt(Plus(a, k - 1))]
      BY <1>1, <1>4, <2>1, <3>1, PeekIs
    <3>3. last' = Access("load", a, [k \in 1..n |-> ByteAt(Plus(a, k - 1))])
      BY <1>2, <2>2, <3>1, <3>2 DEF Storage
    <3> QED BY <1>1, <1>4, <2>1, <2>3, <3>3, LoadEffect DEF Rooted
  <2> QED BY <2>4, <2>5
<1>6. ASSUME NEW a \in Starts, NEW n \in Width, NEW bytes \in [1..n -> Byte],
             Mem16WriteInt(a, bytes)
      PROVE  FlatEffect
  <2>1. a \in Addr
    BY BoundsAssumption
  <2>2. n \in Nat \ {0} /\ Len(bytes) = n /\ DOMAIN bytes = 1..n
    BY IntFacts
  <2>3. /\ pages' = [pages EXCEPT ![0].storage = Poke(@, Index(a, n), Host(bytes))]
        /\ last' = Access("store", a, bytes)
        /\ broken' = IF Outside(Index(a, n), n) THEN "overflow" ELSE "no"
    BY <1>6, <2>2 DEF Mem16WriteInt, Bound16
  <2>4. CASE broken' # "no"
    BY <2>4, BrokenEffect
  <2>5. CASE broken' = "no"
    <3>1. Within(a, n) /\ PageOf(a) = 0 /\ InPage(a) = a
      BY <1>1, <1>3, <2>1, <2>2, <2>3, <2>5, InsideWithin
    <3>2. Written([pages EXCEPT ![PageOf(a)].storage =
                     Poke(@, Index(InPage(a), n), Turned(bytes))], pages, a, bytes)
      BY <1>1, <2>1, <2>2, <3>1, PokeIs
    <3>3. Written(pages', pages, a, bytes)
      BY <1>2, <2>3, <3>1, <3>2
    <3>4. Rooted(pages')
      BY <1>1, <2>3 DEF Rooted
    <3> QED BY <1>1, <1>4, <2>3, <3>3, <3>4, StoreEffect
  <2> QED BY <2>4, <2>5
<1>7. ASSUME NEW a \in Starts, NEW buf \in Blocks, Mem16ReadBlock(a, Len(buf))
      PROVE  FlatEffect
  <2> DEFINE n == Len(buf)
  <2>1. a \in Addr /\ n \in Nat \ {0}
    BY BoundsAssumption, BlockFacts
  <2>2. PICK junk \in Byte :
          last' = Access("load", a,
            [k \in 1..n |-> Peek(Storage, Index(a + k - 1, 1), 1, junk)[1]])
    BY <1>7 DEF Mem16ReadBlock
  <2>3. pages' = pages /\ broken' = IF Outside(Index(a, n), n) THEN "overflow" ELSE "no"
    BY <1>7 DEF Mem16ReadBlock, Bound16
  <2> HIDE DEF n
  <2>4. CASE broken' # "no"
    BY <2>4, BrokenEffect
  <2>5. CASE broken' = "no"
    <3>1. Within(a, n) /\ PageOf(a) = 0 /\ InPage(a) = a
      BY <1>1, <1>3, <2>1, <2>3, <2>5, InsideWithin
    <3>2. ASSUME NEW k \in 1..n
          PROVE  Peek(Storage, Index(a + k - 1, 1), 1, junk)[1] = ByteAt(Plus(a, k - 1))
      <4> DEFINE j == k - 1
                 i == Index(a + k - 1, 1)
      <4>1. j \in 0..n - 1 /\ a + j = a + k - 1 /\ a \in Nat
        BY <2>1, SizeFacts, <1>1
      <4> HIDE DEF j
      <4>2. /\ PageOf(Plus(a, j)) = 0 /\ InPage(Plus(a, j)) = a + j
            /\ Plus(a, j) \in Addr
        BY <1>1, <2>1, <3>1, <4>1, WithinPage DEF Within
      <4>3. a + j \in Offset
        BY <1>1, <4>2, AddrParts
      <4>4. i \in Offset /\ i = Index(a + j, 1)
        BY <1>1, <4>1, <4>3, IndexOne
      <4>5. ByteAt(Plus(a, j)) = Storage[i]
        BY <1>1, <4>2, <4>4 DEF ByteAt, Storage
      <4>6. i + 1 - 1 = i
        BY <1>1, <4>4, SizeFacts DEF Offset
      <4> HIDE DEF i
      <4>7. Peek(Storage, i, 1, junk)[1] = Storage[i]
        BY <1>1, <4>4, <4>6 DEF Peek
      <4> QED BY <4>5, <4>7 DEF i, j
    <3>3. last' = Access("load", a, [k \in 1..n |-> ByteAt(Plus(a, k - 1))])
      BY <2>2, <3>2
    <3> QED BY <1>1, <1>4, <2>1, <2>3, <3>3, LoadEffect DEF Rooted
  <2> QED BY <2>4, <2>5
<1>8. ASSUME NEW a \in Starts, NEW buf \in Blocks, Mem16WriteBlock(a, buf)
      PROVE  FlatEffect
  <2> DEFINE n == Len(buf)
             st == [i \in DOMAIN Storage |->
                      IF Index(i, 1) \in a..(a + n - 1)
                      THEN buf[Index(i, 1) - a + 1] ELSE Storage[i]]
             new == [pages EXCEPT ![0].storage = st]
  <2>1. a \in Addr /\ n \in Nat \ {0} /\ DOMAIN buf = 1..n /\ Len(buf) = n
    BY BoundsAssumption, BlockFacts
  <2>2. /\ pages' = new
        /\ last' = Access("store", a, buf)
        /\ broken' = IF Outside(Index(a, n), n) THEN "overflow" ELSE "no"
    BY <1>8 DEF Mem16WriteBlock, Bound16, Storage
  <2> HIDE DEF n
  <2>3. CASE broken' # "no"
    BY <2>3, BrokenEffect
  <2>4. CASE broken' = "no"
    <3>1. Within(a, n) /\ PageOf(a) = 0 /\ InPage(a) = a
      BY <1>1, <1>3, <2>1, <2>2, <2>4, InsideWithin
    <3>2. /\ DOMAIN new = DOMAIN pages
          /\ \A p \in DOMAIN pages : PageLike(new[p])
          /\ new[0].storage = st
          /\ \A p \in DOMAIN pages : p # 0 => new[p] = pages[p]
      <4> HIDE DEF st
      <4> QED BY <1>1 DEF Stored, PageLike
    <3> HIDE DEF new
    <3>3. Stored(new)
      BY <1>1, <3>2 DEF Stored
    <3>4. ASSUME NEW x \in Addr
          PROVE  ByteIn(new, x) = IF Flat!Place(x, a) < Len(buf)
                                  THEN buf[Flat!Place(x, a) + 1] ELSE ByteIn(pages, x)
      <4> DEFINE m == Flat!Place(x, a)
                 i == Index(x, 1)
      <4>1. /\ m \in Nat /\ x \in Int /\ a \in Int
            /\ m < n => x = a + m
            /\ x \in a..a + n - 1 => m = x - a
        <5>1. /\ m \in Nat /\ x \in Int /\ a \in Int /\ n \in Nat
              /\ PageOf(x) = PageOf(a) /\ InPage(x) = x /\ InPage(a) = a
          BY <1>1, <1>3, <2>1, <3>1, PlaceOf, SizeFacts
        <5>2. /\ m < n => InPage(x) = InPage(a) + m
              /\ InPage(x) \in InPage(a)..InPage(a) + n - 1 => m = InPage(x) - InPage(a)
          BY <1>1, <2>1, <3>1, <5>1, Inside
        <5> HIDE DEF m
        <5> QED BY <5>1, <5>2
      <4>2. x \in Offset /\ i \in Offset /\ Index(i, 1) = x
        BY <1>1, <1>3, IndexOne
      <4> HIDE DEF m, i
      <4>3. st[i] = IF x \in a..a + n - 1 THEN buf[x - a + 1] ELSE Storage[i]
        BY <1>1, <4>2
      <4>4. m < n <=> x \in a..a + n - 1
        BY <2>1, <4>1
      <4>5. st[i] = IF m < n THEN buf[m + 1] ELSE Storage[i]
        BY <4>1, <4>3, <4>4
      <4>6. ByteIn(new, x) = st[i] /\ ByteIn(pages, x) = Storage[i]
        <5> HIDE DEF st
        <5> QED BY <1>1, <1>3, <3>2 DEF ByteIn, Storage, i
      <4> QED BY <2>1, <4>5, <4>6 DEF m
    <3>5. Written(pages', pages, a, buf)
      BY <2>2, <3>3, <3>4 DEF Written
    <3>6. Rooted(pages')
      BY <1>1, <2>2, <3>2 DEF Rooted
    <3> QED BY <1>1, <1>4, <2>2, <3>5, <3>6, StoreEffect
  <2> QED BY <2>3, <2>4
<1>9. CASE Mem16Copy
  <2>1. [pages[0] EXCEPT !.storage = Storage] = pages[0]
    BY <1>1 DEF PageLike, Storage
  <2>2. pages' = [pages EXCEPT ![0] = [pages[0] EXCEPT !.storage = Storage]] /\ last' = Idle
    BY <1>9 DEF Mem16Copy
  <2>3. DOMAIN pages' = DOMAIN pages /\ \A p \in DOMAIN pages : pages'[p] = pages[p]
    BY <2>1, <2>2
  <2>4. SameBytes(pages') /\ Rooted(pages')
    BY <1>1, <2>3, NewPages DEF Stored, Rooted
  <2> QED BY <1>1, <2>2, <2>4, OtherEffect
<1> QED BY <1>5, <1>6, <1>7, <1>8, <1>9 DEF Mem16

LEMMA IoFlat ==
  ASSUME Moderate, FlatInv, broken = "no", Io, UNCHANGED <<kind, swap>>
  PROVE  FlatEffect
<1>1. /\ kind = "io" /\ CallbackInv /\ Linked /\ Stored(pages) /\ ~Backwards
      /\ Rooted(pages')
  BY DEF Io, FlatInv, CallbackInv, StorageInv, Backwards, Rooted
<1>2. \A x : Turned(x) = x
  BY <1>1 DEF Turned
<1>3. \A o, n : Index(o, n) = o
  BY <1>1 DEF Index
<1>4. ASSUME NEW a \in Starts, NEW n \in Width, IoReadInt(a, n)
      PROVE  FlatEffect
  <2> DEFINE p == PageOf(a)
             one == IoPages({p})
             all == IoPages(SpotPages(a, n))
  <2>1. a \in Addr /\ n \in Nat \ {0}
    BY BoundsAssumption, WidthAssumption
  <2>2. /\ SameBytes(one) /\ p \in DOMAIN one
        /\ SameBytes(all) /\ SpotPages(a, n) \subseteq DOMAIN all
    BY <1>1, IoNew
  <2>3. \/ /\ pages' = one
           /\ \E bytes \in [1..n -> Byte] : last' = Access("device", a, bytes)
        \/ /\ Direct(a, n) /\ pages' = one
           /\ last' = Access("load", a, Peek(one[p].storage, InPage(a), n, 0))
        \/ pages' = all /\ last' = Access("load", a, Collect(all, a, n))
    BY <1>4 DEF IoReadInt
  <2> HIDE DEF one, all
  <2>4. CASE /\ pages' = one
             /\ \E bytes \in [1..n -> Byte] : last' = Access("device", a, bytes)
    BY <1>1, <2>2, <2>4, DeviceEffect
  <2>5. CASE /\ Direct(a, n) /\ pages' = one
             /\ last' = Access("load", a, Peek(one[p].storage, InPage(a), n, 0))
    <3>1. Within(a, n)
      BY <1>1, <2>1, <2>5, InsideWithin
    <3>2. Turned(Peek(one[p].storage, Index(InPage(a), n), n, 0))
          = [k \in 1..n |-> ByteAt(Plus(a, k - 1))]
      BY <1>1, <2>1, <2>2, <3>1, PeekIs
    <3>3. last' = Access("load", a, [k \in 1..n |-> ByteAt(Plus(a, k - 1))])
      BY <1>2, <1>3, <2>5, <3>2
    <3> QED BY <1>1, <2>1, <2>2, <2>5, <3>3, LoadEffect
  <2>6. CASE pages' = all /\ last' = Access("load", a, Collect(all, a, n))
    <3>1. Collect(all, a, n) = [k \in 1..n |-> ByteAt(Plus(a, k - 1))]
      BY <1>1, <2>1, <2>2, CollectIs
    <3> QED BY <1>1, <2>1, <2>2, <2>6, <3>1, LoadEffect
  <2> QED BY <2>3, <2>4, <2>5, <2>6
<1>5. ASSUME NEW a \in Starts, NEW n \in Width, NEW bytes \in [1..n -> Byte],
             IoWriteInt(a, bytes)
      PROVE  FlatEffect
  <2> DEFINE p == PageOf(a)
             pg == IoPages({p})
  <2>1. a \in Addr
    BY BoundsAssumption
  <2>2. n \in Nat \ {0} /\ Len(bytes) = n /\ DOMAIN bytes = 1..n /\ Invert(bytes) = bytes
    BY IntFacts, HostTwice
  <2>3. /\ pages' = [pg EXCEPT ![p].storage = Poke(@, InPage(a), Invert(bytes))]
        /\ last' = Access("store", a, bytes)
        /\ broken' = IF Outside(InPage(a), Len(bytes)) THEN "overflow" ELSE "no"
    BY <1>5 DEF IoWriteInt
  <2>4. SameBytes(pg) /\ p \in DOMAIN pg
    BY <1>1, IoNew
  <2> HIDE DEF pg
  <2>5. CASE broken' # "no"
    BY <2>5, BrokenEffect
  <2>6. CASE broken' = "no"
    <3>1. Within(a, n)
      BY <1>1, <2>1, <2>2, <2>3, <2>6, InsideWithin
    <3>2. Written([pg EXCEPT ![p].storage = Poke(@, Index(InPage(a), n), Turned(bytes))],
                  pg, a, bytes)
      BY <1>1, <2>1, <2>2, <2>4, <3>1, PokeIs DEF SameBytes
    <3>3. Written(pages', pg, a, bytes)
      BY <1>2, <1>3, <2>2, <2>3, <3>2
    <3> QED BY <1>1, <2>3, <2>4, <3>3, StoreEffect
  <2> QED BY <2>5, <2>6
<1>6. ASSUME NEW a \in Starts, NEW buf \in Blocks, IoReadBlock(a, Len(buf))
      PROVE  FlatEffect
  <2> DEFINE n == Len(buf)
             pg == IoPages(SpotPages(a, n))
  <2>1. a \in Addr /\ n \in Nat /\ SameBytes(pg) /\ SpotPages(a, n) \subseteq DOMAIN pg
    BY <1>1, BoundsAssumption, BlockFacts, IoNew
  <2>2. pages' = pg /\ last' = Access("load", a, Collect(pg, a, n))
    BY <1>6 DEF IoReadBlock
  <2> HIDE DEF n, pg
  <2>3. Collect(pg, a, n) = [k \in 1..n |-> ByteAt(Plus(a, k - 1))]
    BY <1>1, <2>1, CollectIs
  <2> QED BY <1>1, <2>1, <2>2, <2>3, LoadEffect
<1>7. ASSUME NEW a \in Starts, NEW buf \in Blocks, IoWriteBlock(a, buf)
      PROVE  FlatEffect
  <2> DEFINE n == Len(buf)
             pg == IoPages(SpotPages(a, n))
  <2>1. /\ a \in Addr /\ n \in 1..Space /\ DOMAIN buf = 1..n
        /\ SameBytes(pg) /\ SpotPages(a, n) \subseteq DOMAIN pg
    BY <1>1, BoundsAssumption, BlockFacts, IoNew DEF Moderate
  <2>2. pages' = Spread(pg, a, buf) /\ last' = Access("store", a, buf)
    BY <1>7 DEF IoWriteBlock
  <2> HIDE DEF n, pg
  <2>3. Written(pages', pg, a, buf)
    BY <1>1, <2>1, <2>2, SpreadIs DEF SameBytes
  <2> QED BY <1>1, <2>1, <2>2, <2>3, StoreEffect
<1>8. CASE IoCopy
  <2>1. CASE broken' # "no"
    BY <2>1, BrokenEffect
  <2>2. CASE broken' = "no"
    <3>1. \A p \in DOMAIN pages : FastCopied(p)
      BY <1>8, <2>2 DEF IoCopy
    <3>2. {q \in DOMAIN pages : FastCopied(q)} = DOMAIN pages
      BY <3>1
    <3>3. pages' = [p \in DOMAIN pages |-> [pages[p] EXCEPT !.info = NULL]] /\ last' = Idle
      BY <1>8, <3>2 DEF IoCopy
    <3>4. \A p \in DOMAIN pages : PageLike(pages'[p]) /\ pages'[p].storage = pages[p].storage
      BY <1>1, <3>3, ExceptInfo DEF Stored
    <3>5. SameBytes(pages')
      BY <1>1, <3>3, <3>4, NewPages
    <3> QED BY <1>1, <3>3, <3>5, OtherEffect
  <2> QED BY <2>1, <2>2
<1>9. ASSUME NEW s, NEW e, IoSetRange(s, e)
      PROVE  FlatEffect
  <2>1. pages' = pages /\ last' = Idle
    BY <1>9 DEF IoSetRange
  <2>2. SameBytes(pages')
    BY <1>1, <2>1 DEF SameBytes, ByteIn, ByteAt
  <2> QED BY <1>1, <2>1, <2>2, OtherEffect
<1>10. ASSUME NEW s, NEW e, IoUnsetRange(s, e)
       PROVE  FlatEffect
  <2> DEFINE cleared == Walk(RoundUp(s), RoundUp(e))
             info(p) == IF p \in cleared THEN NULL ELSE Updated[p].info
  <2>1. /\ pages' = [p \in DOMAIN pages |-> [Updated[p] EXCEPT !.info = info(p)]]
        /\ last' = Idle
    BY <1>10 DEF IoUnsetRange
  <2> HIDE DEF info
  <2>2. \A p \in DOMAIN pages : PageLike(pages'[p]) /\ pages'[p].storage = pages[p].storage
    <3>1. SUFFICES ASSUME NEW p \in DOMAIN pages
                   PROVE  PageLike(pages'[p]) /\ pages'[p].storage = pages[p].storage
      OBVIOUS
    <3>2. pages'[p] = [Updated[p] EXCEPT !.info = info(p)]
      BY <2>1
    <3>3. PageLike(Updated[p]) /\ Updated[p].storage = pages[p].storage
      BY <1>1, UpdatedCurrent DEF Current
    <3> QED BY <3>2, <3>3, ExceptInfo
  <2>3. DOMAIN pages' = DOMAIN pages
    BY <2>1
  <2>4. SameBytes(pages')
    BY <1>1, <2>2, <2>3, NewPages
  <2> QED BY <1>1, <2>1, <2>4, OtherEffect
<1>11. ASSUME NEW a, IoGetCallbackData(a)
       PROVE  FlatEffect
  <2>1. pages' = IoPages({PageOf(a)}) /\ last' = Idle
    BY <1>11 DEF IoGetCallbackData
  <2>2. SameBytes(pages')
    BY <1>1, <2>1, IoNew
  <2> QED BY <1>1, <2>1, <2>2, OtherEffect
<1> QED BY <1>4, <1>5, <1>6, <1>7, <1>8, <1>9, <1>10, <1>11 DEF Io

(* Whichever of the four memories is linked and whatever the byte orders,  *)
(* sizes and blocks, a load gives what the last stores wrote, until an     *)
(* access leaves a storage, a copy loses pages or an integer is reversed.  *)
THEOREM LinkedMemoryIsFlat ==
  ASSUME Moderate
  PROVE  Spec => ImplementsFlat
<1>1. Init => FlatInv /\ (kind # "mem16" => Flat!Init)
  <2> SUFFICES ASSUME Init PROVE FlatInv /\ (kind # "mem16" => Flat!Init)
    OBVIOUS
  <2>1. CallbackInv
    <3>1. Linked
      BY BuildAssumption DEF Init, Linked
    <3>2. \A p \in DOMAIN pages : PageLike(pages[p]) /\ pages[p].info = NULL
      BY DEF Init, PageLike
    <3> QED BY <3>1, <3>2, NoCallback DEF Init, CallbackInv, PagesLike, Silent, Given
  <2>2. StorageInv
    BY DEF Init, StorageInv, Stored, PageLike, Rooted
  <2>3. kind # "mem16" => Flat!Init
    <3> SUFFICES ASSUME kind # "mem16" PROVE Flat!Init
      OBVIOUS
    <3>1. \A x \in Addr : ByteAt(x) = 0
      BY DEF Init, ByteAt
    <3>2. Flat!Addr = Addr
      BY DEF Flat!Addr, Addr
    <3> QED BY <3>1, <3>2 DEF Init, Flat!Init, Flat!Idle, Flat!Access, Idle, Access
  <2> QED BY <2>1, <2>2, <2>3 DEF FlatInv
<1>2. FlatInv /\ [Next]_vars => FlatInv' /\ [FlatStep \/ broken' # "no"]_vars
  <2> SUFFICES ASSUME FlatInv, [Next]_vars
               PROVE  FlatInv' /\ [FlatStep \/ broken' # "no"]_vars
    OBVIOUS
  <2>1. CallbackInv'
    <3>1. CASE Next
      BY <3>1, FastCurrent, VfastCurrent, Mem16Current, IoCurrent DEF Next, FlatInv
    <3>2. CASE UNCHANGED vars
      <4>1. \A p : CallbackInfo(p)' = CallbackInfo(p)
        BY <3>2 DEF vars, CallbackInfo, FirstMatch, Matches, First, Size
      <4> QED BY <3>2, <4>1 DEF vars, FlatInv, CallbackInv, Linked, PagesLike, Silent,
                   Given, PageLike
    <3> QED BY <3>1, <3>2
  <2>2. CASE Next
    <3>1. FlatEffect
      BY <2>2, FastFlat, VfastFlat, Mem16Flat, IoFlat DEF Next
    <3> QED BY <2>1, <3>1 DEF FlatEffect, FlatInv
  <2>3. CASE UNCHANGED vars
    BY <2>1, <2>3, After DEF vars, FlatInv, StorageInv, Stored, Rooted, Offset, Size, PageLike
  <2> QED BY <2>2, <2>3
<1> QED BY <1>1, <1>2, PTL DEF Spec, ImplementsFlat

=============================================================================
