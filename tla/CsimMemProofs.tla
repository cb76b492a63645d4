---------------------------- MODULE CsimMemProofs ----------------------------
(***************************************************************************)
(* Proofs about CsimMem, for every size of page, of address space, of      *)
(* access and of range: the pages keep their types, no page is given to a  *)
(* device that did not ask for bytes of it, and the pages implement        *)
(* FlatMemory.                                                             *)
(***************************************************************************)
EXTENDS CsimMem, TLAPS

-----------------------------------------------------------------------------
(* Division and remainder: bounds of a quotient. *)
LEMMA DivBelow ==
  ASSUME NEW a \in Nat, NEW p \in Nat, NEW b \in Nat \ {0}, a <= p * b + b - 1
  PROVE  a \div b <= p
  BY SMTT(30)

LEMMA DivAbove ==
  ASSUME NEW a \in Nat, NEW p \in Nat, NEW b \in Nat \ {0}, p * b <= a
  PROVE  p <= a \div b
  BY SMTT(30)

(* The quotient and the remainder are the only ones.                       *)
LEMMA Division ==
  ASSUME NEW x \in Nat, NEW b \in Nat \ {0}, NEW q \in Nat, NEW r \in 0..b - 1,
         x = q * b + r
  PROVE  x \div b = q /\ x % b = r
<1>1. x \div b = q
  BY DivBelow, DivAbove
<1>2. x = b * (x \div b) + (x % b)
  BY SMTT(30)
<1>3. b * q = q * b /\ q * b \in Nat /\ x % b \in Nat
  BY SMTT(30)
<1>4. x = q * b + (x % b)
  BY <1>1, <1>2, <1>3
<1> QED BY <1>1, <1>3, <1>4

(* Both are numbers, and give the number divided back. *)
LEMMA Euclid ==
  ASSUME NEW x \in Nat, NEW b \in Nat \ {0}
  PROVE  x \div b \in Nat /\ x % b \in 0..b - 1 /\ x = (x \div b) * b + (x % b)
BY SMTT(30)

(* Offset o of page m, the pages being counted around the address space.   *)
LEMMA Around ==
  ASSUME NEW b \in Nat \ {0}, NEW n \in Nat \ {0}, NEW m \in Nat, NEW o \in 0..b - 1
  PROVE  (m * b + o) % (b * n) = (m % n) * b + o
<1> DEFINE d == m \div n
           e == m % n
<1>1. d \in Nat /\ e \in 0..n - 1 /\ m = d * n + e
  BY Euclid
<1> HIDE DEF d, e
<1>2. m * b = d * (b * n) + e * b
  <2>1. m * b = (d * n + e) * b
    BY <1>1
  <2>2. (d * n + e) * b = d * (b * n) + e * b
    BY <1>1, SMTT(30)
  <2> QED BY <2>1, <2>2
<1>3. e * b + o \in 0..(b * n) - 1
  <2>1. e * b \in Nat /\ b * n \in Nat /\ e * b <= b * n - b
    BY <1>1, SMTT(30)
  <2> DEFINE u == e * b
             v == b * n
  <2> HIDE DEF u, v
  <2>2. u \in Nat /\ v \in Nat /\ u <= v - b
    BY <2>1 DEF u, v
  <2>3. u + o \in 0..v - 1
    BY <2>2
  <2> QED BY <2>3 DEF u, v
<1>4. b * n \in Nat \ {0} /\ d * (b * n) \in Nat /\ m * b + o \in Nat /\ e * b \in Nat
  BY <1>1, SMTT(30)
<1>5. m * b + o = d * (b * n) + (e * b + o)
  BY <1>2, <1>4
<1> DEFINE x == m * b + o
           y == b * n
           r == e * b + o
<1>6. x \in Nat /\ y \in Nat \ {0} /\ r \in 0..y - 1 /\ x = d * y + r
  BY <1>3, <1>4, <1>5
<1> HIDE DEF x, y, r
<1>7. x % y = r
  BY <1>1, <1>6, Division
<1> QED BY <1>7 DEF x, y, r, e

(* Address a of a space of n pages: its page and its offset.               *)
LEMMA Split ==
  ASSUME NEW b \in Nat \ {0}, NEW n \in Nat \ {0}, NEW a \in Nat, a < b * n
  PROVE  a \div b \in 0..n - 1 /\ a % b \in 0..b - 1 /\ a = (a \div b) * b + (a % b)
<1>1. a \div b \in Nat /\ a % b \in 0..b - 1 /\ a = (a \div b) * b + (a % b)
  BY Euclid
<1>2. a <= (n - 1) * b + b - 1
  BY SMTT(30)
<1>3. n - 1 \in Nat
  OBVIOUS
<1>4. a \div b <= n - 1
  BY <1>2, <1>3, DivBelow
<1> QED BY <1>1, <1>4

(* Around s addresses, x is one number of places after a. *)
LEMMA Circle ==
  ASSUME NEW s \in Nat \ {0}, NEW a \in Nat, a < s, NEW x \in Nat, x < s
  PROVE  /\ (x - a + s) % s \in 0..s - 1
         /\ (a + ((x - a + s) % s)) % s = x
         /\ \A k \in 0..s - 1 : (a + k) % s = x => k = (x - a + s) % s
<1>1. \A y \in Nat : y < s => y % s = y
  BY SMTT(30)
<1>2. \A y \in Nat : s <= y /\ y < 2 * s => y % s = y - s
  <2> SUFFICES ASSUME NEW y \in Nat, s <= y, y < 2 * s PROVE y % s = y - s
    OBVIOUS
  <2>1. y = 1 * s + (y - s) /\ y - s \in 0..s - 1
    OBVIOUS
  <2> QED BY <2>1, Division
<1> DEFINE d == (x - a + s) % s
<1>3. d = IF x >= a THEN x - a ELSE x - a + s
  BY <1>1, <1>2
<1>4. \A k \in 0..s - 1 : (a + k) % s = IF a + k < s THEN a + k ELSE a + k - s
  BY <1>1, <1>2
<1> HIDE DEF d
<1>5. d \in 0..s - 1
  BY <1>3
<1>6. (a + d) % s = x
  BY <1>3, <1>4, <1>5
<1>7. \A k \in 0..s - 1 : (a + k) % s = x => k = d
  BY <1>3, <1>4
<1> QED BY <1>5, <1>6, <1>7 DEF d

-----------------------------------------------------------------------------
PageRecord == [bytes : [Offset -> Byte], info : Info \cup {NULL}]

(* What the two invariants say of page number p with contents x when the   *)
(* list of ranges is l.                                                    *)
PageOK(x, p, l) ==
  /\ x \in PageRecord
  /\ x.info # NULL => /\ x.info \in {l[i] : i \in DOMAIN l}
                      /\ p \in PagesOf(x.info.start, x.info.end)

PagesOK(pg, l) ==
  /\ DOMAIN pg \subseteq Page
  /\ \A p \in DOMAIN pg : PageOK(pg[p], p, l)

MemInv ==
  /\ PagesOK(pages, infos)
  /\ infos \in Seq(Info)
  /\ fault \in BOOLEAN

-----------------------------------------------------------------------------
(* An address has a page and an offset. *)
LEMMA PageOfAddr ==
  ASSUME NEW a \in Addr
  PROVE  PageOf(a) \in Page /\ InPage(a) \in Offset
<1> DEFINE b == PageSize
           n == NbPages
<1>1. b \in Nat \ {0} /\ n \in Nat \ {0} /\ a \in Nat /\ a <= b * n - 1
  BY SizeAssumption DEF Addr, Space
<1> HIDE DEF b, n
<1>2. a <= (n - 1) * b + b - 1
  BY <1>1
<1>3. a \div b <= n - 1
  BY <1>1, <1>2, DivBelow
<1>4. a \div b \in Nat /\ a % b \in 0..b - 1
  BY <1>1
<1> QED BY <1>1, <1>3, <1>4 DEF PageOf, InPage, Page, Offset, b, n

LEMMA PlusAddr ==
  ASSUME NEW a \in Addr, NEW n \in Int
  PROVE  Plus(a, n) \in Addr
<1> DEFINE s == PageSize * NbPages
<1>1. s \in Nat \ {0}
  BY SizeAssumption
<1>2. a \in Int
  BY <1>1 DEF Addr, Space
<1> HIDE DEF s
<1>3. (a + n) % s \in 0..s - 1
  BY <1>1, <1>2
<1> QED BY <1>3 DEF Plus, Addr, Space, s

(* A range that get_callback_info finds for a page has bytes of the page.  *)
LEMMA MatchesMeets ==
  ASSUME NEW r \in Info, NEW p \in Page, Matches(r, p)
  PROVE  p \in PagesOf(r.start, r.end)
<1> DEFINE b == PageSize
<1>1. b \in Nat \ {0} /\ p \in Nat /\ r.start \in Nat /\ r.end \in Nat
  BY SizeAssumption DEF Page, Info, Addr, Space
<1>2. /\ r.start <= p * b + b - 1
      /\ p * b <= r.end
  BY <1>1 DEF Matches, First
<1> HIDE DEF b
<1>3. r.start \div b <= p /\ p <= r.end \div b
  BY <1>1, <1>2, DivBelow, DivAbove
<1> QED BY <1>3 DEF PagesOf, PageOf, b

LEMMA CallbackInfoOK ==
  ASSUME infos \in Seq(Info), NEW p \in Page, CallbackInfo(p) # NULL
  PROVE  /\ CallbackInfo(p) \in Info
         /\ CallbackInfo(p) \in {infos[i] : i \in DOMAIN infos}
         /\ p \in PagesOf(CallbackInfo(p).start, CallbackInfo(p).end)
<1> DEFINE k == CHOOSE i \in DOMAIN infos : FirstMatch(i, p)
<1>1. CallbackInfo(p) = infos[k] /\ k \in DOMAIN infos /\ FirstMatch(k, p)
  BY DEF CallbackInfo
<1>2. infos[k] \in Info
  BY <1>1
<1> QED BY <1>1, <1>2, MatchesMeets DEF FirstMatch

-----------------------------------------------------------------------------
(* Pages created on the way are as the invariant wants them. *)
LEMMA WithPagesOK ==
  ASSUME MemInv, NEW s, s \subseteq Page
  PROVE  PagesOK(WithPages(s), infos) /\ DOMAIN WithPages(s) = DOMAIN pages \cup s
<1>1. DOMAIN WithPages(s) = DOMAIN pages \cup s
  BY DEF WithPages
<1>2. ASSUME NEW p \in DOMAIN pages \cup s
      PROVE  p \in Page /\ PageOK(WithPages(s)[p], p, infos)
  <2>1. CASE p \in DOMAIN pages
    BY <2>1 DEF MemInv, PagesOK, WithPages
  <2>2. CASE p \notin DOMAIN pages
    <3>1. p \in Page /\ WithPages(s)[p] = Fresh(p)
      BY <1>2, <2>2 DEF WithPages
    <3>2. CallbackInfo(p) \in Info \cup {NULL}
      BY <3>1, CallbackInfoOK DEF MemInv, CallbackInfo
    <3>3. Fresh(p) \in PageRecord
      BY <3>2, ByteAssumption DEF Fresh, PageRecord
    <3> QED BY <3>1, <3>3, CallbackInfoOK DEF PageOK, Fresh, MemInv
  <2> QED BY <2>1, <2>2
<1> QED BY <1>1, <1>2 DEF PagesOK

(* Changing bytes does not matter to the callbacks. *)
LEMMA BytesKeepPage ==
  ASSUME NEW x, NEW p, NEW l, PageOK(x, p, l), NEW bytes \in [Offset -> Byte]
  PROVE  PageOK([x EXCEPT !.bytes = bytes], p, l)
BY DEF PageOK, PageRecord

LEMMA PutOK ==
  ASSUME NEW old \in [Offset -> Byte], NEW o \in Int, NEW n \in Nat, NEW buf \in [1..n -> Byte]
  PROVE  Put(old, o, buf) \in [Offset -> Byte]
<1>1. Len(buf) = n
  OBVIOUS
<1>2. ASSUME NEW x \in Offset, x \in o..(o + n - 1)
      PROVE  x - o + 1 \in 1..n
  BY <1>2 DEF Offset
<1> QED BY <1>1, <1>2 DEF Put

LEMMA CrossesBoolean == \A a, n : Crosses(a, n) \in BOOLEAN
BY DEF Crosses

(* Accesses. *)
LEMMA ReadIntInv ==
  ASSUME MemInv, NEW a \in Addr, NEW n \in Nat \ {0}, ReadInt(a, n)
  PROVE  MemInv'
<1>1. pages' = WithPages({PageOf(a)}) /\ infos' = infos
  BY DEF ReadInt
<1>2. PagesOK(pages', infos')
  BY <1>1, WithPagesOK, PageOfAddr
<1>3. fault' \in BOOLEAN
  <2>1. fault' = FALSE \/ fault' = Crosses(a, n)
    BY DEF ReadInt
  <2> QED BY <2>1, CrossesBoolean
<1> QED BY <1>1, <1>2, <1>3 DEF MemInv

LEMMA WriteIntInv ==
  ASSUME MemInv, NEW a \in Addr, NEW n \in Nat \ {0}, NEW buf \in [1..n -> Byte],
         WriteInt(a, buf)
  PROVE  MemInv'
<1> DEFINE p == PageOf(a)
           pg == WithPages({p})
<1>1. PagesOK(pg, infos) /\ p \in DOMAIN pg
  BY WithPagesOK, PageOfAddr
<1>2. infos' = infos /\ fault' \in BOOLEAN
  <2>1. fault' = FALSE \/ fault' = Crosses(a, Len(buf))
    BY DEF WriteInt
  <2>2. infos' = infos
    BY DEF WriteInt
  <2> QED BY <2>1, <2>2, CrossesBoolean
<1>3. PagesOK(pages', infos)
  <2>1. CASE pages' = pg
    BY <1>1, <2>1
  <2>2. CASE pages' = [pg EXCEPT ![p].bytes = Put(@, InPage(a), buf)]
    <3>1. PageOK(pg[p], p, infos) /\ pg[p].bytes \in [Offset -> Byte]
      BY <1>1 DEF PagesOK, PageOK, PageRecord
    <3>2. InPage(a) \in Int
      BY PageOfAddr DEF Offset
    <3>3. PageOK([pg[p] EXCEPT !.bytes = Put(pg[p].bytes, InPage(a), buf)], p, infos)
      BY <3>1, <3>2, PutOK, BytesKeepPage
    <3>4. /\ DOMAIN pages' = DOMAIN pg
          /\ \A q \in DOMAIN pg :
               pages'[q] = IF q = p
                           THEN [pg[p] EXCEPT !.bytes = Put(pg[p].bytes, InPage(a), buf)]
                           ELSE pg[q]
      BY <1>1, <2>2
    <3> QED BY <1>1, <3>3, <3>4 DEF PagesOK
  <2> QED BY <2>1, <2>2 DEF WriteInt
<1> QED BY <1>2, <1>3 DEF MemInv

LEMMA PiecePagesOK ==
  ASSUME NEW a \in Addr, NEW n \in Nat \ {0}
  PROVE  PiecePages(a, n) \subseteq Page
<1>1. ASSUME NEW i \in Pieces(a, n)
      PROVE  PageOf(PieceStart(a, n, i)) \in Page
  <2>1. Cut(a, n, i) \in Int
    BY <1>1, SizeAssumption, PageOfAddr DEF Pieces, Cut, Least, Offset
  <2> QED BY <2>1, PlusAddr, PageOfAddr DEF PieceStart
<1> QED BY <1>1 DEF PiecePages

LEMMA ReadBlockInv ==
  ASSUME MemInv, NEW a \in Addr, NEW n \in Nat \ {0}, ReadBlock(a, n)
  PROVE  MemInv'
BY PiecePagesOK, WithPagesOK DEF MemInv, ReadBlock

LEMMA WriteBlockInv ==
  ASSUME MemInv, NEW a \in Addr, NEW n \in Nat \ {0}, NEW buf \in [1..n -> Byte],
         WriteBlock(a, buf)
  PROVE  MemInv'
<1> DEFINE pg == WithPages(PiecePages(a, n))
           place == [k \in 0..n - 1 |-> <<BlockPage(a, n, k), BlockOffset(a, n, k)>>]
           byte(p, o) == IF \E k \in DOMAIN place : place[k] = <<p, o>>
                         THEN buf[1 + CHOOSE k \in DOMAIN place : place[k] = <<p, o>>]
                         ELSE pg[p].bytes[o]
           new(p) == [o \in Offset |-> byte(p, o)]
<1>1. Len(buf) = n
  OBVIOUS
<1>2. PagesOK(pg, infos)
  BY PiecePagesOK, WithPagesOK
<1>3. pages' = [p \in DOMAIN pg |-> [pg[p] EXCEPT !.bytes = new(p)]]
  BY <1>1 DEF WriteBlock
<1>4. ASSUME NEW p \in DOMAIN pg
      PROVE  new(p) \in [Offset -> Byte]
  <2>1. pg[p].bytes \in [Offset -> Byte]
    BY <1>2 DEF PagesOK, PageOK, PageRecord
  <2> HIDE DEF pg
  <2>2. ASSUME NEW o \in Offset, \E k \in DOMAIN place : place[k] = <<p, o>>
        PROVE  byte(p, o) \in Byte
    <3> DEFINE k == CHOOSE j \in DOMAIN place : place[j] = <<p, o>>
    <3>1. k \in DOMAIN place
      BY <2>2
    <3>2. k \in 0..n - 1
      BY <3>1
    <3> HIDE DEF k
    <3>3. buf[1 + k] \in Byte
      BY <3>2
    <3> QED BY <2>2, <3>3 DEF k
  <2>3. ASSUME NEW o \in Offset, ~ \E k \in DOMAIN place : place[k] = <<p, o>>
        PROVE  byte(p, o) \in Byte
    BY <2>1, <2>3
  <2> QED BY <2>2, <2>3
<1> HIDE DEF new, pg
<1>5. ASSUME NEW p \in DOMAIN pg
      PROVE  PageOK(pages'[p], p, infos)
  BY <1>2, <1>3, <1>4, BytesKeepPage DEF PagesOK
<1>6. PagesOK(pages', infos)
  BY <1>2, <1>3, <1>5 DEF PagesOK
<1>7. infos' = infos /\ fault' = fault
  BY DEF WriteBlock
<1> QED BY <1>6, <1>7 DEF MemInv

(* Callbacks. *)
LEMMA SetRangeInv ==
  ASSUME MemInv, NEW s \in Addr, NEW e \in Addr, s <= e, SetRange(s, e)
  PROVE  MemInv'
<1> DEFINE r == [start |-> s, end |-> e]
           p == PageOf(s)
           pg == WithPages({p})
<1>1. PagesOK(pg, infos) /\ p \in DOMAIN pg /\ p \in Page
  BY WithPagesOK, PageOfAddr
<1>2. r \in Info /\ p \in PagesOf(s, e)
  <2>1. s \div PageSize <= e \div PageSize
    <3>1. /\ PageSize \in Nat \ {0} /\ s \in Nat /\ e \in Nat
          /\ s \div PageSize \in Nat /\ (s \div PageSize) * PageSize <= s
      BY SizeAssumption, SMTT(30) DEF Addr, Space
    <3>2. (s \div PageSize) * PageSize <= e
      BY <3>1
    <3> QED BY <3>1, <3>2, DivAbove
  <2> QED BY <1>1, <2>1 DEF Info, PagesOf, PageOf, Page
<1>3. /\ pages' = [pg EXCEPT ![p].info = r]
      /\ infos' = <<r>> \o infos
      /\ fault' = fault
  BY DEF SetRange
<1>4. /\ infos' \in Seq(Info)
      /\ {infos[i] : i \in DOMAIN infos} \subseteq {infos'[i] : i \in DOMAIN infos'}
      /\ r \in {infos'[i] : i \in DOMAIN infos'}
  <2>1. infos \in Seq(Info) /\ Len(infos) \in Nat /\ DOMAIN infos = 1..Len(infos)
    BY DEF MemInv
  <2>2. infos' \in Seq(Info) /\ Len(infos') = Len(infos) + 1
    BY <1>2, <1>3, <2>1
  <2>3. infos'[1] = r /\ \A i \in 1..Len(infos) : infos'[i + 1] = infos[i]
    BY <1>3, <2>1
  <2> QED BY <2>1, <2>2, <2>3
<1>5. ASSUME NEW q \in DOMAIN pg
      PROVE  PageOK(pages'[q], q, infos')
  <2>1. PageOK(pg[q], q, infos)
    BY <1>1 DEF PagesOK
  <2>2. CASE q = p
    <3>1. pages'[p] = [pg[p] EXCEPT !.info = r]
      BY <1>1, <1>3
    <3>2. pages'[p] \in PageRecord /\ pages'[p].info = r
      BY <1>2, <2>1, <2>2, <3>1 DEF PageOK, PageRecord
    <3> QED BY <1>2, <1>4, <2>2, <3>2 DEF PageOK
  <2>3. CASE q # p
    <3>1. pages'[q] = pg[q]
      BY <1>1, <1>3, <2>3
    <3> QED BY <1>4, <2>1, <3>1 DEF PageOK
  <2> QED BY <2>2, <2>3
<1>6. DOMAIN pages' = DOMAIN pg
  BY <1>3
<1>7. PagesOK(pages', infos')
  BY <1>1, <1>5, <1>6 DEF PagesOK
<1> QED BY <1>3, <1>4, <1>7 DEF MemInv

LEMMA UnsetRangeInv ==
  ASSUME MemInv, NEW s \in Addr, NEW e \in Addr, UnsetRange(s, e)
  PROVE  MemInv'
<1>1. ASSUME NEW x, NEW p, PageOK(x, p, infos)
      PROVE  PageOK([x EXCEPT !.info = NULL], p, infos)
  BY <1>1 DEF PageOK, PageRecord
<1>2. /\ DOMAIN pages' = DOMAIN pages
      /\ \A p \in DOMAIN pages :
           pages'[p] = pages[p] \/ pages'[p] = [pages[p] EXCEPT !.info = NULL]
      /\ infos' = infos /\ fault' = fault
  BY DEF UnsetRange
<1>3. PagesOK(pages', infos')
  BY <1>1, <1>2 DEF PagesOK, MemInv
<1> QED BY <1>2, <1>3 DEF MemInv

LEMMA GetCallbackDataInv ==
  ASSUME MemInv, NEW a \in Addr, GetCallbackData(a)
  PROVE  MemInv'
BY WithPagesOK, PageOfAddr DEF MemInv, GetCallbackData

LEMMA CopyInv ==
  ASSUME MemInv, Copy
  PROVE  MemInv'
BY DEF MemInv, Copy

-----------------------------------------------------------------------------
LEMMA InitInv == Init => MemInv
<1> SUFFICES ASSUME Init PROVE MemInv
  OBVIOUS
<1>1. DOMAIN pages = {}
  BY DEF Init
<1>2. PagesOK(pages, infos)
  BY <1>1 DEF PagesOK
<1>3. infos \in Seq(Info)
  BY DEF Init
<1>4. fault \in BOOLEAN
  BY DEF Init
<1> QED BY <1>2, <1>3, <1>4 DEF MemInv

LEMMA NextInv == MemInv /\ [Next]_vars => MemInv'
<1> SUFFICES ASSUME MemInv, [Next]_vars PROVE MemInv'
  OBVIOUS
<1>1. ASSUME NEW a \in Starts, NEW n \in Width,
             ReadInt(a, n) \/ \E buf \in [1..n -> Byte] : WriteInt(a, buf)
      PROVE  MemInv'
  BY <1>1, BoundsAssumption, ReadIntInv, WriteIntInv
<1>2. ASSUME NEW a \in Starts, NEW n \in Sizes,
             ReadBlock(a, n) \/ \E buf \in [1..n -> Byte] : WriteBlock(a, buf)
      PROVE  MemInv'
  BY <1>2, BoundsAssumption, ReadBlockInv, WriteBlockInv
<1>3. ASSUME NEW b \in Bounds, SetRange(b[1], b[2]) \/ UnsetRange(b[1], b[2])
      PROVE  MemInv'
  BY <1>3, BoundsAssumption, SetRangeInv, UnsetRangeInv
<1>4. ASSUME NEW a \in Starts, GetCallbackData(a)
      PROVE  MemInv'
  BY <1>4, BoundsAssumption, GetCallbackDataInv
<1>5. CASE Copy
  BY <1>5, CopyInv
<1>6. CASE UNCHANGED vars
  BY <1>6 DEF vars, MemInv
<1> QED BY <1>1, <1>2, <1>3, <1>4, <1>5, <1>6 DEF Next

LEMMA Invariance == Spec => []MemInv
BY InitInv, NextInv, PTL DEF Spec

(* The state keeps its types: every page belongs to the address space and  *)
(* every remembered range has its bounds in it. *)
THEOREM TypeCorrect == Spec => []TypeOK
<1>1. MemInv => TypeOK
  BY DEF MemInv, PagesOK, PageOK, PageRecord, TypeOK
<1> QED BY <1>1, Invariance, PTL

(* No access is intercepted in a page no device asked for, whatever the    *)
(* sizes of the pages and the order of accesses, sets and unsets.          *)
THEOREM InterceptionSound == Spec => []Intercepted
<1>1. MemInv => Intercepted
  BY DEF MemInv, PagesOK, PageOK, Intercepted
<1> QED BY <1>1, Invariance, PTL

-----------------------------------------------------------------------------
(***************************************************************************)
(* The refinement.  A byte of the abstract memory is found at the page and *)
(* the offset its address gives (Where); a block is cut where its          *)
(* addresses leave a page, also where they wrap around (PieceIs,           *)
(* BlockWhere); and an address belongs to a block when the place it has    *)
(* there is one of its bytes (PlaceOf).                                    *)
(***************************************************************************)
LEMMA SpaceFacts ==
  /\ PageSize \in Nat \ {0} /\ NbPages \in Nat \ {0} /\ Space \in Nat \ {0}
  /\ Space = PageSize * NbPages
  /\ \A a \in Addr : a \in Nat /\ a < Space
BY SizeAssumption, SMTT(30) DEF Space, Addr

LEMMA AddrParts ==
  ASSUME NEW a \in Addr
  PROVE  /\ PageOf(a) \in Nat /\ PageOf(a) < NbPages
         /\ InPage(a) \in Offset
         /\ a = PageOf(a) * PageSize + InPage(a)
<1> DEFINE b == PageSize
           n == NbPages
<1>1. b \in Nat \ {0} /\ n \in Nat \ {0} /\ a \in Nat /\ a < b * n
  BY SpaceFacts
<1> HIDE DEF b, n
<1>2. a \div b \in 0..n - 1 /\ a % b \in 0..b - 1 /\ a = (a \div b) * b + (a % b)
  BY <1>1, Split
<1>3. a \div b \in Nat /\ a \div b < n
  BY <1>1, <1>2
<1> QED BY <1>2, <1>3 DEF PageOf, InPage, Offset, b, n

LEMMA PageByte ==
  ASSUME NEW p \in Nat, p < NbPages, NEW o \in Offset
  PROVE  PageOf(p * PageSize + o) = p /\ InPage(p * PageSize + o) = o
<1>1. PageSize \in Nat \ {0} /\ o \in 0..PageSize - 1
  BY SpaceFacts DEF Offset
<1>2. p * PageSize \in Nat
  BY <1>1, SMTT(30)
<1>3. p * PageSize + o \in Nat
  BY <1>1, <1>2
<1> QED BY <1>1, <1>3, Division DEF PageOf, InPage

(* Where the byte k places after a lies. *)
LEMMA Where ==
  ASSUME NEW a \in Addr, NEW k \in Nat, NEW n \in Nat, NEW o \in Offset,
         InPage(a) + k = n * PageSize + o
  PROVE  PageOf(Plus(a, k)) = (PageOf(a) + n) % NbPages /\ InPage(Plus(a, k)) = o
<1> DEFINE m == PageOf(a) + n
           p == m % NbPages
<1>1. /\ PageSize \in Nat \ {0} /\ NbPages \in Nat \ {0} /\ o \in 0..PageSize - 1
      /\ Space = PageSize * NbPages
  BY SpaceFacts DEF Offset
<1>2. /\ PageOf(a) \in Nat /\ InPage(a) \in Nat /\ a \in Nat
      /\ a = PageOf(a) * PageSize + InPage(a)
  BY AddrParts, SpaceFacts DEF Offset
<1>3. m \in Nat /\ m * PageSize = PageOf(a) * PageSize + n * PageSize
  BY <1>1, <1>2, SMTT(30)
<1>4. PageOf(a) * PageSize \in Nat /\ n * PageSize \in Nat
  BY <1>1, <1>2, SMTT(30)
<1>5. a + k = m * PageSize + o
  BY <1>1, <1>2, <1>3, <1>4
<1>6. Plus(a, k) = p * PageSize + o
  BY <1>1, <1>3, <1>5, Around DEF Plus
<1>7. p \in Nat /\ p < NbPages
  <2>1. m \in Nat
    BY <1>3
  <2> HIDE DEF m
  <2>2. p \in 0..NbPages - 1
    BY <1>1, <2>1, Euclid
  <2> QED BY <1>1, <2>2
<1> QED BY <1>6, <1>7, PageByte

(* Places: the byte k places after a is the one a block at a has there. *)
LEMMA PlaceOf ==
  ASSUME NEW a \in Addr, NEW x \in Addr
  PROVE  /\ Flat!Place(x, a) \in 0..Space - 1
         /\ Plus(a, Flat!Place(x, a)) = x
         /\ \A k \in 0..Space - 1 : Plus(a, k) = x => k = Flat!Place(x, a)
<1> DEFINE s == Space
<1>1. s \in Nat \ {0} /\ a \in Nat /\ a < s /\ x \in Nat /\ x < s
  BY SpaceFacts
<1>2. Flat!Place(x, a) = (x - a + s) % s /\ \A k : Plus(a, k) = (a + k) % s
  BY DEF Flat!Place, Plus
<1> HIDE DEF s
<1>3. /\ (x - a + s) % s \in 0..s - 1
      /\ (a + ((x - a + s) % s)) % s = x
      /\ \A k \in 0..s - 1 : (a + k) % s = x => k = (x - a + s) % s
  BY <1>1, Circle
<1> QED BY <1>2, <1>3 DEF s

(* The piece that moves byte k is the page, counted from the first, the    *)
(* byte lies on.                                                           *)
LEMMA PieceIs ==
  ASSUME NEW a \in Addr, NEW n \in 1..Space, NEW k \in 0..n - 1
  PROVE  LET i == (InPage(a) + k) \div PageSize
         IN /\ i \in Pieces(a, n)
            /\ PieceOf(a, n, k) = i
            /\ Cut(a, n, i) = IF i = 0 THEN 0 ELSE i * PageSize - InPage(a)
<1> DEFINE r == InPage(a)
           b == PageSize
           i == (r + k) \div b
<1>1. /\ b \in Nat \ {0} /\ NbPages \in Nat \ {0} /\ r \in 0..b - 1
      /\ Space = b * NbPages /\ Space \in Nat /\ n \in Nat /\ k \in Nat /\ k < n /\ n <= Space
  BY SpaceFacts, AddrParts DEF Offset
<1>2. \A j \in Nat : Cut(a, n, j) = IF j = 0 THEN 0
                                    ELSE Least(n, b - r + (j - 1) * b)
  BY DEF Cut
<1> HIDE DEF r, b
<1>3. i \in Nat /\ i * b \in Nat /\ i * b <= r + k /\ r + k < i * b + b
  <2>1. r + k \in Nat
    BY <1>1
  <2>2. i \in Nat /\ (r + k) % b \in 0..b - 1 /\ r + k = i * b + ((r + k) % b)
    BY <1>1, <2>1, Euclid
  <2>3. i * b \in Nat
    BY <1>1, <2>2, SMTT(30)
  <2> HIDE DEF i
  <2> DEFINE rest == (r + k) % b
  <2>4. rest \in 0..b - 1 /\ r + k = i * b + rest
    BY <2>2
  <2> HIDE DEF rest
  <2> QED BY <1>1, <2>2, <2>3, <2>4
<1>4. \A j \in Nat : j * b \in Nat /\ (j - 1) * b = j * b - b /\ (j + 1) * b = j * b + b
  BY <1>1, SMTT(30)
<1>5. ASSUME NEW j \in Nat
      PROVE  Cut(a, n, j) = IF j = 0 THEN 0 ELSE Least(n, j * b - r)
  <2>1. b - r + (j - 1) * b = j * b - r
    <3>1. j * b \in Nat /\ (j - 1) * b = j * b - b
      BY <1>4
    <3> QED BY <1>1, <3>1
  <2> QED BY <1>2, <2>1
<1>6. i <= NbPages
  <2>1. r + k <= NbPages * b + b - 1
    <3>1. NbPages * b = Space
      BY <1>1, SMTT(30)
    <3> QED BY <1>1, <3>1
  <2>2. r + k \in Nat
    BY <1>1
  <2> QED BY <1>1, <2>1, <2>2, DivBelow
<1> HIDE DEF i
<1>7. Cut(a, n, i) <= k /\ Cut(a, n, i) = IF i = 0 THEN 0 ELSE i * b - r
  <2>1. i * b - r <= k /\ i * b - r \in Int
    BY <1>1, <1>3
  <2> QED BY <1>1, <1>3, <1>5, <2>1 DEF Least
<1>8. k < Cut(a, n, i + 1)
  <2>1. i + 1 \in Nat /\ i + 1 # 0 /\ (i + 1) * b = i * b + b
    BY <1>3, <1>4
  <2>2. Cut(a, n, i + 1) = Least(n, (i * b + b) - r)
    BY <1>5, <2>1
  <2>3. k < (i * b + b) - r
    BY <1>1, <1>3
  <2> QED BY <1>1, <2>2, <2>3 DEF Least
<1>9. i \in Pieces(a, n)
  BY <1>1, <1>3, <1>6, <1>7 DEF Pieces
<1>10. ASSUME NEW j \in Pieces(a, n), Cut(a, n, j) <= k, k < Cut(a, n, j + 1)
       PROVE  j = i
  <2>1. j \in Nat /\ j + 1 \in Nat /\ j + 1 # 0 /\ (j + 1) * b = j * b + b /\ j * b \in Nat
    BY <1>1, <1>4, <1>10 DEF Pieces
  <2>2. j * b <= r + k
    <3>1. CASE j = 0
      <4>1. 0 * b = 0
        BY <1>1, SMTT(30)
      <4> QED BY <1>1, <3>1, <4>1
    <3>2. CASE j # 0
      <4>1. Cut(a, n, j) = Least(n, j * b - r)
        BY <1>5, <2>1, <3>2
      <4> QED BY <1>1, <1>10, <2>1, <4>1 DEF Least
    <3> QED BY <3>1, <3>2
  <2>3. r + k < j * b + b
    <3>1. Cut(a, n, j + 1) = Least(n, (j * b + b) - r)
      BY <1>5, <2>1
    <3> QED BY <1>1, <1>10, <2>1, <3>1 DEF Least
  <2>4. r + k - j * b \in 0..b - 1
    BY <1>1, <2>1, <2>2, <2>3
  <2>5. r + k \in Nat /\ r + k = j * b + (r + k - j * b)
    BY <1>1, <2>1
  <2> DEFINE rest == r + k - j * b
             x == r + k
  <2>6. x \in Nat /\ rest \in 0..b - 1 /\ x = j * b + rest
    BY <2>4, <2>5
  <2> HIDE DEF rest, x
  <2>7. x \div b = j
    BY <1>1, <2>1, <2>6, Division
  <2> QED BY <2>7 DEF x, i
<1>11. PieceOf(a, n, k) = i
  BY <1>7, <1>8, <1>9, <1>10 DEF PieceOf
<1> QED BY <1>7, <1>9, <1>11 DEF i, r, b

(* Each byte of a block goes where its address lies, and the page is one   *)
(* of those looked for.                                                    *)
LEMMA BlockWhere ==
  ASSUME NEW a \in Addr, NEW n \in 1..Space, NEW k \in 0..n - 1
  PROVE  /\ BlockPage(a, n, k) = PageOf(Plus(a, k))
         /\ BlockOffset(a, n, k) = InPage(Plus(a, k))
         /\ BlockPage(a, n, k) \in PiecePages(a, n)
<1> DEFINE r == InPage(a)
           i == (r + k) \div PageSize
           o == (r + k) % PageSize
           c == Cut(a, n, i)
<1>1. /\ PageSize \in Nat \ {0} /\ r \in 0..PageSize - 1 /\ k \in Nat
      /\ r + k \in Nat
  BY SpaceFacts, AddrParts DEF Offset
<1>2. i \in Nat /\ o \in Offset /\ r + k = i * PageSize + o
  BY <1>1, Euclid DEF Offset
<1>3. i \in Pieces(a, n) /\ PieceOf(a, n, k) = i
      /\ c = IF i = 0 THEN 0 ELSE i * PageSize - r
  BY PieceIs
<1>4. i * PageSize \in Nat /\ 0 * PageSize = 0
  BY <1>1, <1>2, SMTT(30)
<1> HIDE DEF r, i, o, c
<1>5. PageOf(Plus(a, k)) = (PageOf(a) + i) % NbPages /\ InPage(Plus(a, k)) = o
  BY <1>1, <1>2, Where DEF r
<1>6. PageOf(Plus(a, c)) = (PageOf(a) + i) % NbPages
  <2>1. CASE i = 0
    <3>1. c \in Nat /\ r \in Offset /\ r + c = i * PageSize + r
      BY <1>1, <1>3, <1>4, <2>1 DEF Offset
    <3> QED BY <1>2, <3>1, Where DEF r
  <2>2. CASE i # 0
    <3>1. PageSize <= i * PageSize
      BY <1>1, <1>2, <2>2, SMTT(30)
    <3>2. c \in Nat /\ 0 \in Offset /\ r + c = i * PageSize + 0
      BY <1>1, <1>3, <1>4, <2>2, <3>1 DEF Offset
    <3> QED BY <1>2, <3>2, Where DEF r
  <2> QED BY <2>1, <2>2
<1>7. BlockPage(a, n, k) = PageOf(Plus(a, c))
  BY <1>3 DEF BlockPage, PieceStart, c
<1>8. BlockOffset(a, n, k) = o
  <2>1. BlockOffset(a, n, k) = (IF i = 0 THEN r ELSE 0) + k - c
    BY <1>3 DEF BlockOffset, r, c
  <2>2. o \in Nat
    BY <1>1, <1>2 DEF Offset
  <2> QED BY <1>1, <1>2, <1>3, <1>4, <2>1, <2>2
<1>9. BlockPage(a, n, k) \in PiecePages(a, n)
  BY <1>3 DEF BlockPage, PiecePages
<1> QED BY <1>5, <1>6, <1>7, <1>8, <1>9

-----------------------------------------------------------------------------
(* What the abstract memory holds. *)
Bytes == [a \in Addr |-> ByteAt(pages, a)]

(* Nothing is in a page before something is put there, so that creating    *)
(* pages changes no byte.                                                  *)
LEMMA CreatedEmpty ==
  ASSUME MemInv, NEW s, s \subseteq Page, NEW x \in Addr
  PROVE  ByteAt(WithPages(s), x) = ByteAt(pages, x)
<1>1. PageOf(x) \in Page /\ InPage(x) \in Offset
  BY PageOfAddr
<1>2. CASE PageOf(x) \in DOMAIN pages
  BY <1>2 DEF ByteAt, WithPages
<1>3. CASE PageOf(x) \notin DOMAIN pages
  BY <1>1, <1>3 DEF ByteAt, WithPages, Fresh
<1> QED BY <1>2, <1>3

(* The byte at an address of a page that is there.                         *)
LEMMA ByteThere ==
  ASSUME NEW pg, NEW p \in DOMAIN pg, NEW x \in Addr, PageOf(x) = p
  PROVE  ByteAt(pg, x) = pg[p].bytes[InPage(x)]
BY DEF ByteAt

(* An integer within its page lies at consecutive places of it. *)
LEMMA WithinPage ==
  ASSUME NEW a \in Addr, NEW n \in Nat \ {0}, ~Crosses(a, n), NEW k \in 0..n - 1
  PROVE  /\ PageOf(Plus(a, k)) = PageOf(a)
         /\ InPage(Plus(a, k)) = InPage(a) + k
         /\ Plus(a, k) \in Addr
<1>1. /\ PageSize \in Nat \ {0} /\ NbPages \in Nat \ {0}
      /\ InPage(a) \in 0..PageSize - 1 /\ InPage(a) + n <= PageSize
      /\ PageOf(a) \in Nat /\ PageOf(a) < NbPages /\ k \in Nat
  BY SpaceFacts, AddrParts DEF Offset, Crosses
<1>2. InPage(a) + k \in Offset /\ 0 * PageSize = 0
  BY <1>1, SMTT(30) DEF Offset
<1>3. InPage(a) + k = 0 * PageSize + (InPage(a) + k)
  BY <1>1, <1>2
<1>4. PageOf(Plus(a, k)) = (PageOf(a) + 0) % NbPages /\ InPage(Plus(a, k)) = InPage(a) + k
  BY <1>1, <1>2, <1>3, Where
<1>5. (PageOf(a) + 0) % NbPages = PageOf(a)
  BY <1>1, SMTT(30)
<1> QED BY <1>1, <1>4, <1>5, PlusAddr

LEMMA ReadIntFlat ==
  ASSUME MemInv, NEW a \in Addr, NEW n \in Width, n \in Nat \ {0}, ReadInt(a, n)
  PROVE  Flat!Next \/ fault'
<1> DEFINE pg == WithPages({PageOf(a)})
<1>1. {PageOf(a)} \subseteq Page /\ PageOf(a) \in DOMAIN pg
  BY PageOfAddr DEF WithPages
<1>2. pages' = pg
  BY DEF ReadInt
<1>3. Bytes' = Bytes
  BY <1>1, <1>2, CreatedEmpty DEF Bytes
<1>4. PICK bytes \in [1..n -> Byte] :
        IF pg[PageOf(a)].info # NULL
        THEN last' = Access("device", a, bytes) /\ fault' = FALSE
        ELSE /\ \A k \in 1..n : InPage(a) + k <= PageSize =>
                  bytes[k] = pg[PageOf(a)].bytes[InPage(a) + k - 1]
             /\ last' = Access("load", a, bytes)
             /\ fault' = Crosses(a, n)
  BY <1>2 DEF ReadInt
<1>5. CASE pg[PageOf(a)].info # NULL
  <2>1. Flat!Device(a, bytes)
    BY <1>3, <1>4, <1>5 DEF Flat!Device, Flat!Access, Access, Bytes
  <2> QED BY <2>1 DEF Flat!Next, Flat!Addr, Addr
<1>6. CASE pg[PageOf(a)].info = NULL /\ ~Crosses(a, n)
  <2>1. ASSUME NEW k \in 1..n
        PROVE  bytes[k] = Bytes[Flat!Plus(a, k - 1)]
    <3>1. k - 1 \in 0..n - 1
      OBVIOUS
    <3>2. /\ PageOf(Plus(a, k - 1)) = PageOf(a)
          /\ InPage(Plus(a, k - 1)) = InPage(a) + (k - 1)
          /\ Plus(a, k - 1) \in Addr
      BY <1>6, <3>1, WithinPage
    <3>3. InPage(a) \in Int /\ InPage(a) + k <= PageSize /\ InPage(a) + (k - 1) = InPage(a) + k - 1
      BY <1>6, SpaceFacts, AddrParts DEF Crosses, Offset
    <3>4. ByteAt(pg, Plus(a, k - 1)) = pg[PageOf(a)].bytes[InPage(a) + k - 1]
      BY <1>1, <3>2, <3>3, ByteThere
    <3>5. ByteAt(pg, Plus(a, k - 1)) = ByteAt(pages, Plus(a, k - 1))
      BY <1>1, <3>2, CreatedEmpty
    <3>6. bytes[k] = pg[PageOf(a)].bytes[InPage(a) + k - 1]
      BY <1>4, <1>6, <3>3
    <3> QED BY <3>2, <3>4, <3>5, <3>6 DEF Bytes, Flat!Plus, Plus
  <2>2. bytes = [k \in 1..n |-> Bytes[Flat!Plus(a, k - 1)]]
    BY <2>1
  <2>3. Flat!Load(a, n)
    BY <1>3, <1>4, <1>6, <2>2 DEF Flat!Load, Flat!Access, Access, Bytes
  <2> QED BY <2>3 DEF Flat!Next, Flat!Addr, Addr
<1>7. CASE pg[PageOf(a)].info = NULL /\ Crosses(a, n)
  BY <1>4, <1>7
<1> QED BY <1>5, <1>6, <1>7

LEMMA WriteIntFlat ==
  ASSUME MemInv, NEW a \in Addr, NEW n \in Width, n \in Nat \ {0},
         NEW buf \in [1..n -> Byte], WriteInt(a, buf)
  PROVE  Flat!Next \/ fault'
<1> DEFINE p == PageOf(a)
           pg == WithPages({p})
<1>1. {p} \subseteq Page /\ p \in DOMAIN pg
  BY PageOfAddr DEF WithPages
<1>2. Len(buf) = n
  OBVIOUS
<1>3. CASE pg[p].info # NULL
  <2>1. pages' = pg /\ last' = Access("device", a, buf)
    BY <1>3 DEF WriteInt
  <2>2. Bytes' = Bytes
    BY <1>1, <2>1, CreatedEmpty DEF Bytes
  <2>3. Flat!Device(a, buf)
    BY <2>1, <2>2 DEF Flat!Device, Flat!Access, Access, Bytes
  <2> QED BY <2>3 DEF Flat!Next, Flat!Addr, Addr
<1>4. CASE pg[p].info = NULL /\ Crosses(a, n)
  BY <1>2, <1>4 DEF WriteInt
<1>5. CASE pg[p].info = NULL /\ ~Crosses(a, n)
  <2>1. /\ pages' = [pg EXCEPT ![p].bytes = Put(@, InPage(a), buf)]
        /\ last' = Access("store", a, buf)
    BY <1>5 DEF WriteInt
  <2>2. /\ DOMAIN pages' = DOMAIN pg
        /\ pages'[p].bytes = Put(pg[p].bytes, InPage(a), buf)
        /\ \A q \in DOMAIN pg : q # p => pages'[q] = pg[q]
    <3>1. pg[p] \in PageRecord
      BY <1>1, WithPagesOK DEF PagesOK, PageOK
    <3>2. pages'[p] = [pg[p] EXCEPT !.bytes = Put(pg[p].bytes, InPage(a), buf)]
      BY <1>1, <2>1
    <3> QED BY <1>1, <2>1, <3>1, <3>2 DEF PageRecord
  <2>3. ASSUME NEW x \in Addr
        PROVE  ByteAt(pages', x) = IF Flat!Place(x, a) < n THEN buf[Flat!Place(x, a) + 1]
                                   ELSE ByteAt(pages, x)
    <3> DEFINE k == Flat!Place(x, a)
    <3>1. k \in 0..Space - 1 /\ Plus(a, k) = x /\ Space \in Nat
      BY PlaceOf, SpaceFacts
    <3>2. InPage(x) \in Offset /\ InPage(a) \in Offset /\ ByteAt(pg, x) = ByteAt(pages, x)
      BY <1>1, AddrParts, CreatedEmpty
    <3>3. CASE k < n
      <4>1. PageOf(x) = p /\ InPage(x) = InPage(a) + k
        BY <1>5, <3>1, <3>3, WithinPage
      <4>2. ByteAt(pages', x) = pages'[p].bytes[InPage(x)]
        BY <1>1, <2>2, <4>1, ByteThere
      <4>3. InPage(x) \in InPage(a)..(InPage(a) + n - 1) /\ InPage(x) - InPage(a) + 1 = k + 1
        BY <3>1, <3>2, <3>3, <4>1, SpaceFacts DEF Offset
      <4>4. Put(pg[p].bytes, InPage(a), buf)[InPage(x)] = buf[k + 1]
        BY <1>2, <3>2, <4>3 DEF Put
      <4> QED BY <2>2, <3>3, <4>2, <4>4
    <3>4. CASE ~(k < n) /\ PageOf(x) = p
      <4>1. InPage(x) \notin InPage(a)..(InPage(a) + n - 1)
        <5> SUFFICES ASSUME InPage(x) \in InPage(a)..(InPage(a) + n - 1) PROVE FALSE
          OBVIOUS
        <5> DEFINE j == InPage(x) - InPage(a)
        <5>1. j \in 0..n - 1 /\ InPage(a) + j = InPage(x)
          BY <3>2, SpaceFacts DEF Offset
        <5>2. PageOf(Plus(a, j)) = PageOf(x) /\ InPage(Plus(a, j)) = InPage(x) /\ Plus(a, j) \in Addr
          BY <1>5, <3>4, <5>1, WithinPage
        <5>3. Plus(a, j) = x
          BY <5>2, AddrParts
        <5>4. n <= PageSize /\ PageSize <= Space
          BY <1>5, <3>2, SpaceFacts, SMTT(30) DEF Crosses, Offset
        <5>5. j \in 0..Space - 1
          BY <5>1, <5>4, SpaceFacts
        <5>6. j = k
          BY <5>3, <5>5, PlaceOf
        <5> QED BY <3>4, <5>1, <5>6
      <4>2. Put(pg[p].bytes, InPage(a), buf)[InPage(x)] = pg[p].bytes[InPage(x)]
        BY <1>2, <3>2, <4>1 DEF Put
      <4>3. ByteAt(pages', x) = ByteAt(pg, x)
        BY <1>1, <2>2, <3>4, <4>2, ByteThere
      <4> QED BY <3>2, <3>4, <4>3
    <3>5. CASE ~(k < n) /\ PageOf(x) # p
      BY <2>2, <3>2, <3>5 DEF ByteAt
    <3> QED BY <3>3, <3>4, <3>5
  <2>4. Flat!Store(a, buf)
    BY <1>2, <2>1, <2>3 DEF Flat!Store, Flat!Access, Access, Flat!Addr, Addr
  <2> QED BY <2>4 DEF Flat!Next, Flat!Addr, Addr
<1> QED BY <1>3, <1>4, <1>5

LEMMA ReadBlockFlat ==
  ASSUME MemInv, NEW a \in Addr, NEW n \in Sizes, n \in 1..Space, ReadBlock(a, n)
  PROVE  Flat!Next
<1> DEFINE pg == WithPages(PiecePages(a, n))
<1>1. /\ PiecePages(a, n) \subseteq Page /\ PiecePages(a, n) \subseteq DOMAIN pg
      /\ n \in Nat \ {0}
  BY PiecePagesOK, SpaceFacts DEF WithPages
<1>2. /\ pages' = pg
      /\ last' = Access("load", a,
           [k \in 1..n |-> pg[BlockPage(a, n, k - 1)].bytes[BlockOffset(a, n, k - 1)]])
  BY DEF ReadBlock
<1>3. Bytes' = Bytes
  BY <1>1, <1>2, CreatedEmpty DEF Bytes
<1>4. ASSUME NEW k \in 1..n
      PROVE  pg[BlockPage(a, n, k - 1)].bytes[BlockOffset(a, n, k - 1)]
               = Bytes[Flat!Plus(a, k - 1)]
  <2>1. k - 1 \in 0..n - 1 /\ k - 1 \in Int
    BY <1>1
  <2>2. /\ BlockPage(a, n, k - 1) = PageOf(Plus(a, k - 1))
        /\ BlockOffset(a, n, k - 1) = InPage(Plus(a, k - 1))
        /\ BlockPage(a, n, k - 1) \in DOMAIN pg
    BY <1>1, <2>1, BlockWhere
  <2>3. Plus(a, k - 1) \in Addr
    BY <2>1, PlusAddr
  <2>4. ByteAt(pg, Plus(a, k - 1)) = ByteAt(pages, Plus(a, k - 1))
    BY <1>1, <2>3, CreatedEmpty
  <2> QED BY <2>2, <2>3, <2>4, ByteThere DEF Bytes, Flat!Plus, Plus
<1>5. last' = Access("load", a, [k \in 1..n |-> Bytes[Flat!Plus(a, k - 1)]])
  BY <1>2, <1>4
<1>6. Flat!Load(a, n)
  BY <1>3, <1>5 DEF Flat!Load, Flat!Access, Access, Bytes
<1> QED BY <1>6 DEF Flat!Next, Flat!Addr, Addr

LEMMA WriteBlockFlat ==
  ASSUME MemInv, NEW a \in Addr, NEW n \in Sizes, n \in 1..Space,
         NEW buf \in [1..n -> Byte], WriteBlock(a, buf)
  PROVE  Flat!Next
<1> DEFINE pg == WithPages(PiecePages(a, n))
           place == [k \in 0..n - 1 |-> <<BlockPage(a, n, k), BlockOffset(a, n, k)>>]
           byte(p, o) == IF \E k \in DOMAIN place : place[k] = <<p, o>>
                         THEN buf[1 + CHOOSE k \in DOMAIN place : place[k] = <<p, o>>]
                         ELSE pg[p].bytes[o]
           new(p) == [o \in Offset |-> byte(p, o)]
<1>1. Len(buf) = n /\ n \in Nat \ {0} /\ n <= Space
  BY SpaceFacts
<1>2. /\ PiecePages(a, n) \subseteq Page /\ PiecePages(a, n) \subseteq DOMAIN pg
      /\ PagesOK(pg, infos)
  BY <1>1, PiecePagesOK, WithPagesOK DEF WithPages
<1>3. /\ pages' = [p \in DOMAIN pg |-> [pg[p] EXCEPT !.bytes = new(p)]]
      /\ last' = Access("store", a, buf)
  BY <1>1 DEF WriteBlock
<1> HIDE DEF new
<1>4. DOMAIN pages' = DOMAIN pg /\ \A p \in DOMAIN pg : pages'[p].bytes = new(p)
  BY <1>2, <1>3 DEF PagesOK, PageOK, PageRecord
<1>5. ASSUME NEW x \in Addr, NEW k \in 0..n - 1
      PROVE  place[k] = <<PageOf(x), InPage(x)>> <=> k = Flat!Place(x, a)
  <2>1. place[k] = <<PageOf(Plus(a, k)), InPage(Plus(a, k))>> /\ Plus(a, k) \in Addr
    BY BlockWhere, PlusAddr
  <2>2. place[k] = <<PageOf(x), InPage(x)>> <=> Plus(a, k) = x
    BY <2>1, AddrParts
  <2>3. k \in 0..Space - 1
    BY <1>1, SpaceFacts
  <2> QED BY <2>2, <2>3, PlaceOf
<1> DEFINE k(x) == Flat!Place(x, a)
<1>6. ASSUME NEW x \in Addr
      PROVE  k(x) \in Nat /\ (k(x) < n => k(x) \in 0..n - 1) /\ Plus(a, k(x)) = x
  BY <1>1, PlaceOf, SpaceFacts
<1>7. ASSUME NEW x \in Addr
      PROVE  byte(PageOf(x), InPage(x))
               = IF k(x) < n THEN buf[k(x) + 1] ELSE pg[PageOf(x)].bytes[InPage(x)]
  <2>1. DOMAIN place = 0..n - 1
    OBVIOUS
  <2> HIDE DEF place
  <2>2. CASE k(x) < n
    <3> DEFINE j == CHOOSE i \in DOMAIN place : place[i] = <<PageOf(x), InPage(x)>>
    <3>1. k(x) \in DOMAIN place /\ place[k(x)] = <<PageOf(x), InPage(x)>>
      BY <1>5, <1>6, <2>1, <2>2
    <3>2. j \in DOMAIN place /\ place[j] = <<PageOf(x), InPage(x)>>
      BY <3>1
    <3>3. j = k(x)
      BY <1>5, <2>1, <3>2
    <3>4. 1 + k(x) = k(x) + 1
      BY <1>6
    <3> QED BY <2>2, <3>1, <3>3, <3>4
  <2>3. CASE ~(k(x) < n)
    <3>1. ~ \E i \in DOMAIN place : place[i] = <<PageOf(x), InPage(x)>>
      BY <1>1, <1>5, <1>6, <2>1, <2>3
    <3> QED BY <2>3, <3>1
  <2> QED BY <2>2, <2>3
<1> HIDE DEF byte
<1>8. ASSUME NEW x \in Addr
      PROVE  ByteAt(pages', x) = IF k(x) < n THEN buf[k(x) + 1] ELSE ByteAt(pages, x)
  <2>1. InPage(x) \in Offset /\ ByteAt(pg, x) = ByteAt(pages, x)
    BY <1>2, AddrParts, CreatedEmpty
  <2>2. CASE PageOf(x) \in DOMAIN pg
    <3>1. ByteAt(pages', x) = byte(PageOf(x), InPage(x))
      BY <1>4, <2>1, <2>2 DEF ByteAt, new
    <3>2. ByteAt(pg, x) = pg[PageOf(x)].bytes[InPage(x)]
      BY <2>2 DEF ByteAt
    <3> QED BY <1>7, <2>1, <3>1, <3>2
  <2>3. CASE PageOf(x) \notin DOMAIN pg
    <3>1. ~(k(x) < n)
      <4> SUFFICES ASSUME k(x) < n PROVE FALSE
        OBVIOUS
      <4>1. k(x) \in 0..n - 1 /\ Plus(a, k(x)) = x
        BY <1>6
      <4>2. PageOf(x) \in PiecePages(a, n)
        BY <4>1, BlockWhere
      <4> QED BY <1>2, <2>3, <4>2
    <3>2. ByteAt(pages', x) = 0 /\ ByteAt(pg, x) = 0
      BY <1>4, <2>3 DEF ByteAt
    <3> QED BY <2>1, <3>1, <3>2
  <2> QED BY <2>2, <2>3
<1>9. Flat!Store(a, buf)
  BY <1>1, <1>3, <1>8 DEF Flat!Store, Flat!Access, Access, Flat!Addr, Addr
<1> QED BY <1>9 DEF Flat!Next, Flat!Addr, Addr

(* Operations that move no byte. *)
LEMMA SetRangeFlat ==
  ASSUME MemInv, NEW s \in Addr, NEW e \in Addr, SetRange(s, e)
  PROVE  Flat!Next
<1> DEFINE r == [start |-> s, end |-> e]
           pg == WithPages({PageOf(s)})
<1>1. {PageOf(s)} \subseteq Page
  BY PageOfAddr
<1>2. pages' = [pg EXCEPT ![PageOf(s)].info = r] /\ last' = Idle
  BY DEF SetRange
<1>3. PageOf(s) \in DOMAIN pg /\ pg[PageOf(s)] \in PageRecord
  BY <1>1, WithPagesOK DEF PagesOK, PageOK
<1>4. /\ DOMAIN pages' = DOMAIN pg
      /\ \A p \in DOMAIN pg : pages'[p].bytes = pg[p].bytes
  BY <1>2, <1>3 DEF PageRecord
<1>5. Bytes' = Bytes
  BY <1>1, <1>4, CreatedEmpty DEF Bytes, ByteAt
<1> QED BY <1>2, <1>5 DEF Flat!Next, Flat!Other, Flat!Idle, Flat!Access, Idle, Access, Bytes

LEMMA UnsetRangeFlat ==
  ASSUME MemInv, NEW s \in Addr, NEW e \in Addr, UnsetRange(s, e)
  PROVE  Flat!Next
<1>1. last' = Idle
  BY DEF UnsetRange
<1>2. /\ DOMAIN pages' = DOMAIN pages
      /\ \A p \in DOMAIN pages : pages'[p].bytes = pages[p].bytes
  BY DEF UnsetRange, MemInv, PagesOK, PageOK, PageRecord
<1>3. Bytes' = Bytes
  BY <1>2 DEF Bytes, ByteAt
<1> QED BY <1>1, <1>3 DEF Flat!Next, Flat!Other, Flat!Idle, Flat!Access, Idle, Access, Bytes

LEMMA GetCallbackDataFlat ==
  ASSUME MemInv, NEW a \in Addr, GetCallbackData(a)
  PROVE  Flat!Next
<1>1. {PageOf(a)} \subseteq Page
  BY PageOfAddr
<1>2. pages' = WithPages({PageOf(a)}) /\ last' = Idle
  BY DEF GetCallbackData
<1>3. Bytes' = Bytes
  BY <1>1, <1>2, CreatedEmpty DEF Bytes
<1> QED BY <1>2, <1>3 DEF Flat!Next, Flat!Other, Flat!Idle, Flat!Access, Idle, Access, Bytes

LEMMA CopyFlat ==
  ASSUME Copy
  PROVE  Flat!Next
BY DEF Copy, Flat!Next, Flat!Other, Flat!Idle, Flat!Access, Idle, Access, Bytes

-----------------------------------------------------------------------------
LEMMA InitFlat == Init => Flat!Init
<1> SUFFICES ASSUME Init PROVE Flat!Init
  OBVIOUS
<1>1. DOMAIN pages = {}
  BY DEF Init
<1>2. \A x \in Addr : ByteAt(pages, x) = 0
  BY <1>1 DEF ByteAt
<1> QED BY <1>2 DEF Init, Flat!Init, Flat!Idle, Flat!Access, Idle, Access, Flat!Addr, Addr

LEMMA NextFlat ==
  ASSUME Sizes \subseteq 1..Space, MemInv, [Next]_vars
  PROVE  [Flat!Next \/ fault']_vars
<1>1. ASSUME NEW a \in Starts, NEW n \in Width,
             ReadInt(a, n) \/ \E buf \in [1..n -> Byte] : WriteInt(a, buf)
      PROVE  Flat!Next \/ fault'
  BY <1>1, BoundsAssumption, ReadIntFlat, WriteIntFlat
<1>2. ASSUME NEW a \in Starts, NEW n \in Sizes,
             ReadBlock(a, n) \/ \E buf \in [1..n -> Byte] : WriteBlock(a, buf)
      PROVE  Flat!Next
  BY <1>2, BoundsAssumption, ReadBlockFlat, WriteBlockFlat
<1>3. ASSUME NEW b \in Bounds, SetRange(b[1], b[2]) \/ UnsetRange(b[1], b[2])
      PROVE  Flat!Next
  BY <1>3, BoundsAssumption, SetRangeFlat, UnsetRangeFlat
<1>4. ASSUME NEW a \in Starts, GetCallbackData(a)
      PROVE  Flat!Next
  BY <1>4, BoundsAssumption, GetCallbackDataFlat
<1>5. CASE Copy
  BY <1>5, CopyFlat
<1>6. CASE UNCHANGED vars
  BY <1>6
<1> QED BY <1>1, <1>2, <1>3, <1>4, <1>5, <1>6 DEF Next

(* The pages implement FlatMemory: for every size of page, address space   *)
(* and access, and blocks that do not cover the address space twice, each  *)
(* access returns and changes what an array of bytes would, until an       *)
(* integer access leaves the storage of its page.                          *)
THEOREM MemoryIsFlat == ASSUME Sizes \subseteq 1..Space PROVE Spec => ImplementsFlat
<1>1. MemInv /\ [Next]_vars => [Flat!Next \/ fault']_vars
  BY NextFlat
<1> QED BY InitFlat, InitInv, NextInv, <1>1, PTL DEF Spec, ImplementsFlat

=============================================================================
