------------------------------- MODULE CsimMem -------------------------------
(***************************************************************************)
(* The memory of a csim board (csim/mem.c): pages allocated when first     *)
(* touched, and the callbacks that give pages to devices.                  *)
(*                                                                         *)
(* The two levels of hash tables are modelled by the page numbers they     *)
(* resolve, except in csim_mem_copy which walks them.  The flag is_changed *)
(* of the callback table is left out: the only assignment that would raise *)
(* it is commented out, so update_callback_infos never runs.  The byte     *)
(* order of the host is left out: a value is the sequence of its bytes.    *)
(***************************************************************************)
EXTENDS Integers, FiniteSets, Sequences

CONSTANTS
  PageSize,   (* MEMORY_PAGE_SIZE *)
  NbPages,    (* pages of the address space *)
  H1, H2,     (* PRIMARYMEMORY_HASH_TABLE_SIZE, SECONDARYMEMORY_... *)
  Byte,       (* values of a byte, 0 among them *)
  Width,      (* sizes of the integer accesses *)
  Sizes,      (* bound: sizes of csim_mem_read and csim_mem_write *)
  Starts,     (* bound: addresses accesses start at *)
  Bounds,     (* bound: pairs <<start, end>> callbacks are set and unset for *)
  MaxInfos,   (* bound: callbacks set *)
  NULL        (* the null pointer *)

ASSUME SizeAssumption == PageSize \in Nat \ {0} /\ NbPages \in Nat \ {0}
ASSUME HashAssumption == H1 \in Nat \ {0} /\ H2 \in Nat \ {0}
ASSUME ByteAssumption == 0 \in Byte

VARIABLES
  pages,      (* the allocated pages: number -> [bytes, info] *)
  infos,      (* callback_infos.ptr, the newest first: [start, end] *)
  last,       (* history: the last access, [op, at, bytes] *)
  fault       (* memory outside an allocated block was accessed *)

vars == <<pages, infos, last, fault>>

Space == PageSize * NbPages
Addr == 0..Space - 1
Page == 0..NbPages - 1
Offset == 0..PageSize - 1

PageOf(a) == a \div PageSize
InPage(a) == a % PageSize
First(p) == p * PageSize
Plus(a, n) == (a + n) % Space

Info == [start : Addr, end : Addr]

ASSUME BoundsAssumption ==
  /\ Width \subseteq Nat \ {0} /\ Sizes \subseteq Nat \ {0}
  /\ Starts \subseteq Addr
  /\ \A b \in Bounds : b \in Addr \X Addr /\ b[1] <= b[2]

Least(a, b) == IF a < b THEN a ELSE b

-----------------------------------------------------------------------------
(* Variant: the first byte of the next page for the last byte of the page. *)
MatchesNext(r, p) ==
  \/ r.start <= First(p) /\ First(p) <= r.end
  \/ r.start <= First(p + 1) /\ First(p + 1) <= r.end

(* get_callback_info: the newest range holding the first or the last byte  *)
(* of the page.                                                            *)
Matches(r, p) ==
  \/ r.start <= First(p) /\ First(p) <= r.end
  \/ r.start <= First(p) + PageSize - 1 /\ First(p) + PageSize - 1 <= r.end

FirstMatch(i, p) ==
  Matches(infos[i], p) /\ \A j \in 1..(i - 1) : ~Matches(infos[j], p)

CallbackInfo(p) ==
  IF \E i \in DOMAIN infos : FirstMatch(i, p)
  THEN infos[CHOOSE i \in DOMAIN infos : FirstMatch(i, p)]
  ELSE NULL

Fresh(p) == [bytes |-> [o \in Offset |-> 0], info |-> CallbackInfo(p)]

(* mem_get_page on each page of the set s. *)
WithPages(s) ==
  [p \in DOMAIN pages \cup s |-> IF p \in DOMAIN pages THEN pages[p] ELSE Fresh(p)]

Access(op, a, bytes) == [op |-> op, at |-> a, bytes |-> bytes]

Idle == Access("none", 0, <<>>)

(* The byte at address a in the pages pg. *)
ByteAt(pg, a) ==
  IF PageOf(a) \in DOMAIN pg THEN pg[PageOf(a)].bytes[InPage(a)] ELSE 0

(* Whether an integer access leaves the storage of its page. *)
Crosses(a, n) == InPage(a) + n > PageSize

-----------------------------------------------------------------------------
Init ==
  /\ pages = [p \in {} |-> NULL]
  /\ infos = <<>>
  /\ last = Idle
  /\ fault = FALSE

(* csim_mem_read8 to csim_mem_readd: one page is looked for, the one of    *)
(* the first byte.  With a callback the device fills the result; otherwise *)
(* the bytes come from the storage of the page, beyond its end from        *)
(* whatever lies there.                                                    *)
ReadInt(a, n) ==
  /\ ~fault
  /\ pages' = WithPages({PageOf(a)})
  /\ \E bytes \in [1..n -> Byte] :
       IF pages'[PageOf(a)].info # NULL
       THEN last' = Access("device", a, bytes) /\ fault' = FALSE
       ELSE /\ \A k \in 1..n : InPage(a) + k <= PageSize =>
                 bytes[k] = pages'[PageOf(a)].bytes[InPage(a) + k - 1]
            /\ last' = Access("load", a, bytes)
            /\ fault' = Crosses(a, n)
  /\ UNCHANGED infos

(* The storage old with buf put at offset o. *)
Put(old, o, buf) ==
  [x \in Offset |-> IF x \in o..(o + Len(buf) - 1) THEN buf[x - o + 1] ELSE old[x]]

(* csim_mem_write8 to csim_mem_writed. *)
WriteInt(a, buf) ==
  /\ ~fault
  /\ LET p == PageOf(a)
         pg == WithPages({p})
     IN IF pg[p].info # NULL
        THEN pages' = pg /\ last' = Access("device", a, buf) /\ fault' = FALSE
        ELSE /\ pages' = [pg EXCEPT ![p].bytes = Put(@, InPage(a), buf)]
             /\ last' = Access("store", a, buf)
             /\ fault' = Crosses(a, Len(buf))
  /\ UNCHANGED infos

(***************************************************************************)
(* csim_mem_read and csim_mem_write move a block piece by piece: up to the *)
(* end of the first page, then page by page, then what remains.  Cut(n) is *)
(* the number of bytes moved before piece n.  Callbacks are not looked at. *)
(***************************************************************************)
Cut(a, size, n) ==
  IF n = 0 THEN 0 ELSE Least(size, PageSize - InPage(a) + (n - 1) * PageSize)

Pieces(a, size) == {n \in 0..NbPages : Cut(a, size, n) < size}

(* The page and the offset byte k of a block of size bytes at a goes to. *)
PieceOf(a, size, k) ==
  CHOOSE n \in Pieces(a, size) : Cut(a, size, n) <= k /\ k < Cut(a, size, n + 1)

PieceStart(a, size, n) == Plus(a, Cut(a, size, n))

PiecePages(a, size) == {PageOf(PieceStart(a, size, n)) : n \in Pieces(a, size)}

(* Variant: the first piece goes to the start of its page. *)
BlockOffsetFromStart(a, size, k) == k - Cut(a, size, PieceOf(a, size, k))

BlockOffset(a, size, k) ==
  LET n == PieceOf(a, size, k)
  IN (IF n = 0 THEN InPage(a) ELSE 0) + k - Cut(a, size, n)

BlockPage(a, size, k) == PageOf(PieceStart(a, size, PieceOf(a, size, k)))

ReadBlock(a, n) ==
  /\ ~fault
  /\ pages' = WithPages(PiecePages(a, n))
  /\ last' = Access("load", a,
       [k \in 1..n |-> pages'[BlockPage(a, n, k - 1)].bytes[BlockOffset(a, n, k - 1)]])
  /\ UNCHANGED <<infos, fault>>

WriteBlock(a, buf) ==
  /\ ~fault
  /\ LET n == Len(buf)
         pg == WithPages(PiecePages(a, n))
         place == [k \in 0..n - 1 |-> <<BlockPage(a, n, k), BlockOffset(a, n, k)>>]
     IN pages' = [p \in DOMAIN pg |->
                    [pg[p] EXCEPT !.bytes =
                       [o \in Offset |->
                          IF \E k \in DOMAIN place : place[k] = <<p, o>>
                          THEN buf[1 + CHOOSE k \in DOMAIN place : place[k] = <<p, o>>]
                          ELSE @[o]]]]
  /\ last' = Access("store", a, buf)
  /\ UNCHANGED <<infos, fault>>

-----------------------------------------------------------------------------
(* The pages a range has bytes in. *)
PagesOf(s, e) == {p \in Page : PageOf(s) <= p /\ p <= PageOf(e)}

(* Variant: the end of the range is not in it. *)
SetRangeExclusive(s, e) ==
  /\ ~fault /\ Len(infos) < MaxInfos
  /\ LET r == [start |-> s, end |-> e + 1] IN
       /\ pages' = [WithPages({PageOf(s)}) EXCEPT ![PageOf(s)].info = r]
       /\ infos' = <<r>> \o infos
  /\ last' = Idle
  /\ UNCHANGED fault

(* csim_set_range_callback: the range is remembered for the pages created  *)
(* later; among those that exist, only the first gets the callback.        *)
SetRange(s, e) ==
  /\ ~fault /\ Len(infos) < MaxInfos
  /\ LET r == [start |-> s, end |-> e] IN
       /\ pages' = [WithPages({PageOf(s)}) EXCEPT ![PageOf(s)].info = r]
       /\ infos' = <<r>> \o infos
  /\ last' = Idle
  /\ UNCHANGED fault

(* csim_unset_range_callback: both bounds are rounded up to a page, the    *)
(* walk from the one to the other wraps around, and only existing pages    *)
(* are changed; the range stays in the list.                               *)
RoundUp(a) == Plus(a, PageSize - 1) \div PageSize

Walk(p, q) == IF p <= q THEN p..q ELSE (p..NbPages - 1) \cup (0..q)

UnsetRange(s, e) ==
  /\ ~fault
  /\ LET cleared == Walk(RoundUp(s), RoundUp(e)) IN
       /\ pages' = [p \in DOMAIN pages |->
                      IF p \in cleared THEN [pages[p] EXCEPT !.info = NULL] ELSE pages[p]]
  /\ last' = Idle
  /\ UNCHANGED <<infos, fault>>

(* csim_get_callback_data creates the page it looks at. *)
GetCallbackData(a) ==
  /\ ~fault
  /\ pages' = WithPages({PageOf(a)})
  /\ last' = Idle
  /\ UNCHANGED <<infos, fault>>

(***************************************************************************)
(* csim_mem_copy takes bucket i, the index of the first level, in each     *)
(* second-level table i: only the pages whose two hashes are equal are     *)
(* copied, and beyond H2 what lies outside of the table is taken for a     *)
(* list of pages.                                                          *)
(***************************************************************************)
Hash1(p) == p % H1
Hash2(p) == (p \div H1) % H2

Copy ==
  /\ ~fault
  /\ fault' \in {FALSE, \E p \in DOMAIN pages : Hash1(p) >= H2}
  /\ last' = Idle
  /\ UNCHANGED <<pages, infos>>

Next ==
  \/ \E a \in Starts, n \in Width :
       ReadInt(a, n) \/ \E buf \in [1..n -> Byte] : WriteInt(a, buf)
  \/ \E a \in Starts, n \in Sizes :
       ReadBlock(a, n) \/ \E buf \in [1..n -> Byte] : WriteBlock(a, buf)
  \/ \E b \in Bounds : SetRange(b[1], b[2]) \/ UnsetRange(b[1], b[2])
  \/ \E a \in Starts : GetCallbackData(a)
  \/ Copy

Spec == Init /\ [][Next]_vars

-----------------------------------------------------------------------------
TypeOK ==
  /\ DOMAIN pages \subseteq Page
  /\ \A p \in DOMAIN pages :
       pages[p] \in [bytes : [Offset -> Byte], info : Info \cup {NULL}]
  /\ infos \in Seq(Info)
  /\ fault \in BOOLEAN

(* A page is given to a device only when it has bytes of a range a device  *)
(* asked for: accesses to the other pages are never intercepted, in        *)
(* whatever order ranges are set, unset and pages created.                 *)
Intercepted ==
  \A p \in DOMAIN pages :
    pages[p].info # NULL =>
      /\ pages[p].info \in {infos[i] : i \in DOMAIN infos}
      /\ p \in PagesOf(pages[p].info.start, pages[p].info.end)

(* The pages, however they come to exist, are one array of bytes: every    *)
(* access returns and changes what FlatMemory says, until an integer       *)
(* access leaves the storage of its page.                                  *)
Flat == INSTANCE FlatMemory WITH
          Sizes <- Width \cup Sizes,
          flat <- [a \in Addr |-> ByteAt(pages, a)]

ImplementsFlat == Flat!Init /\ [][Flat!Next \/ fault']_vars

=============================================================================
