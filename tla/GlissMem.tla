------------------------------ MODULE GlissMem ------------------------------
(***************************************************************************)
(* The memories a generated simulator is linked with: lib/fast_mem.c,      *)
(* lib/vfast_mem.c, lib/mem16.c and lib/io_mem.c.  The build, a kind and   *)
(* whether the byte orders of the host and of the target differ, is chosen *)
(* in the initial state.                                                   *)
(*                                                                         *)
(* An integer is named by the bytes it has in the memory of the target, in *)
(* the order of their addresses; Host is what the host holds in a register *)
(* for it.  The hash tables are modelled by the page they resolve, except  *)
(* in the copy, which walks them.  mem16 has no page table: its storage is *)
(* one page as large as the address space.  The spy functions, and the     *)
(* pages left uninitialised by GLISS_NO_PAGE_INIT, are left out.           *)
(***************************************************************************)
EXTENDS Integers, SequencesExt

CONSTANTS
  Builds,     (* pairs <<memory, swapped>>: "fast", "vfast", "mem16", "io" *)
  PageSize,   (* MEMORY_PAGE_SIZE, MEM_PAGE_SIZE *)
  NbPages,    (* pages of the address space *)
  H1, H2,     (* sizes of the two levels of hash tables of fast_mem, io_mem *)
  Byte,       (* values of a byte, 0 among them *)
  Width,      (* sizes of the integer accesses *)
  Blocks,     (* bound: contents of the blocks written, sequences of bytes *)
  Starts,     (* bound: addresses accesses start at *)
  Bounds,     (* bound: pairs <<start, end>> callbacks are set and unset for *)
  MaxInfos,   (* bound: callbacks set *)
  NULL        (* the null pointer *)

ASSUME PageAssumption == PageSize \in Nat \ {0} /\ NbPages \in Nat \ {0}
ASSUME TableAssumption == H1 \in Nat \ {0} /\ H2 \in Nat \ {0}
ASSUME ZeroAssumption == 0 \in Byte
ASSUME BuildAssumption == Builds \subseteq {"fast", "vfast", "mem16", "io"} \X BOOLEAN
ASSUME WidthAssumption == Width \subseteq Nat \ {0}

VARIABLES
  kind,       (* the memory linked *)
  swap,       (* HOST_ENDIANNESS != TARGET_ENDIANNESS *)
  pages,      (* the allocated pages: number -> [storage, info] *)
  infos,      (* io: callback_infos.ptr, the newest first: [start, end] *)
  changed,    (* io: callback_infos.is_changed *)
  last,       (* history: the last access, [op, at, bytes] *)
  broken,     (* history: why the memory is no longer one *)
  unset       (* history: pages unset, and given no range since *)

vars == <<kind, swap, pages, infos, changed, last, broken, unset>>

Space == PageSize * NbPages
Addr == 0..Space - 1

Size == IF kind = "mem16" THEN Space ELSE PageSize
Offset == 0..Size - 1
PageOf(a) == a \div Size
InPage(a) == a % Size
First(p) == p * Size
(* Variant: the addresses do not wrap. *)
PlusForever(a, n) == a + n

Plus(a, n) == (a + n) % Space

Info == [start : Addr, end : Addr]

ASSUME BoundsAssumption ==
  /\ Starts \subseteq Addr
  /\ \A buf \in Blocks : buf \in Seq(Byte) /\ Len(buf) > 0
  /\ Bounds \subseteq Addr \X Addr

Access(op, a, bytes) == [op |-> op, at |-> a, bytes |-> bytes]
Idle == Access("none", 0, <<>>)

(* The bytes of an integer in a register of the host, and back. *)
Host(bytes) == IF swap THEN Reverse(bytes) ELSE bytes

(* vfast and mem16 keep the storage backwards when the orders differ. *)
Backwards == swap /\ kind \in {"vfast", "mem16"}

(* The index in the storage of n bytes at offset o taken as an integer. *)
Index(o, n) == IF Backwards THEN Size - n - o ELSE o

(* n bytes of the storage st from index i; junk is what lies around it. *)
Peek(st, i, n, junk) ==
  [k \in 1..n |-> IF i + k - 1 \in DOMAIN st THEN st[i + k - 1] ELSE junk]

(* The storage st with buf at index i. *)
Poke(st, i, buf) ==
  [x \in DOMAIN st |-> IF x \in i..(i + Len(buf) - 1) THEN buf[x - i + 1] ELSE st[x]]

Outside(i, n) == ~(0 <= i /\ i + n <= Size)

(* offset & (n-1) | (offset + n-1) & MEM_PAGE_SIZE *)
Direct(a, n) == a % n = 0 /\ InPage(a) + n <= Size

Zeros == [o \in Offset |-> 0]

-----------------------------------------------------------------------------
(* The callbacks of io_mem.c. *)

Matches(r, p) ==
  \/ r.start <= First(p) /\ First(p) <= r.end
  \/ r.start <= First(p) + Size - 1 /\ First(p) + Size - 1 <= r.end

FirstMatch(i, p) ==
  Matches(infos[i], p) /\ \A j \in 1..(i - 1) : ~Matches(infos[j], p)

CallbackInfo(p) ==
  IF \E i \in DOMAIN infos : FirstMatch(i, p)
  THEN infos[CHOOSE i \in DOMAIN infos : FirstMatch(i, p)]
  ELSE NULL

(* Variant: the pages there are keep their callbacks. *)
UpdatedNever == pages

(* update_callback_infos: every page there is gets its callback again. *)
Updated ==
  IF changed
  THEN [p \in DOMAIN pages |-> [pages[p] EXCEPT !.info = CallbackInfo(p)]]
  ELSE pages

-----------------------------------------------------------------------------
(* mem_get_page on each page of the set s. *)

FastPages(s) ==
  [p \in DOMAIN pages \cup s |->
     IF p \in DOMAIN pages THEN pages[p] ELSE [storage |-> Zeros, info |-> NULL]]

(* Variant: a page found in the chain is taken for a new one. *)
VfastPagesAgain(s) ==
  [p \in DOMAIN pages \cup s |->
     IF p \in s THEN [storage |-> Zeros, info |-> NULL] ELSE pages[p]]

VfastPages(s) ==
  [p \in DOMAIN pages \cup s |->
     IF p \in DOMAIN pages THEN pages[p] ELSE [storage |-> Zeros, info |-> NULL]]

IoPages(s) ==
  [p \in DOMAIN pages \cup s |->
     IF p \in DOMAIN pages THEN Updated[p]
     ELSE [storage |-> Zeros, info |-> CallbackInfo(p)]]

(* A page gets its callback when it is created or when the callbacks are   *)
(* spread: both are done by an access.                                     *)
Synchronise == changed' = FALSE /\ UNCHANGED unset

-----------------------------------------------------------------------------
(***************************************************************************)
(* A block moves piece by piece: up to the end of the first page, then     *)
(* page by page, then what remains.  Spot(a, k) is the page and the offset *)
(* the byte k of a block that starts at a goes to.                         *)
(***************************************************************************)
Room(a) == Size - InPage(a)

(* Variant: the first piece ends one byte before the page. *)
SpotShort(a, k) ==
  IF k < Room(a) - 1 THEN <<PageOf(a), InPage(a) + k>>
  ELSE LET piece == (k - Room(a) + 1) \div Size
       IN <<PageOf(Plus(a, Room(a) + piece * Size)), (k - Room(a) + 1) % Size>>

Spot(a, k) ==
  IF k < Room(a) THEN <<PageOf(a), InPage(a) + k>>
  ELSE LET piece == (k - Room(a)) \div Size
       IN <<PageOf(Plus(a, Room(a) + piece * Size)), (k - Room(a)) % Size>>

SpotPages(a, n) == {Spot(a, k)[1] : k \in 0..n - 1}

Collect(pg, a, n) ==
  [k \in 1..n |-> pg[Spot(a, k - 1)[1]].storage[Index(Spot(a, k - 1)[2], 1)]]

Spread(pg, a, buf) ==
  LET spot == [k \in DOMAIN buf |-> Spot(a, k - 1)]
      to == [k \in DOMAIN buf |-> Index(spot[k][2], 1)]
  IN [p \in DOMAIN pg |->
        [pg[p] EXCEPT !.storage =
           [i \in DOMAIN @ |->
              IF \E k \in DOMAIN buf : spot[k][1] = p /\ to[k] = i
              THEN buf[CHOOSE k \in DOMAIN buf : spot[k][1] = p /\ to[k] = i]
              ELSE @[i]]]]

(* The pages the backward loops of vfast_mem.c ask for: one more than they *)
(* use when a block that crosses pages ends with a page.                   *)
VfastSpotPages(a, n) ==
  SpotPages(a, n) \cup
    IF swap /\ n > Room(a) THEN {PageOf(Plus(a, n))} ELSE {}

-----------------------------------------------------------------------------
(* lib/fast_mem.c *)

FastReadBlock(a, n) ==
  /\ pages' = FastPages(SpotPages(a, n))
  /\ last' = Access("load", a, Collect(pages', a, n))
  /\ UNCHANGED <<broken, changed, unset>>

FastWriteBlock(a, buf) ==
  /\ pages' = Spread(FastPages(SpotPages(a, Len(buf))), a, buf)
  /\ last' = Access("store", a, buf)
  /\ UNCHANGED <<broken, changed, unset>>

(* gliss_mem_read8 to gliss_mem_readd: BSWAP gives the order of the host. *)
FastReadInt(a, n) ==
  /\ pages' = FastPages(IF Direct(a, n) THEN {PageOf(a)} ELSE SpotPages(a, n))
  /\ LET val == IF Direct(a, n)
                THEN Peek(pages'[PageOf(a)].storage, InPage(a), n, 0)
                ELSE Collect(pages', a, n)
         r == IF swap THEN Reverse(val) ELSE val
     IN last' = Access("load", a, Host(r))
  /\ UNCHANGED <<broken, changed, unset>>

(* Variant: the bytes of an integer are not put in the order of the target. *)
InvertNever(bytes) == Host(bytes)

(* "invert ?": the bytes gliss_mem_writeN puts in the storage. *)
Invert(bytes) == IF swap THEN Reverse(Host(bytes)) ELSE Host(bytes)

(* gliss_mem_write8 to gliss_mem_writed, aligned or not, write in the      *)
(* storage of one page, and beyond its end.                                *)
FastWriteInt(a, bytes) ==
  /\ LET p == PageOf(a)
         pg == FastPages({p})
     IN pages' = [pg EXCEPT ![p].storage = Poke(@, InPage(a), Invert(bytes))]
  /\ last' = Access("store", a, bytes)
  /\ broken' = IF Outside(InPage(a), Len(bytes)) THEN "overflow" ELSE "no"
  /\ UNCHANGED <<changed, unset>>

(***************************************************************************)
(* gliss_mem_copy takes bucket i, the index of the first level, in each    *)
(* second-level table i: only the pages whose two hashes are equal are     *)
(* copied, and beyond H2 what lies outside of the table is read.  The      *)
(* simulation goes on with the copy.                                       *)
(***************************************************************************)
FastCopied(p) == p % H1 = (p \div H1) % H2

FastCopy ==
  /\ pages' = [p \in {q \in DOMAIN pages : FastCopied(q)} |-> pages[p]]
  /\ last' = Idle
  /\ broken' = IF \A p \in DOMAIN pages : FastCopied(p) /\ p % H1 < H2
               THEN "no" ELSE "copy"
  /\ UNCHANGED <<changed, unset>>

Fast ==
  /\ kind = "fast"
  /\ \/ \E a \in Starts, n \in Width :
          FastReadInt(a, n) \/ \E bytes \in [1..n -> Byte] : FastWriteInt(a, bytes)
     \/ \E a \in Starts, buf \in Blocks :
          FastReadBlock(a, Len(buf)) \/ FastWriteBlock(a, buf)
     \/ FastCopy
  /\ UNCHANGED infos

-----------------------------------------------------------------------------
(* lib/vfast_mem.c *)

VfastReadBlock(a, n) ==
  /\ pages' = VfastPages(VfastSpotPages(a, n))
  /\ last' = Access("load", a, Collect(pages', a, n))
  /\ UNCHANGED <<broken, changed, unset>>

VfastWriteBlock(a, buf) ==
  /\ pages' = Spread(VfastPages(VfastSpotPages(a, Len(buf))), a, buf)
  /\ last' = Access("store", a, buf)
  /\ UNCHANGED <<broken, changed, unset>>

(* Variant: an unaligned integer is moved like an aligned one. *)
VfastDirectAlways(a, n) == n > 0

VfastDirect(a, n) == Direct(a, n)

(* An unaligned integer is moved as a block, in the order of the host: it  *)
(* is reversed when the orders differ.                                     *)
Unordered(a, n) == swap /\ ~VfastDirect(a, n)

VfastReadInt(a, n) ==
  /\ pages' = VfastPages(IF VfastDirect(a, n) THEN {PageOf(a)} ELSE VfastSpotPages(a, n))
  /\ LET r == IF VfastDirect(a, n)
              THEN Peek(pages'[PageOf(a)].storage, Index(InPage(a), n), n, 0)
              ELSE Collect(pages', a, n)
     IN last' = Access("load", a, Host(r))
  /\ broken' = IF Unordered(a, n) THEN "order" ELSE "no"
  /\ UNCHANGED <<changed, unset>>

VfastWriteInt(a, bytes) ==
  /\ LET n == Len(bytes)
         p == PageOf(a)
     IN IF VfastDirect(a, n)
        THEN /\ pages' = [VfastPages({p}) EXCEPT ![p].storage =
                            Poke(@, Index(InPage(a), n), Host(bytes))]
             /\ broken' = IF Outside(Index(InPage(a), n), n) THEN "overflow" ELSE "no"
        ELSE /\ pages' = Spread(VfastPages(VfastSpotPages(a, n)), a, Host(bytes))
             /\ broken' = IF Unordered(a, n) THEN "order" ELSE "no"
  /\ last' = Access("store", a, bytes)
  /\ UNCHANGED <<changed, unset>>

VfastCopy ==
  /\ pages' = [p \in DOMAIN pages |-> pages[p]]
  /\ last' = Idle
  /\ UNCHANGED <<broken, changed, unset>>

Vfast ==
  /\ kind = "vfast"
  /\ \/ \E a \in Starts, n \in Width :
          VfastReadInt(a, n) \/ \E bytes \in [1..n -> Byte] : VfastWriteInt(a, bytes)
     \/ \E a \in Starts, buf \in Blocks :
          VfastReadBlock(a, Len(buf)) \/ VfastWriteBlock(a, buf)
     \/ VfastCopy
  /\ UNCHANGED infos

-----------------------------------------------------------------------------
(* lib/mem16.c: the only page is there from the start; an access that goes *)
(* past the last address leaves the storage, at its end or, backwards, at  *)
(* its start.                                                              *)

Storage == pages[0].storage

Bound16(a, n) == broken' = IF Outside(Index(a, n), n) THEN "overflow" ELSE "no"

Mem16ReadBlock(a, n) ==
  /\ \E junk \in Byte :
       last' = Access("load", a,
         [k \in 1..n |-> Peek(Storage, Index(a + k - 1, 1), 1, junk)[1]])
  /\ Bound16(a, n)
  /\ UNCHANGED <<pages, changed, unset>>

Mem16WriteBlock(a, buf) ==
  /\ pages' = [pages EXCEPT ![0].storage =
                 [i \in DOMAIN @ |->
                    IF Index(i, 1) \in a..(a + Len(buf) - 1)
                    THEN buf[Index(i, 1) - a + 1] ELSE @[i]]]
  /\ last' = Access("store", a, buf)
  /\ Bound16(a, Len(buf))
  /\ UNCHANGED <<changed, unset>>

Mem16ReadInt(a, n) ==
  /\ \E junk \in Byte :
       last' = Access("load", a, Host(Peek(Storage, Index(a, n), n, junk)))
  /\ Bound16(a, n)
  /\ UNCHANGED <<pages, changed, unset>>

Mem16WriteInt(a, bytes) ==
  /\ pages' = [pages EXCEPT ![0].storage =
                 Poke(@, Index(a, Len(bytes)), Host(bytes))]
  /\ last' = Access("store", a, bytes)
  /\ Bound16(a, Len(bytes))
  /\ UNCHANGED <<changed, unset>>

Mem16Copy ==
  /\ pages' = [pages EXCEPT ![0].storage = Storage]
  /\ last' = Idle
  /\ UNCHANGED <<broken, changed, unset>>

Mem16 ==
  /\ kind = "mem16"
  /\ \/ \E a \in Starts, n \in Width :
          Mem16ReadInt(a, n) \/ \E bytes \in [1..n -> Byte] : Mem16WriteInt(a, bytes)
     \/ \E a \in Starts, buf \in Blocks :
          Mem16ReadBlock(a, Len(buf)) \/ Mem16WriteBlock(a, buf)
     \/ Mem16Copy
  /\ UNCHANGED infos

-----------------------------------------------------------------------------
(* lib/io_mem.c: fast_mem.c with callbacks.  Blocks ignore them; an        *)
(* integer read asks the device only; an integer write goes to the storage *)
(* and to the device.                                                      *)

IoReadBlock(a, n) ==
  /\ pages' = IoPages(SpotPages(a, n))
  /\ last' = Access("load", a, Collect(pages', a, n))
  /\ Synchronise
  /\ UNCHANGED <<broken, infos>>

IoWriteBlock(a, buf) ==
  /\ pages' = Spread(IoPages(SpotPages(a, Len(buf))), a, buf)
  /\ last' = Access("store", a, buf)
  /\ Synchronise
  /\ UNCHANGED <<broken, infos>>

IoReadInt(a, n) ==
  /\ LET p == PageOf(a)
         one == IoPages({p})
         all == IoPages(SpotPages(a, n))
     IN IF one[p].info # NULL
        THEN /\ pages' = one
             /\ \E bytes \in [1..n -> Byte] : last' = Access("device", a, bytes)
        ELSE IF Direct(a, n)
        THEN /\ pages' = one
             /\ last' = Access("load", a, Peek(one[p].storage, InPage(a), n, 0))
        ELSE pages' = all /\ last' = Access("load", a, Collect(all, a, n))
  /\ Synchronise
  /\ UNCHANGED <<broken, infos>>

IoWriteInt(a, bytes) ==
  /\ LET p == PageOf(a) IN
       pages' = [IoPages({p}) EXCEPT ![p].storage = Poke(@, InPage(a), Invert(bytes))]
  /\ last' = Access("store", a, bytes)
  /\ broken' = IF Outside(InPage(a), Len(bytes)) THEN "overflow" ELSE "no"
  /\ Synchronise
  /\ UNCHANGED infos

(* The callbacks are not copied; the bug of fast_mem.c is there too. *)
IoCopy ==
  /\ pages' = [p \in {q \in DOMAIN pages : FastCopied(q)} |->
                 [pages[p] EXCEPT !.info = NULL]]
  /\ infos' = <<>>
  /\ changed' = FALSE
  /\ unset' = {}
  /\ last' = Idle
  /\ broken' = IF \A p \in DOMAIN pages : FastCopied(p) /\ p % H1 < H2
               THEN "no" ELSE "copy"

(* The pages a range reaches: "the range will be extended to all the pages  *)
(* covering the given range" (io_mem.c:1035), but for the page of a range   *)
(* that has neither its first nor its last byte.                           *)
Reaches(r, p) ==
  LET first == First(p)
      final == First(p) + Size - 1
  IN /\ r.start <= final /\ first <= r.end
     /\ ~(first < r.start /\ r.end < final)

(* gliss_set_range_callback: the pages get it at the next access. *)
IoSetRange(s, e) ==
  /\ Len(infos) < MaxInfos
  /\ unset' = {p \in unset : ~Reaches([start |-> s, end |-> e], p)}
  /\ infos' = <<[start |-> s, end |-> e]>> \o infos
  /\ changed' = TRUE
  /\ last' = Idle
  /\ UNCHANGED <<pages, broken>>

(* gliss_unset_range_callback: the bounds are rounded up to a page, the    *)
(* walk wraps around, the range stays in the list.                         *)
RoundUp(a) == PageOf(Plus(a, Size - 1))

Walk(p, q) == IF p <= q THEN p..q ELSE (p..NbPages - 1) \cup (0..q)

IoUnsetRange(s, e) ==
  /\ LET cleared == Walk(RoundUp(s), RoundUp(e)) IN
       /\ pages' = [p \in DOMAIN pages |->
                      [Updated[p] EXCEPT !.info = IF p \in cleared THEN NULL ELSE @]]
       /\ unset' = unset \cup cleared
  /\ changed' = FALSE
  /\ last' = Idle
  /\ UNCHANGED <<infos, broken>>

(* gliss_get_callback_data creates the page it looks at. *)
IoGetCallbackData(a) ==
  /\ pages' = IoPages({PageOf(a)})
  /\ last' = Idle
  /\ Synchronise
  /\ UNCHANGED <<infos, broken>>

Io ==
  /\ kind = "io"
  /\ \/ \E a \in Starts, n \in Width :
          IoReadInt(a, n) \/ \E bytes \in [1..n -> Byte] : IoWriteInt(a, bytes)
     \/ \E a \in Starts, buf \in Blocks :
          IoReadBlock(a, Len(buf)) \/ IoWriteBlock(a, buf)
     \/ \E b \in Bounds : IoSetRange(b[1], b[2]) \/ IoUnsetRange(b[1], b[2])
     \/ \E a \in Starts : IoGetCallbackData(a)
     \/ IoCopy

-----------------------------------------------------------------------------
(* gliss_mem_new: no page, or for mem16 a storage nobody initialised. *)
Init ==
  /\ \E b \in Builds : kind = b[1] /\ swap = b[2]
  /\ IF kind = "mem16"
     THEN \E st \in [Offset -> Byte] : pages = [p \in {0} |-> [storage |-> st, info |-> NULL]]
     ELSE pages = [p \in {} |-> NULL]
  /\ infos = <<>>
  /\ changed = FALSE
  /\ last = Idle
  /\ broken = "no"
  /\ unset = {}

Next ==
  /\ broken = "no"
  /\ Fast \/ Vfast \/ Mem16 \/ Io
  /\ UNCHANGED <<kind, swap>>

Spec == Init /\ [][Next]_vars

-----------------------------------------------------------------------------
TypeOK ==
  /\ <<kind, swap>> \in Builds
  /\ DOMAIN pages \subseteq 0..(Space \div Size) - 1
  /\ \A p \in DOMAIN pages :
       pages[p] \in [storage : [Offset -> Byte], info : Info \cup {NULL}]
  /\ infos \in Seq(Info)
  /\ changed \in BOOLEAN
  /\ broken \in {"no", "overflow", "order", "copy"}
  /\ unset \subseteq 0..NbPages - 1

(* Whatever the memory linked and the byte orders, the memory is one array *)
(* of bytes: an integer written is read back as bytes, blocks cross pages, *)
(* a copy has the bytes of the original, until an access leaves a storage, *)
(* the copy loses pages or an unaligned integer is reversed (broken).      *)
(* The bytes of a fresh mem16 are any.                                     *)
ByteAt(a) ==
  IF PageOf(a) \in DOMAIN pages THEN pages[PageOf(a)].storage[Index(InPage(a), 1)] ELSE 0

Flat == INSTANCE FlatMemory WITH
          Sizes <- Width \cup {Len(buf) : buf \in Blocks},
          flat <- [a \in Addr |-> ByteAt(a)]

FlatStep ==
  CASE last'.op = "load" -> Flat!Load(last'.at, Len(last'.bytes))
    [] last'.op = "store" -> Flat!Store(last'.at, last'.bytes)
    [] last'.op = "device" -> Flat!Device(last'.at, last'.bytes)
    [] OTHER -> Flat!Other

ImplementsFlat ==
  /\ kind # "mem16" => Flat!Init
  /\ [][FlatStep \/ broken' # "no"]_vars

(* An access leaves its storage only when an integer is written across two *)
(* pages of fast_mem.c or io_mem.c, or past the last address of mem16.c:   *)
(* the backward accesses of vfast_mem.c never do.                          *)
Contained ==
  broken = "overflow" =>
    \/ /\ kind \in {"fast", "io"}
       /\ last.op = "store" /\ InPage(last.at) + Len(last.bytes) > PageSize
    \/ kind = "mem16" /\ last.at + Len(last.bytes) > Space

(* io_mem.c: whether a range is set before a page exists or after, the     *)
(* accesses to every address of the pages it reaches go, once an access    *)
(* has spread the callbacks, to the newest range that reaches the page,    *)
(* and to none where none does.  What was unset is told nothing about: the *)
(* ranges stay in the list, and come back with the next one that is set or *)
(* the next page.                                                          *)
Spreads ==
  ~changed =>
    \A a \in Addr :
      LET p == PageOf(a)
          over == {i \in DOMAIN infos : Reaches(infos[i], p)}
      IN p \in DOMAIN pages \ unset =>
           /\ over = {} => pages[p].info = NULL
           /\ \A i \in over : (\A j \in over : i <= j) => pages[p].info = infos[i]

=============================================================================
