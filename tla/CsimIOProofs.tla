---------------------------- MODULE CsimIOProofs ----------------------------
(***************************************************************************)
(* Proofs about CsimIO: the registers of every component, whatever their   *)
(* addresses, their number and the accesses made before and in between,    *)
(* are on pages whose accesses go to csim_on_io, and no other page is; and *)
(* csim_on_io finds the registers declared at the address, with their      *)
(* numbers, and no other.  Then, about CsimGpio, the component that these  *)
(* registers belong to: a message changes no output but the one it is for. *)
(***************************************************************************)
EXTENDS CsimIO, CsimGpio, TLAPS

SlotOK ==
  /\ life \in [Inst -> {"raw", "live", "freed"}]
  /\ slot = NULL \/ \E i \in Inst : life[i] = "live" /\ slot \in Slots(i)

(* An element of pages is a record of storage and callback. *)
PageLike(x) == x = [bytes |-> x.bytes, info |-> x.info]

RecordsOK == \A p \in DOMAIN pages : PageLike(pages[p])

IoInv == SlotOK /\ RecordsOK /\ Reachable

(* The pages that exist remain, and those given away are not taken back.   *)
PagesKept ==
  \A p \in DOMAIN pages :
    p \in DOMAIN pages' /\ (pages[p].info # NULL => pages'[p].info # NULL)

-----------------------------------------------------------------------------
(* The first byte of a page is in that page. *)
LEMMA FirstInPage ==
  ASSUME NEW p \in Nat PROVE Mem!PageOf(Mem!First(p)) = p
<1>1. \A n \in Nat \ {0} : (p * n) \div n = p
  BY SMTT(30)
<1> QED BY <1>1, MemoryAssumption DEF Mem!PageOf, Mem!First

LEMMA PageOfNat ==
  ASSUME NEW a \in Nat PROVE Mem!PageOf(a) \in Nat
<1>1. \A n \in Nat \ {0} : a \div n \in Nat
  BY SMTT(30)
<1> QED BY <1>1, MemoryAssumption DEF Mem!PageOf

LEMMA SpaceType == Mem!Space \in Nat \ {0}
<1>1. \A m, n \in Nat \ {0} : m * n \in Nat \ {0}
  BY SMTT(30)
<1> QED BY <1>1, MemoryAssumption DEF Mem!Space

(* What belongs to Slots(i). *)
LEMMA SlotFields ==
  ASSUME NEW i \in Inst, NEW s \in Slots(i)
  PROVE  /\ s = [inst |-> s.inst, reg |-> s.reg, num |-> s.num]
         /\ s.inst = i
         /\ s.reg \in 1..Len(Regs[i])
         /\ s.num \in 0..Regs[i][s.reg].count - 1
BY InstAssumption DEF Slots, Slot

LEMMA SlotIn ==
  ASSUME NEW i \in Inst, NEW r \in 1..Len(Regs[i]), NEW k \in 0..Regs[i][r].count - 1
  PROVE  Slot(i, r, k) \in Slots(i)
<1>1. DOMAIN Regs[i] = 1..Len(Regs[i])
  BY InstAssumption
<1> QED BY <1>1 DEF Slots

LEMMA RegType ==
  ASSUME NEW i \in Inst
  PROVE  /\ Len(Regs[i]) \in Nat \ {0}
         /\ \A r \in 1..Len(Regs[i]) :
              /\ Regs[i][r].count \in Nat \ {0}
              /\ Regs[i][r].stride \in Nat
              /\ Regs[i][r].offset \in Nat
         /\ Base[i] \in Nat
<1>1. Regs[i] \in Seq(Reg) /\ Regs[i] # <<>>
  BY InstAssumption
<1>2. Len(Regs[i]) \in Nat \ {0}
  BY <1>1
<1>3. \A r \in 1..Len(Regs[i]) : Regs[i][r] \in Reg
  BY <1>1
<1>4. Base[i] \in Nat
  BY InstAssumption DEF Mem!Addr
<1>5. \A x \in Reg : x.count \in Nat \ {0} /\ x.stride \in Nat /\ x.offset \in Nat
  BY DEF Reg, Mem!Addr
<1> QED BY <1>2, <1>3, <1>4, <1>5

(* The address of a register is a natural number. *)
LEMMA SlotAddrType ==
  ASSUME NEW i \in Inst, NEW s \in Slots(i)
  PROVE  SlotAddr(s) \in Nat
<1>1. \A b, k, st, off \in Nat : b + k * st + off \in Nat
  BY SMTT(30)
<1>2. Base[i] + s.num * Regs[i][s.reg].stride + Regs[i][s.reg].offset \in Nat
  BY <1>1, SlotFields, RegType
<1>3. \A x \in Nat, n \in Nat \ {0} : x % n \in Nat
  BY SMTT(30)
<1> QED BY <1>2, <1>3, SpaceType, SlotFields DEF SlotAddr, RegAddr

-----------------------------------------------------------------------------
(* A step that enters nothing and keeps the pages keeps the invariant.     *)
LEMMA ReachableKept ==
  ASSUME Reachable, PagesKept, Entered' \subseteq Entered
  PROVE  Reachable'
BY DEF Reachable, PagesKept

LEMMA SamePages == ASSUME UNCHANGED memory PROVE PagesKept
BY DEF memory, PagesKept

LEMMA NewComponentFew ==
  ASSUME IoInv, NEW i \in Inst, NewComponent(i)
  PROVE  Entered' \subseteq Entered
<1>1. slot' = [inst |-> i, reg |-> 1, num |-> 0]
  BY DEF NewComponent, Slot
<1> SUFFICES ASSUME NEW s \in Entered' PROVE s \in Entered
  OBVIOUS
<1>2. PICK j \in Inst : life'[j] # "raw" /\ s \in Slots(j)
  BY DEF Entered
<1>3. s.inst = j /\ s.reg \in Nat /\ s.reg >= 1 /\ s.num \in Nat
  BY <1>2, SlotFields, RegType
<1>4. slot' # NULL
  BY <1>1, InstAssumption
<1>5. j # i
  BY <1>1, <1>3, <1>4 DEF Entered
<1>6. life[j] # "raw"
  BY <1>2, <1>5 DEF NewComponent, IoInv, SlotOK
<1>7. slot = NULL
  BY DEF NewComponent, Idle
<1> QED BY <1>2, <1>6, <1>7 DEF Entered

LEMMA NewComponentInv ==
  ASSUME IoInv, NEW i \in Inst, NewComponent(i)
  PROVE  IoInv'
<1>1. life' \in [Inst -> {"raw", "live", "freed"}] /\ life'[i] = "live"
  BY DEF NewComponent, IoInv, SlotOK
<1>2. slot' = [inst |-> i, reg |-> 1, num |-> 0]
  BY DEF NewComponent, Slot
<1>3. slot' \in Slots(i)
  BY <1>2, RegType DEF Slots, Slot
<1>4. Entered' \subseteq Entered
  BY NewComponentFew
<1>5. Reachable'
  BY <1>4, SamePages, ReachableKept DEF NewComponent, IoInv
<1>6. RecordsOK'
  BY DEF NewComponent, memory, IoInv, RecordsOK
<1> QED BY <1>1, <1>3, <1>5, <1>6 DEF IoInv, SlotOK

LEMMA ExceptField ==
  ASSUME NEW x, PageLike(x), NEW v
  PROVE  /\ [x EXCEPT !.info = v] = [bytes |-> x.bytes, info |-> v]
         /\ [x EXCEPT !.bytes = v] = [bytes |-> v, info |-> x.info]
<1>1. ASSUME NEW b, NEW c
      PROVE  /\ [[bytes |-> b, info |-> c] EXCEPT !.info = v] = [bytes |-> b, info |-> v]
             /\ [[bytes |-> b, info |-> c] EXCEPT !.bytes = v] = [bytes |-> v, info |-> c]
  OBVIOUS
<1>2. x = [bytes |-> x.bytes, info |-> x.info]
  BY DEF PageLike
<1> QED BY <1>1, <1>2

LEMMA WithPagesLike ==
  ASSUME RecordsOK, NEW s
  PROVE  /\ DOMAIN Mem!WithPages(s) = DOMAIN pages \cup s
         /\ \A x \in DOMAIN pages : Mem!WithPages(s)[x] = pages[x]
         /\ \A x \in DOMAIN pages \cup s : PageLike(Mem!WithPages(s)[x])
<1>1. \A x : PageLike(Mem!Fresh(x))
  BY DEF PageLike, Mem!Fresh
<1> QED BY <1>1 DEF Mem!WithPages, RecordsOK

(* The page of the new register is given to csim_on_io. *)
LEMMA GivePageGives ==
  ASSUME RecordsOK, NEW a \in Nat, NEW size \in Nat, GivePage(a, size)
  PROVE  /\ PagesKept
         /\ RecordsOK'
         /\ Mem!PageOf(a) \in DOMAIN pages'
         /\ pages'[Mem!PageOf(a)].info # NULL
<1> DEFINE p == Mem!PageOf(a)
           pa == Mem!First(p)
           W == Mem!WithPages({p})
<1>1. p \in Nat
  BY PageOfNat
<1>2. Mem!PageOf(pa) = p
  BY <1>1, FirstInPage
<1>3. /\ DOMAIN W = DOMAIN pages \cup {p}
      /\ \A x \in DOMAIN pages : W[x] = pages[x]
      /\ \A x \in DOMAIN W : PageLike(W[x])
  BY WithPagesLike
<1>4. CASE W[p].info = NULL
  <2> DEFINE r == [start |-> pa, end |-> pa + size - 1]
  <2>1. Mem!SetRange(pa, pa + size - 1)
    BY <1>4 DEF GivePage
  <2>2. pages' = [W EXCEPT ![p].info = r]
    BY <2>1, <1>2 DEF Mem!SetRange
  <2>3. pa \in Nat
    <3>1. \A m, n \in Nat : m * n \in Nat
      BY SMTT(30)
    <3> QED BY <1>1, <3>1, MemoryAssumption DEF Mem!First
  <2>4. r # NULL
    BY <2>3, InstAssumption
  <2> HIDE DEF p, pa, W, r
  <2>5. /\ DOMAIN pages' = DOMAIN W
        /\ \A x \in DOMAIN W : x # p => pages'[x] = W[x]
        /\ pages'[p] = [W[p] EXCEPT !.info = r]
    BY <2>2, <1>3
  <2>6. pages'[p] = [bytes |-> W[p].bytes, info |-> r]
    BY <2>5, <1>3, ExceptField
  <2>7. PagesKept
    BY <2>4, <2>5, <2>6, <1>3 DEF PagesKept
  <2>8. RecordsOK'
    BY <2>5, <2>6, <1>3 DEF RecordsOK, PageLike
  <2>9. p \in DOMAIN pages' /\ pages'[p].info # NULL
    BY <2>4, <2>5, <2>6, <1>3
  <2> QED BY <2>7, <2>8, <2>9 DEF p
<1>5. CASE W[p].info # NULL
  <2>1. Mem!GetCallbackData(pa)
    BY <1>5 DEF GivePage
  <2>2. pages' = W
    BY <2>1, <1>2 DEF Mem!GetCallbackData
  <2> HIDE DEF p, pa, W
  <2>3. PagesKept
    BY <2>2, <1>3 DEF PagesKept
  <2>4. RecordsOK'
    BY <2>2, <1>3 DEF RecordsOK
  <2>5. p \in DOMAIN pages' /\ pages'[p].info # NULL
    BY <2>2, <1>3, <1>5
  <2> QED BY <2>3, <2>4, <2>5 DEF p
<1> QED BY <1>4, <1>5

(* The slots entered grow by the current one only: NextSlot leaves no slot *)
(* behind, neither within a group nor from one to the next.                *)
LEMMA EnteredGrows ==
  ASSUME IoInv, IoAdd
  PROVE  Entered' \subseteq Entered \cup {slot}
<1>1. PICK i \in Inst : life[i] = "live" /\ slot \in Slots(i)
  BY DEF IoInv, SlotOK, IoAdd
<1>2. SUFFICES ASSUME NEW s \in Entered', s \notin Entered PROVE s = slot
  OBVIOUS
<1>3. PICK j \in Inst : life[j] # "raw" /\ s \in Slots(j)
  BY DEF Entered, IoAdd
<1>4. /\ s = [inst |-> s.inst, reg |-> s.reg, num |-> s.num] /\ s.inst = j
      /\ s.reg \in 1..Len(Regs[j]) /\ s.num \in 0..Regs[j][s.reg].count - 1
  BY <1>3, SlotFields
<1>5. /\ slot = [inst |-> i, reg |-> slot.reg, num |-> slot.num] /\ slot.inst = i
      /\ slot.reg \in 1..Len(Regs[i]) /\ slot.num \in 0..Regs[i][slot.reg].count - 1
  BY <1>1, SlotFields
<1>6. j = i /\ ~(s.reg < slot.reg) /\ ~(s.reg = slot.reg /\ s.num < slot.num)
  BY <1>2, <1>3, <1>4, <1>5 DEF Entered, IoAdd
<1>7. s.reg = slot.reg /\ s.num = slot.num
  <2>1. CASE slot.num + 1 < Regs[i][slot.reg].count
    <3>1. slot' = [inst |-> i, reg |-> slot.reg, num |-> slot.num + 1]
      BY <2>1, <1>5 DEF IoAdd, NextSlot, Slot
    <3>2. slot' # NULL
      BY <3>1, <1>5, RegType, InstAssumption
    <3>3. s.reg < slot.reg \/ (s.reg = slot.reg /\ s.num < slot.num + 1)
      BY <1>2, <1>4, <1>6, <3>1, <3>2 DEF Entered
    <3> QED BY <3>3, <1>4, <1>5, <1>6, RegType
  <2>2. CASE ~(slot.num + 1 < Regs[i][slot.reg].count) /\ slot.reg < Len(Regs[i])
    <3>1. slot' = [inst |-> i, reg |-> slot.reg + 1, num |-> 0]
      BY <2>2, <1>5 DEF IoAdd, NextSlot, Slot
    <3>2. slot' # NULL
      BY <3>1, <1>5, RegType, InstAssumption
    <3>3. s.reg < slot.reg + 1 \/ (s.reg = slot.reg + 1 /\ s.num < 0)
      BY <1>2, <1>4, <1>6, <3>1, <3>2 DEF Entered
    <3> QED BY <2>2, <3>3, <1>4, <1>5, <1>6, RegType
  <2>3. CASE ~(slot.num + 1 < Regs[i][slot.reg].count) /\ ~(slot.reg < Len(Regs[i]))
    BY <2>3, <1>4, <1>5, <1>6, RegType
  <2> QED BY <2>1, <2>2, <2>3
<1> QED BY <1>4, <1>5, <1>6, <1>7

LEMMA IoAddInv ==
  ASSUME IoInv, IoAdd
  PROVE  IoInv'
<1>1. PICK i \in Inst : life[i] = "live" /\ slot \in Slots(i)
  BY DEF IoInv, SlotOK, IoAdd
<1>2. /\ slot = [inst |-> i, reg |-> slot.reg, num |-> slot.num] /\ slot.inst = i
      /\ slot.reg \in 1..Len(Regs[i]) /\ slot.num \in 0..Regs[i][slot.reg].count - 1
  BY <1>1, SlotFields
<1>3. SlotAddr(slot) \in Nat
  BY <1>1, SlotAddrType
<1>4. Regs[i][slot.reg].size \in Nat
  <2>1. Regs[i] \in Seq(Reg)
    BY InstAssumption
  <2>2. Regs[i][slot.reg] \in Reg
    BY <1>2, <2>1
  <2> QED BY <2>2 DEF Reg
<1>5. GivePage(SlotAddr(slot), Regs[i][slot.reg].size)
  BY <1>2 DEF IoAdd
<1>6. /\ PagesKept /\ RecordsOK'
      /\ Mem!PageOf(SlotAddr(slot)) \in DOMAIN pages'
      /\ pages'[Mem!PageOf(SlotAddr(slot))].info # NULL
  BY <1>3, <1>4, <1>5, GivePageGives DEF IoInv
<1>7. Reachable'
  BY <1>6, EnteredGrows DEF IoInv, Reachable, PagesKept
<1>8. slot' = NULL \/ slot' \in Slots(i)
  <2>1. CASE slot.num + 1 < Regs[i][slot.reg].count
    <3>1. slot' = Slot(i, slot.reg, slot.num + 1)
      BY <2>1, <1>2 DEF IoAdd, NextSlot
    <3>2. slot.num + 1 \in 0..Regs[i][slot.reg].count - 1
      BY <2>1, <1>2, RegType
    <3> QED BY <3>1, <3>2, <1>2, SlotIn
  <2>2. CASE ~(slot.num + 1 < Regs[i][slot.reg].count) /\ slot.reg < Len(Regs[i])
    <3>1. slot' = Slot(i, slot.reg + 1, 0)
      BY <2>2, <1>2 DEF IoAdd, NextSlot
    <3>2. slot.reg + 1 \in 1..Len(Regs[i]) /\ 0 \in 0..Regs[i][slot.reg + 1].count - 1
      BY <2>2, <1>2, RegType
    <3> QED BY <3>1, <3>2, SlotIn
  <2>3. CASE ~(slot.num + 1 < Regs[i][slot.reg].count) /\ ~(slot.reg < Len(Regs[i]))
    BY <2>3, <1>2 DEF IoAdd, NextSlot
  <2> QED BY <2>1, <2>2, <2>3
<1> QED BY <1>1, <1>6, <1>7, <1>8 DEF IoInv, SlotOK, IoAdd

-----------------------------------------------------------------------------
(* An access of the simulated program creates the page it falls on and     *)
(* changes bytes, never callbacks.                                         *)
LEMMA ReadKeeps ==
  ASSUME RecordsOK, NEW a, NEW n, Mem!ReadInt(a, n)
  PROVE  PagesKept /\ RecordsOK'
<1>1. pages' = Mem!WithPages({Mem!PageOf(a)})
  BY DEF Mem!ReadInt
<1> QED BY <1>1, WithPagesLike DEF PagesKept, RecordsOK

LEMMA WriteKeeps ==
  ASSUME RecordsOK, NEW a, NEW buf, Mem!WriteInt(a, buf)
  PROVE  PagesKept /\ RecordsOK'
<1> DEFINE p == Mem!PageOf(a)
           W == Mem!WithPages({p})
           new == Mem!Put(W[p].bytes, Mem!InPage(a), buf)
<1>1. pages' = W \/ pages' = [W EXCEPT ![p].bytes = new]
  BY DEF Mem!WriteInt
<1>2. /\ DOMAIN W = DOMAIN pages \cup {p}
      /\ \A x \in DOMAIN pages : W[x] = pages[x]
      /\ \A x \in DOMAIN W : PageLike(W[x])
  BY WithPagesLike
<1> HIDE DEF p, W, new
<1>3. CASE pages' = W
  BY <1>2, <1>3 DEF PagesKept, RecordsOK
<1>4. CASE pages' = [W EXCEPT ![p].bytes = new]
  <2>1. /\ DOMAIN pages' = DOMAIN W
        /\ \A x \in DOMAIN W : x # p => pages'[x] = W[x]
        /\ pages'[p] = [W[p] EXCEPT !.bytes = new]
    BY <1>2, <1>4
  <2>2. pages'[p] = [bytes |-> new, info |-> W[p].info]
    BY <2>1, <1>2, ExceptField
  <2>3. PagesKept
    <3>1. pages'[p].info = W[p].info
      BY <2>2
    <3>2. ASSUME NEW x \in DOMAIN pages
          PROVE  x \in DOMAIN pages' /\ pages'[x].info = pages[x].info
      <4>1. CASE x = p
        BY <4>1, <3>1, <2>1, <1>2
      <4>2. CASE x # p
        BY <4>2, <2>1, <1>2
      <4> QED BY <4>1, <4>2
    <3> QED BY <3>2 DEF PagesKept
  <2>4. RecordsOK'
    BY <2>1, <2>2, <1>2 DEF RecordsOK, PageLike
  <2> QED BY <2>3, <2>4
<1> QED BY <1>1, <1>3, <1>4

LEMMA AccessInv ==
  ASSUME IoInv, NEW a, NEW n, Access(a, n)
  PROVE  IoInv'
<1>1. PagesKept /\ RecordsOK'
  BY ReadKeeps, WriteKeeps DEF Access, IoInv
<1>2. Entered' = Entered
  BY DEF Access, Entered
<1>3. SlotOK'
  BY DEF Access, IoInv, SlotOK
<1> QED BY <1>1, <1>2, <1>3, ReachableKept DEF IoInv

(* Components and boards are deleted between two calls of                  *)
(* csim_new_component, and memory is left as it is.                        *)
LEMMA DeletionInv ==
  ASSUME IoInv, UNCHANGED memory, slot' = NULL, slot = NULL,
         life' \in [Inst -> {"raw", "live", "freed"}],
         \A i \in Inst : life'[i] # "raw" => life[i] # "raw"
  PROVE  IoInv'
<1>1. Entered' \subseteq Entered
  BY DEF Entered
<1>2. RecordsOK'
  BY DEF IoInv, RecordsOK, memory
<1> QED BY <1>1, <1>2, SamePages, ReachableKept DEF IoInv, SlotOK

LEMMA InitInv == Init => IoInv
<1> SUFFICES ASSUME Init PROVE IoInv
  OBVIOUS
<1>1. \A i \in Inst : life[i] = "raw"
  BY DEF Init
<1>2. Entered = {}
  BY <1>1 DEF Entered
<1>3. DOMAIN pages = {}
  BY DEF Init, Mem!Init
<1>4. SlotOK
  BY DEF Init, SlotOK
<1> QED BY <1>2, <1>3, <1>4 DEF IoInv, Reachable, RecordsOK

LEMMA NextInv == IoInv /\ [Next]_vars => IoInv'
<1> SUFFICES ASSUME IoInv, [Next]_vars PROVE IoInv'
  OBVIOUS
<1>1. ASSUME NEW i \in Inst, NewComponent(i) PROVE IoInv'
  BY <1>1, NewComponentInv
<1>2. ASSUME NEW i \in Inst, DeleteComponent(i) PROVE IoInv'
  <2>1. \A j \in Inst : life'[j] # "raw" => life[j] # "raw"
    BY <1>2 DEF DeleteComponent, Live, IoInv, SlotOK
  <2>2. life' \in [Inst -> {"raw", "live", "freed"}]
    BY <1>2 DEF DeleteComponent, IoInv, SlotOK
  <2> QED BY <1>2, <2>1, <2>2, DeletionInv DEF DeleteComponent, Idle
<1>3. ASSUME NEW i \in Inst, NEW r \in DOMAIN Regs[i], IoRemove(i, r) PROVE IoInv'
  BY <1>3, DeletionInv DEF IoRemove, Idle, IoInv, SlotOK
<1>4. CASE IoAdd
  BY <1>4, IoAddInv
<1>5. ASSUME NEW a \in Starts, NEW n \in {1, 2, 4}, Access(a, n) PROVE IoInv'
  BY <1>5, AccessInv
<1>6. CASE DeleteBoard
  <2>1. \A j \in Inst : life'[j] # "raw" => life[j] # "raw"
    BY <1>6 DEF DeleteBoard, Live
  <2>2. life' \in [Inst -> {"raw", "live", "freed"}]
    BY <1>6 DEF DeleteBoard, IoInv, SlotOK
  <2> QED BY <1>6, <2>1, <2>2, DeletionInv DEF DeleteBoard, Idle
<1>7. CASE UNCHANGED vars
  <2>1. UNCHANGED <<life, slot, pages>>
    BY <1>7 DEF vars, memory
  <2> QED BY <2>1 DEF IoInv, SlotOK, RecordsOK, Reachable, Entered
<1> QED BY <1>1, <1>2, <1>3, <1>4, <1>5, <1>6, <1>7 DEF Next

(* Every register of every component is reached through the memory: its    *)
(* page is given to csim_on_io, and stays so.                              *)
THEOREM RegistersReachable == Spec => []Reachable
<1>1. IoInv => Reachable
  BY DEF IoInv
<1> QED BY InitInv, NextInv, <1>1, PTL DEF Spec

-----------------------------------------------------------------------------
(* The pages taken from the memory.  A range that is set lies in the page  *)
(* of a register that is entered, so that what get_callback_info finds for *)
(* a new page is the page of a register too.                               *)
PageOfSlot(s) == Mem!PageOf(SlotAddr(s))

RangesOK ==
  /\ infos \in Seq([start : Nat, end : Int])
  /\ \A i \in DOMAIN infos : \E s \in Entered :
       /\ infos[i].start = Mem!First(PageOfSlot(s))
       /\ infos[i].end <= infos[i].start + 3

OnlyInv == RangesOK /\ OnlyRegisterPages /\ DOMAIN pages \subseteq Nat

(* An address is in one page only.                                         *)
LEMMA OnePage ==
  ASSUME NEW p \in Nat, NEW q \in Nat, NEW n \in Nat \ {0}, NEW d \in 0..n - 1,
         NEW e \in 0..n - 1, p * n + d = q * n + e
  PROVE  p = q
<1>1. (p * n + d) \div n = p
  BY SMTT(30)
<1>2. (q * n + e) \div n = q
  BY SMTT(30)
<1> QED BY <1>1, <1>2

(* A range in a page has the first or the last byte of that page only.     *)
LEMMA MatchesOwn ==
  ASSUME NEW p \in Nat, NEW q \in Nat, NEW r \in [start : Nat, end : Int],
         r.start = Mem!First(q), r.end <= r.start + 3, Mem!Matches(r, p)
  PROVE  p = q
<1> DEFINE n == PageSize
           x == p * n
           y == q * n
<1>1. n \in Nat \ {0} /\ n >= 4
  BY MemoryAssumption
<1>2. x \in Nat /\ y \in Nat
  BY <1>1, SMTT(30)
<1>3. r.start = y /\ r.end \in Int /\ r.end <= y + 3
  BY DEF Mem!First
<1>4. \/ y <= x /\ x <= r.end
      \/ y <= x + n - 1 /\ x + n - 1 <= r.end
  BY <1>3 DEF Mem!Matches, Mem!First
<1> HIDE DEF n, x, y
<1>5. CASE y <= x /\ x <= r.end
  <2>1. x - y \in 0..n - 1 /\ 0 \in 0..n - 1 /\ x + 0 = y + (x - y)
    BY <1>1, <1>2, <1>3, <1>5
  <2> QED BY <1>1, <2>1, OnePage DEF x, y
<1>6. CASE y <= x + n - 1 /\ x + n - 1 <= r.end
  <2> DEFINE d == x + n - 1 - y
  <2>1. d \in 0..n - 1 /\ n - 1 \in 0..n - 1 /\ x + (n - 1) = y + d
    BY <1>1, <1>2, <1>3, <1>6
  <2> HIDE DEF d
  <2> QED BY <1>1, <2>1, OnePage DEF x, y
<1> QED BY <1>4, <1>5, <1>6

LEMMA PageOfSlotType ==
  ASSUME NEW s \in Entered PROVE PageOfSlot(s) \in Nat
BY SlotAddrType, PageOfNat DEF Entered, PageOfSlot

(* The pages an access creates are ordinary, or hold a register.           *)
LEMMA WithPagesOnly ==
  ASSUME OnlyInv, NEW p \in Nat, NEW x \in DOMAIN Mem!WithPages({p})
  PROVE  /\ x \in Nat
         /\ Mem!WithPages({p})[x].info # NULL =>
              \E s \in Entered : PageOfSlot(s) = x
<1>1. CASE x \in DOMAIN pages
  BY <1>1 DEF Mem!WithPages, OnlyInv, OnlyRegisterPages, PageOfSlot
<1>2. CASE x \notin DOMAIN pages
  <2>1. x = p /\ Mem!WithPages({p})[x].info = Mem!CallbackInfo(p)
    BY <1>2 DEF Mem!WithPages, Mem!Fresh
  <2>2. ASSUME Mem!CallbackInfo(p) # NULL
        PROVE  \E s \in Entered : PageOfSlot(s) = p
    <3>1. PICK i \in DOMAIN infos : Mem!Matches(infos[i], p)
      BY <2>2 DEF Mem!CallbackInfo, Mem!FirstMatch
    <3>2. PICK s \in Entered : /\ infos[i].start = Mem!First(PageOfSlot(s))
                               /\ infos[i].end <= infos[i].start + 3
      BY DEF OnlyInv, RangesOK
    <3>3. infos[i] \in [start : Nat, end : Int]
      <4>1. \A T : \A q \in Seq(T) : \A k \in DOMAIN q : q[k] \in T
        OBVIOUS
      <4> QED BY <4>1 DEF OnlyInv, RangesOK
    <3>4. PageOfSlot(s) = p
      BY <3>1, <3>2, <3>3, PageOfSlotType, MatchesOwn
    <3> QED BY <3>4
  <2> QED BY <2>1, <2>2
<1> QED BY <1>1, <1>2

(* What is entered stays entered, and the pages stay those of registers.   *)
LEMMA OnlyKept ==
  ASSUME OnlyInv, Entered \subseteq Entered', infos' = infos,
         \A p \in DOMAIN pages' :
           p \in Nat /\ (pages'[p].info # NULL => \E s \in Entered : PageOfSlot(s) = p)
  PROVE  OnlyInv'
<1>1. RangesOK'
  BY DEF OnlyInv, RangesOK, PageOfSlot, SlotAddr, RegAddr
<1>2. OnlyRegisterPages'
  BY DEF OnlyRegisterPages, PageOfSlot, SlotAddr, RegAddr
<1> QED BY <1>1, <1>2 DEF OnlyInv

LEMMA OnlySame ==
  ASSUME OnlyInv, Entered \subseteq Entered', UNCHANGED <<pages, infos>>
  PROVE  OnlyInv'
<1>1. \A p \in DOMAIN pages :
        p \in Nat /\ (pages[p].info # NULL => \E s \in Entered : PageOfSlot(s) = p)
  BY DEF OnlyInv, OnlyRegisterPages, PageOfSlot
<1> QED BY <1>1, OnlyKept

LEMMA NewComponentEntered ==
  ASSUME IoInv, NEW i \in Inst, NewComponent(i)
  PROVE  Entered \subseteq Entered'
<1> SUFFICES ASSUME NEW s \in Entered PROVE s \in Entered'
  OBVIOUS
<1>1. PICK j \in Inst : life[j] # "raw" /\ s \in Slots(j)
  BY DEF Entered
<1>2. s.inst = j /\ j # i
  BY <1>1, SlotFields DEF NewComponent
<1>3. life'[j] # "raw"
  BY <1>1, <1>2 DEF NewComponent, IoInv, SlotOK
<1>4. slot'.inst = i
  BY DEF NewComponent, Slot
<1> QED BY <1>1, <1>2, <1>3, <1>4 DEF Entered

LEMMA IoAddEntered ==
  ASSUME IoInv, IoAdd
  PROVE  Entered \cup {slot} \subseteq Entered'
<1>1. PICK i \in Inst : life[i] = "live" /\ slot \in Slots(i)
  BY DEF IoInv, SlotOK, IoAdd
<1>2. /\ slot = [inst |-> i, reg |-> slot.reg, num |-> slot.num] /\ slot.inst = i
      /\ slot.reg \in 1..Len(Regs[i]) /\ slot.num \in 0..Regs[i][slot.reg].count - 1
  BY <1>1, SlotFields
<1>3. \/ slot' = NULL
      \/ slot' = [inst |-> i, reg |-> slot.reg, num |-> slot.num + 1]
      \/ slot' = [inst |-> i, reg |-> slot.reg + 1, num |-> 0]
  BY <1>2 DEF IoAdd, NextSlot, Slot
<1>4. SUFFICES ASSUME NEW s \in Entered \cup {slot} PROVE s \in Entered'
  OBVIOUS
<1>5. PICK j \in Inst : life[j] # "raw" /\ s \in Slots(j)
  BY <1>1 DEF Entered
<1>6. /\ s.inst = j /\ s.reg \in 1..Len(Regs[j])
      /\ s.num \in 0..Regs[j][s.reg].count - 1
  BY <1>5, SlotFields
<1>7. \/ s = slot
      \/ s.inst # i
      \/ s.reg < slot.reg
      \/ s.reg = slot.reg /\ s.num < slot.num
  BY <1>2, <1>4 DEF Entered, IoAdd
<1>8. slot' = NULL \/ s.inst # slot'.inst \/ s.reg < slot'.reg
        \/ (s.reg = slot'.reg /\ s.num < slot'.num)
  <2>1. /\ s.reg \in Nat /\ s.num \in Nat /\ slot.reg \in Nat /\ slot.num \in Nat
    BY <1>2, <1>5, <1>6, RegType
  <2>2. CASE slot' = [inst |-> i, reg |-> slot.reg, num |-> slot.num + 1]
    <3>1. slot'.inst = i /\ slot'.reg = slot.reg /\ slot'.num = slot.num + 1
      BY <2>2
    <3> QED BY <1>7, <2>1, <3>1
  <2>3. CASE slot' = [inst |-> i, reg |-> slot.reg + 1, num |-> 0]
    <3>1. slot'.inst = i /\ slot'.reg = slot.reg + 1 /\ slot'.num = 0
      BY <2>3
    <3> QED BY <1>7, <2>1, <3>1
  <2> QED BY <1>3, <2>2, <2>3
<1>9. life' = life
  BY DEF IoAdd
<1> QED BY <1>5, <1>8, <1>9 DEF Entered

LEMMA IoAddOnly ==
  ASSUME IoInv, OnlyInv, IoAdd
  PROVE  OnlyInv'
<1>1. PICK i \in Inst : life[i] = "live" /\ slot \in Slots(i)
  BY DEF IoInv, SlotOK, IoAdd
<1>2. /\ slot.inst = i /\ slot.reg \in 1..Len(Regs[i])
  BY <1>1, SlotFields
<1> DEFINE size == Regs[i][slot.reg].size
           p == PageOfSlot(slot)
           pa == Mem!First(p)
           W == Mem!WithPages({p})
           r == [start |-> pa, end |-> pa + size - 1]
<1>3. size \in Nat /\ size <= 4
  <2>1. Regs[i] \in Seq(Reg)
    BY InstAssumption
  <2>2. Regs[i][slot.reg] \in Reg
    BY <1>2, <2>1
  <2> QED BY <2>2 DEF Reg
<1>4. p \in Nat
  BY <1>1, SlotAddrType, PageOfNat DEF PageOfSlot
<1>5. pa \in Nat
  <2>1. \A m, n \in Nat : m * n \in Nat
    BY SMTT(30)
  <2> QED BY <1>4, <2>1, MemoryAssumption DEF Mem!First
<1>6. Entered \cup {slot} \subseteq Entered'
  BY IoAddEntered
<1>7. GivePage(SlotAddr(slot), size)
  BY <1>2 DEF IoAdd
<1>8. \A x \in DOMAIN W :
        x \in Nat /\ (W[x].info # NULL => \E s \in Entered : PageOfSlot(s) = x)
  BY <1>4, WithPagesOnly
<1>9. Mem!PageOf(pa) = p
  BY <1>4, FirstInPage
<1>10. CASE W[p].info # NULL
  <2>1. Mem!GetCallbackData(pa)
    BY <1>7, <1>10 DEF GivePage, PageOfSlot
  <2>2. pages' = W /\ infos' = infos
    BY <2>1, <1>9 DEF Mem!GetCallbackData
  <2> HIDE DEF W, p, pa, size, r
  <2> QED BY <1>6, <1>8, <2>2, OnlyKept
<1>11. CASE W[p].info = NULL
  <2>1. Mem!SetRange(pa, pa + size - 1)
    BY <1>7, <1>11 DEF GivePage, PageOfSlot
  <2>2. pages' = [W EXCEPT ![p].info = r] /\ infos' = <<r>> \o infos
    BY <2>1, <1>9 DEF Mem!SetRange
  <2>3. r \in [start : Nat, end : Int] /\ r.start = pa /\ r.end <= r.start + 3
    BY <1>3, <1>5
  <2>4. \A s : PageOfSlot(s)' = PageOfSlot(s)
    BY DEF PageOfSlot, SlotAddr, RegAddr
  <2>5. \A x \in DOMAIN pages' : x \in DOMAIN W /\ (x # p => pages'[x] = W[x])
    <3> HIDE DEF W, p, pa, size, r
    <3> QED BY <2>2
  <2>6. slot \in Entered' /\ PageOfSlot(slot) = p
    BY <1>6
  <2> HIDE DEF W, p, pa, size, r
  <2>7. OnlyRegisterPages'
    <3> SUFFICES ASSUME NEW x \in DOMAIN pages', pages'[x].info # NULL
                 PROVE  \E s \in Entered' : PageOfSlot(s) = x
      BY <2>4 DEF OnlyRegisterPages, PageOfSlot
    <3>1. CASE x = p
      BY <2>6, <3>1
    <3>2. CASE x # p
      BY <1>6, <1>8, <2>5, <3>2
    <3> QED BY <3>1, <3>2
  <2>8. RangesOK'
    <3>1. infos' \in Seq([start : Nat, end : Int])
      BY <2>2, <2>3 DEF OnlyInv, RangesOK
    <3>2. ASSUME NEW k \in DOMAIN infos'
          PROVE  \E s \in Entered' : /\ infos'[k].start = Mem!First(PageOfSlot(s))
                                      /\ infos'[k].end <= infos'[k].start + 3
      <4>1. CASE k = 1
        <5>1. infos'[k] = r
          BY <2>2, <4>1 DEF OnlyInv, RangesOK
        <5> QED BY <2>3, <2>6, <5>1 DEF pa
      <4>2. CASE k # 1
        <5>1. k - 1 \in DOMAIN infos /\ infos'[k] = infos[k - 1]
          BY <2>2, <4>2 DEF OnlyInv, RangesOK
        <5> QED BY <1>6, <5>1 DEF OnlyInv, RangesOK
      <4> QED BY <4>1, <4>2
    <3> QED BY <2>4, <3>1, <3>2 DEF RangesOK
  <2>9. DOMAIN pages' \subseteq Nat
    BY <1>8, <2>5
  <2> QED BY <2>7, <2>8, <2>9 DEF OnlyInv
<1> QED BY <1>10, <1>11

LEMMA AccessOnly ==
  ASSUME IoInv, OnlyInv, NEW a \in Starts, NEW n, Access(a, n)
  PROVE  OnlyInv'
<1> DEFINE p == Mem!PageOf(a)
           W == Mem!WithPages({p})
<1>1. Entered' = Entered
  BY DEF Access, Entered
<1>2. p \in Nat
  BY InstAssumption, PageOfNat DEF Mem!Addr
<1>3. \A x \in DOMAIN W :
        x \in Nat /\ (W[x].info # NULL => \E s \in Entered : PageOfSlot(s) = x)
  BY <1>2, WithPagesOnly
<1>4. \A x \in DOMAIN W : PageLike(W[x])
  BY WithPagesLike DEF IoInv
<1>5. infos' = infos
  BY DEF Access, Mem!ReadInt, Mem!WriteInt
<1>6. pages' = W \/ \E new : pages' = [W EXCEPT ![p].bytes = new]
  BY DEF Access, Mem!ReadInt, Mem!WriteInt
<1> HIDE DEF p, W
<1>7. CASE pages' = W
  BY <1>1, <1>3, <1>5, <1>7, OnlyKept
<1>8. ASSUME NEW new, pages' = [W EXCEPT ![p].bytes = new] PROVE OnlyInv'
  <2>1. DOMAIN pages' = DOMAIN W /\ \A x \in DOMAIN W : x # p => pages'[x] = W[x]
    BY <1>8
  <2>2. p \in DOMAIN W => pages'[p].info = W[p].info
    <3>1. p \in DOMAIN W => pages'[p] = [W[p] EXCEPT !.bytes = new]
      BY <1>8
    <3>2. p \in DOMAIN W => pages'[p] = [bytes |-> new, info |-> W[p].info]
      BY <3>1, <1>4, ExceptField
    <3> QED BY <3>2
  <2>3. \A x \in DOMAIN pages' : x \in DOMAIN W /\ pages'[x].info = W[x].info
    BY <2>1, <2>2
  <2> QED BY <1>1, <1>3, <1>5, <2>3, OnlyKept
<1> QED BY <1>6, <1>7, <1>8

LEMMA DeletionOnly ==
  ASSUME OnlyInv, UNCHANGED memory, slot' = slot,
         \A i \in Inst : life[i] # "raw" => life'[i] # "raw"
  PROVE  OnlyInv'
<1>1. Entered \subseteq Entered'
  BY DEF Entered
<1> QED BY <1>1, OnlySame DEF memory

LEMMA InitOnly == Init => OnlyInv
<1> SUFFICES ASSUME Init PROVE OnlyInv
  OBVIOUS
<1>1. DOMAIN pages = {} /\ infos = <<>>
  BY DEF Init, Mem!Init
<1> QED BY <1>1 DEF OnlyInv, RangesOK, OnlyRegisterPages

LEMMA NextOnly == IoInv /\ OnlyInv /\ [Next]_vars => OnlyInv'
<1> SUFFICES ASSUME IoInv, OnlyInv, [Next]_vars PROVE OnlyInv'
  OBVIOUS
<1>1. ASSUME NEW i \in Inst, NewComponent(i) PROVE OnlyInv'
  <2>1. Entered \subseteq Entered'
    BY <1>1, NewComponentEntered
  <2> QED BY <1>1, <2>1, OnlySame DEF NewComponent, memory
<1>2. ASSUME NEW i \in Inst, DeleteComponent(i) PROVE OnlyInv'
  <2>1. \A j \in Inst : life[j] # "raw" => life'[j] # "raw"
    BY <1>2 DEF DeleteComponent, IoInv, SlotOK
  <2> QED BY <1>2, <2>1, DeletionOnly DEF DeleteComponent
<1>3. ASSUME NEW i \in Inst, NEW r \in DOMAIN Regs[i], IoRemove(i, r) PROVE OnlyInv'
  BY <1>3, DeletionOnly DEF IoRemove
<1>4. CASE IoAdd
  BY <1>4, IoAddOnly
<1>5. ASSUME NEW a \in Starts, NEW n \in {1, 2, 4}, Access(a, n) PROVE OnlyInv'
  BY <1>5, AccessOnly
<1>6. CASE DeleteBoard
  <2>1. \A j \in Inst : life[j] # "raw" => life'[j] # "raw"
    BY <1>6 DEF DeleteBoard, IoInv, SlotOK
  <2> QED BY <1>6, <2>1, DeletionOnly DEF DeleteBoard
<1>7. CASE UNCHANGED vars
  BY <1>7, DeletionOnly DEF vars
<1> QED BY <1>1, <1>2, <1>3, <1>4, <1>5, <1>6, <1>7 DEF Next

(* Only the pages of registers are taken from the memory, whether they     *)
(* were there before the component or are created by an access after it.   *)
THEOREM OtherPagesOrdinary == Spec => []OnlyRegisterPages
<1>1. IoInv /\ OnlyInv => OnlyRegisterPages
  BY DEF OnlyInv
<1> QED BY InitInv, NextInv, InitOnly, NextOnly, <1>1, PTL DEF Spec

-----------------------------------------------------------------------------
(* The entry csim_io_add makes for a slot. *)
Entry(s) == [addr |-> SlotAddr(s), inst |-> s.inst, reg |-> s.reg]

(* Each chain holds the entries of the registers entered whose addresses   *)
(* hash to it.                                                             *)
ChainsOK ==
  /\ ios \in [Bucket -> Seq([addr : Nat, inst : Inst, reg : Nat])]
  /\ \A h \in Bucket : \A e :
       e \in Range(ios[h]) <=> \E s \in Entered : e = Entry(s) /\ Hash(SlotAddr(s)) = h

(* An assertion that failed may leave the chains as they are; the chains   *)
(* of a deleted board are gone, and its instances with them.               *)
DispatchInv ==
  trouble = "none" => IF gone THEN slot = NULL /\ Live = {} ELSE ChainsOK

LEMMA HashType ==
  ASSUME NEW a \in Nat PROVE Hash(a) \in Bucket
<1>1. \A x \in Nat, n \in Nat \ {0} : x \div n \in Nat /\ x % n \in 0..n - 1
  BY SMTT(30)
<1> QED BY <1>1, IoAssumption DEF Hash, Bucket

LEMMA RangeCons ==
  ASSUME NEW T, NEW x \in T, NEW q \in Seq(T)
  PROVE  /\ <<x>> \o q \in Seq(T)
         /\ \A e : e \in Range(<<x>> \o q) <=> e = x \/ e \in Range(q)
<1>1. <<x>> \o q \in Seq(T)
  OBVIOUS
<1>2. \A k \in 1..Len(q) + 1 : (<<x>> \o q)[k] = IF k = 1 THEN x ELSE q[k - 1]
  OBVIOUS
<1>3. DOMAIN (<<x>> \o q) = 1..Len(q) + 1 /\ DOMAIN q = 1..Len(q)
  OBVIOUS
<1>4. Len(q) \in Nat
  OBVIOUS
<1> DEFINE w == <<x>> \o q
<1> HIDE DEF w
<1>5. ASSUME NEW e, e \in Range(w) PROVE e = x \/ e \in Range(q)
  <2>1. PICK k \in 1..Len(q) + 1 : e = w[k]
    BY <1>3, <1>5 DEF Range, w
  <2>2. CASE k = 1
    BY <1>2, <2>1, <2>2 DEF w
  <2>3. CASE k # 1
    <3>1. k - 1 \in DOMAIN q /\ e = q[k - 1]
      BY <1>2, <1>3, <1>4, <2>1, <2>3 DEF w
    <3> QED BY <3>1 DEF Range
  <2> QED BY <2>2, <2>3
<1>6. x \in Range(w)
  <2>1. 1 \in DOMAIN w /\ w[1] = x
    BY <1>2, <1>3, <1>4 DEF w
  <2> QED BY <2>1 DEF Range
<1>7. ASSUME NEW e, e \in Range(q) PROVE e \in Range(w)
  <2>1. PICK k \in 1..Len(q) : e = q[k]
    BY <1>3, <1>7 DEF Range
  <2>2. k + 1 \in DOMAIN w /\ w[k + 1] = e
    BY <1>2, <1>3, <1>4, <2>1 DEF w
  <2> QED BY <2>2 DEF Range
<1> QED BY <1>1, <1>5, <1>6, <1>7 DEF w

LEMMA EnteredFields ==
  ASSUME NEW s \in Entered
  PROVE  /\ s.inst \in Inst /\ life[s.inst] # "raw" /\ s \in Slots(s.inst)
         /\ s = Slot(s.inst, s.reg, s.num)
         /\ s.reg \in 1..Len(Regs[s.inst]) /\ s.reg \in Nat
         /\ s.num \in 0..Regs[s.inst][s.reg].count - 1
         /\ SlotAddr(s) \in Nat
<1>1. PICK i \in Inst : life[i] # "raw" /\ s \in Slots(i)
  BY DEF Entered
<1> QED BY <1>1, SlotFields, SlotAddrType, RegType DEF Slot

(* What is entered and the chains stay the same. *)
LEMMA ChainsSame ==
  ASSUME ChainsOK, Entered' = Entered, ios' = ios
  PROVE  ChainsOK'
BY DEF ChainsOK, Entry, SlotAddr, RegAddr, Hash

LEMMA IoAddChains ==
  ASSUME IoInv, ChainsOK, IoAdd
  PROVE  ChainsOK'
<1>1. PICK i \in Inst : life[i] = "live" /\ slot \in Slots(i)
  BY DEF IoInv, SlotOK, IoAdd
<1>2. slot.inst = i /\ slot.reg \in Nat
  BY <1>1, SlotFields, RegType
<1>3. Entered' = Entered \cup {slot}
  BY EnteredGrows, IoAddEntered
<1> DEFINE a == SlotAddr(slot)
           x == Entry(slot)
           T == [addr : Nat, inst : Inst, reg : Nat]
           g == Hash(a)
<1>4. a \in Nat /\ g \in Bucket
  BY <1>1, SlotAddrType, HashType
<1>5. x \in T
  BY <1>2, <1>4 DEF Entry
<1>6. ios' = [ios EXCEPT ![g] = <<x>> \o @]
  BY DEF IoAdd, Entry
<1>7. \A s : Entry(s)' = Entry(s) /\ Hash(SlotAddr(s))' = Hash(SlotAddr(s))
  BY DEF Entry, SlotAddr, RegAddr, Hash
<1>8. Entry(slot) = x /\ Hash(SlotAddr(slot)) = g
  OBVIOUS
<1> HIDE DEF a, x, T, g
<1>9. ios \in [Bucket -> Seq(T)]
  BY DEF ChainsOK, T
<1>10. /\ ios'[g] = <<x>> \o ios[g]
       /\ \A h \in Bucket : h # g => ios'[h] = ios[h]
       /\ DOMAIN ios' = Bucket
       /\ ios[g] \in Seq(T)
       /\ ios' = [h \in Bucket |-> ios'[h]]
  BY <1>4, <1>6, <1>9
<1>11. /\ <<x>> \o ios[g] \in Seq(T)
       /\ \A e : e \in Range(<<x>> \o ios[g]) <=> e = x \/ e \in Range(ios[g])
  BY <1>5, <1>10, RangeCons
<1>12. ios' \in [Bucket -> Seq(T)]
  <2>1. \A h \in Bucket : ios'[h] \in Seq(T)
    BY <1>9, <1>10, <1>11
  <2> QED BY <1>10, <2>1
<1>13. ASSUME NEW h \in Bucket, NEW e
       PROVE  e \in Range(ios'[h]) <=>
                \E s \in Entered' : e = Entry(s) /\ Hash(SlotAddr(s)) = h
  <2>1. e \in Range(ios[h]) <=> \E s \in Entered : e = Entry(s) /\ Hash(SlotAddr(s)) = h
    BY DEF ChainsOK
  <2>2. CASE h = g
    <3>1. e \in Range(ios'[h]) <=> e = x \/ e \in Range(ios[h])
      BY <1>10, <1>11, <2>2
    <3> QED BY <1>3, <1>8, <2>1, <2>2, <3>1
  <2>3. CASE h # g
    BY <1>3, <1>8, <1>10, <2>1, <2>3
  <2> QED BY <2>2, <2>3
<1> QED BY <1>7, <1>12, <1>13 DEF ChainsOK, T

LEMMA InitDispatch == Init => DispatchInv
<1> SUFFICES ASSUME Init PROVE ChainsOK
  BY DEF DispatchInv, Init
<1>1. Entered = {}
  BY DEF Init, Entered
<1>2. \A e : e \notin Range(<<>>)
  BY DEF Range
<1> QED BY <1>1, <1>2 DEF Init, ChainsOK

LEMMA NextDispatch == IoInv /\ DispatchInv /\ [Next]_vars => DispatchInv'
<1> SUFFICES ASSUME IoInv, DispatchInv, [Next]_vars, trouble' = "none"
             PROVE  IF gone' THEN slot' = NULL /\ Live' = {} ELSE ChainsOK'
  BY DEF DispatchInv
<1>1. ASSUME NEW i \in Inst, NewComponent(i) PROVE gone' = FALSE /\ ChainsOK'
  <2>1. Entered' = Entered
    BY <1>1, NewComponentFew, NewComponentEntered
  <2> QED BY <1>1, <2>1, ChainsSame DEF NewComponent, Idle, DispatchInv
<1>2. ASSUME NEW i \in Inst, DeleteComponent(i) PROVE gone' = FALSE /\ ChainsOK'
  <2>1. \A j \in Inst : life'[j] # "raw" <=> life[j] # "raw"
    BY <1>2 DEF DeleteComponent, Live, IoInv, SlotOK
  <2>2. Entered' = Entered
    BY <1>2, <2>1 DEF DeleteComponent, Entered
  <2> QED BY <1>2, <2>2, ChainsSame DEF DeleteComponent, Idle, DispatchInv
<1>3. ASSUME NEW i \in Inst, NEW r \in DOMAIN Regs[i], IoRemove(i, r) PROVE FALSE
  BY <1>3 DEF IoRemove
<1>4. CASE IoAdd
  <2>1. trouble = "none" /\ gone' = gone /\ slot # NULL
    BY <1>4 DEF IoAdd
  <2>2. ~gone /\ ChainsOK
    BY <2>1 DEF DispatchInv
  <2> QED BY <1>4, <2>1, <2>2, IoAddChains
<1>5. ASSUME UNCHANGED <<life, slot, ios, gone>>, trouble = "none"
      PROVE  IF gone' THEN slot' = NULL /\ Live' = {} ELSE ChainsOK'
  <2>1. Entered' = Entered /\ Live' = Live
    BY <1>5 DEF Entered, Live
  <2> QED BY <1>5, <2>1, ChainsSame DEF DispatchInv
<1>6. ASSUME NEW a \in Starts, NEW n \in {1, 2, 4}, Access(a, n)
      PROVE  UNCHANGED <<life, slot, ios, gone>> /\ trouble = "none"
  BY <1>6 DEF Access, Idle
<1>7. CASE DeleteBoard
  <2>1. \A i \in Inst : life'[i] # "live"
    BY <1>7 DEF DeleteBoard, Live, IoInv, SlotOK
  <2> QED BY <1>7, <2>1 DEF DeleteBoard, Idle, Live
<1>8. CASE UNCHANGED vars
  BY <1>5, <1>8 DEF vars
<1> QED BY <1>1, <1>2, <1>3, <1>4, <1>5, <1>6, <1>7, <1>8 DEF Next

-----------------------------------------------------------------------------
(* Going y places round from x, and x places back. *)
LEMMA RoundAndBack ==
  ASSUME NEW x \in Nat, NEW s \in Nat \ {0}, NEW y \in 0..s - 1
  PROVE  (((x + y) % s) - x) % s = y
<1> DEFINE q == (x + y) \div s
           r == (x + y) % s
<1>1. q \in Nat /\ r \in 0..s - 1 /\ x + y = s * q + r
  BY SMTT(30)
<1> HIDE DEF q, r
<1>2. r - x = y - s * q
  BY <1>1
<1> DEFINE d == (r - x) \div s
           m == (r - x) % s
<1>3. r - x \in Int
  BY <1>1
<1>4. d \in Int /\ m \in 0..s - 1 /\ r - x = s * d + m
  BY <1>3, SMTT(30)
<1> HIDE DEF d, m
<1>5. s * (d + q) = y - m
  <2>1. s * (d + q) = s * d + s * q
    BY <1>1, <1>4, SMTT(30)
  <2>2. s * d \in Int /\ s * q \in Int
    BY <1>1, <1>4, SMTT(30)
  <2> QED BY <1>1, <1>2, <1>4, <2>1, <2>2
<1>6. \A w \in Int : -s < s * w /\ s * w < s => w = 0
  BY SMTT(30)
<1>7. d + q = 0
  <2>1. y - m > -s /\ y - m < s
    BY <1>4
  <2>2. d + q \in Int
    BY <1>1, <1>4
  <2> QED BY <1>5, <1>6, <2>1, <2>2
<1>8. y = m
  <2>1. s * 0 = 0
    OBVIOUS
  <2> QED BY <1>4, <1>5, <1>7, <2>1
<1> QED BY <1>8 DEF r, m

(* The number of a register is found from its address. *)
LEMMA NumberIs ==
  ASSUME NEW s \in Entered, Regs[s.inst][s.reg].stride # 0
  PROVE  Number(Entry(s), SlotAddr(s)) = s.num
<1> DEFINE i == s.inst
           r == s.reg
           k == s.num
           st == Regs[i][r].stride
           x == Base[i] + Regs[i][r].offset
           y == k * st
<1>1. /\ i \in Inst /\ r \in 1..Len(Regs[i])
      /\ k \in 0..Regs[i][r].count - 1
  BY EnteredFields
<1>2. st \in Nat \ {0} /\ x \in Nat /\ k \in Nat /\ Regs[i][r].count \in Nat
  BY <1>1, RegType
<1>3. y \in 0..Mem!Space - 1
  <2>1. \A c, m, n \in Nat : n > 0 /\ m <= c - 1 => m * n \in Nat /\ m * n <= (c - 1) * n
    BY SMTT(30)
  <2>2. y \in Nat /\ y <= (Regs[i][r].count - 1) * st
    <3> DEFINE c == Regs[i][r].count
    <3>1. c \in Nat /\ st > 0 /\ k <= c - 1
      BY <1>1, <1>2
    <3> HIDE DEF c, st, k
    <3>2. k \in Nat /\ st \in Nat
      BY <1>2
    <3>3. k * st \in Nat /\ k * st <= (c - 1) * st
      BY <2>1, <3>1, <3>2
    <3> QED BY <3>3 DEF c, st, k
  <2>3. (Regs[i][r].count - 1) * st < Mem!Space
    BY <1>1, GroupAssumption
  <2>4. (Regs[i][r].count - 1) * st \in Int
    BY <1>2
  <2> HIDE DEF y
  <2> QED BY <2>2, <2>3, <2>4, SpaceType
<1>4. SlotAddr(s) = (Base[i] + y + Regs[i][r].offset) % Mem!Space
  BY DEF SlotAddr, RegAddr
<1>5. Base[i] + y + Regs[i][r].offset = x + y
  <2> HIDE DEF y
  <2>1. Base[i] \in Nat /\ Regs[i][r].offset \in Nat
    BY <1>1, RegType
  <2> QED BY <1>3, <2>1, SpaceType
<1>6. SlotAddr(s) - Base[i] - Regs[i][r].offset = ((x + y) % Mem!Space) - x
  <2>1. SlotAddr(s) \in Nat
    BY EnteredFields
  <2>2. Base[i] \in Nat /\ Regs[i][r].offset \in Nat
    BY <1>1, RegType
  <2>3. SlotAddr(s) = (x + y) % Mem!Space
    BY <1>4, <1>5
  <2> QED BY <2>1, <2>2, <2>3
<1>7. (((x + y) % Mem!Space) - x) % Mem!Space = y
  <2> HIDE DEF x, y
  <2> QED BY <1>2, <1>3, SpaceType, RoundAndBack
<1>8. y \div st = k
  <2>1. \A m \in Nat, n \in Nat \ {0} : (m * n) \div n = m
    BY SMTT(30)
  <2> QED BY <1>2, <2>1
<1>9. Number(Entry(s), SlotAddr(s)) =
        ((SlotAddr(s) - Base[i] - Regs[i][r].offset) % Mem!Space) \div st
  BY DEF Number, Entry
<1> QED BY <1>6, <1>7, <1>8, <1>9

(* Between two calls of csim_new_component all the registers are entered.  *)
LEMMA AllEntered ==
  ASSUME IoInv, slot = NULL, NEW s
  PROVE  s \in UNION {Slots(i) : i \in Live} <=> s \in Entered /\ s.inst \in Live
<1>1. ASSUME NEW i \in Live, s \in Slots(i) PROVE s \in Entered /\ s.inst \in Live
  <2>1. i \in Inst /\ life[i] # "raw"
    BY DEF Live
  <2>2. s.inst = i
    BY <1>1, <2>1, SlotFields
  <2> QED BY <1>1, <2>1, <2>2 DEF Entered
<1>2. ASSUME s \in Entered, s.inst \in Live PROVE s \in UNION {Slots(i) : i \in Live}
  BY <1>2, EnteredFields
<1> QED BY <1>1, <1>2

(* A register lies on a page with a callback: its access is no memory's.   *)
LEMMA RegisterIsDevice ==
  ASSUME IoInv, NEW s \in Entered, NEW n, Access(SlotAddr(s), n)
  PROVE  last'.op = "device"
<1> DEFINE a == SlotAddr(s)
           p == Mem!PageOf(a)
           W == Mem!WithPages({p})
<1>1. p \in DOMAIN pages /\ pages[p].info # NULL
  BY DEF IoInv, Reachable
<1>2. W[p].info # NULL
  BY <1>1, WithPagesLike DEF IoInv
<1>3. \A buf : Mem!Access("device", a, buf).op = "device"
  BY DEF Mem!Access
<1>4. CASE Mem!ReadInt(a, n)
  BY <1>2, <1>3, <1>4 DEF Mem!ReadInt
<1>5. CASE Mem!WriteInt(a, [x \in 1..n |-> 0])
  BY <1>2, <1>3, <1>5 DEF Mem!WriteInt
<1> QED BY <1>4, <1>5 DEF Access

LEMMA AccessDispatches ==
  ASSUME IoInv, DispatchInv, NEW a \in Starts, NEW n \in {1, 2, 4}, Access(a, n),
         trouble' = "none"
  PROVE  served' = {s \in UNION {Slots(i) : i \in Live} :
                      SlotAddr(s) = a /\ Regs[s.inst][s.reg].size = n}
<1> DEFINE S == {s \in UNION {Slots(i) : i \in Live} :
                   SlotAddr(s) = a /\ Regs[s.inst][s.reg].size = n}
<1>1. slot = NULL /\ trouble = "none"
  BY DEF Access, Idle
<1>2. \A s : s \in S <=> /\ s \in Entered /\ s.inst \in Live
                         /\ SlotAddr(s) = a /\ Regs[s.inst][s.reg].size = n
  BY <1>1, AllEntered
<1> HIDE DEF S
<1>3. CASE last'.op # "device"
  <2>1. served' = {}
    BY <1>3 DEF Access
  <2>2. \A s : s \notin S
    BY <1>2, <1>3, RegisterIsDevice
  <2> QED BY <2>1, <2>2 DEF S
<1>4. CASE last'.op = "device"
  <2> DEFINE found == EntriesAt(Hash(a), a)
  <2>1. OnIO(a, n)
    BY <1>4 DEF Access
  <2>2. /\ ~gone
        /\ \A e \in found : e.inst \in Live /\ Regs[e.inst][e.reg].stride # 0
        /\ served' = {Slot(e.inst, e.reg, Number(e, a)) :
                        e \in {f \in found : Regs[f.inst][f.reg].size = n}}
    BY <2>1 DEF OnIO
  <2>3. ChainsOK
    BY <1>1, <2>2 DEF DispatchInv
  <2>4. Hash(a) \in Bucket
    BY InstAssumption, HashType DEF Mem!Addr
  <2>5. \A e : e \in found <=> \E s \in Entered : e = Entry(s) /\ SlotAddr(s) = a
    <3>1. \A s : Entry(s).addr = SlotAddr(s)
      BY DEF Entry
    <3> QED BY <2>3, <2>4, <3>1 DEF ChainsOK, EntriesAt
  <2>6. \A s : Entry(s).inst = s.inst /\ Entry(s).reg = s.reg
    BY DEF Entry
  <2> HIDE DEF found
  <2>7. ASSUME NEW s \in Entered, SlotAddr(s) = a
        PROVE  /\ Entry(s) \in found
               /\ Slot(Entry(s).inst, Entry(s).reg, Number(Entry(s), a)) = s
    <3>1. Entry(s) \in found
      BY <2>5, <2>7
    <3>2. Regs[s.inst][s.reg].stride # 0
      BY <2>2, <2>6, <3>1
    <3> QED BY <2>6, <2>7, <3>1, <3>2, NumberIs, EnteredFields
  <2>8. ASSUME NEW t \in served' PROVE t \in S
    <3>1. PICK e \in found : /\ Regs[e.inst][e.reg].size = n
                             /\ t = Slot(e.inst, e.reg, Number(e, a))
      BY <2>2
    <3>2. PICK s \in Entered : e = Entry(s) /\ SlotAddr(s) = a
      BY <2>5
    <3> QED BY <1>2, <2>2, <2>6, <2>7, <3>1, <3>2
  <2>9. ASSUME NEW s \in S PROVE s \in served'
    <3>1. /\ s \in Entered /\ SlotAddr(s) = a /\ Regs[s.inst][s.reg].size = n
      BY <1>2
    <3>2. /\ Entry(s) \in {f \in found : Regs[f.inst][f.reg].size = n}
          /\ s = Slot(Entry(s).inst, Entry(s).reg, Number(Entry(s), a))
      BY <2>6, <2>7, <3>1
    <3> QED BY <2>2, <3>2
  <2>10. served' = S
    BY <2>8, <2>9
  <2> QED BY <2>10 DEF S
<1> QED BY <1>3, <1>4

(* Every access of the simulated program that comes back calls the         *)
(* functions of the registers declared at its address with its size, each  *)
(* with its number in its group, and no other function.                    *)
THEOREM EveryAccessDispatched == Spec => Dispatched
<1> DEFINE P == \A a \in Starts, n \in {1, 2, 4} :
                  Access(a, n) /\ trouble' = "none" =>
                    served' = {s \in UNION {Slots(i) : i \in Live} :
                                 SlotAddr(s) = a /\ Regs[s.inst][s.reg].size = n}
<1>1. IoInv /\ DispatchInv /\ [Next]_vars => [P]_vars
  BY AccessDispatches
<1>2. Dispatched <=> [][P]_vars
  BY DEF Dispatched
<1> HIDE DEF P
<1> QED BY InitInv, NextInv, InitDispatch, NextDispatch, <1>1, <1>2, PTL DEF Spec

-----------------------------------------------------------------------------
(* The GPIO component, behind whose registers accesses arrive.             *)
CallType == [inst : Gpios, port : Pin, val : SUBSET Pin]

(* The types, and wiring of one of the ways assumed: messages only reach   *)
(* ports of instances that are there.  Between ports of the same number,   *)
(* each call on the stack has taken the message on by indxxx ports.        *)
Climbs ==
  /\ call # NONE => depth > 0
  /\ depth > 0 => call \in CallType /\ (Straight => call.port = (depth - 1) * indxxx)
GpioInv == GpioTypeOK /\ link \in Links /\ Climbs

LEMMA PinIs ==
  0 \in Pin /\ Pin = 0..NbPins - 1 /\ NbPins \in Nat /\ Stack \in Nat \ {0}
BY PinAssumption DEF Pin

LEMMA GpioStarts ==
  ASSUME GpioInit
  PROVE  GpioInv
<1>1. /\ mode \in [Gpios -> [Pin -> Mode]] /\ idr \in [Gpios -> SUBSET Pin]
      /\ odr \in [Gpios -> SUBSET Pin]
  BY WiringAssumption DEF GpioInit
<1>2. depth = 0 /\ call = NONE /\ 0 \in 0..Stack + 1 /\ 0 \in Nat
  BY PinIs DEF GpioInit
<1>3. Climbs
  BY <1>2 DEF Climbs
<1> QED  BY <1>1, <1>2, <1>3 DEF GpioInv, GpioTypeOK, GpioInit

(* A message leaves for a port that is there, of the number of the port it *)
(* leaves from where links are straight; or the calls are over.            *)
LEMMA SendTyped ==
  ASSUME GpioInv, NEW i \in Gpios, NEW x, NEW k, NEW S,
         SendDigital(i, x, k \in S)
  PROVE  /\ abort' \in BOOLEAN
         /\ call' = NONE \/ (call' \in CallType /\ (Straight => call'.port = x))
<1>1. abort' \in BOOLEAN
  BY DEF SendDigital
<1>2. Digit(k \in S) \in SUBSET Pin
  BY PinIs DEF Digit
<1>3. CASE x \in Pin /\ link[<<i, x>>] # NONE
  <2>1. link \in [Gpios \X Pin -> (Gpios \X Pin) \cup {NONE}]
    BY WiringAssumption DEF GpioInv
  <2>2. <<i, x>> \in DOMAIN link /\ link[<<i, x>>] \in Gpios \X Pin
    BY <1>3, <2>1
  <2>3. link[<<i, x>>][1] \in Gpios /\ link[<<i, x>>][2] \in Pin
    BY <2>2
  <2>4. Straight => link[<<i, x>>][2] = x
    BY <1>3, <2>2 DEF Straight
  <2>5. call' = [inst |-> link[<<i, x>>][1], port |-> link[<<i, x>>][2], val |-> Digit(k \in S)]
    BY <1>3 DEF SendDigital
  <2> QED  BY <1>1, <1>2, <2>3, <2>4, <2>5 DEF CallType
<1>4. CASE ~(x \in Pin /\ link[<<i, x>>] # NONE)
  <2>1. call' = NONE  BY <1>4 DEF SendDigital
  <2> QED  BY <1>1, <2>1
<1> QED  BY <1>3, <1>4

(* What update_pins does to the outputs, and to the stack. *)
LEMMA UpdateIs ==
  ASSUME GpioInv, UpdatePins
  PROVE  /\ call \in CallType /\ UNCHANGED <<link, mode, idr, indxxx>>
         /\ odr' \in [Gpios -> SUBSET Pin] /\ abort' \in BOOLEAN
         /\ depth \in 1..Stack
         /\ \/ call' = NONE /\ depth' = 0
            \/ /\ call' \in CallType /\ depth' = depth + 1
               /\ Straight => call'.port = call.port + indxxx
<1> DEFINE i == call.inst
           pin == indxxx
           x == Onward(pin)
           Sent == call' = NONE \/ (call' \in CallType /\ (Straight => call'.port = x))
<1>1. call \in CallType /\ UNCHANGED <<link, mode, idr, indxxx>>
  BY DEF UpdatePins, GpioInv, GpioTypeOK, CallType
<1>2. /\ i \in Gpios /\ call.val \subseteq Pin /\ odr \in [Gpios -> SUBSET Pin]
      /\ odr[i] \in SUBSET Pin /\ abort \in BOOLEAN
  BY <1>1 DEF CallType, GpioInv, GpioTypeOK
<1>3. /\ depth \in 1..Stack /\ x = call.port + indxxx
      /\ depth' = IF call' = NONE THEN 0 ELSE depth + 1
  BY PinIs DEF UpdatePins, GpioInv, GpioTypeOK, Climbs, Onward
<1>4. odr' \in [Gpios -> SUBSET Pin] /\ abort' \in BOOLEAN /\ Sent
  <2>1. CASE pin \notin Pin
    <3>1. call' = NONE /\ odr' = odr /\ abort' = abort  BY <2>1 DEF UpdatePins
    <3> QED  BY <1>2, <3>1
  <2>2. CASE pin \in Pin /\ mode[i][pin] % 2 = OUTPUT
    <3> DEFINE bit == pin \in call.val
               word == SetBit(odr[i], pin, bit)
               S == call.val
    <3>1. odr' = [odr EXCEPT ![i] = word] /\ SendDigital(i, x, bit)
      BY <2>2 DEF UpdatePins
    <3>2. word \in SUBSET Pin
      BY <1>2, <2>2 DEF SetBit
    <3>3. SendDigital(i, x, pin \in S)  BY <3>1
    <3>4. odr' \in [Gpios -> SUBSET Pin]
      <4> HIDE DEF word
      <4> QED  BY <1>2, <3>1, <3>2
    <3> HIDE DEF i, x, pin, S
    <3>5. Sent /\ abort' \in BOOLEAN  BY <1>2, <3>3, SendTyped
    <3> QED  BY <3>4, <3>5
  <2>3. CASE pin \in Pin /\ ~(mode[i][pin] % 2 = OUTPUT)
    <3> DEFINE S == idr[i]
    <3>1. odr' = odr /\ SendDigital(i, x, pin \in S)
      BY <2>3 DEF UpdatePins
    <3> HIDE DEF i, x, pin, S
    <3>2. Sent /\ abort' \in BOOLEAN  BY <1>2, <3>1, SendTyped
    <3> QED  BY <1>2, <3>1, <3>2
  <2> QED  BY <2>1, <2>2, <2>3
<1> HIDE DEF x
<1> QED  BY <1>1, <1>3, <1>4

LEMMA GpioMoves ==
  ASSUME GpioInv, [GpioNext]_gpioVars
  PROVE  GpioInv'
<1>0. /\ mode \in [Gpios -> [Pin -> Mode]]
      /\ idr \in [Gpios -> SUBSET Pin] /\ odr \in [Gpios -> SUBSET Pin]
      /\ indxxx \in Nat /\ (call = NONE \/ call \in CallType) /\ abort \in BOOLEAN
      /\ depth \in 0..Stack + 1 /\ link \in Links /\ Climbs
  BY DEF GpioInv, GpioTypeOK, CallType
<1> DEFINE Messages ==
      /\ UNCHANGED <<link, mode>>
      /\ idr' \in [Gpios -> SUBSET Pin] /\ odr' \in [Gpios -> SUBSET Pin]
      /\ indxxx' \in Nat /\ (call' = NONE \/ call' \in CallType) /\ abort' \in BOOLEAN
      /\ depth' \in 0..Stack + 1 /\ Climbs'
    Registers ==
      /\ UNCHANGED <<link, indxxx, call, depth, abort>>
      /\ mode' \in [Gpios -> [Pin -> Mode]]
      /\ idr' \in [Gpios -> SUBSET Pin] /\ odr' \in [Gpios -> SUBSET Pin]
<1>1. SUFFICES Messages \/ Registers
  <2>1. CASE Messages
    BY <1>0, <2>1 DEF GpioInv, GpioTypeOK, CallType
  <2>2. CASE Registers
    BY <1>0, <2>2 DEF GpioInv, GpioTypeOK, CallType, Climbs, Straight
  <2> QED  BY <2>1, <2>2
<1>2. ASSUME NEW i \in Gpios, NEW w \in Words, WriteIDR(i, w) \/ WriteODR(i, w)
      PROVE  Registers
  <2>1. w \in SUBSET Pin  BY Zenon, WiringAssumption
  <2> QED  BY <1>0, <1>2, <2>1 DEF WriteIDR, WriteODR
<1>3. ASSUME NEW i \in Gpios, NEW w \in Words, NEW k \in 0..NbPins, UpdatePinsGlobal(i, w, k)
      PROVE  Messages
  <2>1. w \in SUBSET Pin /\ k \in Nat /\ 0 \in Pin
    <3>1. w \in SUBSET Pin  BY Zenon, WiringAssumption
    <3>2. k \in Nat /\ 0 \in Pin  BY PinIs
    <3> QED  BY <3>1, <3>2
  <2>2. /\ call' = [inst |-> i, port |-> 0, val |-> w] /\ indxxx' = k /\ depth' = 1
        /\ UNCHANGED <<link, mode, idr, odr, abort>>
    BY <1>3 DEF UpdatePinsGlobal, registers
  <2>3. call' \in CallType /\ call'.port = 0
    BY <2>1, <2>2 DEF CallType
  <2>4. (depth' - 1) * indxxx' = 0 /\ depth' \in 0..Stack + 1
    BY <2>1, <2>2, PinIs
  <2>5. Climbs'  BY <2>2, <2>3, <2>4 DEF Climbs, CallType
  <2> QED  BY <1>0, <2>1, <2>2, <2>3, <2>4, <2>5
<1>4. ASSUME NEW i \in Gpios, NEW m \in Modes, WriteMODR(i, m)
      PROVE  Registers
  <2>1. m \in [Pin -> Mode]
    BY WiringAssumption
  <2> QED  BY <1>0, <1>4, <2>1 DEF WriteMODR
<1>5. ASSUME NEW i \in Gpios, NEW k \in Pin, NEW m \in {0, 1}, Configure(i, k, m)
      PROVE  Registers
  <2> DEFINE new == 2 * (mode[i][k] \div 2) + m
  <2>1. mode[i] \in [Pin -> Mode] /\ mode[i][k] \in 0..3
    BY <1>0 DEF Mode
  <2>2. new \in Mode
    BY <2>1 DEF Mode
  <2>3. mode' = [mode EXCEPT ![i] = [mode[i] EXCEPT ![k] = new]]
    BY <1>5 DEF Configure
  <2> HIDE DEF new
  <2>4. [mode[i] EXCEPT ![k] = new] \in [Pin -> Mode]
    BY <2>1, <2>2
  <2>5. UNCHANGED <<link, idr, odr, indxxx, call, depth, abort>>
    BY <1>5 DEF Configure
  <2> QED  BY <1>0, <2>3, <2>4, <2>5
<1>6. ASSUME NEW i \in Gpios, Reset(i)
      PROVE  Registers
  <2>1. [k \in Pin |-> INPUT] \in [Pin -> Mode]
    BY DEF INPUT, Mode
  <2> QED  BY <1>0, <1>6, <2>1 DEF Reset
<1>7. CASE UpdatePins
  <2>1. CASE call' = NONE /\ depth' = 0
    <3>1. Climbs'  BY <2>1 DEF Climbs
    <3> QED  BY <1>0, <1>7, <2>1, <3>1, UpdateIs, PinIs
  <2>2. CASE call' \in CallType /\ depth' = depth + 1
             /\ (Straight => call'.port = call.port + indxxx)
    <3>1. depth \in 1..Stack /\ indxxx' = indxxx /\ indxxx \in Nat /\ link' = link
      BY <1>0, <1>7, UpdateIs
    <3>2. depth' > 0 /\ depth' \in 0..Stack + 1  BY <2>2, <3>1, PinIs
    <3>3. (depth' - 1) * indxxx' = (depth - 1) * indxxx + indxxx
      BY <2>2, <3>1
    <3>4. Straight' = Straight  BY <3>1 DEF Straight
    <3>5. Straight' => call'.port = (depth' - 1) * indxxx'
      BY <1>0, <2>2, <3>1, <3>3, <3>4 DEF Climbs
    <3>6. Climbs'  BY <2>2, <3>2, <3>5 DEF Climbs, CallType
    <3> QED  BY <1>0, <1>7, <2>2, <3>2, <3>6, UpdateIs
  <2> QED  BY <1>7, <2>1, <2>2, UpdateIs
<1>8. CASE UNCHANGED gpioVars
  BY <1>0, <1>8 DEF gpioVars, registers
<1> HIDE DEF Messages, Registers
<1>9. CASE \E i \in Gpios, w \in Words : WriteIDR(i, w) \/ WriteODR(i, w)
  BY <1>2, <1>9
<1>10. CASE \E i \in Gpios, w \in Words, k \in 0..NbPins : UpdatePinsGlobal(i, w, k)
  BY <1>3, <1>10
<1>11. CASE \E i \in Gpios, m \in Modes : WriteMODR(i, m)
  BY <1>4, <1>11
<1>12. CASE \E i \in Gpios, k \in Pin, m \in {0, 1} : Configure(i, k, m)
  BY <1>5, <1>12
<1>13. CASE \E i \in Gpios : Reset(i)
  BY <1>6, <1>13
<1> QED  BY <1>7, <1>8, <1>9, <1>10, <1>11, <1>12, <1>13 DEF GpioNext, INPUT, OUTPUT

(* The registers of GPIO components and the message on its way have their  *)
(* types, however the ports are connected.                                 *)
THEOREM GpioTypes == GpioSpec => []GpioTypeOK
<1>1. GpioInit => GpioInv
  BY GpioStarts
<1>2. GpioInv /\ [GpioNext]_gpioVars => GpioInv'
  BY GpioMoves
<1>3. GpioInv => GpioTypeOK
  BY DEF GpioInv
<1> QED  BY <1>1, <1>2, <1>3, PTL DEF GpioSpec

(* The recursion of update_pins through csim_send_digital is bounded by    *)
(* the pin, however many components links between ports of the same number *)
(* lead through and back.                                                  *)
THEOREM DepthAlwaysBounded == GpioSpec => []DepthBounded
<1>1. GpioInit => GpioInv
  BY GpioStarts
<1>2. GpioInv /\ [GpioNext]_gpioVars => GpioInv'
  BY GpioMoves
<1>3. GpioInv => DepthBounded
  <2> SUFFICES ASSUME GpioInv, Straight, indxxx > 0
               PROVE  (depth - 1) * indxxx < NbPins
    BY DEF DepthBounded
  <2>1. indxxx \in Nat /\ depth \in 0..Stack + 1 /\ NbPins \in Nat \ {0}
    BY PinAssumption DEF GpioInv, GpioTypeOK
  <2>2. CASE depth = 0
    <3>1. (depth - 1) * indxxx = -indxxx  BY <2>1, <2>2
    <3> QED  BY <2>1, <3>1
  <2>3. CASE depth > 0
    <3>1. (depth - 1) * indxxx = call.port /\ call.port \in Pin
      BY <2>3 DEF GpioInv, Climbs, CallType
    <3> QED  BY <3>1, <2>1 DEF Pin
  <2> QED  BY <2>1, <2>2, <2>3
<1> QED  BY <1>1, <1>2, <1>3, PTL DEF GpioSpec

=============================================================================
