------------------------------- MODULE CsimIO -------------------------------
(***************************************************************************)
(* The registers of the components in the memory of the simulated machine: *)
(* csim_new_component enters them in the hash table board->ios and gives   *)
(* their pages to csim_on_io (csim/csim.c), the integer accesses of the    *)
(* memory call it (csim/mem.c, composed here as CsimMem) and it calls the  *)
(* functions of the register.                                              *)
(*                                                                         *)
(* What the functions of a register do, and the values that are read and   *)
(* written, are left out: served says which were called.  Instances are    *)
(* malloc blocks, each created at most once.                               *)
(*                                                                         *)
(* May says which liberties the callers take: "delete" a component while   *)
(* the board is in use, "outlive" the board with its memory, "remove"      *)
(* registers by csim_io_remove.                                            *)
(***************************************************************************)
EXTENDS Integers, SequencesExt

CONSTANTS
  PageSize,   (* CSIM_PAGE_SIZE, MEMORY_PAGE_SIZE *)
  NbPages,    (* pages of the address space *)
  IoUnit,     (* 2^CSIM_IO_SHIFT *)
  IoSize,     (* CSIM_IO_SIZE *)
  Inst,       (* the csim_inst_t objects *)
  Base,       (* inst->base *)
  Regs,       (* inst->comp->regs: sequence of [offset, size, count, stride] *)
  Starts,     (* bound: addresses the simulated program accesses *)
  NULL,       (* the null pointer *)
  May         (* subset of {"delete", "outlive", "remove"} *)

VARIABLES
  life,       (* state of each instance: "raw", "live" or "freed" *)
  slot,       (* the register csim_new_component enters next, [inst, reg, *)
              (* num], or NULL *)
  ios,        (* board->ios: chains of [addr, inst, reg] *)
  gone,       (* the board is deleted *)
  served,     (* history: what the last access called: [inst, reg, num] *)
  trouble,    (* "none", "stale" (freed memory is read), "divide" (division *)
              (* by zero) or "abort" (assertion failed) *)
  pages, infos, last, fault                 (* as in CsimMem *)

memory == <<pages, infos, last, fault>>
vars == <<life, slot, ios, gone, served, trouble, memory>>

Mem == INSTANCE CsimMem WITH
         H1 <- 1, H2 <- 1, Byte <- {0}, Width <- {1, 2, 4},
         Sizes <- {}, Bounds <- {}, MaxInfos <- NbPages

Reg == [offset : Mem!Addr, size : {1, 2, 4}, count : Nat \ {0}, stride : Nat]

ASSUME MemoryAssumption ==
  /\ PageSize \in Nat \ {0} /\ NbPages \in Nat \ {0}
  /\ PageSize >= 4                   (* a page holds the largest register *)
ASSUME IoAssumption == IoUnit \in Nat \ {0} /\ IoSize \in Nat \ {0}
ASSUME InstAssumption ==
  /\ NULL \notin [inst : Inst, reg : Nat, num : Nat] \cup [start : Nat, end : Int]
  /\ Base \in [Inst -> Mem!Addr]
  /\ Regs \in [Inst -> Seq(Reg)] /\ \A i \in Inst : Regs[i] # <<>>
  /\ Starts \subseteq Mem!Addr
ASSUME GroupAssumption ==      (* no group goes round the address space *)
  \A i \in Inst : \A r \in 1..Len(Regs[i]) :
    (Regs[i][r].count - 1) * Regs[i][r].stride < Mem!Space

Bucket == 0..IoSize - 1

Live == {i \in Inst : life[i] = "live"}

(* CSIM_IO_HASH *)
Hash(a) == (a \div IoUnit) % IoSize

(* The address of register number k of the group r of instance i. *)
RegAddr(i, r, k) == (Base[i] + k * Regs[i][r].stride + Regs[i][r].offset) % Mem!Space

Slot(i, r, k) == [inst |-> i, reg |-> r, num |-> k]

Slots(i) ==
  UNION {{Slot(i, r, k) : k \in 0..Regs[i][r].count - 1} : r \in DOMAIN Regs[i]}

SlotAddr(s) == RegAddr(s.inst, s.reg, s.num)

(* The slot after s in the two loops, NULL after the last. *)
NextSlot(s) ==
  IF s.num + 1 < Regs[s.inst][s.reg].count THEN Slot(s.inst, s.reg, s.num + 1)
  ELSE IF s.reg < Len(Regs[s.inst]) THEN Slot(s.inst, s.reg + 1, 0)
  ELSE NULL

(* The slots entered so far. *)
Entered ==
  {s \in UNION {Slots(i) : i \in {j \in Inst : life[j] # "raw"}} :
     slot = NULL \/ s.inst # slot.inst
       \/ s.reg < slot.reg \/ (s.reg = slot.reg /\ s.num < slot.num)}

-----------------------------------------------------------------------------
Init ==
  /\ Mem!Init
  /\ life = [i \in Inst |-> "raw"]
  /\ slot = NULL
  /\ ios = [h \in Bucket |-> <<>>]
  /\ gone = FALSE
  /\ served = {}
  /\ trouble = "none"

Idle == trouble = "none" /\ slot = NULL

(* csim_new_component, up to its loop over the registers. *)
NewComponent(i) ==
  /\ Idle /\ ~gone
  /\ life[i] = "raw"
  /\ life' = [life EXCEPT ![i] = "live"]
  /\ slot' = Slot(i, 1, 0)
  /\ UNCHANGED <<ios, gone, served, trouble, memory>>

(* Variant: only the page of the first register of a group. *)
GivePageOfGroup(a, size) ==
  LET pa == Mem!First(Mem!PageOf(a)) IN
  IF slot.num = 0 /\ Mem!WithPages({Mem!PageOf(a)})[Mem!PageOf(a)].info = NULL
  THEN Mem!SetRange(pa, pa + size - 1)
  ELSE Mem!GetCallbackData(pa)

(* Variant: the range ends on the first byte of the next page. *)
GivePageInclusive(a, size) ==
  LET pa == Mem!First(Mem!PageOf(a)) IN
  IF Mem!WithPages({Mem!PageOf(a)})[Mem!PageOf(a)].info = NULL
  THEN Mem!SetRange(pa, pa + PageSize)
  ELSE Mem!GetCallbackData(pa)

(* The page of address a is given to csim_on_io unless it has a callback.  *)
GivePage(a, size) ==
  LET pa == Mem!First(Mem!PageOf(a)) IN
  IF Mem!WithPages({Mem!PageOf(a)})[Mem!PageOf(a)].info = NULL
  THEN Mem!SetRange(pa, pa + size - 1)
  ELSE Mem!GetCallbackData(pa)

(* One turn of csim_io_add: the register is entered at the head of the     *)
(* chain of its address.                                                   *)
IoAdd ==
  /\ trouble = "none" /\ slot # NULL
  /\ LET a == SlotAddr(slot) IN
       /\ ios' = [ios EXCEPT ![Hash(a)] =
                    <<[addr |-> a, inst |-> slot.inst, reg |-> slot.reg]>> \o @]
       /\ GivePage(a, Regs[slot.inst][slot.reg].size)
  /\ slot' = NextSlot(slot)
  /\ UNCHANGED <<life, gone, served, trouble>>

-----------------------------------------------------------------------------
(* The entries of the chain h that are for address a. *)
EntriesAt(h, a) == {e \in Range(ios[h]) : e.addr = a}

(* Variant: the number is not relative to the group of registers. *)
NumberFromBase(e, a) == ((a - Base[e.inst]) % Mem!Space) \div Regs[e.inst][e.reg].stride

(* csim_on_io: the number of the register accessed. *)
Number(e, a) ==
  ((a - Base[e.inst] - Regs[e.inst][e.reg].offset) % Mem!Space)
    \div Regs[e.inst][e.reg].stride

(* csim_on_io for an access to n bytes at a.  The loop does not stop at    *)
(* the first entry; the entries of one address differ in their functions   *)
(* only, so that their order is left out.                                  *)
OnIO(a, n) ==
  LET found == EntriesAt(Hash(a), a) IN
  IF gone \/ \E e \in found : e.inst \notin Live
  THEN trouble' = "stale" /\ served' = {}
  ELSE IF \E e \in found : Regs[e.inst][e.reg].stride = 0
  THEN trouble' = "divide" /\ served' = {}
  ELSE /\ trouble' = "none"
       /\ served' = {Slot(e.inst, e.reg, Number(e, a)) :
                       e \in {f \in found : Regs[f.inst][f.reg].size = n}}

(* The simulated program reads or writes n bytes at a. *)
Access(a, n) ==
  /\ Idle
  /\ Mem!ReadInt(a, n) \/ Mem!WriteInt(a, [x \in 1..n |-> 0])
  /\ IF last'.op = "device"
     THEN OnIO(a, n)
     ELSE served' = {} /\ UNCHANGED trouble
  /\ UNCHANGED <<life, slot, ios, gone>>

-----------------------------------------------------------------------------
(* csim_delete_component frees the instance and leaves its registers. *)
DeleteComponent(i) ==
  /\ Idle /\ ~gone
  /\ "delete" \in May
  /\ i \in Live
  /\ life' = [life EXCEPT ![i] = "freed"]
  /\ served' = {}
  /\ UNCHANGED <<slot, ios, gone, trouble, memory>>

(* csim_io_remove reaches assert(0) after the first register, the entries  *)
(* for its address being removed and freed.                                *)
IoRemove(i, r) ==
  /\ Idle /\ ~gone
  /\ "remove" \in May
  /\ i \in Live /\ r \in DOMAIN Regs[i]
  /\ LET a == RegAddr(i, r, 0) IN
       ios' = [ios EXCEPT ![Hash(a)] = SelectSeq(@, LAMBDA e : e.addr # a)]
  /\ trouble' = "abort"
  /\ UNCHANGED <<life, slot, gone, served, memory>>

(* csim_delete_board frees the instances, the entries and the board; the   *)
(* memory, which the caller provided, keeps its callbacks.  Instances that *)
(* were deleted before are the matter of CsimBoard.                        *)
DeleteBoard ==
  /\ Idle /\ ~gone
  /\ "outlive" \in May
  /\ \A i \in Inst : life[i] # "freed"
  /\ life' = [i \in Inst |-> IF i \in Live THEN "freed" ELSE life[i]]
  /\ ios' = [h \in Bucket |-> <<>>]
  /\ gone' = TRUE
  /\ served' = {}
  /\ UNCHANGED <<slot, trouble, memory>>

Next ==
  \/ \E i \in Inst :
       \/ NewComponent(i) \/ DeleteComponent(i)
       \/ \E r \in DOMAIN Regs[i] : IoRemove(i, r)
  \/ IoAdd
  \/ \E a \in Starts, n \in {1, 2, 4} : Access(a, n)
  \/ DeleteBoard

Spec == Init /\ [][Next]_vars

-----------------------------------------------------------------------------
TypeOK ==
  /\ life \in [Inst -> {"raw", "live", "freed"}]
  /\ slot = NULL \/ (slot.inst \in Live /\ slot \in Slots(slot.inst))
  /\ ios \in [Bucket -> Seq([addr : Mem!Addr, inst : Inst, reg : Nat])]
  /\ gone \in BOOLEAN
  /\ trouble \in {"none", "stale", "divide", "abort"}

(* Every register entered so far is on a page whose accesses go to         *)
(* csim_on_io, whether the page existed before or not, whoever shares it.  *)
Reachable ==
  \A s \in Entered :
    LET p == Mem!PageOf(SlotAddr(s))
    IN p \in DOMAIN pages /\ pages[p].info # NULL

(* No page is taken from the memory but those with a register: the others, *)
(* created before or after, stay ordinary memory.                          *)
OnlyRegisterPages ==
  \A p \in DOMAIN pages :
    pages[p].info # NULL => \E s \in Entered : Mem!PageOf(SlotAddr(s)) = p

(* An access calls the functions of the registers declared at its address  *)
(* with its size, with the number they have in their group, and no other,  *)
(* whichever order the components came in and however their registers      *)
(* overlap and share buckets.                                              *)
Dispatched ==
  [][\A a \in Starts, n \in {1, 2, 4} :
       Access(a, n) /\ trouble' = "none" =>
         served' = {s \in UNION {Slots(i) : i \in Live} :
                      SlotAddr(s) = a /\ Regs[s.inst][s.reg].size = n}]_vars

=============================================================================
