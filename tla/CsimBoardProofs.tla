--------------------------- MODULE CsimBoardProofs ---------------------------
(***************************************************************************)
(* Proofs about CsimBoard: as long as callers disconnect only ports that   *)
(* are connected together, links stay symmetric and no port has two        *)
(* partners, whatever is created, deleted or sent, and from whichever      *)
(* construct function, step or destructor it is done.  The two walks over  *)
(* the instances step every core once and free every instance but those    *)
(* destructors create, and reach none that is freed unless a caller takes  *)
(* a liberty.                                                              *)
(***************************************************************************)
EXTENDS CsimBoard, TLAPS

(* Links are symmetric, and the ports of an instance that does not exist   *)
(* yet are free: csim_new_component clears them, which would leave half of *)
(* a link behind if one of them were connected.                            *)
LinkInv ==
  /\ link \in [Port -> Port \cup {NULL}]
  /\ LinkSymmetric
  /\ \A p \in Port : life[Owner[p]] = "raw" => link[p] = NULL

LifeInv == life \in [Inst -> {"raw", "live", "freed"}]

BoardInv == LifeInv /\ LinkInv

-----------------------------------------------------------------------------
LEMMA InitInv == Init => BoardInv
BY DEF Init, BoardInv, LifeInv, LinkInv, LinkSymmetric

(* No step brings a raw instance back, and only creation ends rawness.     *)
LEMMA LinkUnchanged ==
  ASSUME BoardInv, link' = link, LifeInv',
         \A i \in Inst : life'[i] = "raw" => life[i] = "raw"
  PROVE  BoardInv'
BY OwnerAssumption DEF BoardInv, LinkInv, LinkSymmetric

LEMMA NewComponentInv ==
  ASSUME BoardInv, NEW i \in Inst, NewComponent(i)
  PROVE  BoardInv'
<1>1. LifeInv'
  BY DEF NewComponent, BoardInv, LifeInv
<1>2. \A p \in Port : Owner[p] = i => link[p] = NULL
  BY DEF NewComponent, BoardInv, LinkInv
<1>3. \A p \in Port : link'[p] = link[p]
  BY <1>2 DEF NewComponent
<1>4. link' \in [Port -> Port \cup {NULL}]
  BY DEF NewComponent, BoardInv, LinkInv
<1>5. link' = link
  BY <1>3, <1>4 DEF BoardInv, LinkInv
<1>6. \A j \in Inst : life'[j] = "raw" => life[j] = "raw"
  BY DEF NewComponent, BoardInv, LifeInv
<1> QED BY <1>1, <1>5, <1>6, LinkUnchanged

(* What a call that uses the instances of S leaves alone.                  *)
LEMMA UseKeeps ==
  ASSUME NEW S, Use(S)
  PROVE  /\ ~fault /\ CodeRuns /\ \A i \in S : life[i] # "raw"
         /\ fault' = \E i \in S : Dangling(i)
         /\ liberty' = (liberty \/ (pc = "teardown" /\ S \cap (Younger(Last(dying)) \ late) # {}))
         /\ UNCHANGED <<life, insts, cores, pc, cur, dying, nxt, owed, late>>
BY DEF Use, CodeRuns, walk

LEMMA ConnectInv ==
  ASSUME BoardInv, NEW p \in Port, NEW q \in Port, Connect(p, q)
  PROVE  BoardInv'
<1>1. life' = life /\ life[Owner[p]] # "raw" /\ life[Owner[q]] # "raw"
  BY UseKeeps DEF Connect
<1>2. LifeInv' /\ \A i \in Inst : life'[i] = "raw" => life[i] = "raw"
  BY <1>1 DEF BoardInv, LifeInv
<1>3. CASE link' = link
  BY <1>2, <1>3, LinkUnchanged
<1>4. CASE link' # link
  <2>1. link[p] = NULL /\ link[q] = NULL /\ link' = [link EXCEPT ![p] = q, ![q] = p]
    BY <1>4 DEF Connect
  <2>2. link' \in [Port -> Port \cup {NULL}]
    BY <2>1 DEF BoardInv, LinkInv
  <2>3. link'[p] = q /\ link'[q] = p
    BY <2>1 DEF BoardInv, LinkInv
  <2>4. \A x \in Port : x # p /\ x # q => link'[x] = link[x]
    BY <2>1 DEF BoardInv, LinkInv
  <2>5. \A x \in Port : link[x] # p /\ link[x] # q
    BY <2>1, NULLAssumption DEF BoardInv, LinkInv, LinkSymmetric
  <2>6. LinkSymmetric'
    <3> SUFFICES ASSUME NEW x \in Port, link'[x] # NULL
                 PROVE  link'[link'[x]] = x
      BY DEF LinkSymmetric
    <3>1. CASE x = p \/ x = q
      BY <3>1, <2>3
    <3>2. CASE x # p /\ x # q
      <4>1. link[x] \in Port /\ link[link[x]] = x
        BY <3>2, <2>4 DEF BoardInv, LinkInv, LinkSymmetric
      <4> QED BY <4>1, <3>2, <2>4, <2>5
    <3> QED BY <3>1, <3>2
  <2>7. \A x \in Port : life'[Owner[x]] = "raw" => link'[x] = NULL
    <3> SUFFICES ASSUME NEW x \in Port, life'[Owner[x]] = "raw"
                 PROVE  link'[x] = NULL
      OBVIOUS
    <3>1. x # p /\ x # q
      BY <1>1
    <3> QED BY <1>1, <2>4, <3>1 DEF BoardInv, LinkInv
  <2> QED BY <1>2, <2>2, <2>6, <2>7 DEF BoardInv, LinkInv
<1> QED BY <1>3, <1>4

LEMMA DisconnectInv ==
  ASSUME BoardInv, ~Cross,
         NEW p \in Port, NEW q \in Port, Disconnect(p, q)
  PROVE  BoardInv'
<1>1. life' = life
  BY UseKeeps DEF Disconnect
<1>2. LifeInv' /\ \A i \in Inst : life'[i] = "raw" => life[i] = "raw"
  BY <1>1 DEF BoardInv, LifeInv
<1>3. CASE link' = link
  BY <1>2, <1>3, LinkUnchanged
<1>4. CASE link' # link
  <2>1. link[p] = q /\ link' = [link EXCEPT ![p] = NULL, ![q] = NULL]
    BY <1>4 DEF Disconnect
  <2>2. link[q] = p
    BY <2>1, NULLAssumption DEF BoardInv, LinkInv, LinkSymmetric
  <2>3. link' \in [Port -> Port \cup {NULL}]
    BY <2>1 DEF BoardInv, LinkInv
  <2>4. /\ link'[p] = NULL /\ link'[q] = NULL
        /\ \A x \in Port : x # p /\ x # q => link'[x] = link[x]
    BY <2>1 DEF BoardInv, LinkInv
  <2>5. LinkSymmetric'
    <3> SUFFICES ASSUME NEW x \in Port, link'[x] # NULL
                 PROVE  link'[link'[x]] = x
      BY DEF LinkSymmetric
    <3>1. x # p /\ x # q /\ link'[x] = link[x]
      BY <2>4
    <3>2. link[x] \in Port /\ link[link[x]] = x
      BY <3>1 DEF BoardInv, LinkInv, LinkSymmetric
    <3>3. link[x] # p /\ link[x] # q
      BY <2>1, <2>2, <3>1, <3>2
    <3> QED BY <2>4, <3>1, <3>2, <3>3
  <2>6. \A x \in Port : life'[Owner[x]] = "raw" => link'[x] = NULL
    BY <1>1, <2>4 DEF BoardInv, LinkInv
  <2> QED BY <1>2, <2>3, <2>5, <2>6 DEF BoardInv, LinkInv
<1> QED BY <1>3, <1>4

LEMMA DestructReturnsInv ==
  ASSUME BoardInv, DestructReturns
  PROVE  BoardInv'
<1>1. LifeInv'
  BY DEF DestructReturns, BoardInv, LifeInv
<1>2. \A i \in Inst : life'[i] = "raw" => life[i] = "raw"
  BY DEF DestructReturns, BoardInv, LifeInv
<1> QED BY <1>1, <1>2, LinkUnchanged DEF DestructReturns

(* The steps that change neither the links nor the life of an instance.    *)
LEMMA OtherInv ==
  ASSUME BoardInv, life' = life, link' = link
  PROVE  BoardInv'
BY LinkUnchanged DEF BoardInv, LifeInv

LEMMA NextInv ==
  ASSUME ~Cross, BoardInv, [Next]_vars
  PROVE  BoardInv'
<1>1. ASSUME NEW i \in Inst, NewComponent(i) PROVE BoardInv'
  BY <1>1, NewComponentInv
<1>2. ASSUME NEW i \in Inst, DeleteComponent(i) PROVE BoardInv'
  BY <1>2, OtherInv DEF DeleteComponent
<1>3. ASSUME NEW p \in Port, NEW q \in Port, Connect(p, q) PROVE BoardInv'
  BY <1>3, ConnectInv
<1>4. ASSUME NEW p \in Port, NEW q \in Port, Disconnect(p, q) PROVE BoardInv'
  BY <1>4, DisconnectInv
<1>5. ASSUME NEW p \in Port, Send(p) PROVE BoardInv'
  BY <1>5, OtherInv, UseKeeps DEF Send
<1>6. CASE BeginCores
  BY <1>6, OtherInv DEF BeginCores
<1>7. CASE CoreReturns
  BY <1>7, OtherInv DEF CoreReturns
<1>8. CASE DeleteBoard
  BY <1>8, OtherInv DEF DeleteBoard
<1>9. CASE DestructReturns
  BY <1>9, DestructReturnsInv
<1>10. CASE UNCHANGED vars
  BY <1>10, OtherInv DEF vars, walk
<1> QED
  BY <1>1, <1>2, <1>3, <1>4, <1>5, <1>6, <1>7, <1>8, <1>9, <1>10 DEF Next

LEMMA Invariance == ASSUME ~Cross PROVE Spec => []BoardInv
<1>1. BoardInv /\ [Next]_vars => BoardInv'
  BY NextInv
<1> QED BY InitInv, <1>1, PTL DEF Spec

-----------------------------------------------------------------------------
(* csim_connect and csim_disconnect keep links symmetric: the port at the  *)
(* other end of a link is linked back.                                     *)
THEOREM LinksSymmetric == ASSUME ~Cross PROVE Spec => []LinkSymmetric
<1>1. BoardInv => LinkSymmetric
  BY DEF BoardInv, LinkInv
<1> QED BY <1>1, Invariance, PTL

(* A port is connected to one other port at most, as csim/README requires. *)
THEOREM OnePartnerOnly == ASSUME ~Cross PROVE Spec => []OnePartner
<1>1. BoardInv => OnePartner
  BY DEF BoardInv, LinkInv, LinkSymmetric, OnePartner
<1> QED BY <1>1, Invariance, PTL

-----------------------------------------------------------------------------
(* The walks.  What follows holds with cross disconnections, too.          *)
(* The chain q has each member of S once. *)
IsChain(q, S) ==
  /\ q \in Seq(Inst)
  /\ \A j, k \in 1..Len(q) : q[j] = q[k] => j = k
  /\ \A j \in 1..Len(q) : q[j] \in S
  /\ \A i \in S : \E j \in 1..Len(q) : q[j] = i

Made == {i \in Inst : life[i] # "raw"}

WalkTypes ==
  /\ LifeInv
  /\ IsChain(insts, Made) /\ IsChain(cores, Made \cap Core)
  /\ pc \in {"main", "cores", "teardown", "gone"}
  /\ dying \in Seq(Inst) /\ \A j \in 1..Len(dying) : dying[j] \in Made

(* A link leads to a port of an instance that was made. *)
LinkMade ==
  /\ link \in [Port -> Port \cup {NULL}]
  /\ \A p \in Port : link[p] # NULL => life[Owner[link[p]]] # "raw"

(* The cores still owed a step are those from the one that runs to the end *)
(* of the chain, but for those freed before the walk.                      *)
CoresFrom(k) ==
  /\ cur = cores[k] /\ cur \in owed
  /\ \A i \in owed : \E j \in k..Len(cores) : cores[j] = i
  /\ \A j \in k..Len(cores) : cores[j] \in owed \/ life[cores[j]] = "freed"

CoreWalk ==
  ~fault => IF pc = "cores" THEN \E k \in 1..Len(cores) : CoresFrom(k) ELSE owed = {}

(* csim_delete_board has freed the instances before the one whose          *)
(* destructor it has called, unless they were created since, and has read  *)
(* which one is next.                                                      *)
TornDownTo(k) ==
  /\ dying # <<>> /\ dying[Len(dying)] = insts[k]
  /\ nxt = IF k = Len(insts) THEN NULL ELSE insts[k + 1]
  /\ \A j \in 1..k - 1 : insts[j] \in late \/ life[insts[j]] = "freed"
  /\ \A j \in k..Len(insts) : insts[j] \notin late
  /\ ~liberty => \A j \in k..Len(insts) : life[insts[j]] = "live"

EndWalk ==
  /\ pc \in {"main", "cores"} => late = {}
  /\ pc = "teardown" => \E k \in 1..Len(insts) : TornDownTo(k)
  /\ pc = "gone" => dying = <<>> /\ Live \subseteq late

(* Without liberties nothing is freed but by csim_delete_board, which      *)
(* frees no instance created meanwhile.                                    *)
Undisturbed ==
  ~liberty =>
    /\ ~fault
    /\ pc \in {"main", "cores"} => dying = <<>> /\ \A i \in Inst : life[i] # "freed"
    /\ pc = "teardown" => Len(dying) = 1
    /\ pc = "cores" => cur \in Inst /\ life[cur] # "raw"
    /\ late \subseteq Live

WalkInv == WalkTypes /\ LinkMade /\ CoreWalk /\ EndWalk /\ Undisturbed

-----------------------------------------------------------------------------
(* A new element at the head of a chain moves the others by one.           *)
LEMMA Prepend ==
  ASSUME NEW S, NEW q, IsChain(q, S), NEW i \in Inst, i \notin S,
         NEW r, r = <<i>> \o q
  PROVE  /\ Len(r) = Len(q) + 1 /\ Len(q) \in Nat
         /\ r[1] = i /\ \A j \in 1..Len(q) : r[j + 1] = q[j]
         /\ IsChain(r, S \cup {i})
<1>1. q \in Seq(Inst) /\ Len(q) \in Nat
  BY DEF IsChain
<1>2. /\ r \in Seq(Inst) /\ Len(r) = Len(q) + 1
      /\ r[1] = i /\ \A j \in 1..Len(q) : r[j + 1] = q[j]
  BY <1>1
<1>3. \A j \in 1..Len(r) : j = 1 \/ (j - 1 \in 1..Len(q) /\ r[j] = q[j - 1])
  <2> SUFFICES ASSUME NEW j \in 1..Len(r), j # 1
               PROVE  j - 1 \in 1..Len(q) /\ r[j] = q[j - 1]
    OBVIOUS
  <2>1. j - 1 \in 1..Len(q) /\ (j - 1) + 1 = j
    BY <1>1, <1>2
  <2> QED BY <1>2, <2>1
<1>4. \A j \in 1..Len(q) : q[j] \in S
  BY DEF IsChain
<1>5. \A j \in 1..Len(r) : r[j] \in S \cup {i}
  BY <1>2, <1>3, <1>4
<1>6. \A j, k \in 1..Len(r) : r[j] = r[k] => j = k
  <2> SUFFICES ASSUME NEW j \in 1..Len(r), NEW k \in 1..Len(r), r[j] = r[k]
               PROVE  j = k
    OBVIOUS
  <2>1. CASE j = 1 \/ k = 1
    BY <1>2, <1>3, <1>4, <2>1
  <2>2. CASE j # 1 /\ k # 1
    <3>1. j - 1 = k - 1
      BY <1>3, <2>2 DEF IsChain
    <3> QED BY <1>2, <3>1
  <2> QED BY <2>1, <2>2
<1>7. \A x \in S \cup {i} : \E j \in 1..Len(r) : r[j] = x
  <2> SUFFICES ASSUME NEW x \in S \cup {i} PROVE \E j \in 1..Len(r) : r[j] = x
    OBVIOUS
  <2>1. CASE x = i
    <3>1. 1 \in 1..Len(r)
      BY <1>1, <1>2
    <3> QED BY <1>2, <2>1, <3>1
  <2>2. CASE x # i
    <3>1. PICK j \in 1..Len(q) : q[j] = x
      BY <2>2 DEF IsChain
    <3>2. j + 1 \in 1..Len(r)
      BY <1>1, <1>2
    <3> QED BY <1>2, <3>1, <3>2
  <2> QED BY <2>1, <2>2
<1> QED BY <1>1, <1>2, <1>5, <1>6, <1>7 DEF IsChain

(* The pointer next of an element of a chain.                              *)
LEMMA NextInChain ==
  ASSUME NEW S, NEW q, IsChain(q, S), NEW k \in 1..Len(q)
  PROVE  NextIn(q, q[k]) = IF k = Len(q) THEN NULL ELSE q[k + 1]
<1>1. Len(q) \in Nat /\ Len(q) \in 1..Len(q)
  BY DEF IsChain
<1>2. q[Len(q)] = q[k] <=> k = Len(q)
  BY <1>1 DEF IsChain
<1>3. (CHOOSE j \in 1..Len(q) : q[j] = q[k]) = k
  BY DEF IsChain
<1> QED BY <1>2, <1>3 DEF NextIn, Last

LEMMA WalkInit == Init => WalkInv
<1> SUFFICES ASSUME Init PROVE WalkInv
  OBVIOUS
<1>1. Made = {} /\ Live = {}
  BY DEF Init, Made, Live
<1>2. WalkTypes
  BY <1>1 DEF Init, WalkTypes, LifeInv, IsChain
<1> QED BY <1>1, <1>2 DEF Init, WalkInv, LinkMade, CoreWalk, EndWalk, Undisturbed

(* Steps that leave the chains, the walks and the lives alone.             *)
LEMMA WalkSame ==
  ASSUME WalkInv, LinkMade',
         UNCHANGED <<life, insts, cores, pc, cur, dying, nxt, owed, late>>,
         liberty => liberty', ~liberty' => ~fault', ~fault
  PROVE  WalkInv'
<1>1. WalkTypes'
  BY DEF WalkInv, WalkTypes, LifeInv, Made, IsChain
<1>2. CoreWalk'
  BY DEF WalkInv, CoreWalk, CoresFrom
<1>3. EndWalk'
  BY DEF WalkInv, EndWalk, TornDownTo, Live
<1>4. Undisturbed'
  BY DEF WalkInv, Undisturbed, Live
<1> QED BY <1>1, <1>2, <1>3, <1>4 DEF WalkInv

LEMMA NewComponentWalk ==
  ASSUME WalkInv, NEW i \in Inst, NewComponent(i)
  PROVE  WalkInv'
<1>1. /\ ~fault /\ (pc \in {"main", "cores"} \/ dying # <<>>) /\ life[i] = "raw"
      /\ life' = [life EXCEPT ![i] = "live"]
      /\ insts' = <<i>> \o insts
      /\ cores' = IF i \in Core THEN <<i>> \o cores ELSE cores
      /\ link' = [p \in Port |-> IF Owner[p] = i THEN NULL ELSE link[p]]
      /\ late' = IF pc = "teardown" THEN late \cup {i} ELSE late
      /\ UNCHANGED <<pc, cur, dying, nxt, fault, owed, liberty>>
  BY DEF NewComponent, CodeRuns, walk
<1>2. life'[i] = "live" /\ \A j \in Inst : j # i => life'[j] = life[j]
  BY <1>1 DEF WalkInv, WalkTypes, LifeInv
<1>3. Made' = Made \cup {i} /\ i \notin Made
  BY <1>1, <1>2 DEF Made
<1>4. IsChain(insts, Made) /\ IsChain(cores, Made \cap Core) /\ LifeInv
  BY DEF WalkInv, WalkTypes
<1>5. IsChain(insts', Made')
  BY <1>1, <1>3, <1>4, Prepend
<1>6. IsChain(cores', Made' \cap Core)
  <2>1. CASE i \in Core
    <3>1. Made' \cap Core = (Made \cap Core) \cup {i}
      BY <1>3, <2>1
    <3>2. i \notin Made \cap Core /\ IsChain(cores, Made \cap Core)
      BY <1>3, <1>4
    <3>3. cores' = <<i>> \o cores
      BY <1>1, <2>1
    <3>4. IsChain(cores', (Made \cap Core) \cup {i})
      BY <3>2, <3>3, Prepend
    <3> QED BY <3>1, <3>4
  <2>2. CASE i \notin Core
    BY <1>1, <1>3, <1>4, <2>2 DEF IsChain
  <2> QED BY <2>1, <2>2
<1>7. WalkTypes'
  <2>1. LifeInv'
    BY <1>1, <1>4 DEF LifeInv
  <2>2. \A j \in 1..Len(dying) : dying[j] \in Made'
    BY <1>3 DEF WalkInv, WalkTypes
  <2> QED BY <1>1, <1>5, <1>6, <2>1, <2>2 DEF WalkInv, WalkTypes
<1>8. LinkMade'
  <2>1. link' \in [Port -> Port \cup {NULL}]
    BY <1>1 DEF WalkInv, LinkMade
  <2>2. ASSUME NEW p \in Port, link'[p] # NULL
        PROVE  life'[Owner[link'[p]]] # "raw"
    <3>1. link'[p] = link[p] /\ link[p] \in Port /\ life[Owner[link[p]]] # "raw"
      BY <1>1, <2>2 DEF WalkInv, LinkMade
    <3>2. Owner[link[p]] \in Inst
      BY <3>1, OwnerAssumption
    <3> QED BY <1>2, <3>1, <3>2
  <2> QED BY <2>1, <2>2 DEF LinkMade
<1>9. CoreWalk'
  <2>1. CASE pc # "cores"
    BY <1>1, <2>1 DEF WalkInv, CoreWalk
  <2>2. CASE pc = "cores" /\ i \notin Core
    <3>1. PICK k \in 1..Len(cores) : CoresFrom(k)
      BY <1>1, <2>2 DEF WalkInv, CoreWalk
    <3>2. \A j \in k..Len(cores) : j \in 1..Len(cores)
      BY <1>4 DEF IsChain
    <3>3. \A j \in k..Len(cores) : cores[j] # i /\ cores[j] \in Inst
      BY <1>3, <1>4, <3>2, CoreAssumption DEF IsChain
    <3>4. CoresFrom(k)'
      BY <1>1, <1>2, <2>2, <3>1, <3>3 DEF CoresFrom
    <3> QED BY <1>1, <2>2, <3>4 DEF CoreWalk
  <2>3. CASE pc = "cores" /\ i \in Core
    <3>1. PICK k \in 1..Len(cores) : CoresFrom(k)
      BY <1>1, <2>3 DEF WalkInv, CoreWalk
    <3>2. /\ Len(cores') = Len(cores) + 1 /\ Len(cores) \in Nat
          /\ \A j \in 1..Len(cores) : cores'[j + 1] = cores[j]
      BY <1>1, <1>3, <1>4, <2>3, Prepend
    <3>3. \A j \in 1..Len(cores) : cores[j] # i /\ cores[j] \in Inst
      BY <1>3, <1>4, CoreAssumption DEF IsChain
    <3>4. k + 1 \in 1..Len(cores') /\ cur = cores'[k + 1] /\ cur \in owed
      BY <3>1, <3>2 DEF CoresFrom
    <3>5. \A x \in owed : \E j \in (k + 1)..Len(cores') : cores'[j] = x
      <4> SUFFICES ASSUME NEW x \in owed
                   PROVE  \E j \in (k + 1)..Len(cores') : cores'[j] = x
        OBVIOUS
      <4>1. PICK j \in k..Len(cores) : cores[j] = x
        BY <3>1 DEF CoresFrom
      <4>2. j + 1 \in (k + 1)..Len(cores') /\ cores'[j + 1] = x
        BY <3>2, <4>1
      <4> QED BY <4>2
    <3>6. \A j \in (k + 1)..Len(cores') :
            cores'[j] \in owed \/ life'[cores'[j]] = "freed"
      <4> SUFFICES ASSUME NEW j \in (k + 1)..Len(cores')
                   PROVE  cores'[j] \in owed \/ life'[cores'[j]] = "freed"
        OBVIOUS
      <4>1. j - 1 \in k..Len(cores) /\ j - 1 \in 1..Len(cores) /\ (j - 1) + 1 = j
        BY <3>2
      <4>2. cores'[j] = cores[j - 1]
        BY <3>2, <4>1
      <4> QED BY <1>2, <3>1, <3>3, <4>1, <4>2 DEF CoresFrom
    <3>7. CoresFrom(k + 1)'
      BY <1>1, <3>4, <3>5, <3>6 DEF CoresFrom
    <3> QED BY <1>1, <2>3, <3>4, <3>7 DEF CoreWalk
  <2> QED BY <2>1, <2>2, <2>3
<1>10. EndWalk'
  <2>1. CASE pc # "teardown"
    BY <1>1, <2>1 DEF WalkInv, EndWalk
  <2>2. CASE pc = "teardown"
    <3>1. PICK k \in 1..Len(insts) : TornDownTo(k)
      BY <2>2 DEF WalkInv, EndWalk
    <3>2. /\ Len(insts') = Len(insts) + 1 /\ Len(insts) \in Nat
          /\ insts'[1] = i /\ \A j \in 1..Len(insts) : insts'[j + 1] = insts[j]
      BY <1>1, <1>3, <1>4, Prepend
    <3>3. \A j \in 1..Len(insts) : insts[j] # i /\ insts[j] \in Inst
      BY <1>3, <1>4 DEF IsChain
    <3>4. \A j \in 2..Len(insts') : j - 1 \in 1..Len(insts) /\ insts'[j] = insts[j - 1]
      <4> SUFFICES ASSUME NEW j \in 2..Len(insts')
                   PROVE  j - 1 \in 1..Len(insts) /\ insts'[j] = insts[j - 1]
        OBVIOUS
      <4>1. j - 1 \in 1..Len(insts) /\ (j - 1) + 1 = j
        BY <3>2
      <4> QED BY <3>2, <4>1
    <3>5. k + 1 \in 1..Len(insts') /\ insts'[k + 1] = insts[k]
      BY <3>2
    <3>6. nxt = IF k + 1 = Len(insts') THEN NULL ELSE insts'[(k + 1) + 1]
      <4>1. k # Len(insts) => k + 1 \in 1..Len(insts)
        BY <3>2
      <4> QED BY <3>1, <3>2, <4>1 DEF TornDownTo
    <3>7. \A j \in 1..(k + 1) - 1 : insts'[j] \in late' \/ life'[insts'[j]] = "freed"
      <4> SUFFICES ASSUME NEW j \in 1..(k + 1) - 1
                   PROVE  insts'[j] \in late' \/ life'[insts'[j]] = "freed"
        OBVIOUS
      <4>1. CASE j = 1
        BY <1>1, <2>2, <3>2, <4>1
      <4>2. CASE j # 1
        <5>1. j - 1 \in 1..k - 1 /\ j \in 2..Len(insts')
          BY <3>2, <4>2
        <5> QED BY <1>1, <1>2, <2>2, <3>1, <3>3, <3>4, <5>1 DEF TornDownTo
      <4> QED BY <4>1, <4>2
    <3>8. \A j \in (k + 1)..Len(insts') :
            /\ insts'[j] \notin late'
            /\ ~liberty => life'[insts'[j]] = "live"
      <4> SUFFICES ASSUME NEW j \in (k + 1)..Len(insts')
                   PROVE  /\ insts'[j] \notin late'
                          /\ ~liberty => life'[insts'[j]] = "live"
        OBVIOUS
      <4>1. j - 1 \in k..Len(insts) /\ j \in 2..Len(insts')
        BY <3>2
      <4> QED BY <1>1, <1>2, <3>1, <3>3, <3>4, <4>1 DEF TornDownTo
    <3>9. TornDownTo(k + 1)'
      BY <1>1, <3>1, <3>5, <3>6, <3>7, <3>8 DEF TornDownTo
    <3> QED BY <1>1, <2>2, <3>5, <3>9 DEF EndWalk
  <2> QED BY <2>1, <2>2
<1>11. Undisturbed'
  <2>1. Live \subseteq Live' /\ i \in Live'
    BY <1>2 DEF Live
  <2> QED BY <1>1, <1>2, <2>1 DEF WalkInv, Undisturbed
<1> QED BY <1>7, <1>8, <1>9, <1>10, <1>11 DEF WalkInv

(* Without liberties callers use no freed instance: before                 *)
(* csim_delete_board there is none, and in it only younger ones are freed. *)
LEMMA UseLive ==
  ASSUME WalkInv, NEW S \in SUBSET Inst, Use(S), ~liberty'
  PROVE  ~fault'
<1>1. ~liberty
  BY UseKeeps
<1> SUFFICES ASSUME NEW i \in S PROVE i \in Live
  BY UseKeeps DEF Dangling
<1>2. i \in Inst /\ life[i] # "raw" /\ CodeRuns
  BY UseKeeps
<1>3. CASE pc # "teardown"
  <2>1. pc \in {"main", "cores"}
    BY <1>2, <1>3 DEF CodeRuns, WalkInv, WalkTypes, EndWalk
  <2> QED BY <1>1, <1>2, <2>1 DEF WalkInv, WalkTypes, LifeInv, Undisturbed, Live
<1>4. CASE pc = "teardown"
  <2>1. PICK k \in 1..Len(insts) : TornDownTo(k)
    BY <1>4 DEF WalkInv, EndWalk
  <2>2. IsChain(insts, Made) /\ Len(insts) \in Nat
    BY DEF WalkInv, WalkTypes, IsChain
  <2>3. PICK m \in 1..Len(insts) : insts[m] = i
    BY <1>2, <2>2 DEF IsChain, Made
  <2>4. CASE m \in k..Len(insts)
    BY <1>1, <1>2, <2>1, <2>3, <2>4 DEF TornDownTo, Live
  <2>5. CASE m \in 1..k - 1
    <3>1. Last(dying) = insts[k]
      BY <2>1 DEF TornDownTo, Last
    <3>2. (CHOOSE j \in 1..Len(insts) : insts[j] = insts[k]) = k
      BY <2>2 DEF IsChain
    <3>3. i \in Younger(Last(dying))
      BY <2>3, <2>5, <3>1, <3>2 DEF Younger
    <3>4. i \in late
      BY <1>4, <3>3, UseKeeps
    <3> QED BY <1>1, <3>4 DEF WalkInv, Undisturbed
  <2> QED BY <2>2, <2>4, <2>5
<1> QED BY <1>3, <1>4

LEMMA UseWalk ==
  ASSUME WalkInv, NEW S \in SUBSET Inst, Use(S), LinkMade'
  PROVE  WalkInv'
<1>1. /\ UNCHANGED <<life, insts, cores, pc, cur, dying, nxt, owed, late>>
      /\ ~fault /\ (liberty => liberty')
  BY UseKeeps
<1>2. ~liberty' => ~fault'
  BY UseLive
<1> QED BY <1>1, <1>2, WalkSame

LEMMA LinksWalk ==
  ASSUME WalkInv, NEW p \in Port, NEW q \in Port, Connect(p, q) \/ Disconnect(p, q)
  PROVE  WalkInv'
<1>1. Use({Owner[p], Owner[q]}) /\ {Owner[p], Owner[q]} \in SUBSET Inst
  BY OwnerAssumption DEF Connect, Disconnect
<1>2. LinkMade'
  <2>1. life' = life /\ life[Owner[p]] # "raw" /\ life[Owner[q]] # "raw"
    BY <1>1, UseKeeps
  <2>2. link' \in [Port -> Port \cup {NULL}]
    BY DEF Connect, Disconnect, WalkInv, LinkMade
  <2>3. \A x \in Port : link'[x] \in {link[x], p, q, NULL}
    BY DEF Connect, Disconnect, WalkInv, LinkMade
  <2> QED BY <2>1, <2>2, <2>3 DEF WalkInv, LinkMade
<1> QED BY <1>1, <1>2, UseWalk

LEMMA SendWalk ==
  ASSUME WalkInv, NEW p \in Port, Send(p)
  PROVE  WalkInv'
<1> DEFINE S == {Owner[q] : q \in {p, link[p]} \ {NULL}}
<1>1. Use(S) /\ link' = link
  BY DEF Send
<1>2. S \in SUBSET Inst
  BY OwnerAssumption DEF WalkInv, LinkMade
<1>3. LinkMade'
  BY <1>1, UseKeeps DEF WalkInv, LinkMade
<1> QED BY <1>1, <1>2, <1>3, UseWalk

(* Deleting a component is a liberty, so that only what csim_delete_board  *)
(* has freed, and will go on with, has to be followed.                     *)
LEMMA DeleteComponentWalk ==
  ASSUME WalkInv, NEW i \in Inst, DeleteComponent(i)
  PROVE  WalkInv'
<1>1. /\ ~fault /\ life[i] # "raw" /\ liberty' = TRUE
      /\ (pc \in {"main", "cores"} \/ dying # <<>>)
      /\ dying' = dying \/ dying' = <<i>> \o dying
      /\ UNCHANGED <<life, insts, cores, link, pc, cur, nxt, owed, late>>
  BY DEF DeleteComponent, CodeRuns
<1>2. dying \in Seq(Inst) /\ Len(dying) \in Nat /\ \A j \in 1..Len(dying) : dying[j] \in Made
  BY DEF WalkInv, WalkTypes
<1>3. /\ dying' \in Seq(Inst)
      /\ \A j \in 1..Len(dying') : dying'[j] \in Made
      /\ dying # <<>> => dying' # <<>> /\ dying'[Len(dying')] = dying[Len(dying)]
  <2>1. CASE dying' = dying
    BY <1>2, <2>1
  <2>2. CASE dying' = <<i>> \o dying
    <3>1. /\ dying' \in Seq(Inst) /\ Len(dying') = Len(dying) + 1
          /\ dying'[1] = i
          /\ \A j \in 2..Len(dying') : dying'[j] = dying[j - 1]
      BY <1>2, <2>2
    <3>2. \A j \in 1..Len(dying') : j = 1 \/ j \in 2..Len(dying')
      OBVIOUS
    <3>3. \A j \in 2..Len(dying') : j - 1 \in 1..Len(dying)
      BY <1>2, <3>1
    <3>4. i \in Made
      BY <1>1 DEF Made
    <3>5. dying # <<>> => Len(dying') \in 2..Len(dying')
      BY <1>2, <3>1
    <3> QED BY <1>2, <3>1, <3>2, <3>3, <3>4, <3>5
  <2> QED BY <1>1, <2>1, <2>2
<1>4. WalkTypes'
  BY <1>1, <1>3 DEF WalkInv, WalkTypes, LifeInv, Made, IsChain
<1>5. LinkMade' /\ CoreWalk'
  BY <1>1 DEF WalkInv, LinkMade, CoreWalk, CoresFrom
<1>6. EndWalk'
  <2>1. CASE pc # "teardown"
    BY <1>1, <2>1 DEF WalkInv, EndWalk
  <2>2. CASE pc = "teardown"
    <3>1. PICK k \in 1..Len(insts) : TornDownTo(k)
      BY <2>2 DEF WalkInv, EndWalk
    <3>2. TornDownTo(k)'
      BY <1>1, <1>3, <3>1 DEF TornDownTo
    <3> QED BY <1>1, <2>2, <3>2 DEF EndWalk
  <2> QED BY <2>1, <2>2
<1>7. Undisturbed'
  BY <1>1 DEF Undisturbed
<1> QED BY <1>4, <1>5, <1>6, <1>7 DEF WalkInv

LEMMA BeginCoresWalk ==
  ASSUME WalkInv, BeginCores
  PROVE  WalkInv'
<1>1. /\ ~fault /\ pc = "main" /\ dying = <<>> /\ cores # <<>>
      /\ fault' = Dangling(cores[1]) /\ cur' = cores[1] /\ pc' = "cores"
      /\ owed' = Live \cap Core
      /\ UNCHANGED <<life, insts, cores, link, dying, nxt, late, liberty>>
  BY DEF BeginCores, CodeRuns
<1>2. /\ IsChain(cores, Made \cap Core) /\ LifeInv /\ Len(cores) \in Nat
      /\ 1 \in 1..Len(cores)
  BY <1>1 DEF WalkInv, WalkTypes, IsChain
<1>3. \A j \in 1..Len(cores) :
        cores[j] \in Inst /\ cores[j] \in Core /\ life[cores[j]] \in {"live", "freed"}
  BY <1>2 DEF IsChain, Made, LifeInv
<1>4. WalkTypes' /\ LinkMade'
  BY <1>1 DEF WalkInv, WalkTypes, LifeInv, LinkMade, Made, IsChain
<1>5. CoreWalk'
  <2> SUFFICES ASSUME ~fault' PROVE CoresFrom(1)'
    BY <1>1, <1>2 DEF CoreWalk
  <2>1. cores[1] \in owed'
    BY <1>1, <1>2, <1>3, NULLAssumption DEF Dangling
  <2>2. \A i \in owed' : \E j \in 1..Len(cores) : cores[j] = i
    BY <1>1, <1>2 DEF IsChain, Live, Made
  <2>3. \A j \in 1..Len(cores) : cores[j] \in owed' \/ life[cores[j]] = "freed"
    BY <1>1, <1>3 DEF Live
  <2> QED BY <1>1, <2>1, <2>2, <2>3 DEF CoresFrom
<1>6. EndWalk'
  BY <1>1 DEF WalkInv, EndWalk
<1>7. Undisturbed'
  <2> SUFFICES ASSUME ~liberty
               PROVE  /\ ~fault' /\ cur' \in Inst /\ life[cur'] # "raw"
                      /\ \A i \in Inst : life[i] # "freed"
    <3>1. late' = {} /\ pc' = "cores" /\ dying' = <<>>
      BY <1>1 DEF WalkInv, EndWalk
    <3> QED BY <1>1, <3>1 DEF Undisturbed
  <2>1. \A i \in Inst : life[i] # "freed"
    BY <1>1 DEF WalkInv, Undisturbed
  <2>2. cores[1] \in Live
    BY <1>2, <1>3, <2>1 DEF Live
  <2> QED BY <1>1, <1>2, <1>3, <2>1, <2>2 DEF Dangling
<1> QED BY <1>4, <1>5, <1>6, <1>7 DEF WalkInv

(* The walk goes to the next core, which is owed a step unless it is       *)
(* freed, in which case it is read.                                        *)
LEMMA CoreReturnsWalk ==
  ASSUME WalkInv, CoreReturns
  PROVE  WalkInv'
<1> DEFINE n == NextIn(cores, cur)
<1>1. /\ ~fault /\ pc = "cores" /\ dying = <<>>
      /\ cur' = n
      /\ pc' = IF n = NULL THEN "main" ELSE "cores"
      /\ fault' = (Dangling(cur) \/ Dangling(n))
      /\ owed' = owed \ {cur}
      /\ UNCHANGED <<life, insts, cores, link, dying, nxt, late, liberty>>
  BY DEF CoreReturns
<1>2. IsChain(cores, Made \cap Core) /\ LifeInv /\ Len(cores) \in Nat
  BY DEF WalkInv, WalkTypes, IsChain
<1>3. \A j \in 1..Len(cores) :
        cores[j] \in Inst /\ cores[j] # NULL /\ life[cores[j]] \in {"live", "freed"}
  BY <1>2, NULLAssumption DEF IsChain, Made, LifeInv
<1>4. PICK k \in 1..Len(cores) : CoresFrom(k)
  BY <1>1 DEF WalkInv, CoreWalk
<1>5. n = IF k = Len(cores) THEN NULL ELSE cores[k + 1]
  BY <1>2, <1>4, NextInChain DEF CoresFrom
<1> HIDE DEF n
<1>6. WalkTypes'
  BY <1>1 DEF WalkInv, WalkTypes, LifeInv, Made, IsChain
<1>7. LinkMade'
  BY <1>1 DEF WalkInv, LinkMade
<1>8. CoreWalk'
  <2>1. CASE k = Len(cores)
    <3>1. \A i \in owed : i = cur
      BY <1>2, <1>4, <2>1 DEF CoresFrom
    <3> QED BY <1>1, <1>5, <2>1, <3>1 DEF CoreWalk
  <2>2. CASE k # Len(cores)
    <3>1. k + 1 \in 1..Len(cores) /\ n = cores[k + 1] /\ n # NULL
      BY <1>2, <1>3, <1>5, <2>2
    <3> SUFFICES ASSUME ~fault' PROVE CoresFrom(k + 1)'
      BY <1>1, <3>1 DEF CoreWalk
    <3>2. \A j \in (k + 1)..Len(cores) :
            j \in k..Len(cores) /\ j \in 1..Len(cores) /\ cores[j] # cur
      BY <1>2, <1>4 DEF CoresFrom, IsChain
    <3>3. \A j \in (k + 1)..Len(cores) :
            cores[j] \in owed' \/ life[cores[j]] = "freed"
      BY <1>1, <1>4, <3>2 DEF CoresFrom
    <3>4. n \in owed'
      <4>1. n \in Live
        BY <1>1, <3>1 DEF Dangling
      <4>2. k + 1 \in (k + 1)..Len(cores)
        BY <1>2, <3>1
      <4> QED BY <3>1, <3>3, <4>1, <4>2 DEF Live
    <3>5. \A i \in owed' : \E j \in (k + 1)..Len(cores) : cores[j] = i
      <4> SUFFICES ASSUME NEW i \in owed'
                   PROVE  \E j \in (k + 1)..Len(cores) : cores[j] = i
        OBVIOUS
      <4>1. PICK j \in k..Len(cores) : cores[j] = i
        BY <1>1, <1>4 DEF CoresFrom
      <4>2. j # k
        BY <1>1, <1>4, <4>1 DEF CoresFrom
      <4>3. j \in (k + 1)..Len(cores)
        BY <1>2, <4>1, <4>2
      <4> QED BY <4>1, <4>3
    <3> QED BY <1>1, <3>1, <3>3, <3>4, <3>5 DEF CoresFrom
  <2> QED BY <2>1, <2>2
<1>9. EndWalk'
  BY <1>1 DEF WalkInv, EndWalk
<1>10. Undisturbed'
  <2> SUFFICES ASSUME ~liberty
               PROVE  /\ ~fault'
                      /\ \A i \in Inst : life[i] # "freed"
                      /\ pc' = "cores" => n \in Inst /\ life[n] # "raw"
    <3>1. late' = {} /\ pc' \in {"main", "cores"} /\ dying' = <<>>
      BY <1>1 DEF WalkInv, EndWalk
    <3> QED BY <1>1, <3>1 DEF Undisturbed
  <2>1. \A i \in Inst : life[i] # "freed"
    BY <1>1 DEF WalkInv, Undisturbed
  <2>2. cur \in Live
    BY <1>3, <1>4, <2>1 DEF CoresFrom, Live
  <2>3. n # NULL => n \in Live
    <3> SUFFICES ASSUME n # NULL PROVE n \in Live
      OBVIOUS
    <3>1. k + 1 \in 1..Len(cores) /\ n = cores[k + 1]
      BY <1>2, <1>5
    <3> QED BY <1>3, <2>1, <3>1 DEF Live
  <2>4. ~fault'
    BY <1>1, <2>2, <2>3 DEF Dangling
  <2>5. pc' = "cores" => n \in Inst /\ life[n] # "raw"
    BY <1>1, <2>3 DEF Live
  <2> QED BY <2>1, <2>4, <2>5
<1> QED BY <1>6, <1>7, <1>8, <1>9, <1>10 DEF WalkInv

LEMMA DeleteBoardWalk ==
  ASSUME WalkInv, DeleteBoard
  PROVE  WalkInv'
<1>1. /\ ~fault /\ pc = "main" /\ dying = <<>> /\ late = {}
      /\ dying' = IF insts = <<>> THEN <<>> ELSE <<insts[1]>>
      /\ nxt' = IF insts = <<>> THEN NULL ELSE NextIn(insts, insts[1])
      /\ fault' = Dangling(FirstOf(insts))
      /\ pc' = IF insts = <<>> THEN "gone" ELSE "teardown"
      /\ UNCHANGED <<life, insts, cores, link, cur, owed, late, liberty>>
  BY DEF DeleteBoard, CodeRuns, WalkInv, EndWalk
<1>2. IsChain(insts, Made) /\ LifeInv /\ Len(insts) \in Nat /\ insts \in Seq(Inst)
  BY DEF WalkInv, WalkTypes, IsChain
<1>3. LinkMade' /\ CoreWalk'
  BY <1>1 DEF WalkInv, LinkMade, CoreWalk
<1>4. CASE insts = <<>>
  <2>1. Live = {}
    BY <1>2, <1>4 DEF IsChain, Live, Made
  <2>2. dying' = <<>> /\ pc' = "gone" /\ ~fault'
    BY <1>1, <1>4 DEF FirstOf, Dangling
  <2>3. WalkTypes'
    BY <1>1, <2>2 DEF WalkInv, WalkTypes, LifeInv, Made, IsChain
  <2>4. EndWalk' /\ Undisturbed'
    BY <1>1, <2>1, <2>2 DEF EndWalk, Undisturbed, Live
  <2> QED BY <1>3, <2>3, <2>4 DEF WalkInv
<1>5. CASE insts # <<>>
  <2>1. 1 \in 1..Len(insts)
    BY <1>2, <1>5
  <2>2. insts[1] \in Made /\ insts[1] \in Inst
    BY <1>2, <2>1 DEF IsChain
  <2>3. dying' = <<insts[1]>> /\ pc' = "teardown" /\ fault' = Dangling(insts[1])
    BY <1>1, <1>5 DEF FirstOf
  <2>4. nxt' = IF 1 = Len(insts) THEN NULL ELSE insts[1 + 1]
    BY <1>1, <1>2, <1>5, <2>1, NextInChain
  <2>5. WalkTypes'
    <3>1. dying' \in Seq(Inst) /\ \A j \in 1..Len(dying') : dying'[j] \in Made
      BY <2>2, <2>3
    <3> QED BY <1>1, <2>3, <3>1 DEF WalkInv, WalkTypes, LifeInv, Made, IsChain
  <2>6. ~liberty => \A j \in 1..Len(insts) : life[insts[j]] = "live"
    BY <1>1, <1>2 DEF WalkInv, Undisturbed, IsChain, Made, LifeInv
  <2>7. EndWalk'
    <3>1. TornDownTo(1)'
      BY <1>1, <2>3, <2>4, <2>6 DEF TornDownTo
    <3> QED BY <1>1, <2>1, <2>3, <3>1 DEF EndWalk
  <2>8. Undisturbed'
    <3>1. ~liberty => ~fault'
      BY <2>1, <2>2, <2>3, <2>6 DEF Dangling, Live
    <3> QED BY <1>1, <2>3, <3>1 DEF Undisturbed
  <2> QED BY <1>3, <2>5, <2>7, <2>8 DEF WalkInv
<1> QED BY <1>4, <1>5

(* What a freed instance changes, whoever frees it.                        *)
LEMMA FreedWalk ==
  ASSUME WalkInv, DestructReturns, NEW d, d = dying[1],
         pc' = pc \/ (pc = "teardown" /\ pc' = "gone")
  PROVE  /\ life'[d] = "freed" /\ d \in Inst
         /\ \A i \in Inst : i # d => life'[i] = life[i]
         /\ Made' = Made /\ LifeInv' /\ LinkMade' /\ CoreWalk'
         /\ IsChain(insts, Made)' /\ IsChain(cores, Made \cap Core)'
<1>1. /\ ~fault /\ dying # <<>> /\ life' = [life EXCEPT ![d] = "freed"]
      /\ UNCHANGED <<insts, cores, link, cur, owed, late, liberty>>
  BY DEF DestructReturns
<1>2. d \in Made /\ LifeInv
  BY <1>1 DEF WalkInv, WalkTypes
<1>3. /\ life'[d] = "freed" /\ d \in Inst
      /\ \A i \in Inst : i # d => life'[i] = life[i]
  BY <1>1, <1>2 DEF LifeInv, Made
<1>4. Made' = Made
  BY <1>2, <1>3 DEF Made
<1>5. LifeInv'
  BY <1>1, <1>2 DEF LifeInv
<1>6. IsChain(insts, Made)' /\ IsChain(cores, Made \cap Core)'
  BY <1>1, <1>4 DEF WalkInv, WalkTypes, IsChain
<1>7. LinkMade'
  <2> SUFFICES ASSUME NEW p \in Port, link[p] # NULL
               PROVE  life'[Owner[link[p]]] # "raw"
    BY <1>1 DEF WalkInv, LinkMade
  <2>1. Owner[link[p]] \in Inst /\ life[Owner[link[p]]] # "raw"
    BY OwnerAssumption DEF WalkInv, LinkMade
  <2> QED BY <1>3, <2>1
<1>8. CoreWalk'
  <2>1. CASE pc # "cores"
    BY <1>1, <2>1 DEF WalkInv, CoreWalk
  <2>2. CASE pc = "cores"
    <3>1. PICK k \in 1..Len(cores) : CoresFrom(k)
      BY <1>1, <2>2 DEF WalkInv, CoreWalk
    <3>2. \A j \in k..Len(cores) : cores[j] \in Inst
      BY DEF WalkInv, WalkTypes, IsChain
    <3>3. CoresFrom(k)'
      BY <1>1, <1>3, <3>1, <3>2 DEF CoresFrom
    <3> QED BY <1>1, <2>2, <3>3 DEF CoreWalk
  <2> QED BY <2>1, <2>2
<1> QED BY <1>3, <1>4, <1>5, <1>6, <1>7, <1>8

(* A deletion on its own returns to whoever asked for it.                  *)
LEMMA GoOnWalk ==
  ASSUME WalkInv, DestructReturns, pc # "teardown" \/ Len(dying) # 1
  PROVE  WalkInv'
<1>1. /\ ~fault /\ dying # <<>> /\ dying' = Tail(dying)
      /\ UNCHANGED <<insts, cores, link, pc, nxt, cur, owed, late, liberty>>
  BY DEF DestructReturns, GoOn
<1>2. PICK d : d = dying[1]
  OBVIOUS
<1>3. /\ life'[d] = "freed" /\ d \in Inst
      /\ \A i \in Inst : i # d => life'[i] = life[i]
      /\ Made' = Made /\ LifeInv' /\ LinkMade' /\ CoreWalk'
      /\ IsChain(insts, Made)' /\ IsChain(cores, Made \cap Core)'
  BY <1>1, <1>2, FreedWalk
<1>4. dying \in Seq(Inst) /\ Len(dying) \in Nat /\ \A j \in 1..Len(dying) : dying[j] \in Made
  BY DEF WalkInv, WalkTypes
<1>5. /\ dying' \in Seq(Inst) /\ Len(dying') = Len(dying) - 1
      /\ \A j \in 1..Len(dying') : dying'[j] = dying[j + 1] /\ j + 1 \in 1..Len(dying)
  BY <1>1, <1>4
<1>6. WalkTypes'
  BY <1>1, <1>3, <1>4, <1>5 DEF WalkInv, WalkTypes
<1>7. pc # "gone" /\ liberty
  BY <1>1 DEF WalkInv, WalkTypes, EndWalk, Undisturbed
<1>8. EndWalk'
  <2>1. CASE pc # "teardown"
    BY <1>1, <1>7, <2>1 DEF WalkInv, EndWalk
  <2>2. CASE pc = "teardown"
    <3>1. PICK k \in 1..Len(insts) : TornDownTo(k)
      BY <2>2 DEF WalkInv, EndWalk
    <3>2. Len(dying') \in 1..Len(dying') /\ Len(dying') + 1 = Len(dying)
      BY <1>1, <1>4, <1>5, <2>2
    <3>3. dying' # <<>> /\ dying'[Len(dying')] = insts[k]
      BY <1>5, <3>1, <3>2 DEF TornDownTo
    <3>4. \A j \in 1..k - 1 : insts[j] \in Inst
      BY DEF WalkInv, WalkTypes, IsChain
    <3>5. \A j \in 1..k - 1 : insts[j] \in late \/ life'[insts[j]] = "freed"
      BY <1>3, <3>1, <3>4 DEF TornDownTo
    <3>6. TornDownTo(k)'
      BY <1>1, <1>7, <3>1, <3>3, <3>5 DEF TornDownTo
    <3> QED BY <1>1, <2>2, <3>6 DEF EndWalk
  <2> QED BY <2>1, <2>2
<1>9. Undisturbed'
  BY <1>1, <1>7 DEF Undisturbed
<1> QED BY <1>3, <1>6, <1>8, <1>9 DEF WalkInv

(* csim_delete_board frees an instance and goes on with the one it had     *)
(* read before, or ends.                                                   *)
LEMMA TurnToWalk ==
  ASSUME WalkInv, DestructReturns, pc = "teardown", Len(dying) = 1
  PROVE  WalkInv'
<1>1. /\ ~fault /\ dying # <<>>
      /\ dying' = IF nxt = NULL THEN <<>> ELSE <<nxt>>
      /\ nxt' = IF nxt = NULL THEN NULL ELSE NextIn(insts, nxt)
      /\ pc' = IF nxt = NULL THEN "gone" ELSE "teardown"
      /\ fault' = (Dangling(dying[1]) \/ Dangling(nxt))
      /\ UNCHANGED <<insts, cores, link, cur, owed, late, liberty>>
  BY DEF DestructReturns, TurnTo
<1>2. PICK k \in 1..Len(insts) : TornDownTo(k)
  BY DEF WalkInv, EndWalk
<1>3. PICK d : d = dying[1]
  OBVIOUS
<1>4. /\ life'[d] = "freed" /\ d \in Inst
      /\ \A i \in Inst : i # d => life'[i] = life[i]
      /\ Made' = Made /\ LifeInv' /\ LinkMade' /\ CoreWalk'
      /\ IsChain(insts, Made)' /\ IsChain(cores, Made \cap Core)'
  BY <1>1, <1>3, FreedWalk
<1>5. IsChain(insts, Made) /\ LifeInv /\ Len(insts) \in Nat
  <2>1. IsChain(insts, Made) /\ LifeInv
    BY DEF WalkInv, WalkTypes
  <2>2. insts \in Seq(Inst)
    BY <2>1 DEF IsChain
  <2> QED BY <2>1, <2>2
<1>6. \A j \in 1..Len(insts) : insts[j] \in Inst /\ insts[j] # NULL /\ insts[j] \in Made
  BY <1>5, NULLAssumption DEF IsChain, Made
<1>7. d = insts[k]
  BY <1>2, <1>3 DEF TornDownTo
<1>8. ~liberty => ~Dangling(d) /\ late \subseteq Live'
  <2> SUFFICES ASSUME ~liberty PROVE ~Dangling(d) /\ late \subseteq Live'
    OBVIOUS
  <2>1. k \in k..Len(insts)
    BY <1>5
  <2>2. life[d] = "live" /\ d \notin late
    BY <1>2, <1>7, <2>1 DEF TornDownTo
  <2>3. late \subseteq Live
    BY DEF WalkInv, Undisturbed
  <2> QED BY <1>4, <2>2, <2>3 DEF Dangling, Live
<1>9. CASE k = Len(insts)
  <2>1. nxt = NULL /\ dying' = <<>> /\ pc' = "gone" /\ fault' = Dangling(d)
    BY <1>1, <1>2, <1>3, <1>9 DEF TornDownTo, Dangling
  <2>2. Live' \subseteq late
    <3> SUFFICES ASSUME NEW i \in Inst, life'[i] = "live" PROVE i \in late
      BY DEF Live
    <3>1. i \in Made
      BY <1>4 DEF Made
    <3>2. PICK j \in 1..Len(insts) : insts[j] = i
      BY <1>5, <3>1 DEF IsChain
    <3>3. j = k \/ j \in 1..k - 1
      BY <1>5, <1>9
    <3> QED BY <1>2, <1>4, <1>7, <3>2, <3>3 DEF TornDownTo
  <2>3. WalkTypes'
    BY <1>4, <2>1 DEF WalkTypes
  <2>4. EndWalk'
    BY <1>1, <2>1, <2>2 DEF EndWalk
  <2>5. Undisturbed'
    BY <1>1, <1>8, <2>1 DEF Undisturbed
  <2> QED BY <1>4, <2>3, <2>4, <2>5 DEF WalkInv
<1>10. CASE k # Len(insts)
  <2>1. k + 1 \in 1..Len(insts)
    BY <1>5, <1>10
  <2>2. /\ nxt = insts[k + 1] /\ nxt # NULL /\ dying' = <<nxt>> /\ pc' = "teardown"
        /\ fault' = (Dangling(d) \/ Dangling(nxt))
    BY <1>1, <1>2, <1>3, <1>6, <1>10, <2>1 DEF TornDownTo
  <2>3. nxt' = IF k + 1 = Len(insts) THEN NULL ELSE insts[(k + 1) + 1]
    BY <1>1, <1>5, <2>1, <2>2, NextInChain
  <2>4. \A j \in 1..(k + 1) - 1 : insts[j] \in late \/ life'[insts[j]] = "freed"
    <3> SUFFICES ASSUME NEW j \in 1..(k + 1) - 1
                 PROVE  insts[j] \in late \/ life'[insts[j]] = "freed"
      OBVIOUS
    <3>1. j = k \/ (j \in 1..k - 1 /\ j \in 1..Len(insts))
      BY <1>5
    <3> QED BY <1>2, <1>4, <1>6, <1>7, <3>1 DEF TornDownTo
  <2>5. \A j \in (k + 1)..Len(insts) :
          /\ insts[j] \notin late
          /\ ~liberty => life[insts[j]] = "live" /\ life'[insts[j]] = "live"
    <3> SUFFICES ASSUME NEW j \in (k + 1)..Len(insts)
                 PROVE  /\ insts[j] \notin late
                        /\ ~liberty => /\ life[insts[j]] = "live"
                                       /\ life'[insts[j]] = "live"
      OBVIOUS
    <3>1. j \in k..Len(insts) /\ j \in 1..Len(insts) /\ j # k
      BY <1>5
    <3>2. insts[j] # d
      BY <1>5, <1>7, <3>1 DEF IsChain
    <3> QED BY <1>2, <1>4, <1>6, <3>1, <3>2 DEF TornDownTo
  <2>6. EndWalk'
    <3>1. dying' # <<>> /\ dying'[Len(dying')] = insts[k + 1]
      BY <2>2
    <3>2. TornDownTo(k + 1)'
      BY <1>1, <2>3, <2>4, <2>5, <3>1 DEF TornDownTo
    <3> QED BY <1>1, <2>1, <2>2, <3>2 DEF EndWalk
  <2>7. WalkTypes'
    <3>1. dying' \in Seq(Inst) /\ \A j \in 1..Len(dying') : dying'[j] \in Made'
      BY <1>4, <1>6, <2>1, <2>2
    <3> QED BY <1>4, <2>2, <3>1 DEF WalkTypes
  <2>8. Undisturbed'
    <3>1. ~liberty => nxt \in Live
      <4>1. k + 1 \in (k + 1)..Len(insts)
        BY <2>1
      <4> QED BY <1>6, <2>1, <2>2, <2>5, <4>1 DEF Live
    <3>2. ~liberty => ~fault'
      BY <1>8, <2>2, <3>1 DEF Dangling
    <3>3. Len(dying') = 1
      BY <2>2
    <3> QED BY <1>1, <1>8, <2>2, <3>2, <3>3 DEF Undisturbed
  <2> QED BY <1>4, <2>6, <2>7, <2>8 DEF WalkInv
<1> QED BY <1>9, <1>10

LEMMA DestructReturnsWalk ==
  ASSUME WalkInv, DestructReturns
  PROVE  WalkInv'
BY GoOnWalk, TurnToWalk

LEMMA NextWalk == WalkInv /\ [Next]_vars => WalkInv'
<1> SUFFICES ASSUME WalkInv, [Next]_vars PROVE WalkInv'
  OBVIOUS
<1>1. ASSUME NEW i \in Inst, NewComponent(i) PROVE WalkInv'
  BY <1>1, NewComponentWalk
<1>2. ASSUME NEW i \in Inst, DeleteComponent(i) PROVE WalkInv'
  BY <1>2, DeleteComponentWalk
<1>3. ASSUME NEW p \in Port, NEW q \in Port, Connect(p, q) \/ Disconnect(p, q)
      PROVE  WalkInv'
  BY <1>3, LinksWalk
<1>4. ASSUME NEW p \in Port, Send(p) PROVE WalkInv'
  BY <1>4, SendWalk
<1>5. CASE BeginCores
  BY <1>5, BeginCoresWalk
<1>6. CASE CoreReturns
  BY <1>6, CoreReturnsWalk
<1>7. CASE DeleteBoard
  BY <1>7, DeleteBoardWalk
<1>8. CASE DestructReturns
  BY <1>8, DestructReturnsWalk
<1>9. CASE UNCHANGED vars
  <2>1. WalkTypes' /\ LinkMade'
    BY <1>9 DEF vars, walk, WalkInv, WalkTypes, LifeInv, Made, IsChain, LinkMade
  <2>2. CoreWalk'
    BY <1>9 DEF vars, walk, WalkInv, CoreWalk, CoresFrom
  <2>3. EndWalk'
    BY <1>9 DEF vars, walk, WalkInv, EndWalk, TornDownTo, Live
  <2>4. Undisturbed'
    BY <1>9 DEF vars, walk, WalkInv, Undisturbed, Live
  <2> QED BY <2>1, <2>2, <2>3, <2>4 DEF WalkInv
<1> QED BY <1>1, <1>2, <1>3, <1>4, <1>5, <1>6, <1>7, <1>8, <1>9 DEF Next

LEMMA Walks == Spec => []WalkInv
BY WalkInit, NextWalk, PTL DEF Spec

(* Whatever components create, connect, disconnect and send, in destructors *)
(* too, no freed instance is reached by csim_run, csim_delete_board or a    *)
(* call, unless a component was deleted on its own or a destructor of       *)
(* csim_delete_board used the port of an instance younger than its own.     *)
THEOREM OwnedAlwaysSafe == Spec => []OwnedSafe
<1>1. WalkInv => OwnedSafe
  BY DEF WalkInv, Undisturbed, OwnedSafe
<1> QED BY <1>1, Walks, PTL

(* Each core is stepped once in every cycle, whatever its steps create,    *)
(* delete and connect.                                                     *)
THEOREM CoresSteppedOnce == Spec => []SteppedOnce
<1>1. WalkInv => SteppedOnce
  BY DEF WalkInv, CoreWalk, CoresFrom, SteppedOnce
<1> QED BY <1>1, Walks, PTL

(* csim_delete_board leaves no instance allocated but those its            *)
(* destructors created, whatever else the destructors do.                  *)
THEOREM BoardFreesAll == Spec => []AllFreed
<1>1. WalkInv => AllFreed
  BY DEF WalkInv, EndWalk, AllFreed
<1> QED BY <1>1, Walks, PTL

=============================================================================
