----------------------------- MODULE GlissFetch -----------------------------
(***************************************************************************)
(* The fetch of instructions: gep/fetch.ml builds, when a simulator is     *)
(* generated, the tree of tables that templates/fetch.c walks to tell      *)
(* which instruction a word of memory is.                                  *)
(*                                                                         *)
(* The image of an instruction is a sequence of 0, 1 and X, where X stands *)
(* for the bits of its parameters; a word is a sequence of bits.  A mask is*)
(* a sequence of Booleans.  A node is named, as in the source, by the      *)
(* values that lead to it from the root: its table has an entry for each   *)
(* value on its mask, and a value that leads to no node is unknown.        *)
(*                                                                         *)
(* The expansion of the parameters that are ranges, the writing of the     *)
(* tables in C, the order of the bytes and the choice between several sets *)
(* of instructions are left out.                                           *)
(***************************************************************************)
EXTENDS Integers, Sequences, FiniteSets, SequencesExt

CONSTANTS
  X,          (* a bit of an image that is not of the opcode *)
  Sets,       (* the sets of instructions: sequences of images *)
  Memories,   (* what may lie at the address fetched: sequences of bits *)
  WordSize,   (* the length of the instructions of a RISC *)
  Chunk,      (* the number of bits the fetch of a CISC reads at a time: 32 *)
  UNKNOWN     (* the identifier of no instruction *)

ASSUME ChunkAssumption == Chunk \in Nat \ {0} /\ WordSize \in Nat \ {0}
ASSUME SetsAssumption ==
  \A s \in Sets : s \in Seq(Seq({0, 1, X})) /\ s # <<>> /\ \A k \in DOMAIN s : s[k] # <<>>
(* The memory goes on after the longest instruction, by whole chunks. *)
ASSUME MemoriesAssumption ==
  \A m \in Memories : /\ m \in Seq({0, 1}) /\ Len(m) % Chunk = 0
                       /\ \A s \in Sets : \A k \in DOMAIN s : Len(m) >= Len(s[k])

VARIABLES
  iset,       (* the set of instructions *)
  phase,      (* "build", "refused", "built", "walk" or "found" *)
  nodes,      (* the nodes: [name, specs, mask, global] *)
  memory,     (* the bits at the address *)
  code,       (* those read so far *)
  table,      (* the name of the node whose table is looked up *)
  result      (* the identifier found *)

vars == <<iset, phase, nodes, memory, code, table, result>>

Specs == DOMAIN iset
Lengths(specs) == {Len(iset[s]) : s \in specs}

-----------------------------------------------------------------------------
(* get_mask: the bits of an image that are fixed. *)
GetMask(s) == [i \in DOMAIN iset[s] |-> iset[s][i] # X]

(* spec_list_mask: the bits fixed in all the images, the shorter ones being*)
(* extended on their right with bits that are not.                         *)
SpecListMask(specs) ==
  [i \in 1..Max(Lengths(specs)) |->
     \A s \in specs : i <= Len(iset[s]) /\ GetMask(s)[i]]

(* masked_value: the bits at the places of the mask, from left to right. *)
Places(bits, mask) == {i \in DOMAIN bits \cap DOMAIN mask : mask[i]}
Rank(i, places) == Cardinality({j \in places : j <= i})

MaskedValue(bits, mask) ==
  LET places == Places(bits, mask)
  IN [k \in 1..Cardinality(places) |->
        bits[CHOOSE i \in places : Rank(i, places) = k]]

Unmask(mask, global) ==
  [i \in DOMAIN mask |-> mask[i] /\ ~(i \in DOMAIN global /\ global[i])]

(* build_dectrees: the node of the instructions specs under a parent. *)
Tree(name, specs, global) ==
  LET common == SpecListMask(specs)
  IN [name |-> name, specs |-> specs, mask |-> Unmask(common, global), global |-> common]

(* create_son_list_of_dec_node, sort_son_list: the instructions of a node  *)
(* grouped by their value on its mask.                                     *)
ValueOf(s, n) == MaskedValue(iset[s], n.mask)

SonsOf(n) ==
  {Tree(Append(n.name, v), {s \in n.specs : ValueOf(s, n) = v}, n.global) :
     v \in {ValueOf(s, n) : s \in n.specs}}

Several(n) == Cardinality(n.specs) > 1

(* build_sons_of_tree: all of them have the same value. *)
Ambiguous(n) == Cardinality(SonsOf(n)) = 1 /\ \A son \in SonsOf(n) : Several(son)

(* build_dec_nodes: its root, which for one instruction has one son. *)
Root(specs) ==
  LET mask == SpecListMask(specs)
  IN [name |-> <<>>, specs |-> IF Cardinality(specs) > 1 THEN specs ELSE {},
      mask |-> mask, global |-> mask]

FirstNodes ==
  IF Cardinality(Specs) > 1 THEN {Root(Specs)}
  ELSE {Root(Specs)} \cup
         {[name |-> <<ValueOf(s, Root(Specs))>>, specs |-> {s},
           mask |-> SpecListMask({s}), global |-> SpecListMask({s})] : s \in Specs}

(* make_tree: a node of several instructions is emptied and followed by    *)
(* its sons.                                                               *)
MakeTree ==
  /\ phase = "build" /\ \E n \in nodes : Several(n)
  /\ IF \E n \in nodes : Several(n) /\ Ambiguous(n)
     THEN phase' = "refused" /\ UNCHANGED nodes
     ELSE /\ nodes' = UNION {IF Several(n) THEN {[n EXCEPT !.specs = {}]} \cup SonsOf(n)
                             ELSE {n} : n \in nodes}
          /\ UNCHANGED phase
  /\ UNCHANGED <<iset, memory, code, table, result>>

TreeMade ==
  /\ phase = "build" /\ \A n \in nodes : ~Several(n)
  /\ phase' = "built"
  /\ UNCHANGED <<iset, nodes, memory, code, table, result>>

-----------------------------------------------------------------------------
(* find_fetch_size: one length for all is a RISC, whose word is read first.*)
IsRisc == Lengths(Specs) = {WordSize}

StartFetch ==
  /\ phase \in {"built", "found"}
  /\ phase' = "walk"
  /\ memory' \in Memories
  /\ code' = IF IsRisc THEN SubSeq(memory', 1, WordSize) ELSE <<>>
  /\ table' = <<>> /\ result' = UNKNOWN
  /\ UNCHANGED <<iset, nodes>>

Node(name) == CHOOSE n \in nodes : n.name = name

(* Variant: the end of the mask may be one bit after what is read. *)
NeedsChunkLess == ~IsRisc /\ Len(code) + 1 < Len(Node(table).mask)

NeedsChunk == ~IsRisc /\ Len(code) < Len(Node(table).mask)

(* Variant: the length of what is read is not updated. *)
ReadChunkAgain ==
  /\ phase = "walk" /\ NeedsChunk
  /\ code' = SubSeq(memory, 1, Chunk)
  /\ UNCHANGED <<iset, phase, nodes, memory, table, result>>

ReadChunk ==
  /\ phase = "walk" /\ NeedsChunk
  /\ code' = SubSeq(memory, 1, Len(code) + Chunk)
  /\ UNCHANGED <<iset, phase, nodes, memory, table, result>>

(* Variant: the sons of all the tables of the same depth are looked at. *)
EntryByLastName(value) ==
  {n \in nodes : Len(n.name) = Len(table) + 1 /\ Last(n.name) = value}

(* The entry of a table: find_sons_of_node and produce_i_th_son. *)
Entry(value) == {n \in nodes : n.name = Append(table, value)}

(* make_opcode, and value_on_mask for a CISC. *)
Opcode == MaskedValue(code, Node(table).mask)

LookUp ==
  /\ phase = "walk" /\ ~NeedsChunk
  /\ LET sons == Entry(Opcode)
     IN \/ /\ sons = {}
           /\ result' = UNKNOWN /\ phase' = "found" /\ UNCHANGED table
        \/ \E n \in sons :
             IF n.specs = {} THEN table' = n.name /\ UNCHANGED <<phase, result>>
             ELSE result' \in n.specs /\ phase' = "found" /\ UNCHANGED table
  /\ UNCHANGED <<iset, nodes, memory, code>>

-----------------------------------------------------------------------------
Init ==
  /\ iset \in Sets /\ phase = "build"
  /\ nodes = FirstNodes
  /\ memory = <<>> /\ code = <<>> /\ table = <<>> /\ result = UNKNOWN

Build == MakeTree \/ TreeMade
Fetch == ReadChunk \/ LookUp

Next == Build \/ StartFetch \/ Fetch

(* The generator runs to its end, and so does a fetch. *)
Spec == Init /\ [][Next]_vars /\ WF_vars(Build) /\ WF_vars(Fetch)

-----------------------------------------------------------------------------
Matches(bits, image) == \A i \in DOMAIN image : image[i] \in {X, bits[i]}

(* An instruction that is in memory is the one the fetch finds, through    *)
(* however many tables and however short it is, and no table entry leads to*)
(* two of them: the masks of the tables on the way are those the generator *)
(* sorted the instructions with.                                           *)
FetchFinds ==
  phase = "found" => \A s \in Specs : Matches(memory, iset[s]) => result = s

(* What is found agrees with the memory on all the bits the tables on the  *)
(* way have looked at: what is not tested is left to the last table only.  *)
TestedBitsAgree ==
  phase = "found" /\ result # UNKNOWN =>
    \A i \in DOMAIN Node(table).global : Node(table).global[i] => iset[result][i] = memory[i]

(* The generator refuses the set or ends the tree, and a fetch ends: every *)
(* table looked up tests new bits, and every chunk read is one less to read*)
FetchEnds == (phase \in {"build", "walk"}) ~> (phase \in {"refused", "built", "found"})

=============================================================================
