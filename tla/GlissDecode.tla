----------------------------- MODULE GlissDecode -----------------------------
(***************************************************************************)
(* The decoders of a generated simulator (templates/decode*.c) and the     *)
(* functions of templates/api.c that execute what they return: next_inst,  *)
(* step, run_sim and run_and_count_inst.                                   *)
(*                                                                         *)
(* The variant linked into a simulator is the value of policy:             *)
(*   plain   decode.c               no cache                               *)
(*   inf     decode_inf_cache.c     every instruction is kept              *)
(*   fixed   decode_fixed_cache.c   rings of Depth entries                 *)
(*   lru     decode_lru_cache.c     lists of Depth entries, last used first*)
(*   trace   decode_trace.c         the same lists, of aligned blocks      *)
(*   dtrace  decode_dtrace.c        the same lists, of runs up to a branch *)
(* plain, inf and fixed allocate each instruction; lru and the traces are  *)
(* the builds with GLISS_NO_MALLOC, whose entries hold their instructions: *)
(* the other build of lru never stores what it decodes, so that its second *)
(* hit returns what is not initialised.                                    *)
(*                                                                         *)
(* An instruction is the word it was decoded from; the ISA is RISC.  The   *)
(* variants of a file for CISC and for several instruction sets differ by  *)
(* the buffer given to fetch, which is not modelled.  The program counter  *)
(* is the register NIA.                                                    *)
(***************************************************************************)
EXTENDS Integers, Sequences, FiniteSets

CONSTANTS
  Slots,      (* number of instructions of the program *)
  Word,       (* instruction words *)
  Target,     (* Target[w]: where w branches to, NULL if it does not *)
  Policies,   (* the decoders to look at *)
  Size,       (* CACHE_SIZE *)
  Depth,      (* CACHE_DEPTH, for each policy *)
  TraceDepth, (* TRACE_DEPTH *)
  NULL        (* the null pointer, and the key of an unused entry *)

InstSize == 4
Space == InstSize * Slots
Addr == {InstSize * i : i \in 0..Slots - 1}

ASSUME SlotsAssumption == Slots \in Nat \ {0}
ASSUME TargetAssumption == Target \in [Word -> Addr \cup {NULL}] /\ NULL \notin Addr
ASSUME PoliciesAssumption ==
  Policies \subseteq {"plain", "inf", "fixed", "lru", "trace", "dtrace"}
ASSUME DepthAssumption ==
  /\ Size \in Nat \ {0} /\ TraceDepth \in Nat \ {0}
  /\ Depth \in [Policies -> Nat \ {0, 1}]

VARIABLES
  mem,        (* the instruction words in memory *)
  policy,
  cells,      (* the entries of the cache: [key, insts] *)
  head, next, (* the lists of lru and of the traces *)
  idx,        (* ring->idx of the rings *)
  want        (* history: the last Depth keys each list was asked for, or  *)
              (* each ring did not have, the latest first                  *)

cache == <<cells, head, next, idx, want>>

IsBranch(w) == Target[w] # NULL
Nothing == [addr |-> NULL, word |-> NULL]
Inst(a) == [addr |-> a, word |-> mem[a]]
After(a) == (a + InstSize) % Space

-----------------------------------------------------------------------------
(* Keys and sets. *)
BlockNumber(a) == (a \div InstSize) \div TraceDepth
Block(a) == BlockNumber(a) * TraceDepth * InstSize

Key(a) == IF policy = "trace" THEN Block(a) ELSE a

Hash(a) == (IF policy = "trace" THEN BlockNumber(a) ELSE a) % Size

Run(a, n) == [i \in 1..n |-> Inst((a + InstSize * (i - 1)) % Space)]

(* The loop of decode_dtrace.c: up to a branch, that branch included. *)
DecodeRun(a) ==
  LET ends == {n \in 1..TraceDepth :
                 n = TraceDepth \/ IsBranch(Run(a, n)[n].word)}
  IN Run(a, CHOOSE n \in ends : \A m \in ends : n <= m)

(* Variant: the block starts at the address looked for. *)
DecodeBlockFromAddress(a) == Run(a, TraceDepth)

(* The loop of decode_trace.c. *)
DecodeBlock(a) == Run(Block(a), TraceDepth)

(* gliss_fetch and gliss_decode_table[id] on the instruction at a. *)
DecodeOne(a) == <<Inst(a)>>

Decoded(a) ==
  CASE policy = "trace" -> DecodeBlock(a)
    [] policy = "dtrace" -> DecodeRun(a)
    [] OTHER -> DecodeOne(a)

-----------------------------------------------------------------------------
D == Depth[policy]

Empty == [key |-> NULL, insts |-> <<>>]

(* create_hashtable: the entries of a set are linked in order. *)
Entries ==
  IF policy = "plain" THEN {<<0, 0>>}
  ELSE IF policy = "inf" THEN {}
  ELSE (0..Size - 1) \X (0..D - 1)

NewTable ==
  [cells |-> [c \in Entries |-> Empty],
   head |-> [h \in 0..Size - 1 |-> <<h, 0>>],
   next |-> [c \in Entries |-> IF c[2] < D - 1 THEN <<c[1], c[2] + 1>> ELSE NULL],
   idx |-> [h \in 0..Size - 1 |-> 0],
   want |-> [h \in 0..Size - 1 |-> <<>>]]

(* The entry k-th from the head of list h.  Only D entries are followed:   *)
(* the last one's next is not kept up to date.                             *)
Node(h, k) ==
  LET n[i \in 1..D] == IF i = 1 THEN head[h] ELSE next[n[i - 1]] IN n[k]

(* The key comes first; it leaves the place it had, or else the last of D  *)
(* keys goes.                                                              *)
Remember(h, key) ==
  LET n == Len(want[h])
      had == {k \in 1..n : want[h][k] = key}
      left == IF had # {} THEN CHOOSE k \in had : TRUE ELSE IF n < D THEN n + 1 ELSE D
  IN want' = [want EXCEPT ![h] =
                [k \in 1..(IF left > n THEN left ELSE n) |->
                   IF k = 1 THEN key ELSE want[h][IF k <= left THEN k - 1 ELSE k]]]

(* The place in list h of the entry cache_lookup returns. *)
PlaceOf(h, key) ==
  LET found == {k \in 1..D : k = D \/ cells[Node(h, k)].key = key}
  IN CHOOSE k \in found : \A j \in found : k <= j

(* Variant: an entry in the middle of the list is not cut from it. *)
CacheLookupUncut(h, key) ==
  LET k == PlaceOf(h, key) IN
  /\ head' = [head EXCEPT ![h] = Node(h, k)]
  /\ next' = IF k = 1 THEN next ELSE [next EXCEPT ![Node(h, k)] = head[h]]
  /\ Remember(h, key)

(* cache_lookup: an entry found in the middle of the list is moved to its  *)
(* head; so is the last entry, found or else chosen to be replaced.        *)
CacheLookup(h, key) ==
  LET k == PlaceOf(h, key) IN
  /\ head' = [head EXCEPT ![h] = Node(h, k)]
  /\ next' = IF k = 1 THEN next
             ELSE IF k = D THEN [next EXCEPT ![Node(h, k)] = head[h]]
             ELSE [next EXCEPT ![Node(h, k - 1)] = next[Node(h, k)],
                               ![Node(h, k)] = head[h]]
  /\ Remember(h, key)

Fill(e, key, a) ==
  cells' = [c \in DOMAIN cells \cup {e} |->
              IF c = e THEN [key |-> key, insts |-> Decoded(a)] ELSE cells[c]]

(* Each decode leaves in res the entry to be returned and in n the number  *)
(* of instructions allocated less those freed.                             *)
DecodePlain(a, res, n) ==
  /\ res = <<0, 0>> /\ n = 1
  /\ Fill(res, NULL, a)
  /\ UNCHANGED <<head, next, idx, want>>

(* hashtable_search, then hashtable_insert of what was not found. *)
DecodeInf(a, res, n) ==
  /\ res = <<Hash(a), a>>
  /\ n = (IF res \in DOMAIN cells THEN 0 ELSE 1)
  /\ IF res \in DOMAIN cells THEN cells' = cells ELSE Fill(res, a, a)
  /\ UNCHANGED <<head, next, idx, want>>

RingHits(a) == {c \in DOMAIN cells : c[1] = Hash(a) /\ cells[c].key = a}

(* Variant: the instruction replaced is not freed. *)
DecodeFixedKept(a, res, n) ==
  IF RingHits(a) # {}
  THEN res \in RingHits(a) /\ n = 0 /\ UNCHANGED cache
  ELSE /\ res = <<Hash(a), idx[Hash(a)]>>
       /\ n = 1
       /\ Fill(res, a, a)
       /\ idx' = [idx EXCEPT ![Hash(a)] = (@ + 1) % D]
       /\ Remember(Hash(a), a)
       /\ UNCHANGED <<head, next>>

(* The ring is searched whole; a miss replaces, and frees, the entry at    *)
(* idx.                                                                    *)
DecodeFixed(a, res, n) ==
  IF RingHits(a) # {}
  THEN res \in RingHits(a) /\ n = 0 /\ UNCHANGED cache
  ELSE /\ res = <<Hash(a), idx[Hash(a)]>>
       /\ n = (IF cells[res].key = NULL THEN 1 ELSE 0)
       /\ Fill(res, a, a)
       /\ idx' = [idx EXCEPT ![Hash(a)] = (@ + 1) % D]
       /\ Remember(Hash(a), a)
       /\ UNCHANGED <<head, next>>

Found(a) == Node(Hash(a), PlaceOf(Hash(a), Key(a)))

(* decode_lru_cache.c with GLISS_NO_MALLOC, decode_trace.c and             *)
(* decode_dtrace.c.                                                        *)
DecodeListed(a, res, n) ==
  /\ CacheLookup(Hash(a), Key(a))
  /\ res = Found(a) /\ n = 0
  /\ IF cells[res].key = Key(a) THEN cells' = cells ELSE Fill(res, Key(a), a)
  /\ UNCHANGED idx

Decode(a, res, n) ==
  CASE policy = "plain" -> DecodePlain(a, res, n)
    [] policy = "inf" -> DecodeInf(a, res, n)
    [] policy = "fixed" -> DecodeFixed(a, res, n)
    [] OTHER -> DecodeListed(a, res, n)

=============================================================================
