---------------------------- MODULE GlissLoader ----------------------------
(***************************************************************************)
(* The loader of ELF programs: lib/old_elf.c, lib/old_elf64.c and the copy *)
(* of the first in the generated simulator toy, toy/src/loader.c.          *)
(*                                                                         *)
(* A file is what the loader reads of it: the first thing that is wrong,   *)
(* if any, its sections and its segments.  A byte in memory is the number  *)
(* of the section it comes from, 0 when it is zeroed.  The loader builds   *)
(* its tables in static variables, Tables, Text and Data, and copies them  *)
(* in the handle it returns: held is what they point to, and what open     *)
(* allocated and they do not point to is heap \ held.  The two records of  *)
(* a section, its node and its bytes, are allocated and freed together.    *)
(*                                                                         *)
(* The byte order of the numbers in the file, the names and the traces are *)
(* left out.                                                               *)
(***************************************************************************)
EXTENDS Integers, Sequences, FiniteSets, SequencesExt

CONSTANTS
  Builds,     (* among "old_elf", "old_elf64" and "toy" *)
  Files,      (* the programs: [class, bad, short, sects, segs, entry, exit] *)
  Loaders,    (* the handles *)
  Space,      (* number of bytes of the memory *)
  Page,       (* MEMORY_PAGE_SIZE *)
  NULL        (* the null pointer *)

(* A section, as its header tells: [type, flags, bss, at, size], where bss *)
(* is whether it is called .bss or .sbss.  bad is the first step that      *)
(* fails, "none" if none does, and short whether what it reads is there    *)
(* but cannot be read whole.                                               *)
Flag == {"alloc", "write", "exec", "other"}
Type == {"progbits", "nobits", "symtab", "other"}
Tables == <<"pgm", "sec", "names", "sym", "str">>

ASSUME BuildsAssumption == Builds \subseteq {"old_elf", "old_elf64", "toy"}
ASSUME SpaceAssumption == Space \in Nat \ {0} /\ Page \in Nat \ {0}
SectionHeader == [type : Type, flags : SUBSET Flag, bss : BOOLEAN, at : Nat, size : Nat]
ASSUME FilesAssumption ==
  \A f \in Files :
    /\ f.class \in {32, 64} /\ f.short \in BOOLEAN /\ f.entry \in 0..Space - 1
    /\ f.exit \in (0..Space - 1) \cup {NULL}
    /\ f.sects \in Seq(SectionHeader)
    /\ \A i \in DOMAIN f.sects : f.sects[i].at + f.sects[i].size <= Space
    /\ IsFiniteSet(f.segs) /\ \A s \in f.segs : s.at \in Nat /\ s.size \in Nat

(* The null pointer is no file and no pointer to an open loader. *)
Block == {"pgm", "sec", "names", "sym", "str", "text", "data", "bytes"} \X Nat
OpenLoader == [file : Files, text : Seq(Nat), data : Seq(Nat), blocks : SUBSET Block, end : Nat]
ASSUME NullAssumption == NULL \notin OpenLoader /\ NULL \notin Files

VARIABLES
  build,      (* the loader linked *)
  asserts,    (* whether assert is compiled in: NDEBUG is not defined *)
  zeroes,     (* whether GLISS_NOBITS_INIT is defined *)
  heap,       (* the allocated blocks: <<loader, name>> *)
  handle,     (* the open loaders: [file, blocks, text, data] *)
  image,      (* the main memory of the platform *)
  loaded,     (* history: the file loaded in it, or NULL *)
  stopped     (* the process stopped on an assertion *)

config == <<build, asserts, zeroes>>
loaderVars == <<config, heap, handle, image, loaded, stopped>>

Addr == 0..Space - 1
End(s) == s.at + s.size
Bytes(s) == s.at..End(s) - 1

-----------------------------------------------------------------------------
(* What ElfReadTextSecs and ElfReadDataSecs take. *)
IsText(s) == s.type = "progbits" /\ {"alloc", "exec"} \subseteq s.flags

IsData(s) ==
  \/ s.type = "progbits" /\ s.flags \in {{"alloc", "write"}, {"alloc"}}
  \/ s.type = "nobits" /\ s.flags = {"alloc", "write"}

(* A reading under way: whether it goes on, the blocks allocated, those    *)
(* the static variables point to, the two lists of sections.               *)
Reading == [ok |-> TRUE, heap |-> {}, held |-> {}, text |-> <<>>, data |-> <<>>]
Failed(r) == [r EXCEPT !.ok = FALSE]
Take(r, b) == [r EXCEPT !.heap = @ \cup {b}, !.held = @ \cup {b}]

(* A step of ElfRead on each of the readings; the first failure ends them. *)
Then(readings, Step(_)) ==
  UNION {IF r.ok THEN Step(r) ELSE {r} : r \in readings}

(* ElfReadHeader, which knows one class, and ElfCheckExec. *)
Header32(f) == IF f.bad \in {"header", "type"} \/ f.class = 64
               THEN {Failed(Reading)} ELSE {Reading}
Header64(f) == IF f.bad \in {"header", "type"} \/ f.class # 64
               THEN {Failed(Reading)} ELSE {Reading}

(* malloc, then read, of the table t: each may fail. *)
ReadTable(f, r, t) ==
  {Failed(r)} \cup
    IF f.bad # t THEN {Take(r, <<t, 0>>)}
    ELSE IF f.short THEN {Failed(Take(r, <<t, 0>>))} ELSE {}

(* ElfReadPgmHdrTbl, ElfReadSecHdrTbl, ElfReadSecNameTbl, ElfReadSymTbl. *)
ReadTables(f, readings) ==
  LET read[n \in 0..Len(Tables)] ==
        IF n = 0 THEN readings
        ELSE LET Next(r) == ReadTable(f, r, Tables[n]) IN Then(read[n - 1], Next)
  IN read[Len(Tables)]

(* Variant: a section is put first. *)
PlacedFirst(f, secs, i) == <<i>> \o secs

(* A section goes before the first one at a greater address. *)
Placed(f, secs, i) ==
  LET after == {k \in DOMAIN secs : f.sects[secs[k]].at > f.sects[i].at}
  IN InsertAt(secs, IF after = {} THEN Len(secs) + 1 ELSE Min(after), i)

(* The record of section i: what cannot be read is freed. *)
ReadSection(f, r, i, list) ==
  {Failed(r)} \cup
    IF f.bad = "section" /\ i = Len(f.sects) THEN {}
    ELSE {[Take(r, <<list, i>>) EXCEPT ![list] = Placed(f, r[list], i)]}

ReadSections(f, readings, list, Wanted(_)) ==
  LET read[n \in 0..Len(f.sects)] ==
        IF n = 0 THEN readings
        ELSE LET Next(r) == IF Wanted(f.sects[n]) THEN ReadSection(f, r, n, list)
                            ELSE {r}
             IN Then(read[n - 1], Next)
  IN read[Len(f.sects)]

(* Text.bytes: a program without text is refused. *)
ReadText(f, r) == {Failed(r)} \cup IF r.text = <<>> THEN {} ELSE {Take(r, <<"bytes", 0>>)}

ElfReadTextSecs(f, readings) ==
  LET Whole(r) == ReadText(f, r)
  IN Then(ReadSections(f, readings, "text", IsText), Whole)

ElfReadDataSecs(f, readings) == ReadSections(f, readings, "data", IsData)

(* ElfRead; the three files hold the same steps after their headers. *)
ElfRead32(f) == ElfReadDataSecs(f, ElfReadTextSecs(f, ReadTables(f, Header32(f))))

ReadTables64(f, readings) == ReadTables(f, readings)
ElfReadTextSecs64(f, readings) == ElfReadTextSecs(f, readings)
ElfReadDataSecs64(f, readings) == ElfReadDataSecs(f, readings)
ElfRead64(f) == ElfReadDataSecs64(f, ElfReadTextSecs64(f, ReadTables64(f, Header64(f))))

HeaderToy(f) == Header32(f)
ReadTablesToy(f, readings) == ReadTables(f, readings)
ElfReadTextSecsToy(f, readings) == ElfReadTextSecs(f, readings)
ElfReadDataSecsToy(f, readings) == ElfReadDataSecs(f, readings)
ElfReadToy(f) ==
  ElfReadDataSecsToy(f, ElfReadTextSecsToy(f, ReadTablesToy(f, HeaderToy(f))))

-----------------------------------------------------------------------------
Of(h, blocks) == {<<h, b>> : b \in blocks}
Handle == <<"handle", 0>>
Closed(h) == handle[h] = NULL /\ ~stopped
IsOpen(h) == handle[h] # NULL /\ ~stopped

(* Variant: the table of names is forgotten. *)
ElfCleanupKeepsNames(blocks, held) == blocks \ (held \ {<<"names", 0>>})

(* ElfCleanup: what the static variables point to is freed. *)
ElfCleanup(blocks, held) == blocks \ held

(* The end of Text.bytes: that of the last section of the list. *)
TextEnd(f, text) == End(f.sects[Last(text)])

(* gliss_loader_open, on what ElfRead left: its assertion comes before the *)
(* failures are looked at.                                                 *)
Record(h, f, r) ==
  /\ handle' = [handle EXCEPT ![h] = [file |-> f, text |-> r.text, data |-> r.data,
                                     blocks |-> r.held, end |-> TextEnd(f, r.text)]]
  /\ heap' = heap \cup Of(h, r.heap \cup {Handle})
  /\ UNCHANGED stopped

Refuse(h, r) ==
  /\ heap' = heap \cup Of(h, ElfCleanup(r.heap, r.held))
  /\ UNCHANGED <<handle, stopped>>

Open(h, f, readings) ==
  /\ Closed(h)
  /\ \/ Refuse(h, Reading)
     \/ \E r \in readings :
          IF asserts /\ r.text = <<>>
          THEN stopped' = TRUE /\ UNCHANGED <<heap, handle>>
          ELSE IF r.ok THEN Record(h, f, r) ELSE Refuse(h, r)
  /\ UNCHANGED <<config, image, loaded>>

Open32(h, f) == build = "old_elf" /\ Open(h, f, ElfRead32(f))
Open64(h, f) == build = "old_elf64" /\ Open(h, f, ElfRead64(f))
OpenToy(h, f) == build = "toy" /\ Open(h, f, ElfReadToy(f))

(* gliss_loader_close: the handle goes back to the static variables, which *)
(* are cleaned up.                                                         *)
Close(h) ==
  /\ IsOpen(h)
  /\ heap' = {b \in heap : b[1] # h} \cup
               Of(h, ElfCleanup({b[2] : b \in {c \in heap : c[1] = h}},
                                handle[h].blocks \cup {Handle}))
  /\ handle' = [handle EXCEPT ![h] = NULL]
  /\ UNCHANGED <<config, image, loaded, stopped>>

Close64(h) == build = "old_elf64" /\ Close(h)
CloseToy(h) == build = "toy" /\ Close(h)
Close32(h) == build = "old_elf" /\ Close(h)

-----------------------------------------------------------------------------
(* The byte of section i: .bss and .sbss are zeroed, the others are read,  *)
(* those that have no byte in the file too.                                *)
ByteOf(f, i) == IF f.sects[i].bss THEN 0 ELSE i

(* Variant: the sections of data are left out. *)
WrittenText(h) == handle[h].text

(* The sections in the order they are written. *)
Written(h) == handle[h].text \o handle[h].data

(* Zeroed by GLISS_NOBITS_INIT, by words. *)
RoundUp(n, unit) == ((n + unit - 1) \div unit) * unit

Zeroed(s) == IF s.type = "nobits" THEN s.at..s.at + RoundUp(s.size, 4) - 1 ELSE {}
ZeroedBy(f) == UNION {Zeroed(f.sects[i]) : i \in DOMAIN f.sects}

(* gliss_loader_load. *)
Filled(h) ==
  LET f == handle[h].file
      secs == Written(h)
      over(a) == {k \in DOMAIN secs : a \in Bytes(f.sects[secs[k]])}
  IN [a \in Addr |->
        IF zeroes /\ a \in ZeroedBy(f) THEN 0
        ELSE IF over(a) = {} THEN image[a] ELSE ByteOf(f, secs[Max(over(a))])]

Load(h) ==
  /\ IsOpen(h) /\ loaded = NULL
  /\ image' = Filled(h)
  /\ loaded' = handle[h].file
  /\ UNCHANGED <<config, heap, handle, stopped>>

Load32(h) == build = "old_elf" /\ Load(h)
Load64(h) == build = "old_elf64" /\ Load(h)
LoadToy(h) == build = "toy" /\ Load(h)

(* gliss_loader_sect: the type told of a section. *)
SectType(s) ==
  IF s.type # "progbits" THEN "unknown"
  ELSE IF "alloc" \notin s.flags THEN "bss"
  ELSE IF "exec" \in s.flags THEN "text" ELSE "data"

(* The layout of a linker: the sections in memory are apart, those that are*)
(* zeroed taken by words, and below the end of a segment; the text is not  *)
(* empty; .bss has no bytes in the file.                                   *)
InMemory(s) == "alloc" \in s.flags \/ s.type = "nobits"

ASSUME LinkedAssumption ==
  \A f \in Files : \A i \in DOMAIN f.sects :
    LET s == f.sects[i] IN
    /\ IsText(s) => s.size > 0
    /\ s.bss => s.type = "nobits"
    /\ InMemory(s) =>
         /\ \E g \in f.segs : End(s) <= End(g)
         /\ \A j \in DOMAIN f.sects \ {i} :
              InMemory(f.sects[j]) =>
                (Bytes(s) \cup Zeroed(s)) \cap (Bytes(f.sects[j]) \cup Zeroed(f.sects[j])) = {}

(* gliss_brk_init: the page above the highest segment. *)
BrkInit(f) == RoundUp(Max({0} \cup {End(s) : s \in f.segs}), Page)

-----------------------------------------------------------------------------
LoaderInit ==
  /\ build \in Builds /\ asserts \in BOOLEAN /\ zeroes \in BOOLEAN
  /\ heap = {}
  /\ handle = [h \in Loaders |-> NULL]
  /\ image = [a \in Addr |-> 0]
  /\ loaded = NULL
  /\ stopped = FALSE

-----------------------------------------------------------------------------
(* The variables have their types: handles refer to files and sections,    *)
(* bytes come from sections.                                               *)
LoaderTypeOK ==
  /\ build \in Builds /\ asserts \in BOOLEAN /\ zeroes \in BOOLEAN
  /\ \A b \in heap : b[1] \in Loaders
  /\ \A h \in Loaders :
       handle[h] # NULL =>
         /\ handle[h] \in OpenLoader
         /\ Range(handle[h].text \o handle[h].data) \subseteq DOMAIN handle[h].file.sects
  /\ image \in [Addr -> Nat]
  /\ loaded \in Files \cup {NULL}
  /\ stopped \in BOOLEAN

(* Wherever an open fails, and after each close, the blocks allocated are  *)
(* those of the open handles: the static variables neither keep a block nor*)
(* forget one.                                                             *)
NoLeak ==
  ~stopped => heap = UNION {Of(h, handle[h].blocks \cup {Handle}) :
                              h \in {l \in Loaders : handle[l] # NULL}}

(* The copy of the whole text, Text.bytes, is as long as the last section  *)
(* of a list sorted by address needs: each section is read inside of it.   *)
TextFits ==
  \A h \in Loaders :
    handle[h] # NULL =>
      LET f == handle[h].file
          text == handle[h].text
      IN \A k \in DOMAIN text :
           /\ f.sects[text[k]].at >= f.sects[text[1]].at
           /\ End(f.sects[text[k]]) <= handle[h].end

(* Once a program is loaded, the memory holds the bytes of each section    *)
(* that is text or data and that the readings of ElfRead took, and zeroes  *)
(* for .bss.  gliss_loader_sect tells others to be text or data too, those *)
(* with a further flag (thread-local data, mergeable strings): there the   *)
(* memory stays as it was.                                                 *)
ImageLoaded ==
  loaded # NULL =>
    \A i \in DOMAIN loaded.sects :
      LET s == loaded.sects[i] IN
      /\ SectType(s) \in {"text", "data"} =>
           \A a \in Bytes(s) : image[a] = IF IsText(s) \/ IsData(s) THEN i ELSE 0
      /\ s.bss => \A a \in Bytes(s) : image[a] = 0

=============================================================================
