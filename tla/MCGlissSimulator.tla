------------------------- MODULE MCGlissSimulator -------------------------
(* The program and the commands TLC gives to GlissSimulator. *)
EXTENDS GlissSimulator

Section(type, flags, at, size) ==
  [type |-> type, flags |-> flags, bss |-> FALSE, at |-> at, size |-> size]
Bss(at, size) ==
  [type |-> "nobits", flags |-> {"alloc", "write"}, bss |-> TRUE, at |-> at, size |-> size]

(* Sections of text that are not in the order of their addresses, constants*)
(* data, .bss, mergeable strings, and a table of symbols.                  *)
MCSections ==
  <<Section("progbits", {"alloc", "exec"}, 4, 2),
    Section("progbits", {"alloc", "exec"}, 0, 3),
    Section("progbits", {"alloc"}, 6, 1),
    Section("progbits", {"alloc", "write"}, 8, 3),
    Bss(11, 5),
    Section("progbits", {"alloc", "other"}, 7, 1),
    Section("symtab", {}, 0, 0),
    Section("progbits", {"alloc", "exec"}, 3, 1)>>

File(class, bad, short, sects, exitAt) ==
  [class |-> class, bad |-> bad, short |-> short, sects |-> sects,
   segs |-> {[at |-> 0, size |-> 7], [at |-> 8, size |-> 8]}, entry |-> 4, exit |-> exitAt]

Program(class) == File(class, "none", FALSE, MCSections, 5)
NoExit == File(32, "none", FALSE, MCSections, NULL)

(* What cannot be read, and a program without text. *)
Bad ==
  {File(32, b, s, MCSections, 5) : b \in {"pgm", "sec", "names", "sym", "str"}, s \in BOOLEAN}
  \cup {File(32, b, FALSE, MCSections, 5) : b \in {"header", "type", "section"}}
  \cup {File(32, "none", FALSE, <<Section("progbits", {"alloc"}, 6, 1)>>, 5)}

MCFiles == {Program(32), Program(64), NoExit} \cup Bad

MCIdent == [a \in {3, 4, 5} |-> IF a = 5 THEN 2 ELSE 1]

Text(lines, isEnded) == [lines |-> lines, ended |-> isEnded]

(* An argument, a line that is not ended, an empty line, a variable. *)
Default ==
  [program |-> Program(32), app |-> <<1>>, table |-> <<<<2, 3>>>>,
   argvFile |-> NULL, envpFile |-> NULL, environ |-> <<<<4>>>>, start |-> NULL,
   exit |-> NULL, mode |-> "watch", profile |-> TRUE, valid |-> "none", timed |-> FALSE]

MCCommands ==
  {Default,
   [Default EXCEPT !.program = NoExit],
   [Default EXCEPT !.program = NoExit, !.exit = 3, !.start = 5, !.table = <<>>,
                   !.valid = "written", !.timed = TRUE],
   [Default EXCEPT !.valid = "refused", !.environ = <<>>],
   [Default EXCEPT !.program = Program(64), !.mode = "fast", !.profile = FALSE, !.timed = TRUE],
   [Default EXCEPT !.mode = "fast", !.profile = FALSE, !.timed = TRUE,
                   !.argvFile = Text(<<<<5, 6>>, <<7>>>>, FALSE),
                   !.envpFile = Text(<<<<8, 9, 10>>, <<>>>>, TRUE)],
   [Default EXCEPT !.mode = "step", !.profile = FALSE,
                   !.argvFile = Text(<<<<>>, <<7>>>>, TRUE),
                   !.envpFile = Text(<<>>, TRUE)]}
  \cup {[Default EXCEPT !.program = f] : f \in Bad}

============================================================================
