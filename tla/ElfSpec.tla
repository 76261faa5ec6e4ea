--------------------------------- MODULE ElfSpec ---------------------------------
(* What a reader and a loader of the file rely on.                             *)
EXTENDS ElfWriter

SecHeader ==
  [name_off : Nat, type : {"null", "progbits", "nobits", "symtab", "strtab", "rela"},
   alloc : BOOLEAN, addr : Nat, offset : Nat, size : Nat, link : Nat, info : Nat,
   align : {0, 1, 4, 8}]
TabString == [name : TabNames, off : Nat]
SymEntry  == [st_name : Nat, shndx : 0 .. 4, value : Nat, global : BOOLEAN]
SegHeader == [offset : Nat, vaddr : Nat, filesz : 0 .. WordSize - 1, memsz : 0 .. WordSize - 1]
Contents  == {<<"ehdr">>, <<"phdr">>, <<"shdrs">>} \cup {<<"section", n>> : n \in 0 .. 8}
FilePiece == [what : Contents, size : Nat, at : Nat]

ElfTypeOK ==
  /\ object \in Objects
  /\ stage \in {"sections", "symbols", "layout", "segment", "write", "done"}
  /\ next \in 1 .. Len(object.symbols) + Len(secs) + 1
  /\ secs \in Seq(SecHeader) /\ Len(secs) <= 9
  /\ shstrtab \in Seq(TabString) /\ strtab \in Seq(TabString) /\ syms \in Seq(SymEntry)
  /\ offset \in Nat
  /\ header \in [entry : Nat, shoff : Nat, shstrndx : Nat, segment : SegHeader]
  /\ file \in Seq(FilePiece)

Complete == stage = "done"

(* Of the bytes of a section that has some, of the header and of the table of *)
(* section headers, each is written exactly once, where the file says it is,  *)
(* and no piece overlaps another.                                             *)
WrittenAt(what, at, size) ==
  \E i \in 1 .. Len(file) :
    /\ file[i] = [what |-> what, at |-> at, size |-> size]
    /\ \A j \in 1 .. Len(file) : file[j].what = what => j = i

FileIsWhatItSays ==
  Complete =>
    /\ \A n \in 0 .. Len(secs) - 1 :
         InFile(secs[n + 1]) => WrittenAt(<<"section", n>>, secs[n + 1].offset, secs[n + 1].size)
    /\ WrittenAt(<<"ehdr">>, 0, EhdrSize)
    /\ WrittenAt(<<"shdrs">>, header.shoff, 64 * Len(secs))
    /\ object.is_exec => WrittenAt(<<"phdr">>, EhdrSize, PhdrSize)
    /\ \A i \in 1 .. Len(file) - 1 : file[i].at + file[i].size <= file[i + 1].at

(* docs/hvm-kernel-development.md, elf_load: filesz bytes from the segment's  *)
(* offset on are copied to its address, in pages that hold memsz bytes.  When *)
(* it has run, every loaded section is at the address its header gives it,    *)
(* the one without bytes is inside the pages, and no two overlap.             *)
LoadsWhereLinked ==
  LET seg == header.segment
  IN Complete /\ object.is_exec /\ (\E i \in Loaded : InFile(secs[i])) =>
       /\ seg.filesz <= seg.memsz
       /\ \A i \in Loaded :
            /\ secs[i].addr >= seg.vaddr
            /\ secs[i].addr + secs[i].size <= seg.vaddr + seg.memsz
            /\ InFile(secs[i]) =>
                 /\ seg.vaddr + (secs[i].offset - seg.offset) = secs[i].addr
                 /\ secs[i].offset + secs[i].size <= seg.offset + seg.filesz
            /\ \A j \in Loaded : i < j => secs[i].addr + secs[i].size <= secs[j].addr

(* The string an offset names in a table.  Offset 0 is no name, whatever the  *)
(* table begins with (docs/ho-file-format.md, String Table Rules).            *)
Names(tab, off, str) ==
  off # 0 /\ \E i \in 1 .. Len(tab) : tab[i] = [name |-> str, off |-> off]

(* With or without relocations, the sections are found by their names and the *)
(* links between them lead to the tables they are meant for: .symtab to its   *)
(* strings, .rela.text to .symtab and .text.  Before the first symbol .symtab *)
(* says is not local there is no global one.                                  *)
TablesLinked ==
  LET Section(n, str) == n \in 0 .. Len(secs) - 1 /\ Names(shstrtab, secs[n + 1].name_off, str)
  IN Complete =>
       /\ Section(header.shstrndx, ".shstrtab")
       /\ secs[header.shstrndx + 1].size = EndOf(shstrtab)
       /\ \A n \in 0 .. Len(secs) - 1 :
            /\ secs[n + 1].type = "symtab" =>
                 /\ Section(n, ".symtab") /\ Section(secs[n + 1].link, ".strtab")
                 /\ \A i \in 1 .. Len(syms) : syms[i].global => i > secs[n + 1].info
            /\ secs[n + 1].type = "rela" =>
                 /\ Section(n, ".rela.text") /\ Section(secs[n + 1].link, ".symtab")
                 /\ Section(secs[n + 1].info, ".text")

(* Every symbol of the object is in the table, and in an executable its value *)
(* lies in memory where its section begins plus its offset there.  Every one  *)
(* after the first is there under its name; the first has none, because       *)
(* .strtab does not begin with an empty string as .shstrtab does.             *)
SymbolsResolve ==
  Complete =>
    \A i \in 1 .. Len(object.symbols) :
      LET sym == syms[5 + i]
          gs  == object.symbols[i]
      IN /\ i > 1 => Names(strtab, sym.st_name, gs.name)
         /\ sym.value = gs.value + IF object.is_exec THEN secs[sym.shndx + 1].addr ELSE 0

===============================================================================
