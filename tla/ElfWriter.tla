-------------------------------- MODULE ElfWriter --------------------------------
(***************************************************************************)
(* The ELF writer of hvmc (src/src/tools/hvmc/src/elf.cpp): write_elf.     *)
(*                                                                         *)
(* Section contents are kept as their sizes and the output file as the     *)
(* sequence of the pieces written to it, each with the place it starts at. *)
(* A string table is the sequence of its strings, each with its offset.    *)
(* Section and symbol numbers start at 0 as in the file; secs[n + 1] is    *)
(* section number n.                                                       *)
(*                                                                         *)
(* An operator whose name has an underscore is the one it precedes with a  *)
(* plausible mistake in it; no action uses it.                             *)
(***************************************************************************)
EXTENDS Integers, Sequences, SequencesExt

CONSTANTS
  Objects,     (* object files: the sizes of the sections, the symbols, is_executable *)
  SymbolNames, (* the names their symbols have                                        *)
  BaseAddr,    (* HVM_BASE_ADDR                                                       *)
  WordSize     (* number of values of an integer: 2^64 in the code                    *)

EhdrSize == 64
PhdrSize == 56
SymSize  == 24
RelaSize == 24

ASSUME SizesAssumption ==
  BaseAddr \in Nat /\ BaseAddr % 8 = 0 /\ WordSize \in Nat /\ BaseAddr < WordSize

(* A symbol is in one of the four sections, global or local; the assembler    *)
(* puts all of them in the first and lists only global ones.                  *)
GlobalSymbol == [name : SymbolNames, value : Nat, section_idx : 1 .. 4, is_global : BOOLEAN]
ASSUME ObjectsAssumption ==
  Objects \subseteq [text : Nat, rodata : Nat, data : Nat, relocs : Nat, is_exec : BOOLEAN,
                     symbols : Seq(GlobalSymbol)]

(* No address and no file offset of a loaded section leaves the integers.     *)
ASSUME FitsAssumption ==
  \A o \in Objects :
    BaseAddr + EhdrSize + PhdrSize + o.text + o.rodata + o.data + 32 < WordSize

TableNames == {"", ".text", ".rodata", ".data", ".bss", ".symtab", ".strtab", ".rela.text",
               ".shstrtab"}
TabNames   == TableNames \cup SymbolNames
ASSUME NamesAssumption == \A name \in TabNames : Len(name) \in Nat

VARIABLES
  object,      (* the argument, never changed                                 *)
  stage,       (* the part of write_elf that is next                          *)
  next,        (* the symbol or the section it is at                          *)
  secs,        (* the section headers                                         *)
  shstrtab,
  strtab,
  syms,        (* the symbol table                                            *)
  offset,      (* the file layout: the first byte not given to a section      *)
  header,      (* the ELF header and the program header                       *)
  file         (* what has been written                                       *)

elf_vars == <<object, stage, next, secs, shstrtab, strtab, syms, offset, header, file>>

NoSegment == [offset |-> 0, vaddr |-> 0, filesz |-> 0, memsz |-> 0]

(* A string table with a string added, and the offset it gets.                *)
EndOf(tab)       == IF tab = <<>> THEN 0 ELSE Last(tab).off + Len(Last(tab).name) + 1
AddStr(tab, str) == Append(tab, [name |-> str, off |-> EndOf(tab)])

AlignUp(n, align) == n + ((align - (n % align)) % align)

ElfInit ==
  /\ object \in Objects
  /\ stage = "sections" /\ next = 1
  /\ secs = <<>> /\ shstrtab = <<>> /\ strtab = <<>> /\ syms = <<>>
  /\ offset = 0 /\ file = <<>>
  /\ header = [entry |-> 0, shoff |-> 0, shstrndx |-> 0, segment |-> NoSegment]

-------------------------------------------------------------------------------
Sec(off, type, alloc, addr, size, link, info, align) ==
  [name_off |-> off, type |-> type, alloc |-> alloc, addr |-> addr, offset |-> 0, size |-> size,
   link |-> link, info |-> info, align |-> align]

(* The address of what follows a section of this address and size.            *)
After_Packed(addr, size) == addr + size

After(addr, size) == AlignUp(addr + size, 8)

(* The null section and the four that are loaded, one after the other from    *)
(* the base address on.                                                       *)
PushSections ==
  /\ stage = "sections"
  /\ LET text   == IF object.is_exec THEN BaseAddr ELSE 0
         rodata == After(text, object.text)
         data   == After(rodata, object.rodata)
         bss    == After(data, object.data)
         null    == AddStr(<<>>, "")
         upText  == AddStr(null, ".text")
         upRo    == AddStr(upText, ".rodata")
         upData  == AddStr(upRo, ".data")
     IN /\ shstrtab' = AddStr(upData, ".bss")
        /\ secs' = << Sec(0, "null", FALSE, 0, 0, 0, 0, 0),
                      Sec(EndOf(null),   "progbits", TRUE, text,   object.text,   0, 0, 4),
                      Sec(EndOf(upText), "progbits", TRUE, rodata, object.rodata, 0, 0, 8),
                      Sec(EndOf(upRo),   "progbits", TRUE, data,   object.data,   0, 0, 8),
                      Sec(EndOf(upData), "nobits",   TRUE, bss,    0,             0, 0, 8) >>
        /\ syms' = [i \in 1 .. 5 |-> [st_name |-> 0, shndx |-> i - 1, value |-> 0, global |-> FALSE]]
  /\ stage' = "symbols"
  /\ UNCHANGED <<object, next, strtab, offset, header, file>>

(* The address of a section among these, or 0 for a number it is not.         *)
AddrOf(i) == IF i >= 1 /\ i < Len(secs) THEN secs[i + 1].addr ELSE 0

SectionOf(gs) == IF gs.section_idx > 0 THEN gs.section_idx ELSE 1

(* In an executable the value of a symbol is an address.                      *)
Value_Relative(gs) == gs.value

Value(gs) == IF object.is_exec THEN AddrOf(gs.section_idx) + gs.value ELSE gs.value

(* One symbol of the object.                                                  *)
AddSymbol ==
  /\ stage = "symbols" /\ next <= Len(object.symbols)
  /\ LET gs == object.symbols[next]
     IN /\ strtab' = AddStr(strtab, gs.name)
        /\ syms' = Append(syms, [st_name |-> EndOf(strtab), shndx |-> SectionOf(gs),
                                 value |-> Value(gs), global |-> gs.is_global])
  /\ next' = next + 1
  /\ UNCHANGED <<object, stage, secs, shstrtab, offset, header, file>>

(* sec_idx_map[".strtab"].                                                    *)
StrtabIndex_Next == 7

StrtabIndex == 6

(* The tables.  .symtab is linked to .strtab once all of them have numbers,   *)
(* and .shstrtab holds its own name.  The info of .symtab is 1.               *)
PushTables ==
  /\ stage = "symbols" /\ next > Len(object.symbols)
  /\ LET upSym  == AddStr(shstrtab, ".symtab")
         upStr  == AddStr(upSym, ".strtab")
         upRela == IF object.relocs > 0 THEN AddStr(upStr, ".rela.text") ELSE upStr
         names  == AddStr(upRela, ".shstrtab")
         rela   == IF object.relocs > 0
                   THEN <<Sec(EndOf(upStr), "rela", FALSE, 0, object.relocs * RelaSize, 5, 1, 8)>>
                   ELSE <<>>
     IN /\ shstrtab' = names
        /\ secs' = secs \o <<Sec(EndOf(shstrtab), "symtab", FALSE, 0, Len(syms) * SymSize,
                                  StrtabIndex, 1, 8),
                             Sec(EndOf(upSym), "strtab", FALSE, 0, EndOf(strtab), 0, 0, 1)>>
                        \o rela
                        \o <<Sec(EndOf(upRela), "strtab", FALSE, 0, EndOf(names), 0, 0, 1)>>
  /\ header' = [header EXCEPT !.shstrndx = Len(secs') - 1]
  /\ stage' = "layout" /\ next' = 1
  /\ offset' = EhdrSize + IF object.is_exec THEN PhdrSize ELSE 0
  /\ UNCHANGED <<object, strtab, syms, file>>

-------------------------------------------------------------------------------
InFile(sec) == sec.type \notin {"null", "nobits"} /\ sec.size > 0

(* The place of one section in the file; a section without bytes has none.    *)
Place ==
  /\ stage = "layout" /\ next <= Len(secs)
  /\ IF InFile(secs[next])
     THEN LET at == AlignUp(offset, secs[next].align)
          IN /\ secs' = [secs EXCEPT ![next].offset = at]
             /\ offset' = at + secs[next].size
     ELSE UNCHANGED <<secs, offset>>
  /\ next' = next + 1
  /\ UNCHANGED <<object, stage, shstrtab, strtab, syms, header, file>>

FileEnd == IF file = <<>> THEN 0 ELSE Last(file).at + Last(file).size

(* The file with size bytes of what written, after zeros up to the place      *)
(* from on.                                                                   *)
WriteFrom_NoPadding(what, size, from) ==
  file' = Append(file, [what |-> what, size |-> size, at |-> FileEnd])

WriteFrom(what, size, from) ==
  file' = Append(file, [what |-> what, size |-> size,
                        at |-> IF FileEnd < from THEN from ELSE FileEnd])

(* The last symbol with one of these names is the entry.                      *)
EntryNames == {"_start", "main", "kernel_main"}
EntryAddr ==
  LET named == {i \in DOMAIN object.symbols : object.symbols[i].name \in EntryNames}
      gs    == object.symbols[Max(named)]
  IN IF named = {} THEN 0
     ELSE IF object.is_exec THEN AddrOf(SectionOf(gs)) + gs.value ELSE gs.value

WriteHeader ==
  /\ stage = "layout" /\ next > Len(secs)
  /\ header' = [header EXCEPT !.entry = EntryAddr,
                              !.shoff = AlignUp(offset, 8)]
  /\ WriteFrom(<<"ehdr">>, EhdrSize, 0)
  /\ stage' = (IF object.is_exec THEN "segment" ELSE "write") /\ next' = 1
  /\ UNCHANGED <<object, secs, shstrtab, strtab, syms, offset>>

Loaded == {i \in DOMAIN secs : secs[i].alloc}

Span_Signed(last, first) == last - first

Span(last, first) == (last - first) % WordSize

(* The one segment spans the loaded sections, in the file and in memory.  The *)
(* minimum over the file starts from the largest integer and the difference   *)
(* wraps.                                                                     *)
SegmentOf ==
  LET first == Min({WordSize - 1} \cup {secs[i].offset : i \in {j \in Loaded : secs[j].offset > 0}})
      last  == Max({0} \cup {secs[i].offset + secs[i].size : i \in Loaded})
      low   == Min({WordSize - 1} \cup {secs[i].addr : i \in Loaded})
      high  == Max({0} \cup {secs[i].addr + secs[i].size : i \in Loaded})
  IN [offset |-> first, vaddr |-> low,
      filesz |-> Span(last, first), memsz |-> Span(high, low)]

WriteSegment ==
  /\ stage = "segment"
  /\ header' = [header EXCEPT !.segment = SegmentOf]
  /\ WriteFrom(<<"phdr">>, PhdrSize, 0)
  /\ stage' = "write"
  /\ UNCHANGED <<object, next, secs, shstrtab, strtab, syms, offset>>

(* The bytes of one section.                                                  *)
WriteSection ==
  /\ stage = "write" /\ next <= Len(secs)
  /\ IF InFile(secs[next]) THEN WriteFrom(<<"section", next - 1>>, secs[next].size, secs[next].offset)
     ELSE UNCHANGED file
  /\ next' = next + 1
  /\ UNCHANGED <<object, stage, secs, shstrtab, strtab, syms, offset, header>>

WriteHeaders ==
  /\ stage = "write" /\ next > Len(secs)
  /\ WriteFrom(<<"shdrs">>, 64 * Len(secs), header.shoff)
  /\ stage' = "done"
  /\ UNCHANGED <<object, next, secs, shstrtab, strtab, syms, offset, header>>

ElfStep == PushSections \/ AddSymbol \/ PushTables \/ Place
           \/ WriteHeader \/ WriteSegment \/ WriteSection \/ WriteHeaders

(* The call of write_elf has returned.                                        *)
ElfReturned == stage = "done" /\ UNCHANGED elf_vars

WriteElf == ElfInit /\ [][ElfStep \/ ElfReturned]_elf_vars

===============================================================================
