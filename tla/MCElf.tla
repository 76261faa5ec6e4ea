---------------------------------- MODULE MCElf ----------------------------------
(* Objects with sections of sizes around the alignments and up to two symbols.  *)
EXTENDS ElfSpec

MCSymbolNames == {"_start", "main", "f"}
MCSymbol == [name : MCSymbolNames, value : {4}, section_idx : {1, 3}, is_global : BOOLEAN]
Symbols == {<<>>} \cup {<<s>> : s \in MCSymbol} \cup {p \in MCSymbol \X MCSymbol : p[1].name # p[2].name}
Size    == {0, 4, 9}

MCObjects == [text : Size, rodata : Size, data : Size, relocs : {0, 2}, is_exec : BOOLEAN,
              symbols : Symbols]
==================================================================================
