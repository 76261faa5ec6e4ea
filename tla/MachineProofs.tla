------------------------------ MODULE MachineProofs ------------------------------
(***************************************************************************)
(* Proofs about the machine's memory and about the code in it.             *)
(*                                                                         *)
(* The multi-region memory, for every address width, every set of region   *)
(* bases and sizes, every width of access and any number of regions and    *)
(* devices: the types, and the refinement of the byte store.  What the     *)
(* refinement rests on is that in a layout of disjoint regions the first   *)
(* region found for an address is the only one.                            *)
(*                                                                         *)
(* The machine code, for every program and width of a word: its bytes are  *)
(* read back as the instructions they were encoded from, and running them  *)
(* does what the instruction set says of each.  A number is the sum of its *)
(* bits, the fields of a word do not overlap, no two rows of the opcode    *)
(* table have the same opcode and function code, and an invariant keeps    *)
(* where each instruction's bytes are and that the hart is at one of them. *)
(***************************************************************************)
EXTENDS MemorySystem, MachineCode,
        FiniteSetTheorems, SequenceTheorems, WellFoundedInduction, TLAPS

-------------------------------------------------------------------------------
(* Regions and layouts.                                                      *)

LEMMA RegionFields ==
  ASSUME NEW r \in Region
  PROVE  /\ r.base \in Bases /\ r.size \in Sizes /\ r.base \in Nat /\ r.size \in Nat
         /\ r.data \in [0 .. r.size - 1 -> Byte]
         /\ r.readOnly \in BOOLEAN
<1>1. PICK s \in Sizes : r \in [base : Bases, size : {s}, kind : Kinds \cup {"rom", "mmio"},
                                readOnly : BOOLEAN, data : Contents(s)]
  BY DEF Region
<1>2. r.size = s
  BY <1>1
<1>3. Bases \subseteq Nat /\ Sizes \subseteq Nat
  BY AddrAssumption DEF Address
<1> QED
  BY <1>1, <1>2, <1>3 DEF Contents

LEMMA RegionIntro ==
  ASSUME NEW b \in Bases, NEW s \in Sizes, NEW k \in Kinds \cup {"rom", "mmio"},
         NEW ro \in BOOLEAN, NEW d \in Contents(s)
  PROVE  [base |-> b, size |-> s, kind |-> k, readOnly |-> ro, data |-> d] \in Region
  BY DEF Region

LEMMA ZerosType == \A s \in Sizes : Zeros(s) \in Contents(s)
  BY AddrAssumption DEF Zeros, Contents

(* A region ends below the top of the address space, so its end does not wrap. *)
LEMMA CoversRange ==
  ASSUME NEW r \in Region, r.base + r.size < AddrSize, NEW a \in Int
  PROVE  Covers(r, a) <=> a \in RangeOf(r)
<1>1. r.base \in Nat /\ r.size \in Nat /\ AddrSize \in Nat \ {0}
  BY RegionFields, AddrAssumption
<1>2. (r.base + r.size) % AddrSize = r.base + r.size
  BY <1>1
<1> QED
  BY <1>1, <1>2 DEF Covers, RangeOf

(* The search finds the only region that holds the address.                  *)
LEMMA OnlyRegion ==
  ASSUME NEW rs \in Seq(Region), LaidOut(rs), NEW a \in Int,
         NEW i \in DOMAIN rs, Covers(rs[i], a)
  PROVE  LET H == {k \in DOMAIN rs : Covers(rs[k], a)}
         IN  H = {i} /\ (CHOOSE k \in H : \A j \in H : k <= j) = i
<1> DEFINE H == {k \in DOMAIN rs : Covers(rs[k], a)}
<1>1. \A k \in DOMAIN rs : Covers(rs[k], a) <=> a \in RangeOf(rs[k])
  BY CoversRange DEF LaidOut
<1>2. H = {i}
  BY <1>1 DEF LaidOut, Apart
<1>3. i \in Int
  OBVIOUS
<1>4. (CHOOSE k \in {i} : \A j \in {i} : k <= j) = i
  BY <1>3
<1> QED
  BY <1>2, <1>4

-------------------------------------------------------------------------------
(* The region of an address, in a state and in the next one.                 *)

Inv == TypeOK /\ Disjoint

LEMMA OwnerIs ==
  ASSUME Inv, NEW a \in Int, NEW i \in DOMAIN regions, Covers(regions[i], a)
  PROVE  Mapped(a) /\ Owner(a) = i /\ Offset(a) = a - regions[i].base
<1>1. Hits(a) = {i} /\ Owner(a) = i
  BY OnlyRegion DEF Inv, TypeOK, Disjoint, Hits, Owner
<1> QED
  BY <1>1 DEF Mapped, Offset

LEMMA OwnerIsNext ==
  ASSUME Inv', NEW a \in Int, NEW i \in DOMAIN regions', Covers(regions'[i], a)
  PROVE  Mapped(a)' /\ Owner(a)' = i /\ Offset(a)' = a - regions'[i].base
<1>1. Hits(a)' = {i} /\ Owner(a)' = i
  BY OnlyRegion DEF Inv, TypeOK, Disjoint, Hits, Owner
<1> QED
  BY <1>1 DEF Mapped, Offset

LEMMA MappedOwner ==
  ASSUME Inv, NEW a \in Int, Mapped(a)
  PROVE  /\ Owner(a) \in DOMAIN regions /\ Owner(a) \in Nat
         /\ regions[Owner(a)] \in Region
         /\ Covers(regions[Owner(a)], a) /\ a \in RangeOf(regions[Owner(a)])
         /\ regions[Owner(a)].base + regions[Owner(a)].size < AddrSize
         /\ Offset(a) \in 0 .. regions[Owner(a)].size - 1
<1>1. PICK i \in DOMAIN regions : Covers(regions[i], a)
  BY DEF Mapped, Hits
<1>2. Owner(a) = i /\ Offset(a) = a - regions[i].base
  BY <1>1, OwnerIs
<1>3. i \in Nat /\ regions[i] \in Region /\ regions[i].base + regions[i].size < AddrSize
  BY DEF Inv, TypeOK, Disjoint, LaidOut
<1>4. regions[i].base \in Nat /\ regions[i].size \in Nat
  BY <1>3, RegionFields
<1>5. a \in RangeOf(regions[i])
  BY <1>1, <1>3, CoversRange
<1> QED
  BY <1>1, <1>2, <1>3, <1>4, <1>5 DEF RangeOf

LEMMA MappedOwnerNext ==
  ASSUME Inv', NEW a \in Int, Mapped(a)'
  PROVE  Owner(a)' \in DOMAIN regions' /\ Covers(regions'[Owner(a)'], a)
<1>1. PICK i \in DOMAIN regions' : Covers(regions'[i], a)
  BY DEF Mapped, Hits
<1> QED
  BY <1>1, OwnerIsNext

(* A mapped address keeps its region while the regions keep their places.    *)
LEMMA OwnerKept ==
  ASSUME Inv, Inv', DOMAIN regions \subseteq DOMAIN regions',
         \A i \in DOMAIN regions : /\ regions'[i].base = regions[i].base
                                   /\ regions'[i].size = regions[i].size,
         NEW a \in Int, Mapped(a)
  PROVE  Mapped(a)' /\ Owner(a)' = Owner(a) /\ Offset(a)' = Offset(a)
<1>1. Owner(a) \in DOMAIN regions /\ Covers(regions[Owner(a)], a)
  BY MappedOwner
<1>2. Covers(regions'[Owner(a)], a)
  BY <1>1 DEF Covers
<1> QED
  BY <1>1, <1>2, OwnerIs, OwnerIsNext

LEMMA MappedSame ==
  ASSUME Inv, Inv', DOMAIN regions' = DOMAIN regions,
         \A i \in DOMAIN regions : /\ regions'[i].base = regions[i].base
                                   /\ regions'[i].size = regions[i].size,
         NEW a \in Int
  PROVE  Mapped(a)' <=> Mapped(a)
<1>1. ASSUME Mapped(a)' PROVE Mapped(a)
  <2>1. Owner(a)' \in DOMAIN regions /\ Covers(regions[Owner(a)'], a)
    BY <1>1, MappedOwnerNext DEF Covers
  <2> QED
    BY <2>1, OwnerIs
<1> QED
  BY <1>1, OwnerKept

(* Every address of the region of a mapped address belongs to that region.   *)
LEMMA SameRegion ==
  ASSUME Inv, NEW a \in Int, Mapped(a), NEW x \in RangeOf(regions[Owner(a)])
  PROVE  /\ x \in Address /\ Mapped(x) /\ Owner(x) = Owner(a)
         /\ Offset(x) = x - regions[Owner(a)].base
         /\ Offset(x) = Offset(a) + (x - a)
<1> DEFINE r == regions[Owner(a)]
<1>1. r \in Region /\ r.base + r.size < AddrSize /\ Owner(a) \in DOMAIN regions
  BY MappedOwner
<1>2. r.base \in Nat /\ r.size \in Nat /\ AddrSize \in Nat
  BY <1>1, RegionFields, AddrAssumption
<1>3. x \in Address /\ x \in Int
  BY <1>1, <1>2 DEF RangeOf, Address
<1>4. Covers(r, x)
  BY <1>1, <1>3, CoversRange
<1>5. Mapped(x) /\ Owner(x) = Owner(a) /\ Offset(x) = x - r.base
  BY <1>1, <1>3, <1>4, OwnerIs
<1> QED
  BY <1>2, <1>3, <1>5 DEF Offset

-------------------------------------------------------------------------------
(* Type correctness.                                                         *)

LEMMA AddRegionType ==
  ASSUME TypeOK, NEW r \in Region, AddRegion(r)
  PROVE  regions' \in Seq(Region) /\ Len(regions') <= MaxRegions
  BY AddrAssumption DEF AddRegion, TypeOK

(* A region keeps its type when its protection or its bytes change.          *)
LEMMA RegionExcept ==
  ASSUME NEW r \in Region
  PROVE  /\ \A flag \in BOOLEAN : [r EXCEPT !.readOnly = flag] \in Region
         /\ \A d \in [0 .. r.size - 1 -> Byte] : [r EXCEPT !.data = d] \in Region
<1>1. PICK s \in Sizes : r \in [base : Bases, size : {s}, kind : Kinds \cup {"rom", "mmio"},
                                readOnly : BOOLEAN, data : Contents(s)]
  BY DEF Region
<1>2. r.size = s
  BY <1>1
<1> QED
  BY <1>1, <1>2 DEF Region, Contents

(* A function on the same places with regions for values is a layout again.  *)
LEMMA RemappedType ==
  ASSUME NEW rs \in Seq(Region), NEW new, new = [i \in DOMAIN rs |-> new[i]],
         \A i \in DOMAIN rs : new[i] \in Region
  PROVE  new \in Seq(Region) /\ Len(new) = Len(rs) /\ DOMAIN new = DOMAIN rs
<1>1. DOMAIN rs = 1 .. Len(rs) /\ Len(rs) \in Nat
  OBVIOUS
<1>2. new \in [1 .. Len(rs) -> Region]
  BY <1>1
<1> QED
  BY <1>1, <1>2, SeqDef

LEMMA OverwriteType ==
  ASSUME Inv, NEW a \in Int, Mapped(a), NEW v \in Seq(Byte), Overwrite(a, v)
  PROVE  /\ regions' \in Seq(Region) /\ Len(regions') <= MaxRegions
         /\ DOMAIN regions' = DOMAIN regions
<1> DEFINE o == Owner(a)
           r == regions[o]
           d == [x \in DOMAIN r.data |-> IF x \in Offset(a) .. Offset(a) + Len(v) - 1
                                         THEN v[x - Offset(a) + 1] ELSE r.data[x]]
<1>1. o \in DOMAIN regions /\ r \in Region /\ Offset(a) \in Int
  BY MappedOwner
<1>2. r.data \in [0 .. r.size - 1 -> Byte] /\ r.size \in Nat
  BY <1>1, RegionFields
<1>3. d \in [0 .. r.size - 1 -> Byte]
  <2>1. ASSUME NEW x \in 0 .. r.size - 1, x \in Offset(a) .. Offset(a) + Len(v) - 1
        PROVE  v[x - Offset(a) + 1] \in Byte
    <3>1. x - Offset(a) + 1 \in 1 .. Len(v)
      BY <1>1, <1>2, <2>1
    <3> QED
      BY <3>1
  <2> QED
    BY <1>2, <2>1
<1>4. [r EXCEPT !.data = d] \in Region
  BY <1>1, <1>3, RegionExcept
<1>5. regions' = [regions EXCEPT ![o] = [r EXCEPT !.data = d]]
  BY DEF Overwrite
<1>6. regions \in Seq(Region) /\ Len(regions) <= MaxRegions
  BY DEF Inv, TypeOK
<1> QED
  BY <1>1, <1>4, <1>5, <1>6

(* A write changes the bytes of one region and nothing else of any region.   *)
LEMMA OverwriteEffect ==
  ASSUME Inv, NEW a \in Int, Mapped(a), NEW v, Overwrite(a, v), NEW i \in DOMAIN regions
  PROVE  /\ regions'[i].base = regions[i].base /\ regions'[i].size = regions[i].size
         /\ regions'[i].kind = regions[i].kind
         /\ regions'[i].readOnly = regions[i].readOnly
         /\ i # Owner(a) => regions'[i].data = regions[i].data
         /\ i = Owner(a) =>
              regions'[i].data = [x \in DOMAIN regions[i].data |->
                                    IF x \in Offset(a) .. Offset(a) + Len(v) - 1
                                    THEN v[x - Offset(a) + 1] ELSE regions[i].data[x]]
<1>1. regions[i] \in Region
  BY DEF Inv, TypeOK
<1>2. PICK s \in Sizes : regions[i] \in [base : Bases, size : {s}, kind : Kinds \cup {"rom", "mmio"},
                                         readOnly : BOOLEAN, data : Contents(s)]
  BY <1>1 DEF Region
<1> QED
  BY <1>2 DEF Overwrite

LEMMA LayoutKept ==
  ASSUME Inv, DOMAIN regions' = DOMAIN regions,
         \A i \in DOMAIN regions : /\ regions'[i].base = regions[i].base
                                   /\ regions'[i].size = regions[i].size
  PROVE  Disjoint'
<1>1. \A i, j \in DOMAIN regions' : i # j => Apart(regions'[i], regions'[j])
  BY DEF Inv, Disjoint, LaidOut, Apart, RangeOf
<1>2. \A i \in DOMAIN regions' : regions'[i].base + regions'[i].size < AddrSize
  BY DEF Inv, Disjoint, LaidOut
<1> QED
  BY <1>1, <1>2 DEF Disjoint, LaidOut

LEMMA SetReadOnlyEffect ==
  ASSUME Inv, NEW b \in Bases, NEW s \in Sizes, NEW flag \in BOOLEAN, SetReadOnly(b, s, flag)
  PROVE  /\ regions' \in Seq(Region) /\ Len(regions') = Len(regions)
         /\ DOMAIN regions' = DOMAIN regions
         /\ \A i \in DOMAIN regions :
              /\ regions'[i].base = regions[i].base /\ regions'[i].size = regions[i].size
              /\ regions'[i].kind = regions[i].kind /\ regions'[i].data = regions[i].data
<1> DEFINE Same == {i \in DOMAIN regions : regions[i].base = b /\ regions[i].size = s}
<1>1. regions \in Seq(Region) /\ \A i \in DOMAIN regions : regions[i] \in Region
  BY DEF Inv, TypeOK
<1>2. regions' = [i \in DOMAIN regions |->
                    IF i \in Same /\ \A j \in Same : i <= j
                    THEN [regions[i] EXCEPT !.readOnly = flag] ELSE regions[i]]
  BY DEF SetReadOnly
<1>3. \A i \in DOMAIN regions : regions'[i] \in {[regions[i] EXCEPT !.readOnly = flag], regions[i]}
  BY <1>2
<1>4. \A i \in DOMAIN regions : regions'[i] \in Region
  BY <1>1, <1>3, RegionExcept
<1>5. regions' = [i \in DOMAIN regions |-> regions'[i]]
  BY <1>2
<1>6. \A i \in DOMAIN regions :
        /\ regions'[i].base = regions[i].base /\ regions'[i].size = regions[i].size
        /\ regions'[i].kind = regions[i].kind /\ regions'[i].data = regions[i].data
  <2> TAKE i \in DOMAIN regions
  <2>1. PICK z \in Sizes : regions[i] \in [base : Bases, size : {z}, kind : Kinds \cup {"rom", "mmio"},
                                           readOnly : BOOLEAN, data : Contents(z)]
    BY <1>1 DEF Region
  <2> QED
    BY <1>3, <2>1
<1> QED
  BY <1>1, <1>4, <1>5, <1>6, RemappedType

LEMMA AddRegionEffect ==
  ASSUME TypeOK, NEW r \in Region, AddRegion(r)
  PROVE  /\ DOMAIN regions \subseteq DOMAIN regions'
         /\ \A i \in DOMAIN regions : regions'[i] = regions[i]
  BY DEF AddRegion, TypeOK

(* A write, whatever its length, that Overwrite makes of a mapped address.   *)
LEMMA OverwriteInv ==
  ASSUME Inv, NEW a \in Int, Mapped(a), NEW v \in Seq(Byte), Overwrite(a, v),
         UNCHANGED <<handlers, device>>
  PROVE  Inv'
<1>1. /\ regions' \in Seq(Region) /\ Len(regions') <= MaxRegions
      /\ DOMAIN regions' = DOMAIN regions
  BY OverwriteType
<1>2. Disjoint'
  BY <1>1, OverwriteEffect, LayoutKept
<1> QED
  BY <1>1, <1>2 DEF Inv, TypeOK

(* The types and the layout the host keeps to are inductive together.        *)
LEMMA InvStep == Inv /\ [Next]_vars => Inv'
<1> SUFFICES ASSUME Inv, [Next]_vars
             PROVE  Inv'
  OBVIOUS
<1> USE DEF Inv
<1>1. ASSUME UNCHANGED <<regions, handlers, device>> PROVE Inv'
  BY <1>1 DEF TypeOK, Disjoint
<1>2. ASSUME NEW b \in Bases, NEW s \in Sizes, NEW kind \in Kinds, NEW readOnly \in BOOLEAN,
             AddPlain(b, s, kind, readOnly)
      PROVE  TypeOK'
  BY <1>2, ZerosType, RegionIntro, AddRegionType DEF AddPlain, TypeOK
<1>3. ASSUME NEW b \in Bases, NEW s \in Sizes, NEW image \in Contents(s), AddRom(b, s, image)
      PROVE  TypeOK'
  BY <1>3, RegionIntro, AddRegionType DEF AddRom, TypeOK
<1>4. ASSUME NEW b \in Bases, NEW s \in Sizes, NEW d \in Device, AddMmio(b, s, d)
      PROVE  TypeOK'
  BY <1>4, ZerosType, RegionIntro, AddRegionType DEF AddMmio, TypeOK
<1>5. ASSUME NEW b \in Bases, NEW s \in Sizes, NEW flag \in BOOLEAN, SetReadOnly(b, s, flag)
      PROVE  TypeOK'
  <2>1. UNCHANGED <<handlers, device>>
    BY <1>5 DEF SetReadOnly
  <2>2. regions' \in Seq(Region) /\ Len(regions') = Len(regions)
    BY <1>5, SetReadOnlyEffect
  <2> QED
    BY <2>1, <2>2 DEF TypeOK
<1>6. ASSUME Clear PROVE TypeOK'
  BY <1>6, AddrAssumption DEF Clear, TypeOK
<1>7. ASSUME NEW a \in Address, AccessByte(a) PROVE Inv'
  <2>1. CASE ReadByte(a)
    BY <1>1, <2>1 DEF ReadByte, Throws
  <2>2. ASSUME NEW b \in Byte, WriteByte(a, b) PROVE Inv'
    <3>1. CASE ~Mapped(a) \/ regions[Owner(a)].readOnly
      BY <1>1, <2>2, <3>1 DEF WriteByte, Throws
    <3>2. CASE Mapped(a) /\ HasHandler(regions[Owner(a)]) /\ ~regions[Owner(a)].readOnly
      BY <2>2, <3>2 DEF WriteByte, TypeOK, Disjoint
    <3>3. CASE Mapped(a) /\ ~HasHandler(regions[Owner(a)]) /\ ~regions[Owner(a)].readOnly
      <4>1. Overwrite(a, <<b>>) /\ UNCHANGED <<handlers, device>> /\ a \in Int /\ <<b>> \in Seq(Byte)
        BY <2>2, <3>3 DEF WriteByte, Address
      <4> QED
        BY <3>3, <4>1, OverwriteInv
    <3> QED
      BY <3>1, <3>2, <3>3
  <2> QED
    BY <1>7, <2>1, <2>2 DEF AccessByte
<1>8. ASSUME NEW a \in Address, AccessWide(a) PROVE Inv'
  <2>1. ASSUME NEW n \in Widths, ReadWide(a, n) PROVE Inv'
    BY <1>1, <2>1 DEF ReadWide, Throws
  <2>2. ASSUME NEW n \in Widths, NEW v \in [1 .. n -> Byte], WriteWide(a, v) PROVE Inv'
    <3>1. CASE ~InBounds(a, Len(v)) \/ regions[Owner(a)].readOnly
      BY <1>1, <2>2, <3>1 DEF WriteWide, Throws
    <3>2. CASE InBounds(a, Len(v)) /\ ~regions[Owner(a)].readOnly
      <4>1. Overwrite(a, v) /\ UNCHANGED <<handlers, device>> /\ a \in Int /\ Mapped(a)
        BY <2>2, <3>2 DEF WriteWide, Address, InBounds
      <4>2. v \in Seq(Byte)
        BY AddrAssumption, SeqDef
      <4> QED
        BY <4>1, <4>2, OverwriteInv
    <3> QED
      BY <3>1, <3>2
  <2> QED
    BY <1>8, <2>1, <2>2 DEF AccessWide
<1> QED
  BY <1>1, <1>2, <1>3, <1>4, <1>5, <1>6, <1>7, <1>8 DEF Next, Configure, vars

LEMMA InitInv == Init => Inv
  BY AddrAssumption DEF Init, Inv, TypeOK, Disjoint, LaidOut

(* Regions, handlers and devices keep their types, and a region always holds  *)
(* exactly as many bytes as its size says, whatever the host adds, protects,  *)
(* clears or accesses.                                                        *)
THEOREM MemoryTypeCorrect == Spec => []TypeOK
<1>1. Inv => TypeOK
  BY DEF Inv
<1> QED
  BY InitInv, InvStep, <1>1, PTL DEF Spec

(* A handler is kept under the base of a region that is there: no handler is  *)
(* left over for a later region to find.                                      *)
Owned == \A b \in DOMAIN handlers : \E i \in DOMAIN regions : regions[i].base = b

(* An access changes bytes at most: regions and handlers keep their places.   *)
LEMMA AccessKeepsPlaces ==
  ASSUME Inv, NEW a \in Address, AccessByte(a) \/ AccessWide(a)
  PROVE  /\ handlers' = handlers /\ DOMAIN regions' = DOMAIN regions
         /\ \A i \in DOMAIN regions : regions'[i].base = regions[i].base
<1>1. a \in Int
  BY DEF Address
<1>2. ASSUME NEW v \in Seq(Byte), Mapped(a), Overwrite(a, v)
      PROVE  /\ DOMAIN regions' = DOMAIN regions
             /\ \A i \in DOMAIN regions : regions'[i].base = regions[i].base
  BY <1>1, <1>2, OverwriteType, OverwriteEffect
<1>3. CASE AccessByte(a)
  <2>1. CASE ReadByte(a)
    BY <2>1 DEF ReadByte, Throws
  <2>2. ASSUME NEW b \in Byte, WriteByte(a, b)
        PROVE  /\ handlers' = handlers
               /\ regions' = regions \/ (Mapped(a) /\ Overwrite(a, <<b>>))
    BY <2>2 DEF WriteByte, Throws
  <2>3. \A b \in Byte : <<b>> \in Seq(Byte)
    OBVIOUS
  <2> QED
    BY <1>2, <1>3, <2>1, <2>2, <2>3 DEF AccessByte
<1>4. CASE AccessWide(a)
  <2>1. ASSUME NEW n \in Widths, ReadWide(a, n)
        PROVE  handlers' = handlers /\ regions' = regions
    BY <2>1 DEF ReadWide, Throws
  <2>2. ASSUME NEW n \in Widths, NEW v \in [1 .. n -> Byte], WriteWide(a, v)
        PROVE  /\ handlers' = handlers /\ v \in Seq(Byte)
               /\ regions' = regions \/ (Mapped(a) /\ Overwrite(a, v))
    <3>1. v \in Seq(Byte)
      BY AddrAssumption, SeqDef
    <3> QED
      BY <2>2, <3>1 DEF WriteWide, Throws, InBounds
  <2> QED
    BY <1>2, <1>4, <2>1, <2>2 DEF AccessWide
<1> QED
  BY <1>3, <1>4

LEMMA OwnedStep == Inv /\ Owned /\ [Next]_vars => Owned'
<1> SUFFICES ASSUME Inv, Owned, [Next]_vars PROVE Owned'
  OBVIOUS
<1>1. ASSUME handlers' = handlers, DOMAIN regions \subseteq DOMAIN regions',
             \A i \in DOMAIN regions : regions'[i].base = regions[i].base
      PROVE  Owned'
  BY <1>1 DEF Owned
<1>2. ASSUME NEW b \in Bases, NEW s \in Sizes, NEW kind \in Kinds, NEW readOnly \in BOOLEAN,
             AddPlain(b, s, kind, readOnly)
      PROVE  Owned'
  BY <1>1, <1>2, ZerosType, RegionIntro, AddRegionEffect DEF AddPlain, Inv
<1>3. ASSUME NEW b \in Bases, NEW s \in Sizes, NEW image \in Contents(s), AddRom(b, s, image)
      PROVE  Owned'
  BY <1>1, <1>3, RegionIntro, AddRegionEffect DEF AddRom, Inv
<1>4. ASSUME NEW b \in Bases, NEW s \in Sizes, NEW d \in Device, AddMmio(b, s, d)
      PROVE  Owned'
  <2> DEFINE r == [base |-> b, size |-> s, kind |-> "mmio", readOnly |-> FALSE,
                   data |-> Zeros(s)]
  <2>1. r \in Region /\ r.base = b /\ AddRegion(r)
    BY <1>4, ZerosType, RegionIntro DEF AddMmio
  <2> HIDE DEF r
  <2>2. /\ DOMAIN regions \subseteq DOMAIN regions'
        /\ \A i \in DOMAIN regions : regions'[i] = regions[i]
        /\ Len(regions) + 1 \in DOMAIN regions' /\ regions'[Len(regions) + 1] = r
    BY <2>1, AddRegionEffect DEF AddRegion, Inv, TypeOK
  <2>3. DOMAIN handlers' = DOMAIN handlers \cup {b}
    BY <1>4 DEF AddMmio
  <2> QED
    BY <2>1, <2>2, <2>3 DEF Owned
<1>5. ASSUME NEW b \in Bases, NEW s \in Sizes, NEW flag \in BOOLEAN, SetReadOnly(b, s, flag)
      PROVE  Owned'
  <2>1. handlers' = handlers
    BY <1>5 DEF SetReadOnly
  <2> QED
    BY <1>1, <1>5, <2>1, SetReadOnlyEffect
<1>6. ASSUME Clear PROVE Owned'
  BY <1>6 DEF Clear, Owned
<1>7. ASSUME NEW a \in Address, AccessByte(a) \/ AccessWide(a) PROVE Owned'
  BY <1>1, <1>7, AccessKeepsPlaces
<1>8. CASE UNCHANGED vars
  BY <1>1, <1>8 DEF vars
<1> QED
  BY <1>2, <1>3, <1>4, <1>5, <1>6, <1>7, <1>8 DEF Next, Configure

-------------------------------------------------------------------------------
(* Refinement: what a step does to the byte store that the regions mean.     *)

(* While regions keep their places and handlers stay, so does the layout.    *)
LEMMA LayoutSame ==
  ASSUME Inv, Inv', DOMAIN regions' = DOMAIN regions, UNCHANGED handlers,
         \A i \in DOMAIN regions : /\ regions'[i].base = regions[i].base
                                   /\ regions'[i].size = regions[i].size
                                   /\ regions'[i].kind = regions[i].kind
  PROVE  /\ MappedAddresses' = MappedAddresses
         /\ \A a \in MappedAddresses : /\ Owner(a)' = Owner(a) /\ Offset(a)' = Offset(a)
                                       /\ OnDevice(a)' <=> OnDevice(a)
         /\ Port' = Port /\ Block' = Block /\ DOMAIN Bytes' = DOMAIN Bytes
<1>1. Address \subseteq Int
  BY DEF Address
<1>2. MappedAddresses' = MappedAddresses
  BY <1>1, MappedSame DEF MappedAddresses
<1>3. ASSUME NEW a \in MappedAddresses
      PROVE  /\ Owner(a)' = Owner(a) /\ Offset(a)' = Offset(a) /\ Owner(a) \in DOMAIN regions
             /\ OnDevice(a)' <=> OnDevice(a)
  <2>1. a \in Int /\ Mapped(a)
    BY <1>1 DEF MappedAddresses
  <2>2. Mapped(a)' /\ Owner(a)' = Owner(a) /\ Offset(a)' = Offset(a)
    BY <2>1, OwnerKept
  <2>3. Owner(a) \in DOMAIN regions
    BY <2>1, MappedOwner
  <2> QED
    BY <2>1, <2>2, <2>3 DEF OnDevice, HasHandler
<1>4. Port' = Port
  BY <1>2, <1>3 DEF Port
<1>5. Block' = Block
  BY <1>2, <1>3 DEF Block
<1>6. DOMAIN Bytes' = DOMAIN Bytes
  BY <1>2, <1>3 DEF Bytes
<1> QED
  BY <1>2, <1>3, <1>4, <1>5, <1>6

(* The search and the bounds check of the code serve exactly the accesses     *)
(* that stay inside one region.                                               *)
LEMMA ServedAlike ==
  ASSUME Inv, NEW a \in Address, NEW n \in {1} \cup Widths
  PROVE  /\ ~Mapped(a) => ~Store!Within(a, n)
         /\ Mapped(a) /\ n = 1 => Store!Within(a, n)
         /\ n \in Widths => (InBounds(a, n) <=> Store!Within(a, n))
         /\ n \in Widths /\ InBounds(a, n) => a .. a + n - 1 \subseteq RangeOf(regions[Owner(a)])
<1> DEFINE r == regions[Owner(a)]
<1>1. a \in Int /\ n \in Nat /\ AddrSize \in Nat \ {0}
  BY AddrAssumption DEF Address
<1>2. /\ DOMAIN Block = MappedAddresses
      /\ \A x \in MappedAddresses : Block[x] = regions[Owner(x)].base
  BY DEF Block
<1>3. ~Mapped(a) => ~Store!Within(a, n)
  BY <1>2 DEF Store!Within, MappedAddresses
<1>4. ASSUME Mapped(a)
      PROVE  /\ r \in Region /\ r.base \in Nat /\ r.size \in Nat /\ r.base + r.size < AddrSize
             /\ Offset(a) = a - r.base /\ Offset(a) \in 0 .. r.size - 1
             /\ n \in Widths => (Offset(a) + n) % AddrSize = Offset(a) + n
  <2>1. r \in Region /\ Offset(a) \in 0 .. r.size - 1 /\ r.base + r.size < AddrSize
    BY <1>1, <1>4, MappedOwner
  <2>2. r.base \in Nat /\ r.size \in Nat /\ r.size \in Sizes
    BY <2>1, RegionFields
  <2>3. n \in Widths => r.size + n < AddrSize
    BY <2>2, WidthsAssumption
  <2>4. n \in Widths => (Offset(a) + n) % AddrSize = Offset(a) + n
    BY <1>1, <2>1, <2>2, <2>3
  <2> QED
    BY <2>1, <2>2, <2>4 DEF Offset
<1>5. ASSUME Mapped(a), n \in Widths
      PROVE  InBounds(a, n) <=> a .. a + n - 1 \subseteq RangeOf(r)
  BY <1>1, <1>4, <1>5 DEF InBounds, RangeOf
<1>6. ASSUME Mapped(a), NEW x \in RangeOf(r)
      PROVE  x \in DOMAIN Block /\ Block[x] = Block[a]
  BY <1>1, <1>2, <1>6, SameRegion DEF MappedAddresses
<1>7. ASSUME Mapped(a), NEW x \in Int, x \in DOMAIN Block, Block[x] = Block[a]
      PROVE  x \in RangeOf(r)
  <2>1. /\ Owner(x) \in DOMAIN regions /\ Owner(a) \in DOMAIN regions
        /\ x \in RangeOf(regions[Owner(x)])
    BY <1>1, <1>2, <1>7, MappedOwner DEF MappedAddresses
  <2>2. regions[Owner(x)].base = r.base
    BY <1>2, <1>7 DEF MappedAddresses
  <2>3. Owner(x) = Owner(a)
    BY <2>1, <2>2 DEF Inv, Disjoint, LaidOut, Apart
  <2> QED
    BY <2>1, <2>3
<1>8. Mapped(a) => a \in RangeOf(r)
  BY <1>1, MappedOwner
<1>9. ASSUME n \in Widths, InBounds(a, n)
      PROVE  Store!Within(a, n)
  BY <1>5, <1>6, <1>8, <1>9 DEF Store!Within, InBounds
<1>10. ASSUME n \in Widths, Store!Within(a, n)
       PROVE  InBounds(a, n)
  <2>1. Mapped(a)
    BY <1>3, <1>10
  <2>2. \A x \in a .. a + n - 1 : x \in RangeOf(r)
    BY <1>1, <1>7, <1>10, <2>1 DEF Store!Within
  <2> QED
    BY <1>5, <1>10, <2>1, <2>2
<1>11. ASSUME Mapped(a), n = 1
       PROVE  Store!Within(a, n)
  <2>1. {a} \cup a .. a + n - 1 = {a}
    BY <1>1, <1>11
  <2> QED
    BY <1>2, <1>11, <2>1 DEF Store!Within, MappedAddresses
<1> QED
  BY <1>3, <1>5, <1>9, <1>10, <1>11 DEF InBounds

(* A new region maps exactly its own addresses and disturbs nothing that was  *)
(* mapped: no region shares its base, so no handler is another's.             *)
LEMMA AddRegionMaps ==
  ASSUME Inv, Inv', NEW r \in Region, AddRegion(r), UNCHANGED device,
         \A b : b # r.base => /\ b \in DOMAIN handlers' <=> b \in DOMAIN handlers
                              /\ b \in DOMAIN handlers => handlers'[b] = handlers[b]
  PROVE  /\ MappedAddresses' = MappedAddresses \cup RangeOf(r)
         /\ MappedAddresses \cap RangeOf(r) = {}
         /\ \A a \in MappedAddresses :
              /\ Owner(a)' = Owner(a) /\ Offset(a)' = Offset(a)
              /\ Owner(a) \in DOMAIN regions /\ regions'[Owner(a)] = regions[Owner(a)]
              /\ OnDevice(a)' <=> OnDevice(a)
              /\ OnDevice(a) =>
                   handlers'[regions[Owner(a)].base] = handlers[regions[Owner(a)].base]
         /\ \A a \in RangeOf(r) :
              /\ Offset(a)' = a - r.base /\ regions'[Owner(a)'] = r
              /\ OnDevice(a)' <=> HasHandler(r)'
         /\ Store!NewBlock(r.base, r.size, r.readOnly)
<1> DEFINE last == Len(regions) + 1
<1>1. /\ DOMAIN regions \subseteq DOMAIN regions'
      /\ \A i \in DOMAIN regions : regions'[i] = regions[i]
  BY AddRegionEffect DEF Inv
<1>2. /\ last \in DOMAIN regions' /\ regions'[last] = r
      /\ \A i \in DOMAIN regions : i # last
      /\ \A i \in DOMAIN regions' : i \in DOMAIN regions \/ i = last
  BY DEF AddRegion, Inv, TypeOK
<1> HIDE DEF last
<1>3. \A i \in DOMAIN regions : Apart(regions[i], r)
  BY <1>1, <1>2 DEF Inv, Disjoint, LaidOut
<1>4. ASSUME NEW a \in MappedAddresses
      PROVE  /\ a \in MappedAddresses' /\ Owner(a)' = Owner(a) /\ Offset(a)' = Offset(a)
             /\ Owner(a) \in DOMAIN regions /\ regions'[Owner(a)] = regions[Owner(a)]
             /\ OnDevice(a)' <=> OnDevice(a)
             /\ OnDevice(a) =>
                  handlers'[regions[Owner(a)].base] = handlers[regions[Owner(a)].base]
             /\ a \notin RangeOf(r)
  <2>1. a \in Int /\ a \in Address /\ Mapped(a)
    BY DEF MappedAddresses, Address
  <2>2. Mapped(a)' /\ Owner(a)' = Owner(a) /\ Offset(a)' = Offset(a)
    BY <1>1, <2>1, OwnerKept
  <2>3. Owner(a) \in DOMAIN regions /\ a \in RangeOf(regions[Owner(a)])
    BY <2>1, MappedOwner
  <2>4. /\ regions[Owner(a)].base # r.base /\ regions'[Owner(a)] = regions[Owner(a)]
        /\ a \notin RangeOf(r)
    BY <1>1, <1>3, <2>3 DEF Apart
  <2>5. OnDevice(a)' <=> OnDevice(a)
    BY <2>1, <2>2, <2>4 DEF OnDevice, HasHandler
  <2> QED
    BY <2>1, <2>2, <2>3, <2>4, <2>5 DEF MappedAddresses, OnDevice, HasHandler
<1>5. r.base \in Nat /\ r.size \in Nat /\ r.base + r.size < AddrSize /\ AddrSize \in Nat
  BY <1>2, RegionFields, AddrAssumption DEF Inv, Disjoint, LaidOut
<1>6. \A a \in Int : Covers(r, a) <=> a \in RangeOf(r)
  BY <1>5, CoversRange
<1>7. ASSUME NEW a \in RangeOf(r)
      PROVE  /\ a \in MappedAddresses' /\ Offset(a)' = a - r.base /\ regions'[Owner(a)'] = r
             /\ OnDevice(a)' <=> HasHandler(r)'
  <2>1. a \in Address /\ a \in Int
    BY <1>5 DEF RangeOf, Address
  <2>2. Mapped(a)' /\ Owner(a)' = last /\ Offset(a)' = a - r.base
    BY <1>2, <1>6, <2>1, OwnerIsNext
  <2> QED
    BY <1>2, <2>1, <2>2 DEF MappedAddresses, OnDevice, HasHandler
<1>8. ASSUME NEW a \in MappedAddresses', a \notin RangeOf(r)
      PROVE  a \in MappedAddresses
  <2>1. a \in Address /\ a \in Int /\ Mapped(a)'
    BY <1>8 DEF MappedAddresses, Address
  <2>2. Owner(a)' \in DOMAIN regions' /\ Covers(regions'[Owner(a)'], a)
    BY <2>1, MappedOwnerNext
  <2>3. Owner(a)' \in DOMAIN regions /\ Covers(regions[Owner(a)'], a)
    BY <1>1, <1>2, <1>6, <1>8, <2>1, <2>2
  <2>4. Mapped(a)
    BY <2>1, <2>3, OwnerIs
  <2> QED
    BY <2>1, <2>4 DEF MappedAddresses
<1>9. MappedAddresses' = MappedAddresses \cup RangeOf(r) /\ MappedAddresses \cap RangeOf(r) = {}
  BY <1>4, <1>7, <1>8
<1>10. Store!NewBlock(r.base, r.size, r.readOnly)
  <2>1. DOMAIN Block = MappedAddresses /\ RangeOf(r) = r.base .. r.base + r.size - 1
    BY DEF Block, RangeOf
  <2>2. Block' = [x \in MappedAddresses \cup RangeOf(r) |->
                    IF x \in RangeOf(r) THEN r.base ELSE Block[x]]
    BY <1>4, <1>7, <1>9 DEF Block
  <2>3. Locked' = IF r.readOnly THEN Locked \cup RangeOf(r) ELSE Locked
    BY <1>4, <1>7, <1>9 DEF Locked
  <2>4. reply' = Store!Nothing
    BY DEF AddRegion, Done, Store!Nothing
  <2> QED
    BY <1>9, <2>1, <2>2, <2>3, <2>4 DEF Store!NewBlock
<1> QED
  BY <1>4, <1>7, <1>9, <1>10

(* A new region without a device holds the bytes it came with.               *)
LEMMA PlainFilled ==
  ASSUME Inv, Inv', Owned, NEW r \in Region, AddRegion(r), UNCHANGED <<handlers, device>>
  PROVE  /\ Store!NewBlock(r.base, r.size, r.readOnly)
         /\ Store!Filled(r.base, r.size, r.data)
<1>1. /\ MappedAddresses' = MappedAddresses \cup RangeOf(r)
      /\ MappedAddresses \cap RangeOf(r) = {}
      /\ \A a \in MappedAddresses :
           /\ Owner(a)' = Owner(a) /\ Offset(a)' = Offset(a)
           /\ Owner(a) \in DOMAIN regions /\ regions'[Owner(a)] = regions[Owner(a)]
           /\ OnDevice(a)' <=> OnDevice(a)
      /\ \A a \in RangeOf(r) :
           /\ Offset(a)' = a - r.base /\ regions'[Owner(a)'] = r
           /\ OnDevice(a)' <=> HasHandler(r)'
      /\ Store!NewBlock(r.base, r.size, r.readOnly)
  BY AddRegionMaps
<1>2. ~HasHandler(r)'
  <2>1. r.base \notin DOMAIN handlers
    <3>1. \A i \in DOMAIN regions :
            /\ i # Len(regions) + 1 /\ i \in DOMAIN regions' /\ regions'[i] = regions[i]
      BY AddRegionEffect DEF Inv, TypeOK
    <3>2. Len(regions) + 1 \in DOMAIN regions' /\ regions'[Len(regions) + 1] = r
      BY DEF AddRegion, Inv, TypeOK
    <3>3. \A i \in DOMAIN regions : regions[i].base # r.base
      BY <3>1, <3>2 DEF Inv, Disjoint, LaidOut, Apart
    <3> QED
      BY <3>3 DEF Owned
  <2> QED
    BY <2>1 DEF HasHandler
<1>3. RangeOf(r) = r.base .. r.base + r.size - 1
  BY DEF RangeOf
<1>4. DOMAIN Bytes' = DOMAIN Bytes \cup RangeOf(r)
  BY <1>1, <1>2 DEF Bytes
<1>5. ASSUME NEW x \in DOMAIN Bytes'
      PROVE  Bytes'[x] = IF x \in RangeOf(r) THEN r.data[x - r.base] ELSE Bytes[x]
  <2>1. CASE x \in RangeOf(r)
    BY <1>1, <1>2, <2>1 DEF Bytes
  <2>2. CASE x \notin RangeOf(r)
    <3>1. x \in DOMAIN Bytes /\ x \in MappedAddresses
      BY <1>4, <2>2 DEF Bytes
    <3>2. Bytes[x] = regions[Owner(x)].data[Offset(x)]
      BY <3>1 DEF Bytes
    <3>3. Bytes'[x] = regions'[Owner(x)'].data[Offset(x)']
      BY <1>5 DEF Bytes
    <3> QED
      BY <1>1, <2>2, <3>1, <3>2, <3>3
  <2> QED
    BY <2>1, <2>2
<1>6. Bytes' = [x \in DOMAIN Bytes' |-> Bytes'[x]]
  BY DEF Bytes
<1>7. Bytes' = [x \in DOMAIN Bytes \cup RangeOf(r) |->
                  IF x \in RangeOf(r) THEN r.data[x - r.base] ELSE Bytes[x]]
  BY <1>4, <1>5, <1>6
<1>8. Port' = Port
  BY <1>1, <1>2 DEF Port
<1> QED
  BY <1>1, <1>3, <1>7, <1>8 DEF Store!Filled

(* A new region with a device is ports of that device.                       *)
LEMMA DeviceMapped ==
  ASSUME Inv, Inv', NEW b \in Bases, NEW s \in Sizes, NEW d \in Device, AddMmio(b, s, d)
  PROVE  Store!MapDevice(b, s, d)
<1> DEFINE r == [base |-> b, size |-> s, kind |-> "mmio", readOnly |-> FALSE,
                 data |-> Zeros(s)]
<1>1. /\ r \in Region /\ AddRegion(r) /\ UNCHANGED device
      /\ r.base = b /\ r.size = s /\ r.kind = "mmio" /\ r.readOnly = FALSE
      /\ request' = <<"add_mmio", b, s, d>>
  BY ZerosType, RegionIntro DEF AddMmio
<1> HIDE DEF r
<1>2. handlers' = [x \in DOMAIN handlers \cup {b} |-> IF x = b THEN d ELSE handlers[x]]
  BY DEF AddMmio
<1>3. \A x : x # b => /\ x \in DOMAIN handlers' <=> x \in DOMAIN handlers
                      /\ x \in DOMAIN handlers => handlers'[x] = handlers[x]
  BY <1>2
<1>4. /\ MappedAddresses' = MappedAddresses \cup RangeOf(r)
      /\ MappedAddresses \cap RangeOf(r) = {}
      /\ \A a \in MappedAddresses :
           /\ Owner(a)' = Owner(a) /\ Offset(a)' = Offset(a)
           /\ Owner(a) \in DOMAIN regions /\ regions'[Owner(a)] = regions[Owner(a)]
           /\ OnDevice(a)' <=> OnDevice(a)
           /\ OnDevice(a) =>
                handlers'[regions[Owner(a)].base] = handlers[regions[Owner(a)].base]
      /\ \A a \in RangeOf(r) :
           /\ Offset(a)' = a - r.base /\ regions'[Owner(a)'] = r
           /\ OnDevice(a)' <=> HasHandler(r)'
      /\ Store!NewBlock(r.base, r.size, r.readOnly)
  BY <1>1, <1>3, AddRegionMaps
<1>5. HasHandler(r)' /\ handlers'[b] = d /\ RangeOf(r) = b .. b + s - 1
  BY <1>1, <1>2 DEF HasHandler, RangeOf
<1>6. Bytes' = Bytes
  BY <1>4, <1>5 DEF Bytes
<1>7. DOMAIN Port' = DOMAIN Port \cup RangeOf(r)
  BY <1>4, <1>5 DEF Port
<1>8. ASSUME NEW x \in DOMAIN Port'
      PROVE  Port'[x] = IF x \in RangeOf(r) THEN d ELSE Port[x]
  <2>1. CASE x \in RangeOf(r)
    BY <1>1, <1>4, <1>5, <1>8, <2>1 DEF Port
  <2>2. CASE x \notin RangeOf(r)
    <3>1. x \in DOMAIN Port /\ x \in MappedAddresses /\ OnDevice(x)
      BY <1>7, <1>8, <2>2 DEF Port
    <3>2. Port[x] = handlers[regions[Owner(x)].base]
      BY <3>1 DEF Port
    <3>3. Port'[x] = handlers'[regions'[Owner(x)'].base]
      BY <1>8 DEF Port
    <3> QED
      BY <1>4, <2>2, <3>1, <3>2, <3>3
  <2> QED
    BY <2>1, <2>2
<1>9. Port' = [x \in DOMAIN Port' |-> Port'[x]]
  BY DEF Port
<1>10. Port' = [x \in DOMAIN Port \cup RangeOf(r) |-> IF x \in RangeOf(r) THEN d ELSE Port[x]]
  BY <1>7, <1>8, <1>9
<1> QED
  BY <1>1, <1>4, <1>5, <1>6, <1>10 DEF Store!MapDevice

(* The region that is protected is the block with exactly its addresses.     *)
LEMMA SetReadOnlyProtects ==
  ASSUME Inv, Inv', NEW b \in Bases, NEW s \in Sizes, NEW flag \in BOOLEAN, SetReadOnly(b, s, flag)
  PROVE  Store!Protect(b, s, flag)
<1> DEFINE Same  == {i \in DOMAIN regions : regions[i].base = b /\ regions[i].size = s}
           range == {x \in DOMAIN Block : Block[x] = b}
<1>1. /\ DOMAIN regions' = DOMAIN regions /\ UNCHANGED <<handlers, device>>
      /\ \A i \in DOMAIN regions :
           /\ regions'[i].base = regions[i].base /\ regions'[i].size = regions[i].size
           /\ regions'[i].kind = regions[i].kind /\ regions'[i].data = regions[i].data
  <2>1. UNCHANGED <<handlers, device>>
    BY DEF SetReadOnly
  <2> QED
    BY <2>1, SetReadOnlyEffect
<1>2. /\ MappedAddresses' = MappedAddresses
      /\ \A a \in MappedAddresses : /\ Owner(a)' = Owner(a) /\ Offset(a)' = Offset(a)
                                    /\ OnDevice(a)' <=> OnDevice(a)
      /\ Port' = Port /\ Block' = Block /\ DOMAIN Bytes' = DOMAIN Bytes
  BY <1>1, LayoutSame
<1>3. \A a \in MappedAddresses :
        /\ a \in Int /\ Mapped(a) /\ Owner(a) \in DOMAIN regions
        /\ a \in RangeOf(regions[Owner(a)])
  BY MappedOwner DEF MappedAddresses, Address
<1>4. Bytes' = Bytes
  BY <1>1, <1>2, <1>3 DEF Bytes
<1>5. reply' = Store!Nothing /\ request' = <<"set_read_only", b, s, flag>>
  BY DEF SetReadOnly, Done, Store!Nothing
<1>6. \A i, j \in DOMAIN regions : regions[i].base = regions[j].base => i = j
  BY DEF Inv, Disjoint, LaidOut, Apart
<1>7. range = {x \in MappedAddresses : regions[Owner(x)].base = b}
  BY DEF Block
<1>8. ASSUME NEW i \in DOMAIN regions, regions[i].base = b
      PROVE  range = RangeOf(regions[i])
  <2>1. regions[i] \in Region /\ regions[i].base + regions[i].size < AddrSize
    BY DEF Inv, TypeOK, Disjoint, LaidOut
  <2>2. regions[i].base \in Nat /\ regions[i].size \in Nat /\ AddrSize \in Nat
    BY <2>1, RegionFields, AddrAssumption
  <2>3. ASSUME NEW x \in RangeOf(regions[i]) PROVE x \in range
    <3>1. x \in Address /\ x \in Int
      BY <2>1, <2>2, <2>3 DEF RangeOf, Address
    <3>2. Mapped(x) /\ Owner(x) = i
      BY <2>1, <2>3, <3>1, CoversRange, OwnerIs
    <3> QED
      BY <1>7, <1>8, <3>1, <3>2 DEF MappedAddresses
  <2>4. ASSUME NEW x \in range PROVE x \in RangeOf(regions[i])
    BY <1>3, <1>6, <1>7, <1>8, <2>4
  <2> QED
    BY <2>3, <2>4
<1>9. Locked' = IF range # b .. b + s - 1 THEN Locked
               ELSE IF flag THEN Locked \cup range ELSE Locked \ range
  <2>1. CASE Same # {}
    <3>1. PICK i \in DOMAIN regions : regions[i].base = b /\ regions[i].size = s
      BY <2>1
    <3>2. Same = {i} /\ i \in Int
      BY <1>6, <3>1 DEF Inv, TypeOK
    <3>3. \A j \in DOMAIN regions :
            regions'[j].readOnly = IF j = i THEN flag ELSE regions[j].readOnly
      <4>1. regions' = [k \in DOMAIN regions |->
                          IF k = i THEN [regions[k] EXCEPT !.readOnly = flag] ELSE regions[k]]
        BY <3>2 DEF SetReadOnly
      <4>2. PICK z \in Sizes :
              regions[i] \in [base : Bases, size : {z}, kind : Kinds \cup {"rom", "mmio"},
                              readOnly : BOOLEAN, data : Contents(z)]
        BY <3>1 DEF Inv, TypeOK, Region
      <4> QED
        BY <4>1, <4>2
    <3>4. range = b .. b + s - 1
      BY <1>8, <3>1 DEF RangeOf
    <3>5. \A x \in MappedAddresses : x \in range <=> Owner(x) = i
      BY <1>3, <1>6, <1>7, <3>1
    <3>6. range \subseteq MappedAddresses
      BY <1>7
    <3>7. Locked' = {x \in MappedAddresses :
                       IF Owner(x) = i THEN flag ELSE regions[Owner(x)].readOnly}
      BY <1>2, <1>3, <3>3 DEF Locked
    <3>8. Locked = {x \in MappedAddresses : regions[Owner(x)].readOnly}
      BY DEF Locked
    <3> HIDE DEF range
    <3> QED
      BY <3>4, <3>5, <3>6, <3>7, <3>8
  <2>2. CASE Same = {}
    <3>1. regions' = regions
      <4>1. regions' = [k \in DOMAIN regions |-> regions[k]]
        BY <2>2 DEF SetReadOnly
      <4> QED
        BY <4>1 DEF Inv, TypeOK
    <3>2. Locked' = Locked
      BY <1>2, <3>1 DEF Locked
    <3>3. range = b .. b + s - 1 => range = {}
      <4> SUFFICES ASSUME range = b .. b + s - 1, NEW x \in range PROVE FALSE
        OBVIOUS
      <4> DEFINE i == Owner(x)
      <4>1. i \in DOMAIN regions /\ regions[i].base = b
        BY <1>3, <1>7
      <4>2. RangeOf(regions[i]) = b .. b + s - 1 /\ x \in b .. b + s - 1
        BY <1>8, <4>1
      <4>3. regions[i].size \in Nat /\ b \in Nat /\ s \in Nat
        BY <4>1, RegionFields, AddrAssumption DEF Inv, TypeOK, Address
      <4>4. regions[i].size # s
        BY <2>2, <4>1
      <4> HIDE DEF i
      <4>5. b .. b + regions[i].size - 1 = b .. b + s - 1
        BY <4>1, <4>2 DEF RangeOf
      <4>6. b + s - 1 \in b .. b + regions[i].size - 1
        BY <4>2, <4>3, <4>5
      <4>7. b + regions[i].size - 1 \in b .. b + s - 1
        BY <4>3, <4>5, <4>6
      <4> QED
        BY <4>3, <4>4, <4>6, <4>7
    <3> HIDE DEF range
    <3> QED
      BY <3>2, <3>3
  <2> QED
    BY <2>1, <2>2
<1> QED
  BY <1>1, <1>2, <1>4, <1>5, <1>9 DEF Store!Protect

LEMMA NoRegionsNoBytes ==
  regions = <<>> => Bytes = <<>> /\ Port = <<>> /\ Block = <<>> /\ Locked = {}
<1> SUFFICES ASSUME regions = <<>>
             PROVE  Bytes = <<>> /\ Port = <<>> /\ Block = <<>> /\ Locked = {}
  OBVIOUS
<1>1. MappedAddresses = {}
  BY DEF MappedAddresses, Mapped, Hits
<1> QED
  BY <1>1 DEF Bytes, Port, Block, Locked

LEMMA ClearUnmaps ==
  ASSUME Clear
  PROVE  Store!Unmap
<1>1. MappedAddresses' = {}
  BY DEF Clear, MappedAddresses, Mapped, Hits
<1>2. Bytes' = <<>> /\ Port' = <<>> /\ Block' = <<>> /\ Locked' = {}
  BY <1>1 DEF Bytes, Port, Block, Locked
<1> QED
  BY <1>2 DEF Clear, Done, Store!Unmap, Store!Nothing

(* A call that changes neither regions nor handlers leaves the layout alone.  *)
LEMMA StoreUntouched ==
  ASSUME UNCHANGED <<regions, handlers>>
  PROVE  UNCHANGED <<Bytes, Port, Block, Locked>>
<1>1. MappedAddresses' = MappedAddresses
  BY DEF MappedAddresses, Mapped, Hits
<1>2. \A a : Owner(a)' = Owner(a) /\ Offset(a)' = Offset(a) /\ (OnDevice(a)' <=> OnDevice(a))
  BY DEF Owner, Offset, OnDevice, HasHandler, Mapped, Hits
<1> QED
  BY <1>1, <1>2 DEF Bytes, Port, Block, Locked

LEMMA ThrowRefuses == ASSUME NEW what, Throws(what) PROVE Store!Refuse(what)
  BY StoreUntouched DEF Throws, Store!Refuse, Store!layout

LEMMA ReadByteReads ==
  ASSUME Inv, NEW a \in Address, ReadByte(a)
  PROVE  Store!Read(a, 1) \/ Store!ReadPort(a)
<1>0. request' = <<"read", a, 1>>
  BY DEF ReadByte
<1>1. CASE ~Mapped(a)
  BY <1>1, ThrowRefuses, ServedAlike DEF ReadByte, Store!Read
<1>2. CASE Mapped(a)
  <2> DEFINE r == regions[Owner(a)]
  <2>1. UNCHANGED <<regions, handlers, device>> /\ UNCHANGED <<Bytes, Port, Block, Locked>>
    BY <1>2, StoreUntouched DEF ReadByte
  <2>2. CASE HasHandler(r)
    <3>1. a \in DOMAIN Port /\ Port[a] = handlers[r.base]
      BY <1>2, <2>2 DEF Port, MappedAddresses, OnDevice
    <3>2. reply' = Store!Ok(<<device[handlers[r.base]]>>)
      BY <1>2, <2>2 DEF ReadByte, Ok, Store!Ok
    <3> QED
      BY <1>0, <2>1, <3>1, <3>2 DEF Store!ReadPort, Store!layout
  <2>3. CASE ~HasHandler(r)
    <3>1. a \in DOMAIN Bytes /\ Bytes[a] = r.data[Offset(a)]
      BY <1>2, <2>3 DEF Bytes, MappedAddresses, OnDevice
    <3>2. reply' = Ok(<<r.data[Offset(a)]>>)
      BY <1>2, <2>3 DEF ReadByte
    <3>3. [i \in 1 .. 1 |-> Bytes[a + i - 1]] = <<Bytes[a]>>
      BY DEF Address
    <3>4. Store!Within(a, 1)
      BY <1>2, ServedAlike
    <3> QED
      BY <1>0, <2>1, <3>1, <3>2, <3>3, <3>4 DEF Store!Read, Store!layout, Store!Ok, Ok
  <2> QED
    BY <2>2, <2>3
<1> QED
  BY <1>1, <1>2

LEMMA ReadWideReads ==
  ASSUME Inv, NEW a \in Address, ~OnDevice(a), NEW n \in Widths, ReadWide(a, n)
  PROVE  Store!Read(a, n)
<1>0. request' = <<"read", a, n>>
  BY DEF ReadWide
<1>1. CASE ~InBounds(a, n)
  BY <1>1, ThrowRefuses, ServedAlike DEF ReadWide, Store!Read
<1>2. CASE InBounds(a, n)
  <2> DEFINE r == regions[Owner(a)]
  <2>1. UNCHANGED <<regions, handlers, device>> /\ UNCHANGED <<Bytes, Port, Block, Locked>>
    BY <1>2, StoreUntouched DEF ReadWide
  <2>2. Mapped(a) /\ a \in Int /\ n \in Nat /\ a .. a + n - 1 \subseteq RangeOf(r)
    <3>1. a .. a + n - 1 \subseteq RangeOf(r)
      BY <1>2, ServedAlike
    <3> QED
      BY <1>2, <3>1, AddrAssumption DEF InBounds, Address
  <2>3. a \in DOMAIN Bytes
    BY <2>2 DEF Bytes, MappedAddresses
  <2>4. ASSUME NEW i \in 1 .. n
        PROVE  Bytes[a + i - 1] = r.data[Offset(a) + i - 1]
    <3> DEFINE x == a + i - 1
    <3>1. x \in RangeOf(r)
      BY <2>2
    <3>2. /\ x \in Address /\ Mapped(x) /\ Owner(x) = Owner(a)
          /\ Offset(x) = Offset(a) + (x - a)
      BY <2>2, <3>1, SameRegion
    <3>3. x \in DOMAIN Bytes /\ Bytes[x] = r.data[Offset(x)]
      BY <2>2, <3>2 DEF Bytes, MappedAddresses, OnDevice
    <3>4. Offset(a) \in Int
      BY <2>2, MappedOwner
    <3> QED
      BY <2>2, <3>2, <3>3, <3>4
  <2>5. reply' = Ok([i \in 1 .. n |-> Bytes[a + i - 1]])
    BY <1>2, <2>4 DEF ReadWide
  <2>6. Store!Within(a, n)
    BY <1>2, ServedAlike
  <2> QED
    BY <1>0, <2>1, <2>3, <2>5, <2>6 DEF Store!Read, Store!layout, Store!Ok, Ok
<1> QED
  BY <1>1, <1>2

(* A write inside one region of plain memory changes exactly the bytes named. *)
LEMMA OverwriteWrites ==
  ASSUME Inv, Inv', NEW a \in Address, Mapped(a), ~OnDevice(a), NEW v \in Seq(Byte),
         a .. a + Len(v) - 1 \subseteq RangeOf(regions[Owner(a)]),
         Overwrite(a, v), UNCHANGED handlers
  PROVE  /\ UNCHANGED <<Port, Block, Locked>> /\ a \in DOMAIN Bytes
         /\ Bytes' = [x \in DOMAIN Bytes |-> IF x \in a .. a + Len(v) - 1
                                             THEN v[x - a + 1] ELSE Bytes[x]]
<1> DEFINE o == Owner(a)
<1>1. a \in Int /\ Len(v) \in Nat /\ DOMAIN regions' = DOMAIN regions
  BY OverwriteType DEF Address
<1>2. \A i \in DOMAIN regions :
        /\ regions'[i].base = regions[i].base /\ regions'[i].size = regions[i].size
        /\ regions'[i].kind = regions[i].kind /\ regions'[i].readOnly = regions[i].readOnly
  BY <1>1, OverwriteEffect
<1>3. /\ MappedAddresses' = MappedAddresses
      /\ \A x \in MappedAddresses : /\ Owner(x)' = Owner(x) /\ Offset(x)' = Offset(x)
                                    /\ OnDevice(x)' <=> OnDevice(x)
      /\ Port' = Port /\ Block' = Block /\ DOMAIN Bytes' = DOMAIN Bytes
  BY <1>1, <1>2, LayoutSame
<1>4. \A x \in MappedAddresses : x \in Int /\ Mapped(x) /\ Owner(x) \in DOMAIN regions
  BY MappedOwner DEF MappedAddresses, Address
<1>5. Locked' = Locked
  BY <1>2, <1>3, <1>4 DEF Locked
<1>6. a \in DOMAIN Bytes
  BY DEF Bytes, MappedAddresses
<1>7. ASSUME NEW x \in DOMAIN Bytes
      PROVE  Bytes'[x] = IF x \in a .. a + Len(v) - 1 THEN v[x - a + 1] ELSE Bytes[x]
  <2>1. x \in MappedAddresses /\ x \in DOMAIN Bytes' /\ x \in Int /\ Mapped(x)
        /\ Owner(x) \in DOMAIN regions
    BY <1>3, <1>4, <1>7 DEF Bytes
  <2>2. Bytes'[x] = regions'[Owner(x)].data[Offset(x)] /\ Bytes[x] = regions[Owner(x)].data[Offset(x)]
    BY <1>3, <1>7, <2>1 DEF Bytes
  <2>3. CASE Owner(x) # o
    <3>1. x \notin a .. a + Len(v) - 1
      BY <1>1, <2>3, SameRegion
    <3>2. regions'[Owner(x)].data = regions[Owner(x)].data
      BY <1>1, <2>1, <2>3, OverwriteEffect
    <3> QED
      BY <2>2, <3>1, <3>2
  <2>4. CASE Owner(x) = o
    <3>1. x \in RangeOf(regions[o]) /\ Offset(x) \in 0 .. regions[o].size - 1
          /\ regions[o] \in Region
      BY <2>1, <2>4, MappedOwner
    <3>2. Offset(x) = Offset(a) + (x - a) /\ Offset(a) \in Int
      BY <1>1, <3>1, SameRegion, MappedOwner
    <3>3. Offset(x) \in DOMAIN regions[o].data
      BY <3>1, RegionFields
    <3>4. regions'[o].data[Offset(x)] =
            IF Offset(x) \in Offset(a) .. Offset(a) + Len(v) - 1
            THEN v[Offset(x) - Offset(a) + 1] ELSE regions[o].data[Offset(x)]
      <4>1. regions'[o].data =
              [y \in DOMAIN regions[o].data |->
                 IF y \in Offset(a) .. Offset(a) + Len(v) - 1
                 THEN v[y - Offset(a) + 1] ELSE regions[o].data[y]]
        BY <1>1, <2>1, <2>4, OverwriteEffect
      <4> QED
        BY <3>3, <4>1
    <3>5. Offset(x) \in Offset(a) .. Offset(a) + Len(v) - 1 <=> x \in a .. a + Len(v) - 1
      BY <1>1, <2>1, <3>2
    <3>6. Offset(x) - Offset(a) + 1 = x - a + 1
      BY <1>1, <2>1, <3>2
    <3> QED
      BY <2>2, <2>4, <3>4, <3>5, <3>6
  <2> QED
    BY <2>3, <2>4
<1>8. Bytes' = [x \in DOMAIN Bytes |-> Bytes'[x]]
  BY <1>3 DEF Bytes
<1> QED
  BY <1>3, <1>5, <1>6, <1>7, <1>8

LEMMA WriteByteWrites ==
  ASSUME Inv, Inv', NEW a \in Address, NEW b \in Byte, WriteByte(a, b)
  PROVE  Store!Write(a, <<b>>) \/ Store!WritePort(a, b)
<1> DEFINE r == regions[Owner(a)]
<1>0. request' = <<"write", a, <<b>>>>
  BY DEF WriteByte
<1>1. Len(<<b>>) = 1 /\ <<b>> \in Seq(Byte) /\ a \in Int
  BY DEF Address
<1>2. CASE ~Mapped(a)
  BY <1>1, <1>2, ThrowRefuses, ServedAlike DEF WriteByte, Store!Write
<1>3. CASE Mapped(a) /\ r.readOnly
  <2>1. a \in Locked /\ Store!Within(a, 1) /\ Store!Refuse("readonly")
    BY <1>3, ThrowRefuses, ServedAlike DEF WriteByte, Locked, MappedAddresses
  <2> QED
    BY <1>0, <1>1, <2>1 DEF Store!Write
<1>4. CASE Mapped(a) /\ ~r.readOnly /\ HasHandler(r)
  <2>1. a \in DOMAIN Port /\ Port[a] = handlers[r.base] /\ a \notin Locked
    BY <1>4 DEF Port, Locked, MappedAddresses, OnDevice
  <2>2. /\ device' = [device EXCEPT ![handlers[r.base]] = b]
        /\ reply' = Ok(<<>>) /\ UNCHANGED <<regions, handlers>>
    BY <1>4 DEF WriteByte
  <2>3. UNCHANGED <<Bytes, Port, Block, Locked>>
    BY <2>2, StoreUntouched
  <2> QED
    BY <1>0, <2>1, <2>2, <2>3 DEF Store!WritePort, Store!layout, Store!Ok, Ok
<1>5. CASE Mapped(a) /\ ~r.readOnly /\ ~HasHandler(r)
  <2>1. /\ Overwrite(a, <<b>>) /\ reply' = Ok(<<>>) /\ UNCHANGED <<handlers, device>>
        /\ ~OnDevice(a) /\ a \notin Locked /\ Store!Within(a, 1)
    BY <1>5, ServedAlike DEF WriteByte, OnDevice, Locked
  <2>2. a .. a + Len(<<b>>) - 1 \subseteq RangeOf(r)
    BY <1>1, <1>5, MappedOwner
  <2>3. /\ UNCHANGED <<Port, Block, Locked>> /\ a \in DOMAIN Bytes
        /\ Bytes' = [x \in DOMAIN Bytes |-> IF x \in a .. a + Len(<<b>>) - 1
                                            THEN <<b>>[x - a + 1] ELSE Bytes[x]]
    BY <1>1, <1>5, <2>1, <2>2, OverwriteWrites
  <2> QED
    BY <1>0, <1>1, <2>1, <2>3 DEF Store!Write, Store!layout, Store!Ok, Ok
<1> QED
  BY <1>2, <1>3, <1>4, <1>5

LEMMA WriteWideWrites ==
  ASSUME Inv, Inv', NEW a \in Address, ~OnDevice(a), NEW n \in Widths,
         NEW v \in [1 .. n -> Byte], WriteWide(a, v)
  PROVE  Store!Write(a, v)
<1>0. request' = <<"write", a, v>>
  BY DEF WriteWide
<1>1. n \in Nat /\ v \in Seq(Byte) /\ Len(v) = n
  BY AddrAssumption, SeqDef
<1>2. CASE ~InBounds(a, n)
  BY <1>1, <1>2, ThrowRefuses, ServedAlike DEF WriteWide, Store!Write
<1>3. CASE InBounds(a, n) /\ regions[Owner(a)].readOnly
  <2>1. a \in Locked /\ Store!Within(a, n) /\ Store!Refuse("readonly")
    BY <1>1, <1>3, ThrowRefuses, ServedAlike DEF WriteWide, Locked, MappedAddresses, InBounds
  <2> QED
    BY <1>0, <1>1, <2>1 DEF Store!Write
<1>4. CASE InBounds(a, n) /\ ~regions[Owner(a)].readOnly
  <2>1. /\ Overwrite(a, v) /\ reply' = Ok(<<>>) /\ UNCHANGED <<handlers, device>>
        /\ a \notin Locked /\ Store!Within(a, n) /\ Mapped(a)
        /\ a .. a + Len(v) - 1 \subseteq RangeOf(regions[Owner(a)])
    BY <1>1, <1>4, ServedAlike DEF WriteWide, Locked, InBounds
  <2>2. /\ UNCHANGED <<Port, Block, Locked>> /\ a \in DOMAIN Bytes
        /\ Bytes' = [x \in DOMAIN Bytes |-> IF x \in a .. a + Len(v) - 1
                                            THEN v[x - a + 1] ELSE Bytes[x]]
    BY <1>1, <2>1, OverwriteWrites
  <2> QED
    BY <1>0, <1>1, <2>1, <2>2 DEF Store!Write, Store!layout, Store!Ok, Ok
<1> QED
  BY <1>2, <1>3, <1>4

LEMMA InitStore == Init => Store!Init
<1> SUFFICES ASSUME Init PROVE Store!Init
  OBVIOUS
<1>1. Bytes = <<>> /\ Port = <<>> /\ Block = <<>> /\ Locked = {}
  BY NoRegionsNoBytes DEF Init
<1> QED
  BY <1>1 DEF Init, Store!Init, Store!Nothing

LEMMA StepStore == Inv /\ Inv' /\ Owned /\ [Next]_vars => [Store!Next]_Store!vars
<1> SUFFICES ASSUME Inv, Inv', Owned, [Next]_vars
             PROVE  Store!Next \/ UNCHANGED Store!vars
  OBVIOUS
<1>1. ASSUME NEW b \in Bases, NEW s \in Sizes, NEW kind \in Kinds, NEW readOnly \in BOOLEAN,
             AddPlain(b, s, kind, readOnly)
      PROVE  Store!Next
  <2> DEFINE r == [base |-> b, size |-> s, kind |-> kind, readOnly |-> readOnly,
                   data |-> Zeros(s)]
  <2>1. /\ r \in Region /\ AddRegion(r) /\ UNCHANGED <<handlers, device>>
        /\ r.base = b /\ r.size = s /\ r.readOnly = readOnly /\ r.data = Zeros(s)
        /\ request' = <<"add_region", b, s, readOnly>>
    BY <1>1, ZerosType, RegionIntro DEF AddPlain
  <2> HIDE DEF r
  <2>2. Store!NewBlock(b, s, readOnly) /\ Store!Filled(b, s, Zeros(s))
    BY <2>1, PlainFilled
  <2>3. Store!Map(b, s, readOnly)
    BY <2>1, <2>2 DEF Store!Map, Zeros
  <2> QED
    BY <2>3 DEF Store!Next
<1>2. ASSUME NEW b \in Bases, NEW s \in Sizes, NEW image \in Contents(s), AddRom(b, s, image)
      PROVE  Store!Next
  <2> DEFINE r == [base |-> b, size |-> s, kind |-> "rom", readOnly |-> TRUE, data |-> image]
  <2>1. /\ r \in Region /\ AddRegion(r) /\ UNCHANGED <<handlers, device>>
        /\ r.base = b /\ r.size = s /\ r.readOnly = TRUE /\ r.data = image
        /\ request' = <<"add_rom", b, s, image>>
    BY <1>2, RegionIntro DEF AddRom
  <2> HIDE DEF r
  <2>2. Store!NewBlock(b, s, TRUE) /\ Store!Filled(b, s, image)
    BY <2>1, PlainFilled
  <2>3. Store!MapImage(b, s, image) /\ image \in [0 .. s - 1 -> Byte]
    BY <2>1, <2>2 DEF Store!MapImage, Contents
  <2> QED
    BY <2>3 DEF Store!Next
<1>3. ASSUME NEW b \in Bases, NEW s \in Sizes, NEW d \in Device, AddMmio(b, s, d)
      PROVE  Store!Next
  BY <1>3, DeviceMapped DEF Store!Next
<1>4. ASSUME NEW b \in Bases, NEW s \in Sizes, NEW flag \in BOOLEAN, SetReadOnly(b, s, flag)
      PROVE  Store!Next
  BY <1>4, SetReadOnlyProtects DEF Store!Next
<1>5. ASSUME Clear PROVE Store!Next
  BY <1>5, ClearUnmaps DEF Store!Next
<1>6. ASSUME NEW a \in Address, AccessByte(a) PROVE Store!Next
  <2>1. CASE ReadByte(a)
    BY <2>1, ReadByteReads DEF Store!Next
  <2>2. ASSUME NEW b \in Byte, WriteByte(a, b) PROVE Store!Next
    <3>1. <<b>> \in [1 .. 1 -> Byte]
      OBVIOUS
    <3> QED
      BY <2>2, <3>1, WriteByteWrites DEF Store!Next
  <2> QED
    BY <1>6, <2>1, <2>2 DEF AccessByte
<1>7. ASSUME NEW a \in Address, ~OnDevice(a), AccessWide(a) PROVE Store!Next
  BY <1>7, ReadWideReads, WriteWideWrites DEF AccessWide, Store!Next
<1>8. CASE UNCHANGED vars
  BY <1>8, StoreUntouched DEF vars, Store!vars
<1> QED
  BY <1>1, <1>2, <1>3, <1>4, <1>5, <1>6, <1>7, <1>8 DEF Next, Configure

(* Memory the host lays out in disjoint regions is a byte store, for every     *)
(* address width, region size and number of regions and devices: each call     *)
(* answers and changes what the store says of its own arguments, and nothing   *)
(* else.                                                                       *)
THEOREM MemoryIsByteStore == Spec => ImplementsStore
<1>1. Init => Owned
  BY DEF Init, Owned
<1>2. Spec => [](Inv /\ Owned)
  BY <1>1, InitInv, InvStep, OwnedStep, PTL DEF Spec
<1> QED
  BY <1>2, InitStore, StepStore, PTL DEF Spec, ImplementsStore, Store!Spec

-------------------------------------------------------------------------------
(* Naturals: the least element of a set, and induction from it.                *)
LEMMA LeastElement ==
  ASSUME NEW T \in SUBSET Nat, T # {}
  PROVE  \E x \in T : \A y \in T : x <= y
<1> DEFINE R == OpToRel(<, Nat)
<1>1. IsWellFoundedOn(R, Nat)
  BY NatLessThanWellFounded
<1>2. \A x, y \in Nat : <<y, x>> \in R <=> y < x
  BY DEF OpToRel
<1> HIDE DEF R
<1>3. PICK x \in T : \A y \in T : ~(<<y, x>> \in R)
  BY <1>1, WFMin
<1>4. ASSUME NEW y \in T PROVE x <= y
  <2>1. y \in Nat /\ x \in Nat
    OBVIOUS
  <2>2. ~(<<y, x>> \in R)
    BY <1>3
  <2>3. ~(y < x)
    BY <1>2, <2>1, <2>2, Zenon
  <2> QED
    BY <2>1, <2>3
<1> QED
  BY <1>4

LEMMA CountUp ==
  ASSUME NEW n \in Nat, NEW T, 0 \in T, \A k \in 0 .. n - 1 : k \in T => k + 1 \in T
  PROVE  0 .. n \subseteq T
<1> DEFINE Rest == (0 .. n) \ T
<1> SUFFICES ASSUME Rest # {} PROVE FALSE
  OBVIOUS
<1>0. Rest \in SUBSET Nat
  OBVIOUS
<1>1. PICK x \in Rest : \A y \in Rest : x <= y
  <2> HIDE DEF Rest
  <2> QED
    BY <1>0, LeastElement
<1>2. x # 0 /\ x - 1 \in 0 .. n - 1
  BY <1>1
<1>3. x - 1 \notin Rest
  BY <1>1, <1>2
<1>4. x - 1 \in T
  BY <1>2, <1>3
<1>5. (x - 1) + 1 \in T
  BY <1>2, <1>4
<1> QED
  BY <1>2, <1>5

-------------------------------------------------------------------------------
(* The powers of two: the recursive function has a solution.                   *)
Doubling(f, n) ==
  f \in [0 .. n -> Nat \ {0}] /\ f[0] = 1 /\ \A k \in 1 .. n : f[k] = 2 * f[k - 1]

LEMMA DoublingExists == ASSUME NEW n \in Nat PROVE \E f : Doubling(f, n)
<1> DEFINE T == {k \in 0 .. n : \E f : Doubling(f, k)}
<1>1. 0 \in T
  <2>1. Doubling([k \in 0 .. 0 |-> 1], 0)
    BY DEF Doubling
  <2> QED
    BY <2>1
<1>2. ASSUME NEW k \in 0 .. n - 1, k \in T PROVE k + 1 \in T
  <2>1. PICK f : Doubling(f, k)
    BY <1>2
  <2> DEFINE g == [i \in 0 .. k + 1 |-> IF i = k + 1 THEN 2 * f[k] ELSE f[i]]
  <2>2. /\ f \in [0 .. k -> Nat \ {0}] /\ f[0] = 1 /\ f[k] \in Nat \ {0}
        /\ \A i \in 1 .. k : f[i] = 2 * f[i - 1]
    BY <2>1 DEF Doubling
  <2>3. /\ g \in [0 .. k + 1 -> Nat \ {0}] /\ g[0] = 1
        /\ \A i \in 0 .. k : g[i] = f[i]
        /\ g[k + 1] = 2 * f[k]
    BY <2>2
  <2>4. ASSUME NEW i \in 1 .. k + 1 PROVE g[i] = 2 * g[i - 1]
    <3>1. i - 1 \in 0 .. k /\ (i = k + 1 \/ i \in 1 .. k)
      OBVIOUS
    <3>2. g[i - 1] = f[i - 1]
      BY <2>3, <3>1
    <3>3. g[i] = 2 * f[i - 1]
      BY <2>2, <2>3, <3>1
    <3> QED
      BY <3>2, <3>3
  <2> HIDE DEF g
  <2>5. Doubling(g, k + 1)
    BY <2>3, <2>4 DEF Doubling
  <2>6. k + 1 \in 0 .. n
    OBVIOUS
  <2> QED
    BY <2>5, <2>6
<1> HIDE DEF T
<1>3. 0 .. n \subseteq T
  BY <1>1, <1>2, CountUp
<1> QED
  BY <1>3 DEF T

LEMMA DoublingUnique ==
  ASSUME NEW n \in Nat, NEW f, NEW g, Doubling(f, n), Doubling(g, n + 1)
  PROVE  f[n] = g[n]
<1> DEFINE T == {k \in 0 .. n : f[k] = g[k]}
<1>1. 0 \in T
  BY DEF Doubling
<1>2. ASSUME NEW k \in 0 .. n - 1, k \in T PROVE k + 1 \in T
  <2>1. k + 1 \in 1 .. n /\ k + 1 \in 1 .. n + 1 /\ (k + 1) - 1 = k /\ k + 1 \in 0 .. n
    OBVIOUS
  <2>2. f[k + 1] = 2 * f[k] /\ g[k + 1] = 2 * g[k]
    BY <2>1 DEF Doubling
  <2> QED
    BY <1>2, <2>1, <2>2
<1> HIDE DEF T
<1>3. 0 .. n \subseteq T
  BY <1>1, <1>2, CountUp
<1> QED
  BY <1>3 DEF T

LEMMA TwoToSolves == TwoTo = [n \in Nat |-> IF n = 0 THEN 1 ELSE 2 * TwoTo[n - 1]]
<1> DEFINE Some(n) == CHOOSE f : Doubling(f, n)
           t       == [n \in Nat |-> Some(n)[n]]
<1>1. ASSUME NEW n \in Nat PROVE Doubling(Some(n), n)
  BY DoublingExists
<1>2. ASSUME NEW n \in Nat PROVE t[n + 1] = 2 * t[n]
  <2> DEFINE f == Some(n)
             g == Some(n + 1)
  <2>1. Doubling(f, n) /\ Doubling(g, n + 1)
    BY <1>1
  <2>2. t[n] = f[n] /\ t[n + 1] = g[n + 1]
    OBVIOUS
  <2> HIDE DEF f, g, t
  <2>3. f[n] = g[n]
    BY <2>1, DoublingUnique
  <2>4. n + 1 \in 1 .. n + 1 /\ (n + 1) - 1 = n
    OBVIOUS
  <2>5. g[n + 1] = 2 * g[n]
    BY <2>1, <2>4 DEF Doubling
  <2> QED
    BY <2>2, <2>3, <2>5
<1>3. t[0] = 1
  <2>1. t[0] = Some(0)[0]
    OBVIOUS
  <2>2. Doubling(Some(0), 0)
    BY <1>1
  <2> HIDE DEF t, Some
  <2> QED
    BY <2>1, <2>2 DEF Doubling
<1>4. t = [n \in Nat |-> t[n]]
  OBVIOUS
<1> HIDE DEF t
<1>5. \A n \in Nat : t[n] = IF n = 0 THEN 1 ELSE 2 * t[n - 1]
  <2> SUFFICES ASSUME NEW n \in Nat, n # 0 PROVE t[n] = 2 * t[n - 1]
    BY <1>3
  <2>1. n - 1 \in Nat /\ (n - 1) + 1 = n
    OBVIOUS
  <2>2. t[(n - 1) + 1] = 2 * t[n - 1]
    BY <1>2, <2>1
  <2> QED
    BY <2>1, <2>2
<1>6. t = [n \in Nat |-> IF n = 0 THEN 1 ELSE 2 * t[n - 1]]
  BY <1>4, <1>5
<1> QED
  BY <1>6, Zenon DEF TwoTo

LEMMA TwoToNext ==
  /\ TwoTo[0] = 1
  /\ \A n \in Nat : TwoTo[n] \in Nat \ {0} /\ TwoTo[n + 1] = 2 * TwoTo[n]
<1>1. \A n \in Nat : TwoTo[n] = IF n = 0 THEN 1 ELSE 2 * TwoTo[n - 1]
  BY TwoToSolves, Zenon
<1>2. TwoTo[0] = 1
  BY <1>1
<1>3. ASSUME NEW n \in Nat PROVE TwoTo[n + 1] = 2 * TwoTo[n]
  <2>1. n + 1 \in Nat /\ n + 1 # 0 /\ (n + 1) - 1 = n
    OBVIOUS
  <2> QED
    BY <1>1, <2>1
<1>4. ASSUME NEW n \in Nat PROVE TwoTo[n] \in Nat \ {0}
  <2> DEFINE T == {k \in 0 .. n : TwoTo[k] \in Nat \ {0}}
  <2>1. 0 \in T
    BY <1>2
  <2>2. ASSUME NEW k \in 0 .. n - 1, k \in T PROVE k + 1 \in T
    <3>1. TwoTo[k + 1] = 2 * TwoTo[k]
      BY <1>3
    <3> QED
      BY <2>2, <3>1
  <2> HIDE DEF T
  <2>3. 0 .. n \subseteq T
    BY <2>1, <2>2, CountUp
  <2> QED
    BY <2>3 DEF T
<1> QED
  BY <1>2, <1>3, <1>4

LEMMA TwoToSum == ASSUME NEW i \in Nat, NEW j \in Nat PROVE TwoTo[i + j] = TwoTo[i] * TwoTo[j]
<1> DEFINE T == {k \in 0 .. j : TwoTo[i + k] = TwoTo[i] * TwoTo[k]}
<1>1. 0 \in T
  <2>1. i + 0 = i
    OBVIOUS
  <2>2. TwoTo[i + 0] = TwoTo[i]
    BY <2>1, Zenon
  <2>3. TwoTo[0] = 1 /\ TwoTo[i] \in Nat
    BY TwoToNext
  <2> QED
    BY <2>2, <2>3
<1>2. ASSUME NEW k \in 0 .. j - 1, k \in T PROVE k + 1 \in T
  <2>1. i + k \in Nat /\ k \in Nat /\ i + (k + 1) = (i + k) + 1
    OBVIOUS
  <2>2. TwoTo[(i + k) + 1] = 2 * TwoTo[i + k] /\ TwoTo[k + 1] = 2 * TwoTo[k]
    BY <2>1, TwoToNext
  <2>3. TwoTo[i] \in Nat /\ TwoTo[k] \in Nat /\ TwoTo[i + k] \in Nat
    BY <2>1, TwoToNext
  <2>4. TwoTo[i + k] = TwoTo[i] * TwoTo[k]
    BY <1>2
  <2>5. TwoTo[i] * (2 * TwoTo[k]) = 2 * TwoTo[i + k]
    BY <2>3, <2>4
  <2>6. TwoTo[i + (k + 1)] = TwoTo[(i + k) + 1]
    BY <2>1, Zenon
  <2> QED
    BY <2>2, <2>5, <2>6
<1> HIDE DEF T
<1>3. 0 .. j \subseteq T
  BY <1>1, <1>2, CountUp
<1> QED
  BY <1>3 DEF T

LEMMA TwoToMonotone == ASSUME NEW i \in Nat, NEW j \in Nat, i <= j PROVE TwoTo[i] <= TwoTo[j]
<1>1. j - i \in Nat /\ i + (j - i) = j
  OBVIOUS
<1>2. TwoTo[i + (j - i)] = TwoTo[i] * TwoTo[j - i]
  BY <1>1, TwoToSum
<1>3. TwoTo[i] \in Nat \ {0} /\ TwoTo[j - i] \in Nat \ {0}
  BY <1>1, TwoToNext
<1> DEFINE p == TwoTo[i]
           q == TwoTo[j - i]
<1>4. p \in Nat \ {0} /\ q \in Nat \ {0} /\ TwoTo[j] = p * q
  BY <1>1, <1>2, <1>3
<1> HIDE DEF p, q
<1>5. p <= p * q
  BY <1>4
<1> QED
  BY <1>4, <1>5 DEF p

LEMMA TwoToTable ==
  /\ TwoTo[0] = 1 /\ TwoTo[1] = 2 /\ TwoTo[2] = 4 /\ TwoTo[3] = 8 /\ TwoTo[4] = 16
  /\ TwoTo[5] = 32 /\ TwoTo[6] = 64 /\ TwoTo[7] = 128 /\ TwoTo[8] = 256 /\ TwoTo[10] = 1024
  /\ TwoTo[14] = 16384 /\ TwoTo[15] = 32768 /\ TwoTo[19] = 524288 /\ TwoTo[20] = 1048576
<1>1. \A n \in Nat : TwoTo[n + 1] = 2 * TwoTo[n]
  BY TwoToNext
<1>2. TwoTo[0] = 1 /\ TwoTo[0 + 1] = 2 * TwoTo[0]
      /\ TwoTo[1 + 1] = 2 * TwoTo[1] /\ TwoTo[2 + 1] = 2 * TwoTo[2]
      /\ TwoTo[3 + 1] = 2 * TwoTo[3] /\ TwoTo[4 + 1] = 2 * TwoTo[4] /\ TwoTo[5 + 1] = 2 * TwoTo[5]
      /\ TwoTo[6 + 1] = 2 * TwoTo[6] /\ TwoTo[7 + 1] = 2 * TwoTo[7] 
  BY <1>1, TwoToNext
<1>3. TwoTo[5 + 5] = TwoTo[5] * TwoTo[5] /\ TwoTo[7 + 7] = TwoTo[7] * TwoTo[7]
      /\ TwoTo[14 + 1] = TwoTo[14] * TwoTo[1]
      /\ TwoTo[15 + 4] = TwoTo[15] * TwoTo[4] /\ TwoTo[15 + 5] = TwoTo[15] * TwoTo[5]
  BY TwoToSum
<1> QED
  BY <1>2, <1>3

-------------------------------------------------------------------------------
(* Division with a remainder, which is the only one.                           *)
LEMMA Division ==
  ASSUME NEW v \in Int, NEW p \in Nat \ {0}
  PROVE  /\ v \div p \in Int /\ v % p \in 0 .. p - 1
         /\ v = p * (v \div p) + (v % p)
OBVIOUS

LEMMA DivisionUnique ==
  ASSUME NEW p \in Nat \ {0}, NEW q \in Int, NEW r \in 0 .. p - 1
  PROVE  (p * q + r) \div p = q /\ (p * q + r) % p = r
OBVIOUS

(* Taking one bit more.                                                        *)
LEMMA OneBitMore ==
  ASSUME NEW v \in Int, NEW p \in Nat \ {0}
  PROVE  v % (2 * p) = (v % p) + IF (v \div p) % 2 = 1 THEN p ELSE 0
<1> DEFINE q == v \div p
           r == v % p
           b == q % 2
<1>1. q \in Int /\ r \in 0 .. p - 1 /\ v = p * q + r
  BY Division
<1> HIDE DEF q, r
<1>2. b \in 0 .. 1 /\ q = 2 * (q \div 2) + b /\ q \div 2 \in Int
  BY <1>1
<1> HIDE DEF b
<1>3. v = (2 * p) * (q \div 2) + (p * b + r)
  BY <1>1, <1>2
<1>4. p * b + r \in 0 .. 2 * p - 1 /\ p * b = IF b = 1 THEN p ELSE 0
  BY <1>1, <1>2
<1>5. 2 * p \in Nat \ {0}
  OBVIOUS
<1>6. v % (2 * p) = p * b + r
  BY <1>2, <1>3, <1>4, <1>5, DivisionUnique
<1> QED
  BY <1>1, <1>4, <1>6 DEF q, r, b

(* What is a multiple of the divisor goes into the quotient.                   *)
LEMMA DivisionAdds ==
  ASSUME NEW v \in Int, NEW p \in Nat \ {0}, NEW m \in Int
  PROVE  (v + p * m) \div p = (v \div p) + m /\ (v + p * m) % p = v % p
<1> DEFINE q == v \div p
           r == v % p
<1>1. q \in Int /\ r \in 0 .. p - 1 /\ v = p * q + r
  BY Division
<1> HIDE DEF q, r
<1>2. v + p * m = p * (q + m) + r /\ q + m \in Int
  BY <1>1
<1>3. (p * (q + m) + r) \div p = q + m /\ (p * (q + m) + r) % p = r
  BY <1>1, <1>2, DivisionUnique
<1> QED
  BY <1>2, <1>3 DEF q, r

LEMMA DivisionTwice ==
  ASSUME NEW v \in Int, NEW p \in Nat \ {0}, NEW s \in Nat \ {0}
  PROVE  (v \div p) \div s = v \div (p * s)
<1> DEFINE q == v \div p
           r == v % p
           t == q \div s
           u == q % s
<1>1. q \in Int /\ r \in 0 .. p - 1 /\ v = p * q + r
  BY Division
<1> HIDE DEF q, r
<1>2. t \in Int /\ u \in 0 .. s - 1 /\ q = s * t + u
  BY <1>1, Division
<1> HIDE DEF t, u
<1>3. v = (p * s) * t + (p * u + r)
  BY <1>1, <1>2
<1>4. p * s \in Nat \ {0} /\ p * u + r \in 0 .. p * s - 1
  <2>1. p * u <= p * (s - 1) /\ p * (s - 1) = p * s - p
    BY <1>2
  <2>2. p * u \in Nat /\ p * s \in Nat \ {0}
    BY <1>2
  <2> QED
    BY <1>1, <2>1, <2>2
<1>5. v \div (p * s) = t
  BY <1>2, <1>3, <1>4, DivisionUnique
<1> QED
  BY <1>5 DEF t, q

-------------------------------------------------------------------------------
(* Sums, and numbers as the sums of their digits.                              *)
SumTo(low, w, n) ==
  low = [k \in 0 .. n |-> IF k = 0 THEN 0 ELSE low[k - 1] + w[k]]

LEMMA SumExists ==
  ASSUME NEW w, NEW n \in Nat
  PROVE  \E low : SumTo(low, w, n)
<1> DEFINE T == {k \in 0 .. n : \E low : SumTo(low, w, k)}
<1>1. 0 \in T
  <2> DEFINE s == [k \in 0 .. 0 |-> 0]
  <2>1. \A k \in 0 .. 0 : k = 0
    OBVIOUS
  <2>2. s = [k \in 0 .. 0 |-> IF k = 0 THEN 0 ELSE s[k - 1] + w[k]]
    BY <2>1, Zenon
  <2>3. SumTo(s, w, 0)
    BY <2>2, Zenon DEF SumTo
  <2> HIDE DEF s
  <2> QED
    BY <2>3
<1>2. ASSUME NEW k \in 0 .. n - 1, k \in T PROVE k + 1 \in T
  <2>1. PICK s : SumTo(s, w, k)
    BY <1>2
  <2> DEFINE t == [i \in 0 .. k + 1 |-> IF i = k + 1 THEN s[k] + w[k + 1] ELSE s[i]]
  <2>2. ASSUME NEW i \in 0 .. k + 1
        PROVE  t[i] = IF i = 0 THEN 0 ELSE t[i - 1] + w[i]
    <3>1. CASE i = k + 1
      <4>1. i # 0 /\ i - 1 = k /\ k # k + 1 /\ k \in 0 .. k + 1
        BY <3>1
      <4>2. t[i] = s[k] + w[k + 1] /\ t[k] = s[k]
        BY <3>1, <4>1
      <4> QED
        BY <3>1, <4>1, <4>2
    <3>2. CASE i # k + 1
      <4>1. i \in 0 .. k /\ (i # 0 => i - 1 \in 0 .. k + 1 /\ i - 1 # k + 1)
        BY <3>2
      <4>2. t[i] = s[i] /\ (i # 0 => t[i - 1] = s[i - 1])
        BY <4>1
      <4>3. s[i] = IF i = 0 THEN 0 ELSE s[i - 1] + w[i]
        BY <2>1, <4>1, Zenon DEF SumTo
      <4> QED
        BY <4>2, <4>3
    <3> QED
      BY <3>1, <3>2
  <2>3. t = [i \in 0 .. k + 1 |-> t[i]]
    OBVIOUS
  <2> HIDE DEF t
  <2>4. SumTo(t, w, k + 1)
    BY <2>2, <2>3 DEF SumTo
  <2> QED
    BY <2>4
<1> HIDE DEF T
<1>3. n \in T
  <2>1. 0 .. n \subseteq T
    BY <1>1, <1>2, CountUp
  <2> QED
    BY <2>1
<1> QED
  BY <1>3 DEF T

(* The first k of the digits d, of B bits each, add up to low[k].               *)
Digits(low, d, B, n) ==
  /\ d \in [0 .. n - 1 -> 0 .. TwoTo[B] - 1]
  /\ low[0] = 0
  /\ \A k \in 1 .. n : low[k] = low[k - 1] + d[k - 1] * TwoTo[B * (k - 1)]

LEMMA DigitsRange ==
  ASSUME NEW B \in Nat, NEW n \in Nat, NEW low, NEW d, Digits(low, d, B, n)
  PROVE  \A k \in 0 .. n : low[k] \in 0 .. TwoTo[B * k] - 1
<1> DEFINE T == {k \in 0 .. n : low[k] \in 0 .. TwoTo[B * k] - 1}
<1>1. 0 \in T
  <2>1. B * 0 = 0
    OBVIOUS
  <2>2. TwoTo[B * 0] = 1
    BY <2>1, TwoToNext
  <2> QED
    BY <2>2 DEF Digits
<1>2. ASSUME NEW k \in 0 .. n - 1, k \in T PROVE k + 1 \in T
  <2>1. k + 1 \in 1 .. n /\ (k + 1) - 1 = k /\ B * k \in Nat /\ B * (k + 1) = B * k + B
    OBVIOUS
  <2>2. low[k + 1] = low[k] + d[k] * TwoTo[B * k]
    BY <2>1, Zenon DEF Digits
  <2>3. TwoTo[B * (k + 1)] = TwoTo[B * k] * TwoTo[B]
    BY <2>1, TwoToSum
  <2>4. TwoTo[B * k] \in Nat \ {0} /\ TwoTo[B] \in Nat \ {0} /\ d[k] \in 0 .. TwoTo[B] - 1
    BY <2>1, TwoToNext DEF Digits
  <2> DEFINE p == TwoTo[B * k]
             b == TwoTo[B]
  <2>5. low[k] \in 0 .. p - 1
    BY <1>2
  <2>6. low[k + 1] = low[k] + d[k] * p /\ TwoTo[B * (k + 1)] = p * b
    BY <2>2, <2>3
  <2>7. p \in Nat \ {0} /\ b \in Nat \ {0} /\ d[k] \in 0 .. b - 1
    BY <2>4
  <2> HIDE DEF p, b
  <2>8. d[k] * p \in Nat /\ d[k] * p <= (b - 1) * p /\ (b - 1) * p = p * b - p /\ p * b \in Nat
    BY <2>7
  <2>9. low[k + 1] \in 0 .. TwoTo[B * (k + 1)] - 1
    BY <2>5, <2>6, <2>7, <2>8
  <2> QED
    BY <2>9
<1> HIDE DEF T
<1>3. 0 .. n \subseteq T
  BY <1>1, <1>2, CountUp
<1> QED
  BY <1>3 DEF T

LEMMA DigitOnTop ==
  ASSUME NEW p \in Nat \ {0}, NEW b \in Nat, NEW q \in 0 .. b - 1, NEW r \in 0 .. p - 1
  PROVE  ((r + q * p) \div p) % b = q
<1>1. q \in Int /\ r + q * p = p * q + r
  OBVIOUS
<1>2. (p * q + r) \div p = q
  BY <1>1, DivisionUnique
<1>3. q % b = q
  OBVIOUS
<1> QED
  BY <1>1, <1>2, <1>3

LEMMA DigitOf ==
  ASSUME NEW B \in Nat, NEW n \in Nat, NEW low, NEW d, Digits(low, d, B, n), NEW i \in 0 .. n - 1
  PROVE  \A k \in i + 1 .. n : (low[k] \div TwoTo[B * i]) % TwoTo[B] = d[i]
<1> DEFINE p == TwoTo[B * i]
           b == TwoTo[B]
           T == {m \in 0 .. n - (i + 1) : (low[i + 1 + m] \div p) % b = d[i]}
<1>1. B * i \in Nat /\ i \in Nat
  OBVIOUS
<1>2. p \in Nat \ {0} /\ b \in Nat \ {0}
  BY <1>1, TwoToNext
<1>3. \A j \in 0 .. n : low[j] \in 0 .. TwoTo[B * j] - 1
  BY DigitsRange
<1>4. \A j \in 0 .. n - 1 : low[j + 1] = low[j] + d[j] * TwoTo[B * j] /\ d[j] \in 0 .. b - 1
  <2> SUFFICES ASSUME NEW j \in 0 .. n - 1
               PROVE  low[j + 1] = low[j] + d[j] * TwoTo[B * j] /\ d[j] \in 0 .. b - 1
    OBVIOUS
  <2>1. j + 1 \in 1 .. n /\ (j + 1) - 1 = j
    OBVIOUS
  <2>2. low[j + 1] = low[j] + d[j] * TwoTo[B * j]
    BY <2>1, Zenon DEF Digits
  <2> QED
    BY <2>2 DEF Digits
<1>5. 0 \in T
  <2>1. i + 1 + 0 = i + 1 /\ i \in 0 .. n /\ 0 \in 0 .. n - (i + 1)
    OBVIOUS
  <2>2. low[i + 1] = low[i] + d[i] * p /\ d[i] \in 0 .. b - 1 /\ low[i] \in 0 .. p - 1
    BY <1>3, <1>4, <2>1
  <2> HIDE DEF p, b
  <2>3. (low[i + 1] \div p) % b = d[i]
    <3> DEFINE q == d[i]   r == low[i]
    <3>0. p \in Nat \ {0} /\ b \in Nat /\ q \in 0 .. b - 1 /\ r \in 0 .. p - 1
      BY <1>2, <2>2
    <3> HIDE DEF q, r
    <3>2. ((r + q * p) \div p) % b = q
      BY <3>0, DigitOnTop, Zenon
    <3>1. ((low[i] + d[i] * p) \div p) % b = d[i]
      BY <3>2, Zenon DEF q, r
    <3> QED
      BY <2>2, <3>1, Zenon
  <2>4. (low[i + 1 + 0] \div p) % b = d[i]
    BY <2>1, <2>3
  <2> QED
    BY <2>1, <2>4
<1>6. ASSUME NEW m \in 0 .. (n - (i + 1)) - 1, m \in T PROVE m + 1 \in T
  <2> DEFINE j == i + 1 + m
             c == TwoTo[B * m] * d[j]
  <2>1. /\ j \in 0 .. n - 1 /\ j \in 0 .. n /\ i + 1 + (m + 1) = j + 1
        /\ B * j = B * i + (B + B * m) /\ B * m \in Nat
    BY <1>1
  <2>2. low[j + 1] = low[j] + d[j] * TwoTo[B * j] /\ d[j] \in 0 .. b - 1 /\ low[j] \in Int
    BY <1>3, <1>4, <2>1
  <2>3. TwoTo[B * j] = p * (b * TwoTo[B * m]) /\ TwoTo[B * m] \in Nat
    <3>1. TwoTo[B * i + (B + B * m)] = TwoTo[B * i] * TwoTo[B + B * m]
      BY <1>1, <2>1, TwoToSum
    <3>2. TwoTo[B + B * m] = TwoTo[B] * TwoTo[B * m] /\ TwoTo[B * m] \in Nat
      BY <2>1, TwoToSum, TwoToNext
    <3> QED
      BY <2>1, <3>1, <3>2
  <2> HIDE DEF j, p, b
  <2>4. c \in Int /\ low[j + 1] = low[j] + p * (b * c)
    <3> DEFINE e == TwoTo[B * m]
    <3>1. e \in Nat /\ TwoTo[B * j] = p * (b * e) /\ d[j] \in Int
      BY <1>2, <2>2, <2>3
    <3> HIDE DEF e
    <3>2. d[j] * (p * (b * e)) = p * (b * (e * d[j])) /\ e * d[j] \in Int
      BY <1>2, <3>1
    <3>3. low[j + 1] = low[j] + p * (b * (e * d[j]))
      BY <2>2, <3>1, <3>2
    <3> QED
      BY <3>2, <3>3 DEF e
  <2> HIDE DEF c
  <2>5. (low[j] + p * (b * c)) \div p = (low[j] \div p) + b * c
    <3>1. b * c \in Int
      BY <1>2, <2>4
    <3> QED
      BY <1>2, <2>2, <3>1, DivisionAdds
  <2>6. low[j] \div p \in Int
    BY <1>2, <2>2, Division
  <2>7. ((low[j] \div p) + b * c) % b = (low[j] \div p) % b
    BY <1>2, <2>4, <2>6, DivisionAdds
  <2>8. (low[j] \div p) % b = d[i]
    BY <1>6 DEF j
  <2>9. (low[i + 1 + (m + 1)] \div p) % b = d[i]
    BY <2>1, <2>4, <2>5, <2>7, <2>8
  <2>10. m + 1 \in 0 .. n - (i + 1)
    OBVIOUS
  <2> QED
    BY <2>9, <2>10
<1> HIDE DEF T
<1>7. 0 .. n - (i + 1) \subseteq T
  <2>1. n - (i + 1) \in Nat
    OBVIOUS
  <2> QED
    BY <1>5, <1>6, <2>1, CountUp
<1> SUFFICES ASSUME NEW k \in i + 1 .. n PROVE (low[k] \div p) % b = d[i]
  OBVIOUS
<1>8. k - (i + 1) \in T /\ i + 1 + (k - (i + 1)) = k
  BY <1>7
<1> QED
  BY <1>8 DEF T

-------------------------------------------------------------------------------
(* Numbers and their bits.                                                     *)
Weight(bits, k) == IF k - 1 \in bits THEN TwoTo[k - 1] ELSE 0

LowTo(bits, low, n) ==
  low = [k \in 0 .. n |-> IF k = 0 THEN 0 ELSE low[k - 1] + Weight(bits, k)]

LEMMA LowExists ==
  ASSUME NEW bits, NEW n \in Nat
  PROVE  \E low : LowTo(bits, low, n)
<1> DEFINE w == [k \in 1 .. n |-> Weight(bits, k)]
<1>1. PICK low : SumTo(low, w, n)
  BY SumExists, Zenon
<1>2. \A k \in 0 .. n : low[k] = IF k = 0 THEN 0 ELSE low[k - 1] + w[k]
  BY <1>1, Zenon DEF SumTo
<1>3. \A k \in 0 .. n : k # 0 => w[k] = Weight(bits, k)
  OBVIOUS
<1>4. low = [k \in 0 .. n |-> low[k]]
  BY <1>1 DEF SumTo
<1> HIDE DEF w
<1>5. LowTo(bits, low, n)
  BY <1>2, <1>3, <1>4 DEF LowTo
<1> QED
  BY <1>5

Low(bits, n) == CHOOSE low : LowTo(bits, low, n)

LEMMA LowFacts ==
  ASSUME NEW bits, NEW n \in Nat
  PROVE  /\ ValueOf(bits, n) = Low(bits, n)[n] /\ Low(bits, n)[0] = 0
         /\ \A k \in 1 .. n : Low(bits, n)[k] = Low(bits, n)[k - 1] + Weight(bits, k)
<1> DEFINE low == Low(bits, n)
<1>1. LowTo(bits, low, n)
  BY LowExists, Zenon DEF Low
<1>2. ValueOf(bits, n) = low[n]
  BY Zenon DEF ValueOf, Low, LowTo, Weight
<1> HIDE DEF low
<1>3. \A k \in 0 .. n : low[k] = IF k = 0 THEN 0 ELSE low[k - 1] + Weight(bits, k)
  BY <1>1, Zenon DEF LowTo
<1>4. low[0] = 0 /\ \A k \in 1 .. n : low[k] = low[k - 1] + Weight(bits, k)
  BY <1>3
<1> QED
  BY <1>2, <1>4 DEF low

(* The bits of a number, added up again, are the number modulo their count.    *)
LEMMA ValueOfOneBits ==
  ASSUME NEW v \in Int, NEW n \in Nat
  PROVE  ValueOf(OneBits(v, n), n) = v % TwoTo[n]
<1> DEFINE B   == OneBits(v, n)
           low == Low(B, n)
           T   == {k \in 0 .. n : low[k] = v % TwoTo[k]}
<1>1. /\ ValueOf(B, n) = low[n] /\ low[0] = 0
      /\ \A k \in 1 .. n : low[k] = low[k - 1] + Weight(B, k)
  BY LowFacts
<1>2. \A k \in 0 .. n - 1 : k \in B <=> (v \div TwoTo[k]) % 2 = 1
  BY DEF OneBits
<1> HIDE DEF B, low
<1>3. 0 \in T
  <2>1. v % 1 = 0
    OBVIOUS
  <2> QED
    BY <1>1, <2>1, TwoToNext
<1>4. ASSUME NEW k \in 0 .. n - 1, k \in T PROVE k + 1 \in T
  <2>1. k \in Nat /\ k + 1 \in 1 .. n /\ (k + 1) - 1 = k
    OBVIOUS
  <2>2. low[k + 1] = low[k] + IF k \in B THEN TwoTo[k] ELSE 0
    BY <1>1, <2>1 DEF Weight
  <2>3. TwoTo[k] \in Nat \ {0} /\ TwoTo[k + 1] = 2 * TwoTo[k]
    BY <2>1, TwoToNext
  <2>4. v % (2 * TwoTo[k]) = (v % TwoTo[k]) + IF (v \div TwoTo[k]) % 2 = 1 THEN TwoTo[k] ELSE 0
    BY <2>3, OneBitMore
  <2>5. low[k + 1] = v % TwoTo[k + 1]
    BY <1>2, <1>4, <2>2, <2>3, <2>4
  <2> QED
    BY <2>1, <2>5
<1> HIDE DEF T
<1>5. n \in T
  <2>1. 0 .. n \subseteq T
    BY <1>3, <1>4, CountUp
  <2> QED
    BY <2>1
<1> QED
  BY <1>1, <1>5 DEF T, B

LEMMA LowDigits ==
  ASSUME NEW bits, NEW n \in Nat
  PROVE  Digits(Low(bits, n), [i \in 0 .. n - 1 |-> IF i \in bits THEN 1 ELSE 0], 1, n)
<1> DEFINE low == Low(bits, n)
           d   == [i \in 0 .. n - 1 |-> IF i \in bits THEN 1 ELSE 0]
<1>1. low[0] = 0 /\ \A k \in 1 .. n : low[k] = low[k - 1] + Weight(bits, k)
  BY LowFacts
<1>2. d \in [0 .. n - 1 -> 0 .. TwoTo[1] - 1]
  <2>1. TwoTo[1] = 2
    BY TwoToTable
  <2> QED
    BY <2>1
<1>3. ASSUME NEW k \in 1 .. n PROVE low[k] = low[k - 1] + d[k - 1] * TwoTo[1 * (k - 1)]
  <2>1. k - 1 \in 0 .. n - 1 /\ 1 * (k - 1) = k - 1 /\ k - 1 \in Nat
    OBVIOUS
  <2>2. TwoTo[k - 1] \in Nat
    BY <2>1, TwoToNext
  <2>3. d[k - 1] * TwoTo[k - 1] = Weight(bits, k)
    BY <2>1, <2>2 DEF Weight
  <2> QED
    BY <1>1, <2>1, <2>3
<1> HIDE DEF low, d
<1> QED
  BY <1>1, <1>2, <1>3 DEF Digits, low, d

(* A number made of bits has these bits, and no more.                          *)
LEMMA ValueOfBits ==
  ASSUME NEW bits, NEW n \in Nat
  PROVE  /\ ValueOf(bits, n) \in 0 .. TwoTo[n] - 1
         /\ \A i \in 0 .. n - 1 : BitAt(ValueOf(bits, n), i) = IF i \in bits THEN 1 ELSE 0
         /\ OneBits(ValueOf(bits, n), n) = {i \in 0 .. n - 1 : i \in bits}
<1> DEFINE low == Low(bits, n)
           d   == [i \in 0 .. n - 1 |-> IF i \in bits THEN 1 ELSE 0]
<1>1. ValueOf(bits, n) = low[n]
  BY LowFacts
<1>2. Digits(low, d, 1, n)
  BY LowDigits
<1> HIDE DEF low, d
<1>3. low[n] \in 0 .. TwoTo[n] - 1
  <2>1. low[n] \in 0 .. TwoTo[1 * n] - 1 /\ 1 * n = n
    BY <1>2, DigitsRange
  <2> QED
    BY <2>1
<1>4. ASSUME NEW i \in 0 .. n - 1
      PROVE  (low[n] \div TwoTo[i]) % 2 = IF i \in bits THEN 1 ELSE 0
  <2>1. n \in i + 1 .. n /\ 1 * i = i
    OBVIOUS
  <2>2. (low[n] \div TwoTo[1 * i]) % TwoTo[1] = d[i]
    BY <1>2, <2>1, DigitOf
  <2>3. TwoTo[1] = 2
    BY TwoToTable
  <2> QED
    BY <2>1, <2>2, <2>3 DEF d
<1>5. \A i \in 0 .. n - 1 : (low[n] \div TwoTo[i]) % 2 = 1 <=> i \in bits
  BY <1>4
<1>6. OneBits(low[n], n) = {i \in 0 .. n - 1 : i \in bits}
  BY <1>5, Zenon DEF OneBits
<1> QED
  BY <1>1, <1>3, <1>4, <1>6 DEF BitAt

-------------------------------------------------------------------------------
(* The fields of a word.                                                       *)
LEMMA FieldIs ==
  ASSUME NEW v \in Int, NEW n \in Nat, NEW lo, NEW w,
         \A i \in 0 .. n - 1 : i + lo \in w <=> i \in OneBits(v, n)
  PROVE  Field(w, lo, n) = v % TwoTo[n]
<1>1. {i \in 0 .. n - 1 : i + lo \in w} = OneBits(v, n)
  <2>1. \A i \in OneBits(v, n) : i \in 0 .. n - 1
    BY DEF OneBits
  <2> QED
    BY <2>1, Zenon
<1> QED
  BY <1>1, ValueOfOneBits DEF Field

LEMMA OneBitsWithin ==
  ASSUME NEW v, NEW n, NEW m \in Int
  PROVE  /\ OneBits(v, m) \subseteq 0 .. m - 1
         /\ \A i \in 0 .. n - 1 : i \in OneBits(v, n) <=> (v \div TwoTo[i]) % 2 = 1
BY DEF OneBits

(* A register's number has five bits.                                          *)
LEMMA RegisterBits ==
  ASSUME NEW r \in 0 .. 31
  PROVE  /\ OneBits(r, 8) \subseteq 0 .. 4
         /\ \A i \in 0 .. 4 : i \in OneBits(r, 8) <=> i \in OneBits(r, 5)
<1>1. r \div 32 = 0 /\ r \div 64 = 0 /\ r \div 128 = 0
  OBVIOUS
<1>2. \A i \in 0 .. 7 : i \in 0 .. 4 \/ i = 5 \/ i = 6 \/ i = 7
  OBVIOUS
<1>3. \A i \in 0 .. 7 : (r \div TwoTo[i]) % 2 = 1 => i \in 0 .. 4
  <2>1. (r \div TwoTo[5]) % 2 # 1 /\ (r \div TwoTo[6]) % 2 # 1 /\ (r \div TwoTo[7]) % 2 # 1
    BY <1>1, TwoToTable
  <2> QED
    BY <1>2, <2>1, Zenon
<1>4. \A i : i \in OneBits(r, 8) <=> i \in 0 .. 7 /\ (r \div TwoTo[i]) % 2 = 1
  BY DEF OneBits
<1>5. \A i : i \in OneBits(r, 5) <=> i \in 0 .. 4 /\ (r \div TwoTo[i]) % 2 = 1
  BY DEF OneBits
<1>6. \A i \in 0 .. 4 : i \in 0 .. 7
  OBVIOUS
<1> QED
  BY <1>3, <1>4, <1>5, <1>6, Zenon

LEMMA PutBits ==
  ASSUME NEW v, NEW n \in Int, NEW at \in Int
  PROVE  /\ Put(v, n, at) \subseteq 0 .. 31
         /\ \A p \in 0 .. 31 : p \in Put(v, n, at) <=> p - at \in OneBits(v, n)
<1>1. OneBits(v, n) \subseteq Int
  BY DEF OneBits
<1>2. ASSUME NEW p \in 0 .. 31 PROVE p \in Put(v, n, at) <=> p - at \in OneBits(v, n)
  BY <1>1 DEF Put
<1> QED
  BY <1>2 DEF Put

LEMMA OpBits ==
  ASSUME NEW op
  PROVE  /\ OneBits(op, 8) \subseteq 0 .. 7
         /\ \A i \in 0 .. 6 : i \in OneBits(op, 8) <=> i \in OneBits(op, 7)
<1>1. \A i : i \in OneBits(op, 8) <=> i \in 0 .. 7 /\ (op \div TwoTo[i]) % 2 = 1
  BY DEF OneBits
<1>2. \A i : i \in OneBits(op, 7) <=> i \in 0 .. 6 /\ (op \div TwoTo[i]) % 2 = 1
  BY DEF OneBits
<1>3. \A i \in 0 .. 6 : i \in 0 .. 7
  OBVIOUS
<1> QED
  BY <1>1, <1>2, <1>3, Zenon

(* The opcode's seven bits, and the low five of a register's number.           *)
LEMMA OpcodeField ==
  ASSUME NEW op \in Int, NEW w, \A i \in 0 .. 6 : i + 25 \in w <=> i \in OneBits(op, 8)
  PROVE  Field(w, 25, 7) = op % 128
<1>1. \A i \in 0 .. 7 - 1 : i + 25 \in w <=> i \in OneBits(op, 7)
  BY OpBits
<1>2. Field(w, 25, 7) = op % TwoTo[7]
  BY <1>1, FieldIs
<1> QED
  BY <1>2, TwoToTable

LEMMA RegisterField ==
  ASSUME NEW r \in 0 .. 31, NEW at, NEW w, \A i \in 0 .. 4 : i + at \in w <=> i \in OneBits(r, 8)
  PROVE  Field(w, at, 5) = r
<1>1. \A i \in 0 .. 5 - 1 : i + at \in w <=> i \in OneBits(r, 5)
  BY RegisterBits
<1>2. Field(w, at, 5) = r % TwoTo[5]
  BY <1>1, FieldIs
<1> QED
  BY <1>2, TwoToTable

(* The n bits of the lowest field of a word, and its low byte.                 *)
LEMMA LowField ==
  ASSUME NEW v \in Int, NEW n \in 8 .. 20, NEW w,
         \A i \in 0 .. n - 1 : i + 0 \in w <=> i \in OneBits(v, n)
  PROVE  Field(w, 0, n) = v % TwoTo[n] /\ Field(w, 0, 8) = v % 256
<1>1. Field(w, 0, n) = v % TwoTo[n]
  <2>1. n \in Nat
    OBVIOUS
  <2> QED
    BY <2>1, FieldIs, Zenon
<1>2. \A i \in 0 .. 8 - 1 : i + 0 \in w <=> i \in OneBits(v, 8)
  <2>1. \A i : i \in OneBits(v, 8) <=> i \in 0 .. 8 - 1 /\ (v \div TwoTo[i]) % 2 = 1
    BY DEF OneBits
  <2>2. \A i : i \in OneBits(v, n) <=> i \in 0 .. n - 1 /\ (v \div TwoTo[i]) % 2 = 1
    BY DEF OneBits
  <2>3. \A i \in 0 .. 8 - 1 : i \in 0 .. n - 1
    OBVIOUS
  <2> QED
    BY <2>1, <2>2, <2>3, Zenon
<1>3. Field(w, 0, 8) = v % TwoTo[8]
  <2>1. 8 \in Nat
    OBVIOUS
  <2> QED
    BY <1>2, <2>1, FieldIs, Zenon
<1> QED
  BY <1>1, <1>3, TwoToTable

(* What the fields of a word hold, by format: its opcode and its operands; and *)
(* its low byte is that of the lowest field.                                   *)
HoldsR(w, op, rd, rs1, rs2, func) ==
  /\ w \subseteq 0 .. 31 /\ Field(w, 25, 7) = op % 128
  /\ Field(w, 20, 5) = rd /\ Field(w, 15, 5) = rs1 /\ Field(w, 10, 5) = rs2
  /\ Field(w, 0, 10) = func /\ Field(w, 0, 8) = func
HoldsI(w, op, hi, mid, imm) ==
  /\ w \subseteq 0 .. 31 /\ Field(w, 25, 7) = op % 128
  /\ Field(w, 20, 5) = hi /\ Field(w, 15, 5) = mid
  /\ Field(w, 0, 15) = imm % 2^15 /\ Field(w, 0, 8) = imm % 256
HoldsJ(w, op, rd, imm) ==
  /\ w \subseteq 0 .. 31 /\ Field(w, 25, 7) = op % 128
  /\ Field(w, 20, 5) = rd
  /\ Field(w, 0, 20) = imm % 2^20 /\ Field(w, 0, 8) = imm % 256

LEMMA FieldsR ==
  ASSUME NEW op \in 0 .. 255, NEW rd \in 0 .. 31, NEW rs1 \in 0 .. 31, NEW rs2 \in 0 .. 31,
         NEW func \in 0 .. 7
  PROVE  HoldsR(EncodeR(op, rd, rs1, rs2, func), op, rd, rs1, rs2, func)
<1> DEFINE w == EncodeR(op, rd, rs1, rs2, func)
           A == OneBits(op, 8)
           D == OneBits(rd, 8)
           E == OneBits(rs1, 8)
           F == OneBits(rs2, 8)
           G == OneBits(func, 10)
<1>1. w \subseteq 0 .. 31
  BY PutBits DEF EncodeR
<1>2. ASSUME NEW p \in 0 .. 31
      PROVE  p \in w <=> p - 25 \in A \/ p - 20 \in D \/ p - 15 \in E \/ p - 10 \in F \/ p - 0 \in G
  <2>1. /\ p \in Put(op, 8, 25) <=> p - 25 \in A
        /\ p \in Put(rd, 8, 20) <=> p - 20 \in D
        /\ p \in Put(rs1, 8, 15) <=> p - 15 \in E
        /\ p \in Put(rs2, 8, 10) <=> p - 10 \in F
        /\ p \in Put(func, 10, 0) <=> p - 0 \in G
    BY PutBits
  <2>2. p \in w <=> \/ p \in Put(op, 8, 25) \/ p \in Put(rd, 8, 20) \/ p \in Put(rs1, 8, 15)
                   \/ p \in Put(rs2, 8, 10) \/ p \in Put(func, 10, 0)
    BY Zenon DEF EncodeR
  <2> QED
    BY <2>1, <2>2
<1>3. /\ A \subseteq 0 .. 7
      /\ D \subseteq 0 .. 4
      /\ E \subseteq 0 .. 4
      /\ F \subseteq 0 .. 4
      /\ G \subseteq 0 .. 9
  BY OpBits, RegisterBits, OneBitsWithin
<1> HIDE DEF A, D, E, F, G
<1>4. \A i \in 0 .. 6 : i + 25 \in w <=> i \in A
  BY <1>2, <1>3
<1>5. \A i \in 0 .. 4 : i + 20 \in w <=> i \in D
  BY <1>2, <1>3
<1>6. \A i \in 0 .. 4 : i + 15 \in w <=> i \in E
  BY <1>2, <1>3
<1>7. \A i \in 0 .. 4 : i + 10 \in w <=> i \in F
  BY <1>2, <1>3
<1>8. \A i \in 0 .. 9 : i + 0 \in w <=> i \in G
  BY <1>2, <1>3
<1>9. Field(w, 25, 7) = op % 128
  BY <1>4, OpcodeField DEF A
<1>10. Field(w, 20, 5) = rd
  BY <1>5, RegisterField DEF D
<1>11. Field(w, 15, 5) = rs1
  BY <1>6, RegisterField DEF E
<1>12. Field(w, 10, 5) = rs2
  BY <1>7, RegisterField DEF F
<1>13. Field(w, 0, 10) = func % TwoTo[10] /\ Field(w, 0, 8) = func % 256
  BY <1>8, LowField DEF G
<1> QED
  BY <1>1, <1>9, <1>10, <1>11, <1>12, <1>13, TwoToTable DEF HoldsR

LEMMA FieldsI ==
  ASSUME NEW op \in 0 .. 255, NEW rd \in 0 .. 31, NEW rs1 \in 0 .. 31, NEW imm \in Int
  PROVE  HoldsI(EncodeI(op, rd, rs1, imm), op, rd, rs1, imm)
<1> DEFINE w == EncodeI(op, rd, rs1, imm)
           A == OneBits(op, 8)
           D == OneBits(rd, 8)
           E == OneBits(rs1, 8)
           F == OneBits(imm, 15)
<1>1. w \subseteq 0 .. 31
  BY PutBits DEF EncodeI
<1>2. ASSUME NEW p \in 0 .. 31
      PROVE  p \in w <=> p - 25 \in A \/ p - 20 \in D \/ p - 15 \in E \/ p - 0 \in F
  <2>1. /\ p \in Put(op, 8, 25) <=> p - 25 \in A
        /\ p \in Put(rd, 8, 20) <=> p - 20 \in D
        /\ p \in Put(rs1, 8, 15) <=> p - 15 \in E
        /\ p \in Put(imm, 15, 0) <=> p - 0 \in F
    BY PutBits
  <2>2. p \in w <=> \/ p \in Put(op, 8, 25) \/ p \in Put(rd, 8, 20)
                   \/ p \in Put(rs1, 8, 15) \/ p \in Put(imm, 15, 0)
    BY Zenon DEF EncodeI
  <2> QED
    BY <2>1, <2>2
<1>3. /\ A \subseteq 0 .. 7
      /\ D \subseteq 0 .. 4
      /\ E \subseteq 0 .. 4
      /\ F \subseteq 0 .. 14
  BY OpBits, RegisterBits, OneBitsWithin
<1> HIDE DEF A, D, E, F
<1>4. \A i \in 0 .. 6 : i + 25 \in w <=> i \in A
  BY <1>2, <1>3
<1>5. \A i \in 0 .. 4 : i + 20 \in w <=> i \in D
  BY <1>2, <1>3
<1>6. \A i \in 0 .. 4 : i + 15 \in w <=> i \in E
  BY <1>2, <1>3
<1>7. \A i \in 0 .. 14 : i + 0 \in w <=> i \in F
  BY <1>2, <1>3
<1>8. Field(w, 25, 7) = op % 128
  BY <1>4, OpcodeField DEF A
<1>9. Field(w, 20, 5) = rd
  BY <1>5, RegisterField DEF D
<1>10. Field(w, 15, 5) = rs1
  BY <1>6, RegisterField DEF E
<1>11. Field(w, 0, 15) = imm % TwoTo[15] /\ Field(w, 0, 8) = imm % 256
  BY <1>7, LowField DEF F
<1> QED
  BY <1>1, <1>8, <1>9, <1>10, <1>11, TwoToTable DEF HoldsI

LEMMA FieldsB ==
  ASSUME NEW op \in 0 .. 255, NEW rs1 \in 0 .. 31, NEW rs2 \in 0 .. 31, NEW imm \in Int
  PROVE  HoldsI(EncodeB(op, rs1, rs2, imm), op, rs1, rs2, imm)
<1> DEFINE w == EncodeB(op, rs1, rs2, imm)
           A == OneBits(op, 8)
           D == OneBits(rs1, 8)
           E == OneBits(rs2, 8)
           F == OneBits(imm, 15)
<1>1. w \subseteq 0 .. 31
  BY PutBits DEF EncodeB
<1>2. ASSUME NEW p \in 0 .. 31
      PROVE  p \in w <=> p - 25 \in A \/ p - 20 \in D \/ p - 15 \in E \/ p - 0 \in F
  <2>1. /\ p \in Put(op, 8, 25) <=> p - 25 \in A
        /\ p \in Put(rs1, 8, 20) <=> p - 20 \in D
        /\ p \in Put(rs2, 8, 15) <=> p - 15 \in E
        /\ p \in Put(imm, 15, 0) <=> p - 0 \in F
    BY PutBits
  <2>2. p \in w <=> \/ p \in Put(op, 8, 25) \/ p \in Put(rs1, 8, 20)
                   \/ p \in Put(rs2, 8, 15) \/ p \in Put(imm, 15, 0)
    BY Zenon DEF EncodeB
  <2> QED
    BY <2>1, <2>2
<1>3. /\ A \subseteq 0 .. 7
      /\ D \subseteq 0 .. 4
      /\ E \subseteq 0 .. 4
      /\ F \subseteq 0 .. 14
  BY OpBits, RegisterBits, OneBitsWithin
<1> HIDE DEF A, D, E, F
<1>4. \A i \in 0 .. 6 : i + 25 \in w <=> i \in A
  BY <1>2, <1>3
<1>5. \A i \in 0 .. 4 : i + 20 \in w <=> i \in D
  BY <1>2, <1>3
<1>6. \A i \in 0 .. 4 : i + 15 \in w <=> i \in E
  BY <1>2, <1>3
<1>7. \A i \in 0 .. 14 : i + 0 \in w <=> i \in F
  BY <1>2, <1>3
<1>8. Field(w, 25, 7) = op % 128
  BY <1>4, OpcodeField DEF A
<1>9. Field(w, 20, 5) = rs1
  BY <1>5, RegisterField DEF D
<1>10. Field(w, 15, 5) = rs2
  BY <1>6, RegisterField DEF E
<1>11. Field(w, 0, 15) = imm % TwoTo[15] /\ Field(w, 0, 8) = imm % 256
  BY <1>7, LowField DEF F
<1> QED
  BY <1>1, <1>8, <1>9, <1>10, <1>11, TwoToTable DEF HoldsI

LEMMA FieldsJ ==
  ASSUME NEW op \in 0 .. 255, NEW rd \in 0 .. 31, NEW imm \in Int
  PROVE  HoldsJ(EncodeJ(op, rd, imm), op, rd, imm)
<1> DEFINE w == EncodeJ(op, rd, imm)
           A == OneBits(op, 8)
           D == OneBits(rd, 8)
           E == OneBits(imm, 20)
<1>1. w \subseteq 0 .. 31
  BY PutBits DEF EncodeJ
<1>2. ASSUME NEW p \in 0 .. 31
      PROVE  p \in w <=> p - 25 \in A \/ p - 20 \in D \/ p - 0 \in E
  <2>1. /\ p \in Put(op, 8, 25) <=> p - 25 \in A
        /\ p \in Put(rd, 8, 20) <=> p - 20 \in D
        /\ p \in Put(imm, 20, 0) <=> p - 0 \in E
    BY PutBits
  <2>2. p \in w <=> p \in Put(op, 8, 25) \/ p \in Put(rd, 8, 20) \/ p \in Put(imm, 20, 0)
    BY Zenon DEF EncodeJ
  <2> QED
    BY <2>1, <2>2
<1>3. /\ A \subseteq 0 .. 7
      /\ D \subseteq 0 .. 4
      /\ E \subseteq 0 .. 19
  BY OpBits, RegisterBits, OneBitsWithin
<1> HIDE DEF A, D, E
<1>4. \A i \in 0 .. 6 : i + 25 \in w <=> i \in A
  BY <1>2, <1>3
<1>5. \A i \in 0 .. 4 : i + 20 \in w <=> i \in D
  BY <1>2, <1>3
<1>6. \A i \in 0 .. 19 : i + 0 \in w <=> i \in E
  BY <1>2, <1>3
<1>7. Field(w, 25, 7) = op % 128
  BY <1>4, OpcodeField DEF A
<1>8. Field(w, 20, 5) = rd
  BY <1>5, RegisterField DEF D
<1>9. Field(w, 0, 20) = imm % TwoTo[20] /\ Field(w, 0, 8) = imm % 256
  BY <1>6, LowField DEF E
<1> QED
  BY <1>1, <1>7, <1>8, <1>9, TwoToTable DEF HoldsJ

-------------------------------------------------------------------------------
(* The opcode table: two of its rows have the same opcode only if both have a  *)
(* function code and these differ.                                             *)
Distinct(r, s) == r[2] = s[2] => r = s \/ (r[4] >= 0 /\ s[4] >= 0 /\ r[4] # s[4])

LEMMA BaseRows ==
  ASSUME NEW r \in Base32
  PROVE  /\ r[2] \in 0 .. 127 /\ r[4] \in -1 .. 7 /\ r[3] \in {"R", "I", "B", "J"}
         /\ r[3] # "R" => r[4] = -1
BY SMTT(60) DEF Base32

LEMMA EscapeRows ==
  ASSUME NEW r \in Escape32
  PROVE  /\ r[2] \in 128 .. 255 /\ r[4] = -1 /\ r[3] \in {"R", "I", "B", "J"}
BY SMTT(60) DEF Escape32

LEMMA BaseApart == ASSUME NEW r \in Base32, NEW s \in Base32 PROVE Distinct(r, s)
BY SMTT(120) DEF Base32, Distinct

LEMMA EscapeApart == ASSUME NEW r \in Escape32, NEW s \in Escape32 PROVE Distinct(r, s)
BY SMTT(60) DEF Escape32, Distinct

LEMMA RowFacts ==
  ASSUME NEW m \in Mnemonics
  PROVE  RowOf(m) \in Base32 \cup Escape32 /\ RowOf(m)[1] = m
<1>1. \E row \in Base32 \cup Escape32 : row[1] = m
  BY Zenon DEF Mnemonics
<1> QED
  BY <1>1, Zenon DEF RowOf

-------------------------------------------------------------------------------
(* The bytes of a word and of an instruction.                                  *)
Octet == 0 .. 255

LEMMA ByteSequence ==
  ASSUME NEW n \in Nat, NEW f \in [1 .. n -> Octet]
  PROVE  f \in Seq(Octet) /\ Len(f) = n
<1>1. f \in Seq(Octet)
  BY SeqDef
<1>2. 1 .. Len(f) = 1 .. n /\ Len(f) \in Nat
  BY <1>1, LenProperties
<1> QED
  BY <1>1, <1>2

LEMMA WordBytes ==
  ASSUME NEW w
  PROVE  /\ LittleEndian(w) \in Seq(Octet) /\ Len(LittleEndian(w)) = 4
         /\ \A j \in 0 .. 3 : LittleEndian(w)[j + 1] = Field(w, 8 * j, 8)
         /\ \A j \in 0 .. 3 : OneBits(Field(w, 8 * j, 8), 8) = {i \in 0 .. 7 : i + 8 * j \in w}
<1>1. ASSUME NEW j \in 0 .. 3
      PROVE  /\ Field(w, 8 * j, 8) \in Octet
             /\ OneBits(Field(w, 8 * j, 8), 8) = {i \in 0 .. 7 : i + 8 * j \in w}
  <2> DEFINE S == {i \in 0 .. 8 - 1 : i + 8 * j \in w}
  <2>1. Field(w, 8 * j, 8) = ValueOf(S, 8)
    BY DEF Field
  <2>2. {i \in 0 .. 7 : i \in S} = {i \in 0 .. 7 : i + 8 * j \in w}
    OBVIOUS
  <2> HIDE DEF S
  <2>3. ValueOf(S, 8) \in 0 .. 256 - 1
    <3>1. ValueOf(S, 8) \in 0 .. TwoTo[8] - 1
      BY ValueOfBits
    <3> QED
      BY <3>1, TwoToTable
  <2>4. OneBits(ValueOf(S, 8), 8) = {i \in 0 .. 7 : i \in S}
    <3>1. OneBits(ValueOf(S, 8), 8) = {i \in 0 .. 8 - 1 : i \in S}
      BY ValueOfBits
    <3>2. 8 - 1 = 7
      OBVIOUS
    <3> QED
      BY <3>1, <3>2
  <2> QED
    BY <2>1, <2>2, <2>3, <2>4 DEF Octet, S
<1>2. \A i \in 1 .. 4 : i - 1 \in 0 .. 3
  OBVIOUS
<1>3. LittleEndian(w) \in [1 .. 4 -> Octet]
  BY <1>1, <1>2 DEF LittleEndian
<1>4. LittleEndian(w) \in Seq(Octet) /\ Len(LittleEndian(w)) = 4
  BY <1>3, ByteSequence
<1>5. ASSUME NEW j \in 0 .. 3 PROVE LittleEndian(w)[j + 1] = Field(w, 8 * j, 8)
  <2>1. j + 1 \in 1 .. 4 /\ (j + 1) - 1 = j
    OBVIOUS
  <2>2. LittleEndian(w)[j + 1] = Field(w, 8 * ((j + 1) - 1), 8)
    BY <2>1, Zenon DEF LittleEndian
  <2> QED
    BY <2>1, <2>2
<1> QED
  BY <1>1, <1>4, <1>5

LEMMA BytesWord ==
  ASSUME NEW w \in SUBSET (0 .. 31), NEW a, \A j \in 0 .. 3 : CodeByte(a + j) = LittleEndian(w)[j + 1]
  PROVE  CodeWord(a) = w
<1> DEFINE U == UNION {{8 * j + i : i \in OneBits(CodeByte(a + j), 8)} : j \in 0 .. 3}
<1>1. ASSUME NEW j \in 0 .. 3
      PROVE  OneBits(CodeByte(a + j), 8) = {i \in 0 .. 7 : i + 8 * j \in w}
  <2> HIDE DEF U
  <2>1. CodeByte(a + j) = LittleEndian(w)[j + 1]
    OBVIOUS
  <2>2. LittleEndian(w)[j + 1] = Field(w, 8 * j, 8)
    BY WordBytes, Zenon
  <2>3. CodeByte(a + j) = Field(w, 8 * j, 8)
    BY <2>1, <2>2, Zenon
  <2>4. OneBits(Field(w, 8 * j, 8), 8) = {i \in 0 .. 7 : i + 8 * j \in w}
    BY WordBytes, Zenon
  <2> QED
    BY <2>3, <2>4, Zenon
<1>2. ASSUME NEW p \in U PROVE p \in w
  <2>1. PICK j \in 0 .. 3 : \E i \in OneBits(CodeByte(a + j), 8) : p = 8 * j + i
    OBVIOUS
  <2>2. PICK i \in 0 .. 7 : p = 8 * j + i /\ i + 8 * j \in w
    BY <1>1, <2>1
  <2>3. p = i + 8 * j
    BY <2>1, <2>2
  <2> QED
    BY <2>2, <2>3
<1>3. ASSUME NEW p \in w PROVE p \in U
  <2>1. PICK j \in 0 .. 3, i \in 0 .. 7 : p = 8 * j + i /\ p = i + 8 * j
    <3>1. p \div 8 \in 0 .. 3 /\ p % 8 \in 0 .. 7 /\ p = 8 * (p \div 8) + (p % 8)
      OBVIOUS
    <3> QED
      BY <3>1
  <2>2. i \in OneBits(CodeByte(a + j), 8)
    BY <1>1, <2>1
  <2> QED
    BY <2>1, <2>2
<1> HIDE DEF U
<1>4. U = w
  BY <1>2, <1>3
<1> QED
  BY <1>4 DEF U, CodeWord

(* An opcode above 127 takes two bytes.                                        *)
LEMMA TwoBytes ==
  ASSUME NEW v \in 128 .. 255
  PROVE  /\ Uleb128(v) \in Seq(Octet) /\ Len(Uleb128(v)) = 2
         /\ Uleb128(v)[1] = (v % 128) + 128 /\ Uleb128(v)[2] = v \div 128
<1> DEFINE Ends(k) == v < 128^k /\ \A j \in 1 .. k - 1 : v >= 128^j
           last == CHOOSE k \in 1 .. 4 : Ends(k)
<1>1. v >= 128^1 /\ v < 128^2 /\ ~(v >= 128^2)
  OBVIOUS
<1>2. 2 \in 1 .. 4 /\ \A j \in 1 .. 2 - 1 : j = 1
  OBVIOUS
<1>3. Ends(2)
  BY <1>1, <1>2, Zenon
<1>4. \A k \in 1 .. 4 : k = 1 \/ k = 2 \/ 2 \in 1 .. k - 1
  OBVIOUS
<1>5. \A k \in 1 .. 4 : Ends(k) => k = 2
  <2>1. ~(v < 128^1)
    BY <1>1
  <2> QED
    BY <1>1, <1>4, <2>1, Zenon
<1>6. last = 2
  BY <1>2, <1>3, <1>5, Zenon
<1>7. Uleb128(v) = [k \in 1 .. last |-> ((v \div 128^(k - 1)) % 128) + IF k < last THEN 128 ELSE 0]
  BY Zenon DEF Uleb128
<1> HIDE DEF last
<1> DEFINE u == [k \in 1 .. 2 |-> ((v \div 128^(k - 1)) % 128) + IF k < 2 THEN 128 ELSE 0]
<1>8. Uleb128(v) = u
  BY <1>6, <1>7
<1>9. u[1] = (v % 128) + 128 /\ u[2] = v \div 128
  <2>1. 128^(1 - 1) = 1 /\ 128^(2 - 1) = 128
    OBVIOUS
  <2> QED
    BY <2>1
<1>10. u[1] \in Octet /\ u[2] \in Octet
  BY <1>9 DEF Octet
<1>11. u = [k \in 1 .. 2 |-> u[k]] /\ \A k \in 1 .. 2 : k = 1 \/ k = 2
  OBVIOUS
<1> HIDE DEF u
<1>12. u \in [1 .. 2 -> Octet]
  BY <1>10, <1>11
<1>13. u \in Seq(Octet) /\ Len(u) = 2
  BY <1>12, ByteSequence
<1> QED
  BY <1>8, <1>9, <1>13

LEMMA JoinBytes ==
  ASSUME NEW s \in Seq(Octet), NEW t \in Seq(Octet)
  PROVE  /\ s \o t \in Seq(Octet) /\ Len(s) \in Nat /\ Len(t) \in Nat
         /\ Len(s \o t) = Len(s) + Len(t)
         /\ \A i \in 1 .. Len(s) : (s \o t)[i] = s[i]
         /\ \A i \in 1 .. Len(t) : (s \o t)[Len(s) + i] = t[i]
<1> DEFINE u == s \o t
<1>1. /\ u \in Seq(Octet) /\ Len(u) = Len(s) + Len(t)
      /\ \A i \in 1 .. Len(s) + Len(t) : u[i] = IF i <= Len(s) THEN s[i] ELSE t[i - Len(s)]
  BY ConcatProperties, Zenon
<1> HIDE DEF u
<1>2. Len(s) \in Nat /\ Len(t) \in Nat
  BY LenProperties
<1>3. \A i \in 1 .. Len(s) : i \in 1 .. Len(s) + Len(t) /\ i <= Len(s)
  BY <1>2
<1>4. \A i \in 1 .. Len(t) : /\ Len(s) + i \in 1 .. Len(s) + Len(t) /\ ~(Len(s) + i <= Len(s))
                             /\ (Len(s) + i) - Len(s) = i
  BY <1>2
<1>5. \A i \in 1 .. Len(s) : u[i] = s[i]
  BY <1>1, <1>3, Zenon
<1>6. \A i \in 1 .. Len(t) : u[Len(s) + i] = t[i]
  <2> SUFFICES ASSUME NEW i \in 1 .. Len(t) PROVE u[Len(s) + i] = t[i]
    OBVIOUS
  <2>1. u[Len(s) + i] = t[(Len(s) + i) - Len(s)]
    BY <1>1, <1>4, Zenon
  <2> QED
    BY <1>4, <2>1, Zenon
<1> QED
  BY <1>1, <1>2, <1>5, <1>6, Zenon DEF u

(* The bytes of the escaped form: the prefix, the opcode, a zero, the word.    *)
EscapedForm(e, op, w) ==
  /\ e \in Seq(Octet) /\ Len(e) = 8 /\ e[1] = 254 /\ e[2] = (op % 128) + 128
  /\ e[3] = op \div 128 /\ e[4] = 0
  /\ \A j \in 0 .. 3 : e[5 + j] = LittleEndian(w)[j + 1]

LEMMA EscapedBytes ==
  ASSUME NEW op \in 128 .. 255, NEW w
  PROVE  EscapedForm(EmitEscape32(op, w), op, w)
<1> DEFINE e == EmitEscape32(op, w)
           prefix == <<254>>
           uleb == Uleb128(op)
           head == prefix \o uleb
           pad  == [i \in 1 .. 4 - Len(head) |-> 0]
           low  == head \o pad
           word == LittleEndian(w)
<1>1. prefix \in Seq(Octet) /\ Len(prefix) = 1 /\ prefix[1] = 254
  BY DEF Octet
<1>2. /\ uleb \in Seq(Octet) /\ Len(uleb) = 2
      /\ uleb[1] = (op % 128) + 128 /\ uleb[2] = op \div 128
  BY TwoBytes
<1>3. word \in Seq(Octet) /\ Len(word) = 4
  BY WordBytes
<1>4. e = low \o word
  BY DEF EmitEscape32, EscapePrefix
<1> HIDE DEF prefix, uleb, word, e
<1>0. prefix \in Seq(Octet) /\ uleb \in Seq(Octet) /\ word \in Seq(Octet)
  BY <1>1, <1>2, <1>3
<1>5. /\ head \in Seq(Octet) /\ Len(head) = 3
      /\ head[1] = 254 /\ head[2] = uleb[1] /\ head[3] = uleb[2]
  <2>2. /\ head \in Seq(Octet) /\ Len(head) = Len(prefix) + Len(uleb)
        /\ \A i \in 1 .. Len(prefix) : head[i] = prefix[i]
        /\ \A i \in 1 .. Len(uleb) : head[Len(prefix) + i] = uleb[i]
    BY <1>0, JoinBytes, Zenon
  <2> HIDE DEF head
  <2>3. head[1] = prefix[1] /\ head[1 + 1] = uleb[1] /\ head[1 + 2] = uleb[2]
    BY <1>1, <1>2, <2>2
  <2> QED
    BY <1>1, <1>2, <2>2, <2>3
<1>6. pad \in Seq(Octet) /\ Len(pad) = 1 /\ pad[1] = 0
  <2>1. 4 - Len(head) = 1
    BY <1>5
  <2>2. pad = [i \in 1 .. 1 |-> 0]
    BY <2>1
  <2> HIDE DEF pad
  <2>3. pad \in [1 .. 1 -> Octet] /\ pad[1] = 0
    BY <2>2 DEF Octet
  <2> QED
    BY <2>3, ByteSequence
<1> HIDE DEF head, pad
<1>7. /\ low \in Seq(Octet) /\ Len(low) = 4
      /\ low[1] = 254 /\ low[2] = uleb[1] /\ low[3] = uleb[2] /\ low[4] = 0
  <2>2. /\ low \in Seq(Octet) /\ Len(low) = Len(head) + Len(pad)
        /\ \A i \in 1 .. Len(head) : low[i] = head[i]
        /\ \A i \in 1 .. Len(pad) : low[Len(head) + i] = pad[i]
    <3>1. head \in Seq(Octet) /\ pad \in Seq(Octet)
      BY <1>5, <1>6
    <3> QED
      BY <3>1, JoinBytes, Zenon
  <2> HIDE DEF low
  <2>3. low[1] = head[1] /\ low[2] = head[2] /\ low[3] = head[3] /\ low[3 + 1] = pad[1]
    BY <1>5, <1>6, <2>2
  <2> QED
    BY <1>5, <1>6, <2>2, <2>3
<1> HIDE DEF low
<1>8. /\ e \in Seq(Octet) /\ Len(e) = Len(low) + Len(word)
      /\ \A i \in 1 .. Len(low) : e[i] = low[i]
      /\ \A i \in 1 .. Len(word) : e[Len(low) + i] = word[i]
  <2>1. /\ low \o word \in Seq(Octet) /\ Len(low \o word) = Len(low) + Len(word)
        /\ \A i \in 1 .. Len(low) : (low \o word)[i] = low[i]
        /\ \A i \in 1 .. Len(word) : (low \o word)[Len(low) + i] = word[i]
    <3>1. low \in Seq(Octet)
      BY <1>7
    <3> QED
      BY <1>0, <3>1, JoinBytes, Zenon
  <2> QED
    BY <1>4, <2>1, Zenon
<1>9. \A j \in 0 .. 3 : e[5 + j] = word[j + 1]
  <2> SUFFICES ASSUME NEW j \in 0 .. 3 PROVE e[5 + j] = word[j + 1]
    OBVIOUS
  <2>1. j + 1 \in 1 .. Len(word) /\ Len(low) + (j + 1) = 5 + j
    BY <1>3, <1>7
  <2> QED
    BY <1>8, <2>1
<1>10. /\ Len(e) = 8 /\ e[1] = 254 /\ e[2] = uleb[1] /\ e[3] = uleb[2] /\ e[4] = 0
  BY <1>3, <1>7, <1>8
<1> QED
  BY <1>2, <1>8, <1>9, <1>10 DEF word, e, EscapedForm

(* An instruction's word has its operands in the fields of its format.         *)
Func(row) == IF row[4] >= 0 THEN row[4] ELSE 0

LEMMA PayloadFields ==
  ASSUME NEW inst \in Inst, NEW row \in Base32 \cup Escape32, NEW w, w = Payload(row, inst)
  PROVE  /\ w \subseteq 0 .. 31 /\ Field(w, 25, 7) = row[2] % 128
         /\ row[3] = "R" => /\ Field(w, 20, 5) = inst.rd /\ Field(w, 15, 5) = inst.rs1
                            /\ Field(w, 10, 5) = inst.rs2 /\ Field(w, 0, 10) = Func(row)
                            /\ Field(w, 0, 8) = Func(row)
         /\ row[3] = "I" => /\ Field(w, 20, 5) = inst.rd /\ Field(w, 15, 5) = inst.rs1
                            /\ Field(w, 0, 15) = inst.imm % 2^15
         /\ row[3] = "B" => /\ Field(w, 20, 5) = inst.rs1 /\ Field(w, 15, 5) = inst.rs2
                            /\ Field(w, 0, 15) = inst.imm % 2^15
         /\ row[3] = "J" => /\ Field(w, 20, 5) = inst.rd /\ Field(w, 0, 20) = inst.imm % 2^20
         /\ row[3] # "R" => Field(w, 0, 8) = inst.imm % 256
<1>1. /\ row[2] \in 0 .. 255 /\ Func(row) \in 0 .. 7 /\ row[3] \in {"R", "I", "B", "J"}
  <2>1. CASE row \in Base32
    BY <2>1, BaseRows DEF Func
  <2>2. CASE row \in Escape32
    BY <2>2, EscapeRows DEF Func
  <2> QED
    BY <2>1, <2>2
<1>2. inst.rd \in 0 .. 31 /\ inst.rs1 \in 0 .. 31 /\ inst.rs2 \in 0 .. 31 /\ inst.imm \in Int
  BY DEF Inst
<1>3. CASE row[3] = "R"
  <2>1. w = EncodeR(row[2], inst.rd, inst.rs1, inst.rs2, Func(row))
    BY <1>3 DEF Payload, Func
  <2>2. HoldsR(EncodeR(row[2], inst.rd, inst.rs1, inst.rs2, Func(row)), row[2], inst.rd, inst.rs1, inst.rs2, Func(row))
    BY <1>1, <1>2, FieldsR
  <2>3. HoldsR(w, row[2], inst.rd, inst.rs1, inst.rs2, Func(row))
    BY <2>1, <2>2
  <2> QED
    BY <1>3, <2>3 DEF HoldsR
<1>4. CASE row[3] = "I"
  <2>1. w = EncodeI(row[2], inst.rd, inst.rs1, inst.imm)
    BY <1>4 DEF Payload
  <2>2. HoldsI(EncodeI(row[2], inst.rd, inst.rs1, inst.imm), row[2], inst.rd, inst.rs1, inst.imm)
    BY <1>1, <1>2, FieldsI
  <2>3. HoldsI(w, row[2], inst.rd, inst.rs1, inst.imm)
    BY <2>1, <2>2
  <2> QED
    BY <1>4, <2>3 DEF HoldsI
<1>5. CASE row[3] = "B"
  <2>1. w = EncodeB(row[2], inst.rs1, inst.rs2, inst.imm)
    BY <1>5 DEF Payload
  <2>2. HoldsI(EncodeB(row[2], inst.rs1, inst.rs2, inst.imm), row[2], inst.rs1, inst.rs2, inst.imm)
    BY <1>1, <1>2, FieldsB
  <2>3. HoldsI(w, row[2], inst.rs1, inst.rs2, inst.imm)
    BY <2>1, <2>2
  <2> QED
    BY <1>5, <2>3 DEF HoldsI
<1>6. CASE row[3] = "J"
  <2>1. w = EncodeJ(row[2], inst.rd, inst.imm)
    BY <1>6 DEF Payload
  <2>2. HoldsJ(EncodeJ(row[2], inst.rd, inst.imm), row[2], inst.rd, inst.imm)
    BY <1>1, <1>2, FieldsJ
  <2>3. HoldsJ(w, row[2], inst.rd, inst.imm)
    BY <2>1, <2>2
  <2> QED
    BY <1>6, <2>3 DEF HoldsJ
<1> QED
  BY <1>1, <1>3, <1>4, <1>5, <1>6

-------------------------------------------------------------------------------
(* Encoding an instruction and decoding its bytes.                             *)
LEMMA EncodedBytes ==
  ASSUME NEW inst \in Inst
  PROVE  LET row == RowOf(inst.mnemonic)
             w   == Payload(row, inst)
             e   == Encode(inst)
         IN  /\ e \in Seq(Octet)
             /\ row \in Base32 => Len(e) = 4 /\ \A j \in 0 .. 3 : e[j + 1] = LittleEndian(w)[j + 1]
             /\ row \in Escape32 =>
                  /\ Len(e) = 8 /\ e[1] = 254 /\ e[2] = (row[2] % 128) + 128 /\ e[3] = row[2] \div 128
                  /\ \A j \in 0 .. 3 : e[5 + j] = LittleEndian(w)[j + 1]
<1> DEFINE row == RowOf(inst.mnemonic)
           w   == Payload(row, inst)
           e   == Encode(inst)
<1>1. inst.mnemonic \in Mnemonics
  BY DEF Inst
<1>2. row \in Base32 \cup Escape32
  BY <1>1, RowFacts
<1>3. e = IF row \in Escape32 THEN EmitEscape32(row[2], w) ELSE LittleEndian(w)
  BY <1>1, Zenon DEF Encode, EncodeInstruction
<1> HIDE DEF row, w, e
<1>4. CASE row \in Escape32
  <2>1. row[2] \in 128 .. 255 /\ e = EmitEscape32(row[2], w)
    BY <1>3, <1>4, EscapeRows
  <2>2. row \notin Base32
    BY <1>4, <2>1, BaseRows
  <2>3. EscapedForm(e, row[2], w)
    BY <2>1, EscapedBytes
  <2> QED
    BY <2>2, <2>3, Zenon DEF EscapedForm, row, w, e
<1>5. CASE row \in Base32 /\ row \notin Escape32
  <2>1. e = LittleEndian(w)
    BY <1>3, <1>5
  <2>2. e \in Seq(Octet) /\ Len(e) = 4
    BY <2>1, WordBytes
  <2> QED
    BY <1>5, <2>1, <2>2, Zenon DEF row, w, e
<1> QED
  BY <1>2, <1>4, <1>5

LEMMA OneRow ==
  ASSUME NEW inst \in Inst, NEW row, NEW table \in {Base32, Escape32}, row \in table
  PROVE  Rows(table, row[2], Payload(row, inst)) = {row}
<1> DEFINE w == Payload(row, inst)
           func == Field(w, 0, 10)
<1>1. row[3] = "R" => func = Func(row)
  BY PayloadFields
<1>2. row[3] # "R" => row[4] = -1
  BY BaseRows, EscapeRows
<1>3. \A s \in table : Distinct(row, s)
  BY BaseApart, EscapeApart
<1>4. row[4] \in -1 .. 7 /\ \A s \in table : s[4] \in -1 .. 7
  BY BaseRows, EscapeRows
<1> HIDE DEF func
<1>5. row[4] \in {-1, func}
  BY <1>1, <1>2, <1>4 DEF Func
<1>6. ASSUME NEW s \in table, s[2] = row[2], s[4] \in {-1, func} PROVE s = row
  BY <1>1, <1>2, <1>3, <1>4, <1>6 DEF Func, Distinct
<1>7. Rows(table, row[2], w) = {s \in table : s[2] = row[2] /\ s[4] \in {-1, func}}
  BY DEF Rows, func
<1> HIDE DEF w
<1>8. Rows(table, row[2], w) = {row}
  BY <1>5, <1>6, <1>7
<1> QED
  BY <1>8 DEF w

LEMMA JumpNames == ASSUME NEW row \in Base32 \cup Escape32, row[3] = "J" PROVE row[1] \notin Unsigned
BY SMTT(60) DEF Base32, Escape32, Unsigned

(* An immediate that fits comes back out of its field.                         *)
LEMMA ImmediateBack ==
  ASSUME NEW inst \in Inst, Fits(inst)
  PROVE  LET format == RowOf(inst.mnemonic)[3]
             imm == IF inst.mnemonic \in Unsigned THEN SignExtend(inst.imm, 15) ELSE inst.imm
         IN  /\ format \in {"I", "B"} => SignExtend(inst.imm % 2^15, 15) = imm
             /\ format = "J" => SignExtend(inst.imm % 2^20, 20) = imm
<1> DEFINE row == RowOf(inst.mnemonic)
<1>1. inst.mnemonic \in Mnemonics /\ inst.imm \in Int
  BY DEF Inst
<1>2. row \in Base32 \cup Escape32 /\ row[1] = inst.mnemonic
  BY <1>1, RowFacts
<1>3. row[3] = "J" => inst.mnemonic \notin Unsigned
  BY <1>2, JumpNames
<1>4. ASSUME row[3] = "J" PROVE inst.imm \in -(2^19) .. 2^19 - 1
  BY <1>4 DEF Fits
<1>5. ASSUME row[3] \in {"I", "B"}
      PROVE  inst.imm \in IF inst.mnemonic \in Unsigned THEN 0 .. 2^15 - 1 ELSE -(2^14) .. 2^14 - 1
  BY <1>5 DEF Fits
<1>6. ASSUME NEW v \in -(2^19) .. 2^19 - 1 PROVE SignExtend(v % 2^20, 20) = v
  BY TwoToTable DEF SignExtend
<1>7. ASSUME NEW v \in -(2^14) .. 2^14 - 1 PROVE SignExtend(v % 2^15, 15) = v
  BY TwoToTable DEF SignExtend
<1>8. ASSUME NEW v \in 0 .. 2^15 - 1 PROVE v % 2^15 = v
  OBVIOUS
<1> HIDE DEF row
<1>9. row[3] = "J" => SignExtend(inst.imm % 2^20, 20) = inst.imm
  BY <1>4, <1>6, Zenon
<1>10. row[3] \in {"I", "B"} /\ inst.mnemonic \notin Unsigned => SignExtend(inst.imm % 2^15, 15) = inst.imm
  BY <1>5, <1>7
<1>11. row[3] \in {"I", "B"} /\ inst.mnemonic \in Unsigned => inst.imm % 2^15 = inst.imm
  BY <1>5, <1>8
<1> QED
  BY <1>3, <1>9, <1>10, <1>11, Zenon DEF row

(* The fields of an instruction's word say the instruction.                    *)
LEMMA FieldsSay ==
  ASSUME NEW inst \in Inst, Fits(inst), NEW len
  PROVE  LET di == Fields(RowOf(inst.mnemonic), Payload(RowOf(inst.mnemonic), inst), len)
         IN  Says(di, inst) /\ di.len = len
<1> DEFINE row == RowOf(inst.mnemonic)
           w   == Payload(row, inst)
           di  == Fields(row, w, len)
           imm == IF inst.mnemonic \in Unsigned THEN SignExtend(inst.imm, 15) ELSE inst.imm
<1>1. row \in Base32 \cup Escape32 /\ row[1] = inst.mnemonic
  BY RowFacts DEF Inst
<1>2. row[3] \in {"R", "I", "B", "J"}
  BY <1>1, BaseRows, EscapeRows
<1>3. /\ row[3] \in {"I", "B"} => SignExtend(inst.imm % 2^15, 15) = imm
      /\ row[3] = "J" => SignExtend(inst.imm % 2^20, 20) = imm
  BY ImmediateBack
<1>4. /\ row[3] = "R" => Field(w, 20, 5) = inst.rd /\ Field(w, 15, 5) = inst.rs1 /\ Field(w, 10, 5) = inst.rs2
      /\ row[3] = "I" => /\ Field(w, 20, 5) = inst.rd /\ Field(w, 15, 5) = inst.rs1
                         /\ Field(w, 0, 15) = inst.imm % 2^15
      /\ row[3] = "B" => /\ Field(w, 20, 5) = inst.rs1 /\ Field(w, 15, 5) = inst.rs2
                         /\ Field(w, 0, 15) = inst.imm % 2^15
      /\ row[3] = "J" => Field(w, 20, 5) = inst.rd /\ Field(w, 0, 20) = inst.imm % 2^20
  BY <1>1, PayloadFields
<1>5. Says(di, inst) <=> /\ di.op = inst.mnemonic
                         /\ row[3] \in {"R", "I", "J"} => di.rd = inst.rd
                         /\ row[3] \in {"R", "I", "B"} => di.rs1 = inst.rs1
                         /\ row[3] \in {"R", "B"} => di.rs2 = inst.rs2
                         /\ row[3] \in {"I", "B", "J"} => di.imm = imm
  BY Zenon DEF Says
<1> HIDE DEF row, w, imm
<1>6. CASE row[3] = "R"
  <2>1. di = DecodedInst(row[1], Field(w, 20, 5), Field(w, 15, 5), Field(w, 10, 5), 0, len)
    BY <1>6 DEF Fields
  <2> HIDE DEF di
  <2>2. /\ di.op = inst.mnemonic /\ di.rd = inst.rd /\ di.rs1 = inst.rs1 /\ di.rs2 = inst.rs2 /\ di.len = len
    BY <1>1, <1>4, <1>6, <2>1 DEF DecodedInst
  <2> QED
    BY <1>5, <1>6, <2>2 DEF di, row, w
<1>7. CASE row[3] = "I"
  <2>1. di = DecodedInst(row[1], Field(w, 20, 5), Field(w, 15, 5), 0, SignExtend(Field(w, 0, 15), 15), len)
    BY <1>7 DEF Fields
  <2> HIDE DEF di
  <2>2. /\ di.op = inst.mnemonic /\ di.rd = inst.rd /\ di.rs1 = inst.rs1 /\ di.imm = imm /\ di.len = len
    BY <1>1, <1>3, <1>4, <1>7, <2>1 DEF DecodedInst
  <2> QED
    BY <1>5, <1>7, <2>2 DEF di, row, w
<1>8. CASE row[3] = "B"
  <2>1. di = DecodedInst(row[1], 0, Field(w, 20, 5), Field(w, 15, 5), SignExtend(Field(w, 0, 15), 15), len)
    BY <1>8 DEF Fields
  <2> HIDE DEF di
  <2>2. /\ di.op = inst.mnemonic /\ di.rs1 = inst.rs1 /\ di.rs2 = inst.rs2 /\ di.imm = imm /\ di.len = len
    BY <1>1, <1>3, <1>4, <1>8, <2>1 DEF DecodedInst
  <2> QED
    BY <1>5, <1>8, <2>2 DEF di, row, w
<1>9. CASE row[3] = "J"
  <2>1. di = DecodedInst(row[1], Field(w, 20, 5), 0, 0, SignExtend(Field(w, 0, 20), 20), len)
    BY <1>9 DEF Fields
  <2> HIDE DEF di
  <2>2. /\ di.op = inst.mnemonic /\ di.rd = inst.rd /\ di.imm = imm /\ di.len = len
    BY <1>1, <1>3, <1>4, <1>9, <2>1 DEF DecodedInst
  <2> QED
    BY <1>5, <1>9, <2>2 DEF di, row, w
<1> QED
  BY <1>2, <1>6, <1>7, <1>8, <1>9

(* Where the code has an instruction's bytes, the instruction is decoded.      *)
Spells(a, e) == \A j \in 0 .. Len(e) - 1 : CodeByte(a + j) = e[j + 1]

LEMMA DecodeBack ==
  ASSUME NEW inst \in Inst, Fits(inst), ~Escapes(inst), NEW a \in Nat, Spells(a, Encode(inst))
  PROVE  Says(Decode(a), inst) /\ Decode(a).len = Len(Encode(inst))
<1> DEFINE row == RowOf(inst.mnemonic)
           w   == Payload(row, inst)
           e   == Encode(inst)
<1>1. row \in Base32 \cup Escape32
  BY RowFacts DEF Inst
<1>2. w \in SUBSET (0 .. 31) /\ Field(w, 25, 7) = row[2] % 128
  BY <1>1, PayloadFields
<1>3. /\ row[3] = "R" => Field(w, 0, 8) = Func(row)
      /\ row[3] # "R" => Field(w, 0, 8) = inst.imm % 256
  BY <1>1, PayloadFields
<1>4. row \in Base32 /\ row[3] # "R" => inst.imm % 256 # 254
  BY DEF Escapes, EscapePrefix
<1>5. \A len : LET di == Fields(row, w, len) IN Says(di, inst) /\ di.len = len
  BY FieldsSay, Zenon
<1>6. /\ row \in Base32 => Rows(Base32, row[2], w) = {row}
      /\ row \in Escape32 => Rows(Escape32, row[2], w) = {row}
  BY OneRow
<1>7. (CHOOSE r \in {row} : TRUE) = row
  OBVIOUS
<1>8. /\ row \in Base32 => Len(e) = 4 /\ \A j \in 0 .. 3 : e[j + 1] = LittleEndian(w)[j + 1]
      /\ row \in Escape32 =>
           /\ Len(e) = 8 /\ e[1] = 254 /\ e[2] = (row[2] % 128) + 128 /\ e[3] = row[2] \div 128
           /\ \A j \in 0 .. 3 : e[5 + j] = LittleEndian(w)[j + 1]
  BY EncodedBytes, Zenon
<1>9. \A j \in 0 .. Len(e) - 1 : CodeByte(a + j) = e[j + 1]
  BY Zenon DEF Spells
<1> HIDE DEF row, w, e
<1>10. CASE row \in Base32
  <2>1. Len(e) = 4 /\ \A j \in 0 .. 3 : CodeByte(a + j) = LittleEndian(w)[j + 1]
    <3>1. Len(e) = 4 /\ \A j \in 0 .. 3 : e[j + 1] = LittleEndian(w)[j + 1]
      BY <1>8, <1>10, Zenon
    <3>2. \A j \in 0 .. 3 : j \in 0 .. Len(e) - 1
      BY <3>1
    <3> QED
      BY <1>9, <3>1, <3>2, Zenon
  <2>2. CodeWord(a) = w
    BY <1>2, <2>1, BytesWord
  <2>3. ~Escaped(a)
    <3>1. CodeByte(a) = LittleEndian(w)[0 + 1]
      BY <2>1
    <3>2. LittleEndian(w)[0 + 1] = Field(w, 8 * 0, 8)
      <4>1. 0 \in 0 .. 3
        OBVIOUS
      <4> QED
        BY <4>1, WordBytes, Zenon
    <3>3. CodeByte(a) = Field(w, 0, 8)
      BY <3>1, <3>2
    <3>4. row[4] \in -1 .. 7
      BY <1>10, BaseRows
    <3> QED
      BY <1>3, <1>4, <1>10, <3>3, <3>4 DEF Escaped, EscapePrefix, Func
  <2>4. row[2] % 128 = row[2]
    BY <1>10, BaseRows
  <2>5. Decode(a) = Fields(row, w, 4)
    BY <1>2, <1>6, <1>7, <1>10, <2>2, <2>3, <2>4 DEF Decode
  <2> QED
    BY <1>5, <2>1, <2>5 DEF row, w, e
<1>11. CASE row \in Escape32
  <2>1. Len(e) = 8 /\ CodeByte(a) = 254 /\ CodeByte(a + 1) = (row[2] % 128) + 128
        /\ CodeByte((a + 1) + 1) = row[2] \div 128
    <3>1. Len(e) = 8 /\ e[1] = 254 /\ e[2] = (row[2] % 128) + 128 /\ e[3] = row[2] \div 128
      BY <1>8, <1>11
    <3>2. 0 \in 0 .. Len(e) - 1 /\ 1 \in 0 .. Len(e) - 1 /\ 2 \in 0 .. Len(e) - 1
      BY <3>1
    <3>3. CodeByte(a + 0) = e[0 + 1] /\ CodeByte(a + 1) = e[1 + 1] /\ CodeByte(a + 2) = e[2 + 1]
      BY <1>9, <3>2, Zenon
    <3>4. a + 0 = a /\ a + 2 = (a + 1) + 1
      OBVIOUS
    <3> QED
      BY <3>1, <3>3, <3>4
  <2>2. \A j \in 0 .. 3 : CodeByte((a + 4) + j) = LittleEndian(w)[j + 1]
    <3> SUFFICES ASSUME NEW j \in 0 .. 3 PROVE CodeByte((a + 4) + j) = LittleEndian(w)[j + 1]
      OBVIOUS
    <3>1. 4 + j \in 0 .. Len(e) - 1 /\ a + (4 + j) = (a + 4) + j /\ (4 + j) + 1 = 5 + j
      BY <2>1
    <3>2. CodeByte(a + (4 + j)) = e[(4 + j) + 1]
      BY <1>9, <3>1
    <3> QED
      BY <1>8, <1>11, <3>1, <3>2
  <2>3. CodeWord(a + 4) = w
    BY <1>2, <2>2, BytesWord
  <2>4. Escaped(a)
    BY <2>1 DEF Escaped, EscapePrefix
  <2>5. CodeUleb(a + 1) = row[2]
    <3>1. row[2] \in 128 .. 255
      BY <1>11, EscapeRows
    <3> QED
      BY <2>1, <3>1 DEF CodeUleb
  <2>6. Decode(a) = Fields(row, w, 8)
    BY <1>6, <1>7, <1>11, <2>3, <2>4, <2>5 DEF Decode
  <2> QED
    BY <1>5, <2>1, <2>6 DEF row, w, e
<1> QED
  BY <1>1, <1>10, <1>11

-------------------------------------------------------------------------------
(* The invariant: the code is the encoded instructions, one after another.     *)
Places(at, p, n, c) ==
  /\ at \in [0 .. n -> Nat] /\ at[0] = 0 /\ at[n] = Len(c)
  /\ \A k \in 1 .. n :
       /\ at[k] = at[k - 1] + Len(Encode(p[k])) /\ at[k] <= Len(c)
       /\ \A j \in 0 .. Len(Encode(p[k])) - 1 : c[(at[k - 1] + j) + 1] = Encode(p[k])[j + 1]

CodeInv ==
  /\ program \in Seq(Inst) /\ encoded \in 0 .. Len(program) /\ code \in Seq(Octet)
  /\ \E at : Places(at, program, encoded, code)

LEMMA EncodeType == ASSUME NEW inst \in Inst PROVE Encode(inst) \in Seq(Octet)
BY EncodedBytes, Zenon

LEMMA CodeInitInv == CodeInit => CodeInv
<1> SUFFICES ASSUME CodeInit PROVE CodeInv
  OBVIOUS
<1>1. encoded = 0 /\ code = <<>>
  BY DEF CodeInit
<1>2. program \in Seq(Inst)
  BY StartsAssumption DEF CodeInit
<1>3. Len(program) \in Nat
  BY <1>2, LenProperties
<1>4. code \in Seq(Octet) /\ Len(code) = 0
  BY <1>1
<1> DEFINE at == [k \in 0 .. 0 |-> 0]
<1>5. Places(at, program, encoded, code)
  <2>1. at \in [0 .. encoded -> Nat] /\ at[0] = 0 /\ at[encoded] = Len(code)
    BY <1>1, <1>4
  <2>2. \A k \in 1 .. encoded : FALSE
    BY <1>1
  <2> HIDE DEF at
  <2> QED
    BY <2>1, <2>2, Zenon DEF Places
<1> HIDE DEF at
<1> QED
  BY <1>1, <1>2, <1>3, <1>4, <1>5 DEF CodeInv

LEMMA EncodeNextPlaces ==
  ASSUME CodeInv, EncodeNext
  PROVE  CodeInv'
<1> DEFINE inst == program[encoded + 1]
           e    == Encode(inst)
<1>0. /\ program \in Seq(Inst) /\ encoded \in 0 .. Len(program) /\ code \in Seq(Octet)
      /\ Len(program) \in Nat /\ Len(code) \in Nat
  BY LenProperties DEF CodeInv
<1>1. PICK at : Places(at, program, encoded, code)
  BY Zenon DEF CodeInv
<1>2. program' = program /\ encoded' = encoded + 1 /\ code' = code \o e /\ encoded < Len(program)
  BY Zenon DEF EncodeNext
<1>3. encoded + 1 \in 1 .. Len(program)
  BY <1>0, <1>2
<1>4. inst \in Inst
  BY <1>0, <1>3, ElementOfSeq
<1>5. e \in Seq(Octet)
  BY <1>4, EncodeType
<1> HIDE DEF inst, e
<1>6. /\ code' \in Seq(Octet) /\ Len(e) \in Nat /\ Len(code') = Len(code) + Len(e)
      /\ \A i \in 1 .. Len(code) : code'[i] = code[i]
      /\ \A i \in 1 .. Len(e) : code'[Len(code) + i] = e[i]
  <2>1. code \in Seq(Octet)
    BY <1>0
  <2>2. code' = code \o e
    BY <1>2
  <2> QED
    BY <1>5, <2>1, <2>2, JoinBytes, Zenon
<1>14. PICK to : to = [k \in 0 .. encoded + 1 |-> IF k = encoded + 1 THEN Len(code) + Len(e) ELSE at[k]]
  OBVIOUS
<1>7. /\ at \in [0 .. encoded -> Nat] /\ at[0] = 0 /\ at[encoded] = Len(code)
      /\ \A k \in 1 .. encoded :
           /\ at[k] = at[k - 1] + Len(Encode(program[k])) /\ at[k] <= Len(code)
           /\ \A j \in 0 .. Len(Encode(program[k])) - 1 :
                code[(at[k - 1] + j) + 1] = Encode(program[k])[j + 1]
  BY <1>1, Zenon DEF Places
<1>8. /\ \A k \in 0 .. encoded : to[k] = at[k] /\ to[k] \in Nat
      /\ to[encoded + 1] = Len(code) + Len(e) /\ to[encoded] = Len(code)
      /\ to \in [0 .. encoded + 1 -> Nat] /\ to[0] = 0
  BY <1>0, <1>6, <1>7, <1>14
<1>9. ASSUME NEW k \in 1 .. encoded + 1
      PROVE  /\ to[k] = to[k - 1] + Len(Encode(program[k])) /\ to[k] <= Len(code')
             /\ \A j \in 0 .. Len(Encode(program[k])) - 1 :
                  code'[(to[k - 1] + j) + 1] = Encode(program[k])[j + 1]
  <2>1. CASE k = encoded + 1
    <3>0. Len(e) \in Nat /\ Len(code) \in Nat
      BY <1>0, <1>6
    <3>1. Encode(program[k]) = e /\ k - 1 = encoded
      BY <1>0, <2>1 DEF e, inst
    <3>2. to[k] = to[k - 1] + Len(e) /\ to[k] <= Len(code') /\ to[k - 1] = Len(code)
      <4>1. Len(code') = Len(code) + Len(e)
        BY <1>6
      <4>2. to[k] = Len(code) + Len(e) /\ to[k - 1] = Len(code)
        BY <1>8, <2>1, <3>1
      <4> QED
        BY <3>0, <4>1, <4>2
    <3>3. ASSUME NEW j \in 0 .. Len(e) - 1 PROVE code'[(to[k - 1] + j) + 1] = e[j + 1]
      <4>1. j + 1 \in 1 .. Len(e) /\ (to[k - 1] + j) + 1 = Len(code) + (j + 1)
        BY <3>0, <3>2
      <4>2. code'[Len(code) + (j + 1)] = e[j + 1]
        BY <1>6, <4>1
      <4> QED
        BY <4>1, <4>2, Zenon
    <3> QED
      BY <3>1, <3>2, <3>3, Zenon
  <2>2. CASE k # encoded + 1
    <3> DEFINE d == Encode(program[k])
    <3>1. k \in 1 .. encoded /\ k \in 0 .. encoded /\ k - 1 \in 0 .. encoded /\ k \in 1 .. Len(program)
      BY <1>0, <2>2
    <3>2. program[k] \in Inst
      BY <1>0, <3>1, ElementOfSeq
    <3>3. d \in Seq(Octet)
      BY <3>2, EncodeType
    <3> HIDE DEF d
    <3>4. Len(d) \in Nat
      BY <3>3, LenProperties
    <3>5. /\ at[k] = at[k - 1] + Len(d) /\ at[k] <= Len(code)
          /\ \A j \in 0 .. Len(d) - 1 : code[(at[k - 1] + j) + 1] = d[j + 1]
      BY <1>7, <3>1, Zenon DEF d
    <3>6. to[k] = at[k] /\ to[k - 1] = at[k - 1] /\ to[k] \in Nat /\ to[k - 1] \in Nat
      BY <1>8, <3>1
    <3>7. to[k] = to[k - 1] + Len(d) /\ to[k] <= Len(code')
      BY <1>0, <1>6, <3>5, <3>6
    <3>8. ASSUME NEW j \in 0 .. Len(d) - 1 PROVE code'[(to[k - 1] + j) + 1] = d[j + 1]
      <4>1. (to[k - 1] + j) + 1 \in 1 .. Len(code)
        <5>1. at[k] <= Len(code) /\ Len(code) \in Nat /\ to[k] = at[k] /\ to[k - 1] \in Nat
          BY <1>0, <3>5, <3>6
        <5>2. to[k] = to[k - 1] + Len(d)
          BY <3>7
        <5> QED
          BY <3>4, <5>1, <5>2
      <4>2. code[(to[k - 1] + j) + 1] = d[j + 1]
        <5>1. code[(at[k - 1] + j) + 1] = d[j + 1]
          BY <3>5, Zenon
        <5>2. to[k - 1] = at[k - 1]
          BY <3>6
        <5> QED
          BY <5>1, <5>2, Zenon
      <4> QED
        BY <1>6, <4>1, <4>2, Zenon
    <3> QED
      BY <3>7, <3>8, Zenon DEF d
  <2> QED
    BY <2>1, <2>2
<1>10. Places(to, program', encoded', code')
  <2>1. to \in [0 .. encoded' -> Nat] /\ to[0] = 0 /\ to[encoded'] = Len(code')
    BY <1>2, <1>6, <1>8
  <2>2. \A k \in 1 .. encoded' :
          /\ to[k] = to[k - 1] + Len(Encode(program'[k])) /\ to[k] <= Len(code')
          /\ \A j \in 0 .. Len(Encode(program'[k])) - 1 :
               code'[(to[k - 1] + j) + 1] = Encode(program'[k])[j + 1]
    <3>1. program' = program /\ encoded' = encoded + 1
      BY <1>2
    <3> QED
      BY <1>9, <3>1, Zenon
  <2> QED
    BY <2>1, <2>2, Zenon DEF Places
<1>11. encoded' \in 0 .. Len(program')
  BY <1>0, <1>2
<1> QED
  BY <1>0, <1>2, <1>6, <1>10, <1>11 DEF CodeInv

LEMMA CodeStepInv == CodeInv /\ [CodeNext]_codeVars => CodeInv'
<1> SUFFICES ASSUME CodeInv, [CodeNext]_codeVars PROVE CodeInv'
  OBVIOUS
<1>1. ASSUME UNCHANGED <<program, encoded, code>> PROVE CodeInv'
  <2>1. PICK at : Places(at, program, encoded, code)
    BY Zenon DEF CodeInv
  <2>2. program' = program /\ encoded' = encoded /\ code' = code
    BY <1>1
  <2>3. Places(at, program', encoded', code')
    BY <2>1, <2>2
  <2> QED
    BY <2>2, <2>3 DEF CodeInv
<1>2. CASE EncodeNext
  BY <1>2, EncodeNextPlaces
<1>3. CASE Run
  BY <1>1, <1>3 DEF Run, Compute, Killed, LoadData, StoreData, ThrowsAt, Invalid, Retire, Stop
<1>4. CASE Over
  BY <1>1, <1>4 DEF Over, codeVars
<1>5. CASE UNCHANGED codeVars
  BY <1>1, <1>5 DEF codeVars
<1> QED
  BY <1>2, <1>3, <1>4, <1>5 DEF CodeNext

-------------------------------------------------------------------------------
(* A reader finds the instructions where they are.                             *)
Reads(at) == at = [k \in 0 .. encoded |-> IF k = 0 THEN 0 ELSE at[k - 1] + Decode(at[k - 1]).len]

LEMMA ReadableFits ==
  ASSUME NEW p \in Seq(Inst), NEW n \in 0 .. Len(p), Readable(SubSeq(p, 1, n)), NEW k \in 1 .. n
  PROVE  p[k] \in Inst /\ Fits(p[k]) /\ ~Escapes(p[k])
<1>0. Len(p) \in Nat
  BY LenProperties
<1>1. p[k] \in Inst /\ \A i \in 1 .. n : p[i] \in Inst
  BY <1>0, ElementOfSeq
<1>2. Len(SubSeq(p, 1, n)) = n /\ SubSeq(p, 1, n)[k] = p[k]
  BY <1>0
<1> QED
  BY <1>1, <1>2, Zenon DEF Readable

(* Each instruction is found where it was placed.                              *)
LEMMA FoundAt ==
  ASSUME CodeInv, NEW at, Places(at, program, encoded, code), NEW k \in 1 .. encoded,
         Fits(program[k]), ~Escapes(program[k])
  PROVE  /\ program[k] \in Inst /\ at[k - 1] \in Nat /\ Says(Decode(at[k - 1]), program[k])
         /\ at[k] = at[k - 1] + Decode(at[k - 1]).len
<1> DEFINE inst == program[k]
           e    == Encode(inst)
<1>0. /\ program \in Seq(Inst) /\ encoded \in 0 .. Len(program) /\ code \in Seq(Octet)
      /\ Len(program) \in Nat /\ Len(code) \in Nat /\ encoded \in Nat
  BY LenProperties DEF CodeInv
<1>1. /\ at \in [0 .. encoded -> Nat]
      /\ at[k] = at[k - 1] + Len(e) /\ at[k] <= Len(code)
      /\ \A j \in 0 .. Len(e) - 1 : code[(at[k - 1] + j) + 1] = e[j + 1]
  BY Zenon DEF Places
<1>2. inst \in Inst
  BY <1>0, ElementOfSeq
<1>3. e \in Seq(Octet)
  BY <1>2, EncodeType
<1>4. Fits(inst) /\ ~Escapes(inst)
  OBVIOUS
<1>9. at[k - 1] \in Nat
  BY <1>0, <1>1
<1> HIDE DEF e, inst
<1>5. Len(e) \in Nat
  BY <1>3, LenProperties
<1>6. Spells(at[k - 1], e)
  <2> SUFFICES ASSUME NEW j \in 0 .. Len(e) - 1 PROVE CodeByte(at[k - 1] + j) = e[j + 1]
    BY DEF Spells
  <2>1. at[k - 1] + j < Len(code)
    BY <1>0, <1>1, <1>5, <1>9
  <2>2. CodeByte(at[k - 1] + j) = code[(at[k - 1] + j) + 1]
    BY <2>1, Zenon DEF CodeByte
  <2> QED
    BY <1>1, <2>2
<1>7. Says(Decode(at[k - 1]), inst) /\ Decode(at[k - 1]).len = Len(e)
  BY <1>2, <1>4, <1>6, <1>9, DecodeBack DEF e
<1> QED
  BY <1>1, <1>2, <1>7, <1>9 DEF inst

LEMMA CodeInvReadsBack == CodeInv => ReadsBack
<1> SUFFICES ASSUME CodeInv, Readable(SubSeq(program, 1, encoded))
             PROVE  /\ Reading[encoded] = Len(code)
                    /\ \A k \in 1 .. encoded : Says(Decode(Reading[k - 1]), program[k])
  BY Zenon DEF ReadsBack
<1>0. /\ program \in Seq(Inst) /\ encoded \in 0 .. Len(program) /\ code \in Seq(Octet)
      /\ Len(program) \in Nat /\ Len(code) \in Nat /\ encoded \in Nat
  BY LenProperties DEF CodeInv
<1>1. PICK at : Places(at, program, encoded, code)
  BY Zenon DEF CodeInv
<1>2. /\ at \in [0 .. encoded -> Nat] /\ at[0] = 0 /\ at[encoded] = Len(code)
      /\ \A k \in 1 .. encoded :
           /\ at[k] = at[k - 1] + Len(Encode(program[k])) /\ at[k] <= Len(code)
           /\ \A j \in 0 .. Len(Encode(program[k])) - 1 :
                code[(at[k - 1] + j) + 1] = Encode(program[k])[j + 1]
  BY <1>1, Zenon DEF Places
<1>3. ASSUME NEW k \in 1 .. encoded
      PROVE  Says(Decode(at[k - 1]), program[k]) /\ at[k] = at[k - 1] + Decode(at[k - 1]).len
  <2>1. program[k] \in Inst /\ Fits(program[k]) /\ ~Escapes(program[k])
    BY <1>0, ReadableFits
  <2> QED
    BY <1>1, <2>1, FoundAt
<1>4. Reads(at)
  <2>1. ASSUME NEW k \in 0 .. encoded
        PROVE  at[k] = IF k = 0 THEN 0 ELSE at[k - 1] + Decode(at[k - 1]).len
    <3>1. k = 0 \/ k \in 1 .. encoded
      BY <1>0
    <3> QED
      BY <1>2, <1>3, <3>1
  <2>2. at = [k \in 0 .. encoded |-> at[k]]
    BY <1>2
  <2> QED
    BY <2>1, <2>2 DEF Reads
<1>5. Reading = CHOOSE r : Reads(r)
  BY Zenon DEF Reading, Reads
<1>6. Reads(Reading)
  BY <1>4, <1>5, Zenon
<1> DEFINE r == Reading
<1>7. \A k \in 0 .. encoded : r[k] = IF k = 0 THEN 0 ELSE r[k - 1] + Decode(r[k - 1]).len
  BY <1>6, Zenon DEF Reads
<1> HIDE DEF r
<1> DEFINE T == {k \in 0 .. encoded : r[k] = at[k]}
<1>8. 0 \in T
  BY <1>0, <1>2, <1>7
<1>9. ASSUME NEW k \in 0 .. encoded - 1, k \in T PROVE k + 1 \in T
  <2>1. k + 1 \in 1 .. encoded /\ (k + 1) - 1 = k /\ k + 1 # 0 /\ k + 1 \in 0 .. encoded
    BY <1>0
  <2>2. r[k + 1] = r[k] + Decode(r[k]).len
    BY <1>7, <2>1
  <2>3. at[k + 1] = at[k] + Decode(at[k]).len
    BY <1>3, <2>1
  <2> QED
    BY <1>9, <2>1, <2>2, <2>3
<1> HIDE DEF T
<1>10. 0 .. encoded \subseteq T
  BY <1>0, <1>8, <1>9, CountUp
<1>11. \A k \in 0 .. encoded : r[k] = at[k]
  BY <1>10 DEF T
<1>12. r[encoded] = Len(code)
  BY <1>0, <1>2, <1>11
<1>13. \A k \in 1 .. encoded : Says(Decode(r[k - 1]), program[k])
  <2> SUFFICES ASSUME NEW k \in 1 .. encoded PROVE Says(Decode(r[k - 1]), program[k])
    OBVIOUS
  <2>1. k - 1 \in 0 .. encoded
    BY <1>0
  <2>2. r[k - 1] = at[k - 1]
    BY <1>11, <2>1
  <2> QED
    BY <1>3, <2>2
<1> QED
  BY <1>12, <1>13 DEF r

(* For every program whose immediates fit and whose words do not look like an  *)
(* escape prefix, a reader of the section's bytes finds the program: encoder.h.*)
THEOREM ProgramReadsBack == CodeSpec => []ReadsBack
<1>1. CodeInit => CodeInv
  BY CodeInitInv
<1>2. CodeInv /\ [CodeNext]_codeVars => CodeInv'
  BY CodeStepInv
<1>3. CodeInv => ReadsBack
  BY CodeInvReadsBack
<1> QED
  BY <1>1, <1>2, <1>3, PTL DEF CodeSpec

-------------------------------------------------------------------------------
(* Words and their signed readings.                                            *)
Modulus == TwoTo[WordBits]
Half    == TwoTo[WordBits - 1]

LEMMA WordFacts ==
  /\ WordBits \in Nat /\ WordBits >= 15 /\ ByteBits \in Nat \ {0}
  /\ Half \in Nat \ {0} /\ Modulus \in Nat \ {0} /\ Modulus = 2 * Half
  /\ Word = 0 .. Modulus - 1 /\ AllOnes = Modulus - 1
<1>1. WordBits \in Nat /\ WordBits >= 15 /\ ByteBits \in Nat \ {0}
  BY WordAssumption, ByteAssumption DEF WordBits
<1>2. WordBits - 1 \in Nat /\ (WordBits - 1) + 1 = WordBits
  BY <1>1
<1>3. /\ TwoTo[WordBits - 1] \in Nat \ {0} /\ TwoTo[WordBits] \in Nat \ {0}
      /\ TwoTo[WordBits] = 2 * TwoTo[WordBits - 1]
  BY <1>1, <1>2, TwoToNext
<1> QED
  BY <1>1, <1>3 DEF Half, Modulus, Word, AllOnes

LEMMA SignedFacts ==
  ASSUME NEW a \in Word
  PROVE  /\ Signed(a) = IF a >= Half THEN a - Modulus ELSE a
         /\ Signed(a) \in -Half .. Half - 1 /\ Signed(a) \in Int
         /\ Signed(a) < 0 <=> a >= Half
         /\ Signed(a) = 0 <=> a = 0
         /\ a \in Int
<1>1. Signed(a) = IF a >= Half THEN a - Modulus ELSE a
  BY DEF Signed, SignExtend, Half, Modulus
<1>2. Half \in Nat \ {0} /\ Modulus = 2 * Half /\ a \in 0 .. Modulus - 1
  BY WordFacts
<1> QED
  BY <1>1, <1>2

LEMMA WrapFacts ==
  ASSUME NEW x \in Int
  PROVE  /\ Wrap(x) \in Word /\ Wrap(x) = x % Modulus
         /\ x = Modulus * (x \div Modulus) + Wrap(x) /\ x \div Modulus \in Int
<1>1. Wrap(x) = x % Modulus
  BY DEF Wrap, Modulus
<1>2. Modulus \in Nat \ {0} /\ Word = 0 .. Modulus - 1
  BY WordFacts
<1> QED
  BY <1>1, <1>2, Division

LEMMA Multiple ==
  ASSUME NEW p \in Nat \ {0}, NEW q \in Int
  PROVE  (p * q) % p = 0 /\ (p * q) \div p = q
<1>1. 0 \in 0 .. p - 1 /\ p * q + 0 = p * q
  OBVIOUS
<1> QED
  BY <1>1, DivisionUnique

(* Wrapping keeps a value that has a signed reading, and any other to within a *)
(* multiple of the modulus.                                                    *)
LEMMA SignedWrap ==
  ASSUME NEW x \in Int
  PROVE  /\ x \in -Half .. Half - 1 => Signed(Wrap(x)) = x
         /\ \E q \in Int : Signed(Wrap(x)) - x = Modulus * q
<1> DEFINE w == Wrap(x)
           q == x \div Modulus
<1>1. w \in Word /\ x = Modulus * q + w /\ q \in Int /\ w \in 0 .. Modulus - 1
  BY WrapFacts, WordFacts
<1>2. Signed(w) = IF w >= Half THEN w - Modulus ELSE w
  BY <1>1, SignedFacts
<1>3. Half \in Nat \ {0} /\ Modulus = 2 * Half
  BY WordFacts
<1> HIDE DEF w, q
<1>4. ASSUME x \in -Half .. Half - 1 PROVE Signed(w) = x
  <2>1. q = 0 \/ q = -1
    <3>1. CASE q >= 1
      <4>1. Modulus * q >= Modulus
        BY <1>1, <1>3, <3>1
      <4> QED
        BY <1>1, <1>3, <1>4, <4>1
    <3>2. CASE q <= -2
      <4>1. Modulus * q <= Modulus * (-2)
        BY <1>1, <1>3, <3>2
      <4> QED
        BY <1>1, <1>3, <1>4, <4>1
    <3> QED
      BY <1>1, <3>1, <3>2
  <2>2. CASE q = 0
    BY <1>1, <1>2, <1>3, <1>4, <2>2
  <2>3. CASE q = -1
    BY <1>1, <1>2, <1>3, <1>4, <2>3
  <2> QED
    BY <2>1, <2>2, <2>3
<1>5. \E c \in Int : Signed(w) - x = Modulus * c
  <2>1. CASE w >= Half
    <3>1. Signed(w) - x = Modulus * (-1 - q) /\ -1 - q \in Int
      BY <1>1, <1>2, <1>3, <2>1
    <3> QED
      BY <3>1
  <2>2. CASE ~(w >= Half)
    <3>1. Signed(w) - x = Modulus * (-q) /\ -q \in Int
      BY <1>1, <1>2, <1>3, <2>2
    <3> QED
      BY <3>1
  <2> QED
    BY <2>1, <2>2
<1> QED
  BY <1>4, <1>5 DEF w

(* A signed reading wraps back to the word it was read from.                   *)
LEMMA WrapSigned ==
  ASSUME NEW a \in Word
  PROVE  Signed(a) % Modulus = a
<1>1. Half \in Nat \ {0} /\ Modulus = 2 * Half /\ Modulus \in Nat \ {0} /\ a \in 0 .. Modulus - 1
  BY WordFacts
<1>2. Signed(a) = Modulus * (-1) + a \/ Signed(a) = Modulus * 0 + a
  BY <1>1, SignedFacts
<1>3. (Modulus * (-1) + a) % Modulus = a /\ (Modulus * 0 + a) % Modulus = a
  BY <1>1, DivisionUnique
<1> QED
  BY <1>2, <1>3

-------------------------------------------------------------------------------
(* The bits of numbers.                                                        *)
LEMMA BitRange ==
  ASSUME NEW v \in Int, NEW i \in Nat
  PROVE  BitAt(v, i) \in {0, 1} /\ TwoTo[i] \in Nat \ {0} /\ v \div TwoTo[i] \in Int
<1>1. TwoTo[i] \in Nat \ {0}
  BY TwoToNext
<1>2. v \div TwoTo[i] \in Int
  BY <1>1, Division
<1> DEFINE q == v \div TwoTo[i]
<1> HIDE DEF q
<1>3. q \in Int => q % 2 \in {0, 1}
  OBVIOUS
<1> QED
  BY <1>1, <1>2, <1>3 DEF BitAt, q

LEMMA OneBitsAre ==
  ASSUME NEW v \in Int, NEW n \in Nat
  PROVE  OneBits(v, n) = {i \in 0 .. n - 1 : BitAt(v, i) = 1}
BY DEF OneBits, BitAt

LEMMA SmallModulo ==
  ASSUME NEW p \in Nat \ {0}, NEW v \in 0 .. p - 1
  PROVE  v % p = v /\ v \div p = 0
<1>1. p * 0 + v = v
  OBVIOUS
<1> QED
  BY <1>1, DivisionUnique

LEMMA BitsDetermine ==
  ASSUME NEW n \in Nat, NEW u \in 0 .. TwoTo[n] - 1, NEW v \in 0 .. TwoTo[n] - 1,
         \A i \in 0 .. n - 1 : BitAt(u, i) = 1 <=> BitAt(v, i) = 1
  PROVE  u = v
<1>1. TwoTo[n] \in Nat \ {0}
  BY TwoToNext
<1>2. OneBits(u, n) = OneBits(v, n)
  <2>1. u \in Int /\ v \in Int
    OBVIOUS
  <2>2. /\ OneBits(u, n) = {i \in 0 .. n - 1 : BitAt(u, i) = 1}
        /\ OneBits(v, n) = {i \in 0 .. n - 1 : BitAt(v, i) = 1}
    BY <2>1, OneBitsAre
  <2> QED
    BY <2>2, Zenon
<1>3. ValueOf(OneBits(u, n), n) = u % TwoTo[n] /\ ValueOf(OneBits(v, n), n) = v % TwoTo[n]
  BY ValueOfOneBits
<1>4. u % TwoTo[n] = u /\ v % TwoTo[n] = v
  BY <1>1, SmallModulo
<1> QED
  BY <1>2, <1>3, <1>4

LEMMA SameBits ==
  ASSUME NEW n \in Nat, NEW v \in 0 .. TwoTo[n] - 1, NEW bits,
         \A i \in 0 .. n - 1 : i \in bits <=> BitAt(v, i) = 1
  PROVE  ValueOf(bits, n) = v
<1> DEFINE u == ValueOf(bits, n)
<1>1. u \in 0 .. TwoTo[n] - 1 /\ \A i \in 0 .. n - 1 : BitAt(u, i) = IF i \in bits THEN 1 ELSE 0
  BY ValueOfBits
<1> HIDE DEF u
<1>2. \A i \in 0 .. n - 1 : BitAt(u, i) = 1 <=> BitAt(v, i) = 1
  BY <1>1
<1>3. u = v
  BY <1>1, <1>2, BitsDetermine
<1> QED
  BY <1>3 DEF u

LEMMA BitShift ==
  ASSUME NEW v \in Int, NEW i \in Nat, NEW j \in Nat
  PROVE  BitAt(v \div TwoTo[i], j) = BitAt(v, i + j)
<1>1. TwoTo[i] \in Nat \ {0} /\ TwoTo[j] \in Nat \ {0}
  BY TwoToNext
<1>2. (v \div TwoTo[i]) \div TwoTo[j] = v \div (TwoTo[i] * TwoTo[j])
  BY <1>1, DivisionTwice
<1> QED
  BY <1>2, TwoToSum DEF BitAt

(* Adding a multiple of a higher power changes no lower bit.                   *)
LEMMA BitAdds ==
  ASSUME NEW v \in Int, NEW n \in Nat, NEW i \in 0 .. n - 1, NEW m \in Int
  PROVE  BitAt(v + TwoTo[n] * m, i) = BitAt(v, i)
<1>1. i \in Nat /\ n - (i + 1) \in Nat /\ n = i + (1 + (n - (i + 1)))
  OBVIOUS
<1> DEFINE p == TwoTo[i]
           s == TwoTo[n - (i + 1)]
           q == v \div p
<1>2. TwoTo[n] = p * (2 * s)
  <2>1. TwoTo[i + (1 + (n - (i + 1)))] = p * TwoTo[1 + (n - (i + 1))]
    BY <1>1, TwoToSum
  <2>2. TwoTo[1 + (n - (i + 1))] = TwoTo[1] * s
    BY <1>1, TwoToSum
  <2> QED
    BY <1>1, <2>1, <2>2, TwoToTable
<1>3. p \in Nat \ {0} /\ s \in Nat \ {0} /\ q \in Int
  <2>1. p \in Nat \ {0} /\ s \in Nat \ {0}
    BY <1>1, TwoToNext
  <2> QED
    BY <2>1, Division
<1> HIDE DEF p, s
<1>4. TwoTo[n] * m = p * (2 * (s * m)) /\ s * m \in Int
  BY <1>2, <1>3
<1> DEFINE c == s * m
<1>5. c \in Int /\ TwoTo[n] * m = p * (2 * c)
  BY <1>4
<1> HIDE DEF c
<1>6. (v + p * (2 * c)) \div p = q + 2 * c
  <2>1. 2 * c \in Int
    BY <1>5
  <2> QED
    BY <1>3, <2>1, DivisionAdds
<1> HIDE DEF q
<1>7. (q + 2 * c) % 2 = q % 2
  BY <1>3, <1>5
<1>8. ((v + TwoTo[n] * m) \div p) % 2 = q % 2
  BY <1>5, <1>6, <1>7
<1> QED
  BY <1>8 DEF BitAt, p, q

LEMMA BitModulo ==
  ASSUME NEW v \in Int, NEW n \in Nat, NEW i \in 0 .. n - 1
  PROVE  BitAt(v % TwoTo[n], i) = BitAt(v, i)
<1>1. TwoTo[n] \in Nat \ {0}
  BY TwoToNext
<1> DEFINE q == v \div TwoTo[n]
           r == v % TwoTo[n]
<1>2. q \in Int /\ r \in Int /\ v = r + TwoTo[n] * q
  <2>1. q \in Int /\ r \in 0 .. TwoTo[n] - 1 /\ v = TwoTo[n] * q + r
    BY <1>1, Division
  <2> HIDE DEF q, r
  <2> QED
    BY <1>1, <2>1
<1> HIDE DEF q, r
<1>3. BitAt(r + TwoTo[n] * q, i) = BitAt(r, i)
  BY <1>2, BitAdds
<1> QED
  BY <1>2, <1>3 DEF r

(* Beyond its sign a number has the bit of its sign.                           *)
LEMMA BitBeyond ==
  ASSUME NEW n \in Nat, NEW i \in Nat, n <= i
  PROVE  /\ \A v \in 0 .. TwoTo[n] - 1 : v \div TwoTo[i] = 0 /\ BitAt(v, i) = 0
         /\ \A v \in -TwoTo[n] .. -1 : v \div TwoTo[i] = -1 /\ BitAt(v, i) = 1
<1>1. TwoTo[n] \in Nat \ {0} /\ TwoTo[i] \in Nat \ {0} /\ TwoTo[n] <= TwoTo[i]
  BY TwoToNext, TwoToMonotone
<1>2. ASSUME NEW v \in 0 .. TwoTo[n] - 1 PROVE v \div TwoTo[i] = 0 /\ BitAt(v, i) = 0
  <2>1. v \in 0 .. TwoTo[i] - 1
    BY <1>1
  <2>2. v \div TwoTo[i] = 0
    BY <1>1, <2>1, SmallModulo
  <2> QED
    BY <2>2 DEF BitAt
<1>3. ASSUME NEW v \in -TwoTo[n] .. -1 PROVE v \div TwoTo[i] = -1 /\ BitAt(v, i) = 1
  <2>1. v + TwoTo[i] \in 0 .. TwoTo[i] - 1 /\ v = TwoTo[i] * (-1) + (v + TwoTo[i])
    BY <1>1
  <2>2. (TwoTo[i] * (-1) + (v + TwoTo[i])) \div TwoTo[i] = -1
    BY <1>1, <2>1, DivisionUnique
  <2>3. v \div TwoTo[i] = -1
    BY <2>1, <2>2
  <2> QED
    BY <2>3 DEF BitAt
<1> QED
  BY <1>2, <1>3

LEMMA BitComplement ==
  ASSUME NEW a \in Int, NEW i \in Nat
  PROVE  BitAt(-1 - a, i) = 1 - BitAt(a, i)
<1> DEFINE p == TwoTo[i]
           q == a \div p
           r == a % p
<1>1. p \in Nat \ {0}
  BY TwoToNext
<1>2. q \in Int /\ r \in 0 .. p - 1 /\ a = p * q + r
  BY <1>1, Division
<1> HIDE DEF p, q, r
<1>3. -1 - a = p * (-1 - q) + (p - 1 - r) /\ p - 1 - r \in 0 .. p - 1 /\ -1 - q \in Int
  BY <1>1, <1>2
<1>4. (p * (-1 - q) + (p - 1 - r)) \div p = -1 - q
  BY <1>1, <1>3, DivisionUnique
<1>5. (-1 - q) % 2 = 1 - (q % 2)
  BY <1>2
<1>6. ((-1 - a) \div p) % 2 = 1 - (q % 2)
  BY <1>3, <1>4, <1>5
<1> QED
  BY <1>6 DEF BitAt, p, q

-------------------------------------------------------------------------------
(* The shifts.                                                                 *)
LEMMA MadeOfBits ==
  ASSUME NEW bits
  PROVE  ValueOf(bits, WordBits) \in Word
<1>1. WordBits \in Nat /\ Word = 0 .. TwoTo[WordBits] - 1
  BY WordFacts DEF Modulus
<1> QED
  BY <1>1, ValueOfBits

LEMMA OnesAre ==
  ASSUME NEW a \in Word
  PROVE  /\ Ones(a) = {i \in 0 .. WordBits - 1 : BitAt(a, i) = 1}
         /\ a \in 0 .. TwoTo[WordBits] - 1 /\ a \in Int /\ WordBits \in Nat
<1>1. a \in 0 .. TwoTo[WordBits] - 1 /\ a \in Int /\ WordBits \in Nat
  BY WordFacts DEF Modulus
<1>2. OneBits(a, WordBits) = {i \in 0 .. WordBits - 1 : BitAt(a, i) = 1}
  BY <1>1, OneBitsAre
<1> QED
  BY <1>1, <1>2 DEF Ones

LEMMA ShiftLeft ==
  ASSUME NEW a \in Word, NEW by \in 0 .. WordBits - 1
  PROVE  ValueOf({i + by : i \in Ones(a)}, WordBits) = (a % TwoTo[WordBits - by]) * TwoTo[by]
<1> DEFINE n == WordBits - by
           x == a % TwoTo[n]
           v == x * TwoTo[by]
           bits == {i + by : i \in Ones(a)}
<1>1. /\ Ones(a) = {i \in 0 .. WordBits - 1 : BitAt(a, i) = 1} /\ a \in Int
      /\ WordBits \in Nat /\ n \in Nat /\ by \in Nat /\ n + by = WordBits
  BY OnesAre
<1>2. TwoTo[n] \in Nat \ {0} /\ TwoTo[by] \in Nat \ {0} /\ TwoTo[WordBits] = TwoTo[n] * TwoTo[by]
  <2>1. TwoTo[n + by] = TwoTo[n] * TwoTo[by]
    BY <1>1, TwoToSum
  <2> QED
    BY <1>1, <2>1, TwoToNext
<1>3. x \in 0 .. TwoTo[n] - 1
  BY <1>1, <1>2, Division
<1>4. v \in 0 .. TwoTo[WordBits] - 1
  <2> DEFINE p == TwoTo[n]
             s == TwoTo[by]
  <2>1. p \in Nat \ {0} /\ s \in Nat \ {0} /\ x \in 0 .. p - 1 /\ TwoTo[WordBits] = p * s
    BY <1>2, <1>3
  <2> HIDE DEF p, x
  <2> DEFINE t == s
  <2> HIDE DEF s
  <2>2. x * s \in Nat /\ x * s <= (p - 1) * s /\ (p - 1) * s = p * s - s /\ p * s \in Nat
    BY <2>1
  <2>3. x * s \in 0 .. p * s - 1
    BY <2>1, <2>2
  <2> QED
    BY <2>1, <2>3 DEF s
<1>5. ASSUME NEW i \in 0 .. WordBits - 1 PROVE i \in bits <=> BitAt(v, i) = 1
  <2>1. i \in bits <=> i - by >= 0 /\ BitAt(a, i - by) = 1
    <3>1. i \in bits <=> i - by \in Ones(a)
      <4>1. \A k \in Ones(a) : k \in Int
        BY <1>1
      <4>2. i \in bits <=> \E k \in Ones(a) : i = k + by
        OBVIOUS
      <4> QED
        BY <1>1, <4>1, <4>2
    <3>2. i - by \in Ones(a) <=> i - by \in 0 .. WordBits - 1 /\ BitAt(a, i - by) = 1
      BY <1>1, Zenon
    <3>3. i - by \in 0 .. WordBits - 1 <=> i - by >= 0
      BY <1>1
    <3> QED
      BY <3>1, <3>2, <3>3, Zenon
  <2> HIDE DEF bits
  <2>2. x \in Int
    BY <1>2, <1>3
  <2>3. CASE i < by
    <3>1. 0 \in Int /\ i \in 0 .. by - 1 /\ i \in Nat /\ ~(i - by >= 0)
      BY <1>1, <2>3
    <3> HIDE DEF x
    <3>2. BitAt(0 + TwoTo[by] * x, i) = BitAt(0, i)
      BY <1>1, <2>2, <3>1, BitAdds
    <3>3. 0 + TwoTo[by] * x = v
      BY <1>2, <2>2
    <3>4. BitAt(0, i) = 0
      <4>1. TwoTo[i] \in Nat \ {0} /\ 0 \in 0 .. TwoTo[i] - 1
        BY <3>1, TwoToNext
      <4>2. 0 \div TwoTo[i] = 0
        BY <4>1, SmallModulo
      <4> QED
        BY <4>2 DEF BitAt
    <3> HIDE DEF v
    <3> QED
      BY <2>1, <3>1, <3>2, <3>3, <3>4
  <2>4. CASE ~(i < by)
    <3>1. i - by \in Nat /\ by + (i - by) = i /\ i - by \in 0 .. n - 1 /\ i - by >= 0
      BY <1>1, <2>4
    <3>2. v \div TwoTo[by] = x
      <4>1. TwoTo[by] * x = v
        BY <1>2, <2>2
      <4>2. (TwoTo[by] * x) \div TwoTo[by] = x
        BY <1>2, <2>2, Multiple
      <4> QED
        BY <4>1, <4>2
    <3>3. v \in Int
      BY <1>2, <2>2
    <3> HIDE DEF v
    <3>4. BitAt(v \div TwoTo[by], i - by) = BitAt(v, by + (i - by))
      BY <1>1, <3>1, <3>3, BitShift
    <3>5. BitAt(x, i - by) = BitAt(a, i - by)
      BY <1>1, <3>1, BitModulo
    <3>6. BitAt(v, i) = BitAt(a, i - by)
      BY <3>1, <3>2, <3>4, <3>5
    <3> QED
      BY <2>1, <3>1, <3>6
  <2> QED
    BY <2>3, <2>4
<1> HIDE DEF bits, v
<1>6. ValueOf(bits, WordBits) = v
  BY <1>1, <1>4, <1>5, SameBits
<1> QED
  BY <1>6 DEF bits, v

LEMMA QuotientWithin ==
  ASSUME NEW p \in Nat \ {0}, NEW s \in Int, NEW h \in Nat
  PROVE  /\ s \in -h .. h - 1 => s \div p \in -h .. h - 1
         /\ s \in 0 .. h - 1 => s \div p \in 0 .. h - 1
         /\ s >= 0 <=> s \div p >= 0
<1> DEFINE q == s \div p
           r == s % p
<1>1. q \in Int /\ r \in 0 .. p - 1 /\ s = p * q + r
  BY Division
<1> HIDE DEF q, r
<1>2. q >= 0 => p * q >= q
  BY <1>1
<1>3. q < 0 => p * q <= q /\ p * q <= -p
  BY <1>1
<1>4. p * q \in Int
  BY <1>1
<1>5. s >= 0 <=> q >= 0
  BY <1>1, <1>2, <1>3, <1>4
<1>6. q >= 0 => q <= s
  BY <1>1, <1>2, <1>4
<1>7. q < 0 => q >= s
  <2>1. ASSUME q < 0 PROVE q >= s
    <3>1. p * q <= q - (p - 1)
      BY <1>1, <2>1
    <3> QED
      BY <1>1, <1>4, <3>1
  <2> QED
    BY <2>1
<1>8. /\ s \in -h .. h - 1 => q \in -h .. h - 1
      /\ s \in 0 .. h - 1 => q \in 0 .. h - 1
  BY <1>1, <1>5, <1>6, <1>7
<1> QED
  BY <1>5, <1>8 DEF q

LEMMA QuotientBelow ==
  ASSUME NEW p \in Nat \ {0}, NEW s \in Nat, NEW v \in 0 .. p * s - 1
  PROVE  v \div p \in 0 .. s - 1
<1> DEFINE q == v \div p
           r == v % p
<1>1. p * s \in Nat
  OBVIOUS
<1>2. q \in Int /\ r \in 0 .. p - 1 /\ v = p * q + r
  BY <1>1, Division
<1>3. v >= 0 <=> q >= 0
  BY <1>1, QuotientWithin
<1> HIDE DEF q, r
<1>4. q >= s => p * q >= p * s
  BY <1>2
<1>5. p * q \in Int
  BY <1>2
<1>6. q \in 0 .. s - 1
  BY <1>1, <1>2, <1>3, <1>4, <1>5
<1> QED
  BY <1>6 DEF q

(* What a right shift moves down.                                              *)
LEMMA MovedDown ==
  ASSUME NEW a \in Word, NEW by \in 0 .. WordBits - 1, NEW i \in 0 .. WordBits - 1
  PROVE  i \in {k - by : k \in Ones(a)} <=> i + by < WordBits /\ BitAt(a, i + by) = 1
<1>1. Ones(a) = {k \in 0 .. WordBits - 1 : BitAt(a, k) = 1} /\ WordBits \in Nat
  BY OnesAre
<1>2. i \in {k - by : k \in Ones(a)} <=> i + by \in Ones(a)
  <2>1. \A k \in Ones(a) : k \in Int
    BY <1>1
  <2>2. i \in {k - by : k \in Ones(a)} <=> \E k \in Ones(a) : i = k - by
    OBVIOUS
  <2>3. (i + by) - by = i /\ \A k \in Int : i = k - by => k = i + by
    OBVIOUS
  <2> QED
    BY <2>1, <2>2, <2>3
<1>3. i + by \in Ones(a) <=> i + by \in 0 .. WordBits - 1 /\ BitAt(a, i + by) = 1
  BY <1>1, Zenon
<1>4. i + by \in 0 .. WordBits - 1 <=> i + by < WordBits
  BY <1>1
<1> QED
  BY <1>2, <1>3, <1>4, Zenon

LEMMA ShiftRight ==
  ASSUME NEW a \in Word, NEW by \in 0 .. WordBits - 1
  PROVE  ValueOf({i - by : i \in Ones(a)}, WordBits) = a \div TwoTo[by]
<1> DEFINE v == a \div TwoTo[by]
           bits == {i - by : i \in Ones(a)}
<1>1. a \in 0 .. TwoTo[WordBits] - 1 /\ a \in Int /\ WordBits \in Nat /\ by \in Nat
  BY OnesAre
<1>2. TwoTo[by] \in Nat \ {0} /\ TwoTo[WordBits] \in Nat
  BY <1>1, TwoToNext
<1>3. v \in 0 .. TwoTo[WordBits] - 1
  BY <1>1, <1>2, QuotientWithin
<1>4. ASSUME NEW i \in 0 .. WordBits - 1 PROVE i \in bits <=> BitAt(v, i) = 1
  <2>1. i \in bits <=> i + by < WordBits /\ BitAt(a, i + by) = 1
    BY MovedDown
  <2>2. i \in Nat /\ by + i = i + by /\ i + by \in Nat
    BY <1>1
  <2>3. BitAt(v, i) = BitAt(a, by + i)
    BY <1>1, <2>2, BitShift
  <2>4. ~(i + by < WordBits) => BitAt(a, i + by) = 0
    <3>1. ~(i + by < WordBits) => WordBits <= i + by
      BY <1>1, <2>2
    <3> QED
      BY <1>1, <2>2, <3>1, BitBeyond
  <2> HIDE DEF bits, v
  <2> QED
    BY <2>1, <2>2, <2>3, <2>4
<1> HIDE DEF bits, v
<1>5. ValueOf(bits, WordBits) = v
  BY <1>1, <1>3, <1>4, SameBits
<1> QED
  BY <1>5 DEF bits, v

LEMMA ShiftSigned ==
  ASSUME NEW a \in Word, NEW by \in 0 .. WordBits - 1
  PROVE  Signed(ValueOf({i - by : i \in Ones(a)} \cup SignFill(a, by), WordBits))
           = Signed(a) \div TwoTo[by]
<1> DEFINE s == Signed(a)
           v == s \div TwoTo[by]
           r == v % TwoTo[WordBits]
           bits == {i - by : i \in Ones(a)} \cup SignFill(a, by)
<1>1. a \in 0 .. TwoTo[WordBits] - 1 /\ a \in Int /\ WordBits \in Nat /\ by \in Nat
  BY OnesAre
<1>2. s \in -Half .. Half - 1 /\ s \in Int /\ s % TwoTo[WordBits] = a
  BY SignedFacts, WrapSigned DEF Modulus
<1>3. TwoTo[by] \in Nat \ {0} /\ Half \in Nat
  BY <1>1, TwoToNext, WordFacts
<1> HIDE DEF s
<1>4. v \in -Half .. Half - 1 /\ v \in Int
  BY <1>2, <1>3, QuotientWithin
<1> HIDE DEF v
<1>5. Wrap(v) = r /\ r \in 0 .. TwoTo[WordBits] - 1 /\ Signed(r) = v
  <2>1. Wrap(v) = r
    BY DEF Wrap
  <2>2. Wrap(v) \in 0 .. TwoTo[WordBits] - 1
    BY <1>4, WrapFacts DEF Word
  <2>3. Signed(Wrap(v)) = v
    BY <1>4, SignedWrap
  <2> HIDE DEF r
  <2> QED
    BY <2>1, <2>2, <2>3
<1>6. ASSUME NEW i \in 0 .. WordBits - 1 PROVE i \in bits <=> BitAt(r, i) = 1
  <2>1. i \in {k - by : k \in Ones(a)} <=> i + by < WordBits /\ BitAt(a, i + by) = 1
    BY MovedDown
  <2>2. i \in Nat /\ by + i = i + by /\ i + by \in Nat
    BY <1>1
  <2>3. i \in SignFill(a, by) <=> s < 0 /\ ~(i + by < WordBits)
    <3>1. i \in WordBits - by .. WordBits - 1 <=> ~(i + by < WordBits)
      BY <1>1
    <3> QED
      BY <3>1 DEF SignFill, s
  <2>4. i \in bits <=> i \in {k - by : k \in Ones(a)} \/ i \in SignFill(a, by)
    OBVIOUS
  <2>5. BitAt(r, i) = BitAt(s, i + by)
    <3>1. BitAt(r, i) = BitAt(v, i)
      BY <1>1, <1>4, BitModulo
    <3>2. BitAt(v, i) = BitAt(s, by + i)
      BY <1>1, <1>2, <2>2, BitShift DEF v
    <3> QED
      BY <2>2, <3>1, <3>2
  <2>6. i + by < WordBits => BitAt(s, i + by) = BitAt(a, i + by)
    <3>1. ASSUME i + by < WordBits PROVE BitAt(s, i + by) = BitAt(a, i + by)
      <4>1. i + by \in 0 .. WordBits - 1
        BY <1>1, <2>2, <3>1
      <4>2. BitAt(s % TwoTo[WordBits], i + by) = BitAt(s, i + by)
        BY <1>1, <1>2, <4>1, BitModulo
      <4> QED
        BY <1>2, <4>2
    <3> QED
      BY <3>1
  <2>7. ~(i + by < WordBits) => (BitAt(s, i + by) = 1 <=> s < 0)
    <3>1. ASSUME ~(i + by < WordBits) PROVE BitAt(s, i + by) = 1 <=> s < 0
      <4>1. WordBits - 1 \in Nat /\ WordBits - 1 <= i + by
        BY <1>1, <2>2, <3>1, WordFacts
      <4>2. CASE s < 0
        <5>1. s \in -TwoTo[WordBits - 1] .. -1
          BY <1>2, <4>2 DEF Half
        <5> QED
          BY <2>2, <4>1, <4>2, <5>1, BitBeyond
      <4>3. CASE ~(s < 0)
        <5>1. s \in 0 .. TwoTo[WordBits - 1] - 1
          BY <1>2, <4>3 DEF Half
        <5>2. BitAt(s, i + by) = 0
          BY <2>2, <4>1, <5>1, BitBeyond
        <5> QED
          BY <4>3, <5>2
      <4> QED
        BY <4>2, <4>3
    <3> QED
      BY <3>1
  <2> HIDE DEF bits, r
  <2> QED
    BY <2>1, <2>3, <2>4, <2>5, <2>6, <2>7
<1> HIDE DEF bits, r
<1>7. ValueOf(bits, WordBits) = r
  BY <1>1, <1>5, <1>6, SameBits
<1> QED
  BY <1>5, <1>7 DEF bits, v, s

-------------------------------------------------------------------------------
(* The bitwise instructions and the two that set immediates.                   *)
LEMMA WordOfBits ==
  ASSUME NEW bits, NEW i \in 0 .. WordBits - 1
  PROVE  BitAt(ValueOf(bits, WordBits), i) = IF i \in bits THEN 1 ELSE 0
<1>1. WordBits \in Nat
  BY WordFacts
<1> QED
  BY <1>1, ValueOfBits

LEMMA BitwiseBits ==
  ASSUME NEW a \in Word, NEW b \in Word, NEW i \in 0 .. WordBits - 1
  PROVE  /\ BitAt(ValueOf(Ones(a) \cap Ones(b), WordBits), i) = BitAt(a, i) * BitAt(b, i)
         /\ BitAt(ValueOf(Ones(a) \cup Ones(b), WordBits), i) = 1
              <=> 1 \in {BitAt(a, i), BitAt(b, i)}
         /\ BitAt(ValueOf((Ones(a) \ Ones(b)) \cup (Ones(b) \ Ones(a)), WordBits), i) = 1
              <=> BitAt(a, i) # BitAt(b, i)
<1>1. /\ i \in Ones(a) <=> BitAt(a, i) = 1
      /\ i \in Ones(b) <=> BitAt(b, i) = 1
  BY OnesAre
<1>2. BitAt(a, i) \in {0, 1} /\ BitAt(b, i) \in {0, 1}
  <2>1. a \in Int /\ b \in Int /\ i \in Nat
    BY OnesAre
  <2> QED
    BY <2>1, BitRange
<1> DEFINE x == Ones(a) \cap Ones(b)
           y == Ones(a) \cup Ones(b)
           z == (Ones(a) \ Ones(b)) \cup (Ones(b) \ Ones(a))
<1>3. /\ i \in x <=> i \in Ones(a) /\ i \in Ones(b)
      /\ i \in y <=> i \in Ones(a) \/ i \in Ones(b)
      /\ i \in z <=> ~(i \in Ones(a) <=> i \in Ones(b))
  OBVIOUS
<1> HIDE DEF x, y, z
<1>4. /\ BitAt(ValueOf(x, WordBits), i) = IF i \in x THEN 1 ELSE 0
      /\ BitAt(ValueOf(y, WordBits), i) = IF i \in y THEN 1 ELSE 0
      /\ BitAt(ValueOf(z, WordBits), i) = IF i \in z THEN 1 ELSE 0
  BY WordOfBits
<1>5. /\ BitAt(ValueOf(x, WordBits), i) = BitAt(a, i) * BitAt(b, i)
      /\ BitAt(ValueOf(y, WordBits), i) = 1 <=> 1 \in {BitAt(a, i), BitAt(b, i)}
      /\ BitAt(ValueOf(z, WordBits), i) = 1 <=> BitAt(a, i) # BitAt(b, i)
  BY <1>1, <1>2, <1>3, <1>4
<1> QED
  BY <1>5 DEF x, y, z

LEMMA Complement ==
  ASSUME NEW a \in Word
  PROVE  ValueOf((0 .. WordBits - 1) \ Ones(a), WordBits) = AllOnes - a
<1> DEFINE v == AllOnes - a
<1>1. /\ Ones(a) = {i \in 0 .. WordBits - 1 : BitAt(a, i) = 1}
      /\ a \in 0 .. TwoTo[WordBits] - 1 /\ a \in Int /\ WordBits \in Nat
  BY OnesAre
<1>2. /\ AllOnes = TwoTo[WordBits] - 1 /\ TwoTo[WordBits] \in Nat
      /\ v = (-1 - a) + TwoTo[WordBits] * 1
  BY WordFacts, <1>1 DEF Modulus
<1>3. v \in 0 .. TwoTo[WordBits] - 1
  BY <1>1, <1>2
<1> HIDE DEF v
<1>4. ASSUME NEW i \in 0 .. WordBits - 1
      PROVE  i \in (0 .. WordBits - 1) \ Ones(a) <=> BitAt(v, i) = 1
  <2>1. -1 - a \in Int /\ i \in Nat /\ 1 \in Int
    BY <1>1
  <2>2. BitAt((-1 - a) + TwoTo[WordBits] * 1, i) = BitAt(-1 - a, i)
    BY <1>1, <2>1, BitAdds
  <2>3. BitAt(-1 - a, i) = 1 - BitAt(a, i)
    BY <1>1, <2>1, BitComplement
  <2>4. BitAt(a, i) \in {0, 1}
    BY <1>1, <2>1, BitRange
  <2>5. i \in (0 .. WordBits - 1) \ Ones(a) <=> BitAt(a, i) # 1
    BY <1>1
  <2> QED
    BY <1>2, <2>2, <2>3, <2>4, <2>5
<1>5. ValueOf((0 .. WordBits - 1) \ Ones(a), WordBits) = v
  BY <1>1, <1>3, <1>4, SameBits
<1> QED
  BY <1>5 DEF v

LEMMA SetLow ==
  ASSUME NEW a \in Word, NEW imm \in Int
  PROVE  LET r == ValueOf(Ones(a) \cup OneBits(imm, 15), WordBits)
         IN  /\ r \div TwoTo[15] = a \div TwoTo[15]
             /\ \A i \in 0 .. 14 : BitAt(r, i) = 1 <=> 1 \in {BitAt(a, i), BitAt(imm, i)}
<1> DEFINE bits == Ones(a) \cup OneBits(imm, 15)
           r == ValueOf(bits, WordBits)
           n == WordBits - 15
<1>1. /\ Ones(a) = {i \in 0 .. WordBits - 1 : BitAt(a, i) = 1}
      /\ a \in 0 .. TwoTo[WordBits] - 1 /\ a \in Int /\ WordBits \in Nat
      /\ WordBits >= 15 /\ n \in Nat /\ 15 + n = WordBits
  BY OnesAre, WordFacts
<1>2. OneBits(imm, 15) = {i \in 0 .. 15 - 1 : BitAt(imm, i) = 1}
  BY OneBitsAre
<1>3. r \in 0 .. TwoTo[WordBits] - 1 /\ \A i \in 0 .. WordBits - 1 : BitAt(r, i) = IF i \in bits THEN 1 ELSE 0
  BY <1>1, ValueOfBits
<1>4. ASSUME NEW i \in 0 .. WordBits - 1
      PROVE  i \in bits <=> BitAt(a, i) = 1 \/ (i < 15 /\ BitAt(imm, i) = 1)
  <2>1. i \in bits <=> i \in Ones(a) \/ i \in OneBits(imm, 15)
    OBVIOUS
  <2>2. i \in Ones(a) <=> BitAt(a, i) = 1
    BY <1>1
  <2>3. i \in 0 .. 15 - 1 <=> i < 15
    OBVIOUS
  <2>4. i \in OneBits(imm, 15) <=> i < 15 /\ BitAt(imm, i) = 1
    BY <1>2, <2>3, Zenon
  <2> QED
    BY <2>1, <2>2, <2>4, Zenon
<1> HIDE DEF r, bits
<1>5. r \div TwoTo[15] = a \div TwoTo[15]
  <2>1. TwoTo[WordBits] = TwoTo[15] * TwoTo[n] /\ TwoTo[15] \in Nat \ {0} /\ TwoTo[n] \in Nat \ {0}
    <3>1. TwoTo[15 + n] = TwoTo[15] * TwoTo[n]
      BY <1>1, TwoToSum
    <3> QED
      BY <1>1, <3>1, TwoToNext
  <2> DEFINE u == r \div TwoTo[15]
             v == a \div TwoTo[15]
  <2>2. u \in 0 .. TwoTo[n] - 1 /\ v \in 0 .. TwoTo[n] - 1
    BY <1>1, <1>3, <2>1, QuotientBelow
  <2>3. ASSUME NEW i \in 0 .. n - 1 PROVE BitAt(u, i) = 1 <=> BitAt(v, i) = 1
    <3>1. i \in Nat /\ 15 + i \in 0 .. WordBits - 1 /\ ~(15 + i < 15)
      BY <1>1
    <3>2. r \in Int
      BY <1>1, <1>3
    <3>3. BitAt(u, i) = BitAt(r, 15 + i) /\ BitAt(v, i) = BitAt(a, 15 + i)
      BY <1>1, <3>1, <3>2, BitShift, SMTT(30)
    <3>4. BitAt(r, 15 + i) = 1 <=> BitAt(a, 15 + i) = 1
      BY <1>3, <1>4, <3>1
    <3> QED
      BY <3>3, <3>4
  <2> HIDE DEF u, v
  <2>4. u = v
    BY <1>1, <2>2, <2>3, BitsDetermine
  <2> QED
    BY <2>4 DEF u, v
<1>6. ASSUME NEW i \in 0 .. 14 PROVE BitAt(r, i) = 1 <=> 1 \in {BitAt(a, i), BitAt(imm, i)}
  <2>1. i \in 0 .. WordBits - 1 /\ i < 15
    BY <1>1
  <2>2. BitAt(r, i) = 1 <=> i \in bits
    BY <1>3, <2>1
  <2>3. i \in bits <=> BitAt(a, i) = 1 \/ BitAt(imm, i) = 1
    BY <1>4, <2>1
  <2> QED
    BY <2>2, <2>3
<1> QED
  BY <1>5, <1>6 DEF r, bits

LEMMA SetHigh ==
  ASSUME NEW a \in Word, NEW imm \in Int
  PROVE  LET r   == ValueOf(Ones(a) \cup {i + WordBits - 15 : i \in OneBits(imm, 15)}, WordBits)
             low == WordBits - 15
         IN  /\ r % TwoTo[low] = a % TwoTo[low]
             /\ \A i \in 0 .. 14 :
                  BitAt(r, low + i) = 1 <=> 1 \in {BitAt(a, low + i), BitAt(imm, i)}
<1> DEFINE high == {i + WordBits - 15 : i \in OneBits(imm, 15)}
           bits == Ones(a) \cup high
           r == ValueOf(bits, WordBits)
           n == WordBits - 15
<1>1. /\ Ones(a) = {i \in 0 .. WordBits - 1 : BitAt(a, i) = 1}
      /\ a \in 0 .. TwoTo[WordBits] - 1 /\ a \in Int /\ WordBits \in Nat
      /\ WordBits >= 15 /\ n \in Nat /\ 15 + n = WordBits
  BY OnesAre, WordFacts
<1>2. OneBits(imm, 15) = {i \in 0 .. 15 - 1 : BitAt(imm, i) = 1}
  BY OneBitsAre
<1>3. r \in 0 .. TwoTo[WordBits] - 1 /\ \A i \in 0 .. WordBits - 1 : BitAt(r, i) = IF i \in bits THEN 1 ELSE 0
  BY <1>1, ValueOfBits
<1>4. ASSUME NEW i \in 0 .. WordBits - 1
      PROVE  i \in bits <=> BitAt(a, i) = 1 \/ (i >= n /\ BitAt(imm, i - n) = 1)
  <2>1. i \in bits <=> i \in Ones(a) \/ i \in high
    OBVIOUS
  <2>2. i \in Ones(a) <=> BitAt(a, i) = 1
    BY <1>1
  <2>3. i \in high <=> i - n \in OneBits(imm, 15)
    <3>1. \A k \in OneBits(imm, 15) : k \in Int
      BY <1>2
    <3>2. i \in high <=> \E k \in OneBits(imm, 15) : i = k + WordBits - 15
      OBVIOUS
    <3>3. (i - n) + WordBits - 15 = i /\ \A k \in Int : i = k + WordBits - 15 => k = i - n
      BY <1>1
    <3> QED
      BY <3>1, <3>2, <3>3
  <2>4. i - n \in 0 .. 15 - 1 <=> i >= n
    BY <1>1
  <2>5. i - n \in OneBits(imm, 15) <=> i >= n /\ BitAt(imm, i - n) = 1
    BY <1>2, <2>4, Zenon
  <2> QED
    BY <2>1, <2>2, <2>3, <2>5, Zenon
<1> HIDE DEF r, bits
<1>5. r % TwoTo[n] = a % TwoTo[n]
  <2>1. TwoTo[n] \in Nat \ {0}
    BY <1>1, TwoToNext
  <2>2. r \in Int
    BY <1>1, <1>3
  <2> DEFINE u == r % TwoTo[n]
             v == a % TwoTo[n]
  <2>3. u \in 0 .. TwoTo[n] - 1 /\ v \in 0 .. TwoTo[n] - 1
    BY <1>1, <2>1, <2>2, Division
  <2>4. ASSUME NEW i \in 0 .. n - 1 PROVE BitAt(u, i) = 1 <=> BitAt(v, i) = 1
    <3>1. i \in 0 .. WordBits - 1 /\ ~(i >= n)
      BY <1>1
    <3>2. BitAt(u, i) = BitAt(r, i) /\ BitAt(v, i) = BitAt(a, i)
      BY <1>1, <2>2, BitModulo
    <3>3. BitAt(r, i) = 1 <=> BitAt(a, i) = 1
      BY <1>3, <1>4, <3>1
    <3> QED
      BY <3>2, <3>3
  <2> HIDE DEF u, v
  <2>5. u = v
    BY <1>1, <2>3, <2>4, BitsDetermine
  <2> QED
    BY <2>5 DEF u, v
<1>6. ASSUME NEW i \in 0 .. 14
      PROVE  BitAt(r, n + i) = 1 <=> 1 \in {BitAt(a, n + i), BitAt(imm, i)}
  <2>1. n + i \in 0 .. WordBits - 1 /\ n + i >= n /\ (n + i) - n = i
    BY <1>1
  <2>2. BitAt(r, n + i) = 1 <=> n + i \in bits
    BY <1>3, <2>1
  <2>3. n + i \in bits <=> BitAt(a, n + i) = 1 \/ (n + i >= n /\ BitAt(imm, (n + i) - n) = 1)
    BY <1>4, <2>1
  <2> QED
    BY <2>1, <2>2, <2>3
<1> QED
  BY <1>5, <1>6 DEF r, bits

-------------------------------------------------------------------------------
(* Arithmetic.                                                                 *)
LEMMA DivisionFrom ==
  ASSUME NEW p \in Nat \ {0}, NEW q \in Int, NEW x \in Int, x - p * q \in 0 .. p - 1
  PROVE  x \div p = q /\ x % p = x - p * q
<1> DEFINE r == x - p * q
<1>1. r \in 0 .. p - 1 /\ x = p * q + r
  OBVIOUS
<1> HIDE DEF r
<1>2. (p * q + r) \div p = q /\ (p * q + r) % p = r
  BY <1>1, DivisionUnique
<1> QED
  BY <1>1, <1>2 DEF r

LEMMA Arithmetic ==
  ASSUME NEW a \in Word, NEW b \in Word, NEW imm \in Int
  PROVE  /\ Wrap(a + b) \in {a + b, a + b - TwoTo[WordBits]}
         /\ Wrap(a - b) \in {a - b, a - b + TwoTo[WordBits]}
         /\ (Wrap(a + imm) - a - imm) % TwoTo[WordBits] = 0
         /\ (Signed(Wrap(Signed(a) * Signed(b))) - Signed(a) * Signed(b)) % TwoTo[WordBits] = 0
<1> DEFINE m == TwoTo[WordBits]
<1>1. m \in Nat \ {0} /\ a \in 0 .. m - 1 /\ b \in 0 .. m - 1 /\ m = Modulus
  BY WordFacts DEF Modulus
<1>2. \A x \in Int : Wrap(x) = x % m
  BY DEF Wrap
<1> HIDE DEF m
<1>3. Wrap(a + b) \in {a + b, a + b - m}
  <2>1. CASE a + b < m
    <3>1. (a + b) % m = a + b
      BY <1>1, <2>1, SmallModulo
    <3> QED
      BY <1>1, <1>2, <3>1
  <2>2. CASE ~(a + b < m)
    <3>1. a + b \in Int /\ 1 \in Int /\ (a + b) - m * 1 \in 0 .. m - 1
      BY <1>1, <2>2
    <3>2. (a + b) % m = (a + b) - m * 1
      BY <1>1, <3>1, DivisionFrom
    <3> QED
      BY <1>1, <1>2, <3>1, <3>2
  <2> QED
    BY <2>1, <2>2
<1>4. Wrap(a - b) \in {a - b, a - b + m}
  <2>1. CASE a - b >= 0
    <3>1. a - b \in 0 .. m - 1
      BY <1>1, <2>1
    <3>2. (a - b) % m = a - b
      BY <1>1, <3>1, SmallModulo
    <3> QED
      BY <1>1, <1>2, <3>2
  <2>2. CASE ~(a - b >= 0)
    <3>1. a - b \in Int /\ -1 \in Int /\ (a - b) - m * (-1) \in 0 .. m - 1
      BY <1>1, <2>2
    <3>2. (a - b) % m = (a - b) - m * (-1)
      BY <1>1, <3>1, DivisionFrom
    <3> QED
      BY <1>1, <1>2, <3>1, <3>2
  <2> QED
    BY <2>1, <2>2
<1>5. (Wrap(a + imm) - a - imm) % m = 0
  <2> DEFINE x == a + imm
             q == x \div Modulus
             w == Wrap(x)
  <2>1. x \in Int
    BY <1>1
  <2> HIDE DEF x
  <2>2. x = Modulus * q + w /\ q \in Int /\ w \in Word
    BY <2>1, WrapFacts
  <2> HIDE DEF q, w
  <2>3. w \in Int
    BY <1>1, <2>2, WordFacts
  <2>4. w - a - imm = m * (-q) /\ -q \in Int
    BY <1>1, <2>2, <2>3 DEF x
  <2>5. (m * (-q)) % m = 0
    BY <1>1, <2>4, Multiple
  <2> QED
    BY <2>4, <2>5 DEF w, x
<1>6. (Signed(Wrap(Signed(a) * Signed(b))) - Signed(a) * Signed(b)) % m = 0
  <2>1. Signed(a) \in Int /\ Signed(b) \in Int
    BY SignedFacts
  <2>2. Signed(a) * Signed(b) \in Int
    BY <2>1
  <2> DEFINE x == Signed(a) * Signed(b)
  <2> HIDE DEF x
  <2>3. PICK q \in Int : Signed(Wrap(x)) - x = Modulus * q
    BY <2>2, SignedWrap DEF x
  <2>4. (m * q) % m = 0
    BY <1>1, Multiple
  <2> QED
    BY <1>1, <2>3, <2>4 DEF x
<1> QED
  BY <1>3, <1>4, <1>5, <1>6 DEF m

-------------------------------------------------------------------------------
(* Division rounds towards zero, and its remainder has the dividend's sign.    *)
LEMMA QuotientFacts ==
  ASSUME NEW a \in Int, NEW b \in Int, b # 0
  PROVE  LET q == Quotient(a, b)
         IN  /\ q \in Int /\ Remains(a - q * b, a, b)
             /\ Abs(q) = Abs(a) \div Abs(b)
             /\ q >= 0 <=> (a < 0 <=> b < 0) \/ Abs(a) \div Abs(b) = 0
<1> DEFINE q == Quotient(a, b)
           n == Abs(a)
           d == Abs(b)
           k == n \div d
           t == n % d
<1>1. n = (IF a < 0 THEN -a ELSE a) /\ d = (IF b < 0 THEN -b ELSE b)
  BY DEF Abs
<1>2. n \in Nat /\ d \in Nat \ {0}
  BY <1>1
<1>3. q = IF a < 0 <=> b < 0 THEN k ELSE -k
  BY DEF Quotient
<1> HIDE DEF n, d
<1>4. k \in Nat /\ t \in 0 .. d - 1 /\ n = d * k + t
  <2>1. k \in Int /\ t \in 0 .. d - 1 /\ n = d * k + t
    BY <1>2, Division
  <2>2. k >= 0
    BY <1>2, QuotientWithin
  <2> QED
    BY <2>1, <2>2
<1> HIDE DEF k, t, q
<1>5. q \in Int
  BY <1>3, <1>4
<1>6. q * b = IF a < 0 THEN -(d * k) ELSE d * k
  <2>1. CASE a < 0 /\ b < 0
    <3>1. q = k /\ b = -d
      BY <1>1, <1>3, <2>1
    <3> QED
      BY <1>2, <1>4, <2>1, <3>1
  <2>2. CASE a < 0 /\ ~(b < 0)
    <3>1. q = -k /\ b = d
      BY <1>1, <1>3, <2>2
    <3> QED
      BY <1>2, <1>4, <2>2, <3>1
  <2>3. CASE ~(a < 0) /\ b < 0
    <3>1. q = -k /\ b = -d
      BY <1>1, <1>3, <2>3
    <3> QED
      BY <1>2, <1>4, <2>3, <3>1
  <2>4. CASE ~(a < 0) /\ ~(b < 0)
    <3>1. q = k /\ b = d
      BY <1>1, <1>3, <2>4
    <3> QED
      BY <1>2, <1>4, <2>4, <3>1
  <2> QED
    BY <2>1, <2>2, <2>3, <2>4
<1> DEFINE r == a - q * b
           e == q * b
<1>7. d * k \in Nat
  BY <1>2, <1>4
<1>8. r = IF a < 0 THEN -t ELSE t
  <2>1. e = IF a < 0 THEN -(d * k) ELSE d * k
    BY <1>6
  <2>2. r = a - e
    OBVIOUS
  <2> HIDE DEF e, r
  <2> QED
    BY <1>1, <1>4, <1>7, <2>1, <2>2
<1>9. a - r = d * k \/ a - r = d * (-k)
  <2>1. a - r = IF a < 0 THEN -(d * k) ELSE d * k
    <3> HIDE DEF r, e
    <3> QED
      BY <1>1, <1>4, <1>7, <1>8
  <2>2. -(d * k) = d * (-k)
    BY <1>2, <1>4
  <2> QED
    BY <2>1, <2>2
<1> HIDE DEF r
<1>10. (a - r) % d = 0
  <2>1. (d * k) % d = 0 /\ (d * (-k)) % d = 0
    BY <1>2, <1>4, Multiple
  <2> QED
    BY <1>9, <2>1
<1>11. Abs(r) < d
  BY <1>2, <1>4, <1>8 DEF Abs
<1>12. r * a >= 0
  <2>1. CASE a < 0
    <3>1. r = -t /\ a = -n
      BY <1>1, <1>8, <2>1
    <3>2. (-t) * (-n) = t * n /\ t * n >= 0
      BY <1>2, <1>4
    <3> QED
      BY <3>1, <3>2
  <2>2. CASE ~(a < 0)
    <3>1. r = t /\ a = n
      BY <1>1, <1>8, <2>2
    <3>2. t * n >= 0
      BY <1>2, <1>4
    <3> QED
      BY <3>1, <3>2
  <2> QED
    BY <2>1, <2>2
<1>13. Remains(r, a, b)
  BY <1>10, <1>11, <1>12 DEF Remains, d
<1>14. Abs(q) = k
  BY <1>3, <1>4 DEF Abs
<1>15. q >= 0 <=> (a < 0 <=> b < 0) \/ k = 0
  BY <1>3, <1>4
<1> QED
  BY <1>5, <1>13, <1>14, <1>15 DEF q, r, k, n, d

LEMMA SignedDivision ==
  ASSUME NEW a \in Word, NEW b \in Word, b # 0, ~(Signed(a) = -Half /\ b = AllOnes)
  PROVE  LET q == Quotient(Signed(a), Signed(b))
         IN  /\ Signed(Wrap(q)) = q
             /\ Signed(Wrap(Signed(a) - Signed(b) * q)) = Signed(a) - q * Signed(b)
             /\ Remains(Signed(a) - q * Signed(b), Signed(a), Signed(b))
<1> DEFINE s == Signed(a)
           u == Signed(b)
           q == Quotient(s, u)
           n == Abs(s)
           d == Abs(u)
           k == n \div d
           r == s - q * u
<1>1. /\ s \in -Half .. Half - 1 /\ s \in Int /\ u \in -Half .. Half - 1 /\ u \in Int /\ u # 0
      /\ Half \in Nat \ {0} /\ Modulus = 2 * Half /\ AllOnes = Modulus - 1
  BY SignedFacts, WordFacts
<1>2. u = -1 => b = AllOnes
  BY <1>1, SignedFacts, WordFacts
<1> HIDE DEF s, u
<1>3. ~(s = -Half /\ u = -1)
  BY <1>2 DEF s
<1>4. /\ q \in Int /\ Remains(r, s, u) /\ Abs(q) = k
      /\ q >= 0 <=> (s < 0 <=> u < 0) \/ k = 0
  BY <1>1, QuotientFacts
<1> HIDE DEF q
<1>5. n = (IF s < 0 THEN -s ELSE s) /\ d = (IF u < 0 THEN -u ELSE u)
  BY DEF Abs
<1>6. n \in 0 .. Half /\ d \in 1 .. Half /\ (n = Half => s = -Half)
  BY <1>1, <1>5
<1> HIDE DEF n, d
<1>7. k \in 0 .. Half /\ (k = Half => n = Half /\ d = 1)
  <2> DEFINE t == n % d
  <2>1. n \in Int /\ d \in Nat \ {0}
    BY <1>6
  <2>2. k \in Int /\ t \in 0 .. d - 1 /\ n = d * k + t
    BY <2>1, Division
  <2>3. k >= 0
    BY <1>6, <2>1, QuotientWithin
  <2> HIDE DEF k, t
  <2>4. d * k >= k /\ (d >= 2 => d * k >= 2 * k) /\ d * k \in Int
    BY <2>1, <2>2, <2>3
  <2>5. k <= n
    BY <1>6, <2>2, <2>3, <2>4
  <2>6. k = Half => d = 1
    BY <1>1, <1>6, <2>2, <2>4
  <2> QED
    BY <1>1, <1>6, <2>2, <2>3, <2>5, <2>6
<1> HIDE DEF k
<1>8. q \in -Half .. Half - 1
  <2>1. q = k \/ q = -k
    BY <1>4, <1>7 DEF Abs
  <2>2. q # Half
    <3>1. SUFFICES ASSUME q = Half PROVE FALSE
      OBVIOUS
    <3>2. k = Half
      BY <1>1, <1>7, <2>1, <3>1
    <3>3. s = -Half /\ d = 1
      BY <1>6, <1>7, <3>2
    <3>4. q >= 0 /\ k # 0
      BY <1>1, <3>1, <3>2
    <3>5. s < 0 /\ u < 0
      BY <1>1, <1>4, <3>3, <3>4
    <3>6. u = -1
      BY <1>1, <1>5, <3>3, <3>5
    <3> QED
      BY <1>3, <3>3, <3>6
  <2> QED
    BY <1>1, <1>7, <2>1, <2>2
<1>9. Signed(Wrap(q)) = q
  BY <1>4, <1>8, SignedWrap
<1>10. s - u * q = r /\ r \in Int
  <2>1. u * q = q * u /\ q * u \in Int
    BY <1>1, <1>4
  <2> QED
    BY <1>1, <2>1
<1>11. r \in -Half .. Half - 1
  <2> HIDE DEF r
  <2>1. Abs(r) < d
    BY <1>4 DEF Remains, d
  <2> QED
    BY <1>1, <1>6, <1>10, <2>1 DEF Abs
<1> HIDE DEF r
<1>12. Signed(Wrap(r)) = r
  BY <1>10, <1>11, SignedWrap
<1> QED
  BY <1>4, <1>9, <1>10, <1>12 DEF r, q, s, u

LEMMA UnsignedDivision ==
  ASSUME NEW a \in Word, NEW b \in Word, b # 0
  PROVE  a \div b \in Word /\ a - (a \div b) * b \in 0 .. b - 1
<1>1. a \in 0 .. Modulus - 1 /\ b \in 0 .. Modulus - 1 /\ Modulus \in Nat /\ Word = 0 .. Modulus - 1
  BY WordFacts
<1> DEFINE q == a \div b
           r == a % b
<1>2. b \in Nat \ {0} /\ a \in Int
  BY <1>1
<1>3. q \in Int /\ r \in 0 .. b - 1 /\ a = b * q + r
  BY <1>2, Division
<1>4. q \in 0 .. Modulus - 1
  BY <1>1, <1>2, QuotientWithin
<1> HIDE DEF q, r
<1>5. a - q * b = r
  BY <1>2, <1>3
<1> QED
  BY <1>1, <1>3, <1>4, <1>5 DEF q

(* Adding the sign bit orders words as their signed readings are ordered.      *)
LEMMA BiasedOrder ==
  ASSUME NEW a \in Word
  PROVE  Biased(a) = Signed(a) + Half
<1>1. Half \in Nat \ {0} /\ Modulus = 2 * Half /\ a \in 0 .. Modulus - 1 /\ Modulus \in Nat \ {0}
  BY WordFacts
<1>2. Signed(a) = IF a >= Half THEN a - Modulus ELSE a
  BY SignedFacts
<1>3. (a + Half) % Modulus = Signed(a) + Half
  <2>1. CASE a >= Half
    <3>1. a + Half \in Int /\ 1 \in Int /\ (a + Half) - Modulus * 1 \in 0 .. Modulus - 1
      BY <1>1, <2>1
    <3>2. (a + Half) % Modulus = (a + Half) - Modulus * 1
      BY <1>1, <3>1, DivisionFrom
    <3> QED
      BY <1>1, <1>2, <2>1, <3>2
  <2>2. CASE ~(a >= Half)
    <3>1. a + Half \in 0 .. Modulus - 1
      BY <1>1, <2>2
    <3>2. (a + Half) % Modulus = a + Half
      BY <1>1, <3>1, SmallModulo
    <3> QED
      BY <1>1, <1>2, <2>2, <3>2
  <2> QED
    BY <2>1, <2>2
<1> QED
  BY <1>3 DEF Biased, Half, Modulus

-------------------------------------------------------------------------------
(* The result of an instruction is the one that is meant.                      *)
LEMMA ShiftMeant ==
  ASSUME NEW inst, inst.mnemonic \in ShiftOps, NEW di, di.op = inst.mnemonic,
         NEW a \in Word, NEW b \in Word
  PROVE  Result(di, a, b) \in Word /\ Meant(inst, a, b, Result(di, a, b))
<1> DEFINE by == b % WordBits
           r == Result(di, a, b)
<1>1. by \in 0 .. WordBits - 1
  <2>1. WordBits \in Nat \ {0} /\ b \in Int
    BY WordFacts
  <2> QED
    BY <2>1, Division
<1>2. ShiftBy(b) = by
  BY DEF ShiftBy
<1>3. r = Shift(di, a, by)
  BY <1>2 DEF Result, ShiftOps, DivideOps, PlainOps
<1> HIDE DEF by, r
<1>4. inst.mnemonic \in {"SHL", "SHR", "SAR"}
  BY DEF ShiftOps
<1>5. CASE inst.mnemonic = "SHL"
  <2>1. r = ValueOf({i + by : i \in Ones(a)}, WordBits)
    BY <1>3, <1>5 DEF Shift
  <2>2. r = (a % TwoTo[WordBits - by]) * TwoTo[by]
    BY <1>1, <2>1, ShiftLeft
  <2>3. r \in Word
    BY <2>1, MadeOfBits
  <2> QED
    BY <1>5, <2>2, <2>3 DEF Meant, r, by
<1>6. CASE inst.mnemonic = "SHR"
  <2>1. r = ValueOf({i - by : i \in Ones(a)}, WordBits)
    BY <1>3, <1>6 DEF Shift
  <2>2. r = a \div TwoTo[by]
    BY <1>1, <2>1, ShiftRight
  <2>3. r \in Word
    BY <2>1, MadeOfBits
  <2> QED
    BY <1>6, <2>2, <2>3 DEF Meant, r, by
<1>7. CASE inst.mnemonic = "SAR"
  <2>1. r = ValueOf({i - by : i \in Ones(a)} \cup SignFill(a, by), WordBits)
    BY <1>3, <1>7 DEF Shift
  <2>2. Signed(r) = Signed(a) \div TwoTo[by]
    BY <1>1, <2>1, ShiftSigned
  <2>3. r \in Word
    BY <2>1, MadeOfBits
  <2> QED
    BY <1>7, <2>2, <2>3 DEF Meant, r, by
<1> QED
  BY <1>4, <1>5, <1>6, <1>7

LEMMA DivideMeant ==
  ASSUME NEW inst, inst.mnemonic \in DivideOps, NEW di, di.op = inst.mnemonic,
         NEW a \in Word, NEW b \in Word
  PROVE  /\ Result(di, a, b) \in Word
         /\ Undefined([op |-> inst.mnemonic], a, b) \/ Meant(inst, a, b, Result(di, a, b))
<1> DEFINE r == Result(di, a, b)
           q == Quotient(Signed(a), Signed(b))
<1>1. r = Divide(di, a, b)
  BY DEF Result, ShiftOps, DivideOps, PlainOps
<1>2. inst.mnemonic \in {"DIV", "DIVU", "REM"}
  BY DEF DivideOps
<1>3. /\ Signed(a) \in Int /\ Signed(b) \in Int /\ (Signed(b) = 0 <=> b = 0)
      /\ AllOnes \in Word
  BY SignedFacts, WordFacts
<1>4. b # 0 => q \in Int
  BY <1>3, QuotientFacts
<1>5. b # 0 => Signed(a) - Signed(b) * q \in Int
  <2> HIDE DEF q
  <2>1. Signed(b) \in Int
    BY <1>3
  <2> QED
    BY <1>3, <1>4, <2>1
<1>6. b # 0 /\ ~(Signed(a) = -Half /\ b = AllOnes) =>
        /\ Signed(Wrap(q)) = q
        /\ Signed(Wrap(Signed(a) - Signed(b) * q)) = Signed(a) - q * Signed(b)
        /\ Remains(Signed(a) - q * Signed(b), Signed(a), Signed(b))
  BY SignedDivision
<1>7. b # 0 => Wrap(q) \in Word /\ Wrap(Signed(a) - Signed(b) * q) \in Word
  BY <1>4, <1>5, WrapFacts
<1>8. CASE inst.mnemonic = "DIV"
  <2>1. CASE b = 0
    <3>1. r = AllOnes
      BY <1>1, <1>8, <2>1 DEF Divide
    <3> HIDE DEF r
    <3> QED
      BY <1>3, <1>8, <2>1, <3>1 DEF Meant, r
  <2>2. CASE b # 0
    <3>1. r = Wrap(q)
      BY <1>1, <1>8, <2>2 DEF Divide
    <3> HIDE DEF r
    <3>2. r \in Word
      BY <1>7, <2>2, <3>1
    <3>3. CASE Signed(a) = -Half /\ b = AllOnes
      <4>1. Undefined([op |-> inst.mnemonic], a, b)
        BY <1>8, <3>3 DEF Undefined, Half
      <4> QED
        BY <3>2, <4>1 DEF r
    <3>4. CASE ~(Signed(a) = -Half /\ b = AllOnes)
      <4>1. Signed(r) = q /\ Remains(Signed(a) - q * Signed(b), Signed(a), Signed(b))
        BY <1>6, <2>2, <3>1, <3>4
      <4> HIDE DEF q
      <4>2. Remains(Signed(a) - Signed(r) * Signed(b), Signed(a), Signed(b))
        BY <4>1
      <4>3. Meant(inst, a, b, r)
        BY <1>8, <2>2, <4>2 DEF Meant
      <4> QED
        BY <3>2, <4>3 DEF r
    <3> QED
      BY <3>3, <3>4
  <2> QED
    BY <2>1, <2>2
<1>9. CASE inst.mnemonic = "REM"
  <2>1. CASE b = 0
    <3>1. r = a
      BY <1>1, <1>9, <2>1 DEF Divide
    <3> HIDE DEF r
    <3> QED
      BY <1>3, <1>9, <2>1, <3>1 DEF Meant, r
  <2>2. CASE b # 0
    <3>1. r = Wrap(Signed(a) - Signed(b) * q)
      BY <1>1, <1>9, <2>2 DEF Divide
    <3> HIDE DEF r
    <3>2. r \in Word
      BY <1>7, <2>2, <3>1
    <3>3. CASE Signed(a) = -Half /\ b = AllOnes
      <4>1. Undefined([op |-> inst.mnemonic], a, b)
        BY <1>9, <3>3 DEF Undefined, Half
      <4> QED
        BY <3>2, <4>1 DEF r
    <3>4. CASE ~(Signed(a) = -Half /\ b = AllOnes)
      <4>1. /\ Signed(r) = Signed(a) - q * Signed(b)
            /\ Remains(Signed(a) - q * Signed(b), Signed(a), Signed(b))
        BY <1>6, <2>2, <3>1, <3>4
      <4> HIDE DEF q
      <4>2. Remains(Signed(r), Signed(a), Signed(b))
        BY <4>1
      <4>3. Meant(inst, a, b, r)
        BY <1>9, <2>2, <4>2 DEF Meant
      <4> QED
        BY <3>2, <4>3 DEF r
    <3> QED
      BY <3>3, <3>4
  <2> QED
    BY <2>1, <2>2
<1>10. CASE inst.mnemonic = "DIVU"
  <2>1. CASE b = 0
    <3>1. r = AllOnes
      BY <1>1, <1>10, <2>1 DEF Divide
    <3> HIDE DEF r
    <3> QED
      BY <1>3, <1>10, <2>1, <3>1 DEF Meant, r
  <2>2. CASE b # 0
    <3>1. r = a \div b
      BY <1>1, <1>10, <2>2 DEF Divide
    <3> HIDE DEF r
    <3>2. r \in Word /\ a - r * b \in 0 .. b - 1
      BY <2>2, <3>1, UnsignedDivision
    <3>3. Meant(inst, a, b, r)
      BY <1>10, <2>2, <3>2 DEF Meant
    <3> QED
      BY <3>2, <3>3 DEF r
  <2> QED
    BY <2>1, <2>2
<1> QED
  BY <1>2, <1>8, <1>9, <1>10

(* The immediates that Says speaks of.                                         *)
LEMMA ImmediateBits ==
  ASSUME NEW v \in Int, NEW i \in 0 .. 14
  PROVE  SignExtend(v, 15) \in Int /\ BitAt(SignExtend(v, 15), i) = BitAt(v, i)
<1>1. TwoTo[15] \in Int /\ i \in 0 .. 15 - 1 /\ 15 \in Nat
  BY TwoToNext
<1>2. SignExtend(v, 15) = v \/ SignExtend(v, 15) = v + TwoTo[15] * (-1)
  BY <1>1 DEF SignExtend
<1>3. -1 \in Int
  OBVIOUS
<1>4. BitAt(v + TwoTo[15] * (-1), i) = BitAt(v, i)
  BY <1>1, <1>3, BitAdds
<1>5. v + TwoTo[15] * (-1) \in Int
  BY <1>1
<1> QED
  BY <1>2, <1>4, <1>5

LEMMA ZeroAndOne == 0 \in Word /\ 1 \in Word
<1>1. Half \in Nat \ {0} /\ Modulus = 2 * Half /\ Word = 0 .. Modulus - 1
  BY WordFacts
<1> QED
  BY <1>1

LEMMA MoveMeant ==
  ASSUME NEW inst, NEW di, di.op = inst.mnemonic, NEW a \in Word, NEW b \in Word, NEW c,
         inst.mnemonic \in {"MOV", "RETAIN", "RELEASE", "MOVZ", "LUI", "ADDI", "LDA"},
         inst.imm \in Int,
         \/ inst.mnemonic \in {"MOV", "RETAIN", "RELEASE"}
         \/ di.imm = IF inst.mnemonic \in Unsigned THEN SignExtend(inst.imm, 15) ELSE inst.imm
  PROVE  /\ Plain(di, a, c) \in Word
         /\ inst.mnemonic \notin Counting => Meant(inst, a, b, Plain(di, a, c))
<1> DEFINE r == Plain(di, a, c)
<1>1. CASE inst.mnemonic = "MOV"
  <2>1. r = a
    BY <1>1 DEF Plain
  <2> HIDE DEF r
  <2> QED
    BY <1>1, <2>1 DEF Meant, r
<1>2. CASE inst.mnemonic \in Counting
  <2>1. r \in {0, a}
    BY <1>2 DEF Plain, Counting
  <2>2. 0 \in Word
    BY WordFacts
  <2> HIDE DEF r
  <2> QED
    BY <1>2, <2>1, <2>2 DEF r
<1>3. CASE inst.mnemonic = "MOVZ"
  <2> DEFINE imm == SignExtend(inst.imm, 15)
  <2>1. di.imm = imm
    BY <1>3 DEF Unsigned
  <2>2. \A i \in 0 .. 14 : BitAt(imm, i) = BitAt(inst.imm, i)
    BY ImmediateBits
  <2>3. imm \in Int
    <3>1. 0 \in 0 .. 14
      OBVIOUS
    <3> QED
      BY <3>1, ImmediateBits
  <2> HIDE DEF imm
  <2>4. r = ValueOf(Ones(a) \cup OneBits(imm, 15), WordBits)
    BY <1>3, <2>1 DEF Plain
  <2> HIDE DEF r
  <2>5. /\ r \div TwoTo[15] = a \div TwoTo[15]
        /\ \A i \in 0 .. 14 : BitAt(r, i) = 1 <=> 1 \in {BitAt(a, i), BitAt(imm, i)}
    BY <2>3, <2>4, SetLow
  <2>6. r \in Word
    BY <2>4, MadeOfBits
  <2>7. \A i \in 0 .. 14 : BitAt(r, i) = 1 <=> 1 \in {BitAt(a, i), BitAt(inst.imm, i)}
    BY <2>2, <2>5, Zenon
  <2>8. Meant(inst, a, b, r)
    BY <1>3, <2>5, <2>7 DEF Meant
  <2> QED
    BY <2>6, <2>8 DEF r
<1>4. CASE inst.mnemonic = "LUI"
  <2> DEFINE imm == SignExtend(inst.imm, 15)
             low == WordBits - 15
  <2>1. di.imm = imm
    BY <1>4 DEF Unsigned
  <2>2. \A i \in 0 .. 14 : BitAt(imm, i) = BitAt(inst.imm, i)
    BY ImmediateBits
  <2>3. imm \in Int
    <3>1. 0 \in 0 .. 14
      OBVIOUS
    <3> QED
      BY <3>1, ImmediateBits
  <2> HIDE DEF imm
  <2>4. r = ValueOf(Ones(a) \cup {i + WordBits - 15 : i \in OneBits(imm, 15)}, WordBits)
    BY <1>4, <2>1 DEF Plain
  <2> HIDE DEF r
  <2>5. /\ r % TwoTo[low] = a % TwoTo[low]
        /\ \A i \in 0 .. 14 : BitAt(r, low + i) = 1 <=> 1 \in {BitAt(a, low + i), BitAt(imm, i)}
    BY <2>3, <2>4, SetHigh
  <2>6. r \in Word
    BY <2>4, MadeOfBits
  <2>7. \A i \in 0 .. 14 : BitAt(r, low + i) = 1 <=> 1 \in {BitAt(a, low + i), BitAt(inst.imm, i)}
    BY <2>2, <2>5, Zenon
  <2>8. Meant(inst, a, b, r)
    BY <1>4, <2>5, <2>7 DEF Meant
  <2> QED
    BY <2>6, <2>8 DEF r
<1>5. CASE inst.mnemonic \in {"ADDI", "LDA"}
  <2>1. di.imm = inst.imm
    BY <1>5 DEF Unsigned
  <2>2. r = Wrap(a + inst.imm)
    BY <1>5, <2>1 DEF Plain
  <2>3. a + inst.imm \in Int
    BY SignedFacts
  <2>4. r \in Word
    BY <2>2, <2>3, WrapFacts
  <2> HIDE DEF r
  <2>5. (r - a - inst.imm) % TwoTo[WordBits] = 0
    BY <2>2, Arithmetic
  <2>6. Meant(inst, a, b, r)
    BY <1>5, <2>5 DEF Meant
  <2> QED
    BY <2>4, <2>6 DEF r
<1> QED
  BY <1>1, <1>2, <1>3, <1>4, <1>5 DEF Counting

LEMMA ArithmeticMeant ==
  ASSUME NEW inst, NEW di, di.op = inst.mnemonic, NEW a \in Word, NEW b \in Word,
         inst.mnemonic \in {"ADD", "SUB", "MUL", "AND", "OR", "XOR", "NOT",
                            "CMPEQ", "CMPNE", "CMPLT", "CMPLE"}
  PROVE  Plain(di, a, b) \in Word /\ Meant(inst, a, b, Plain(di, a, b))
<1> DEFINE r == Plain(di, a, b)
           m == TwoTo[WordBits]
<1>1. a \in Int /\ b \in Int /\ Signed(a) \in Int /\ Signed(b) \in Int
  BY SignedFacts
<1>2. CASE inst.mnemonic = "ADD"
  <2>1. r = Wrap(a + b)
    BY <1>2 DEF Plain
  <2>2. r \in Word
    BY <1>1, <2>1, WrapFacts
  <2> HIDE DEF r
  <2>3. r = a + b \/ r = a + b - m
    BY <2>1, Arithmetic
  <2>4. Meant(inst, a, b, r)
    BY <1>2, <2>3 DEF Meant
  <2> QED
    BY <2>2, <2>4 DEF r
<1>3. CASE inst.mnemonic = "SUB"
  <2>1. r = Wrap(a - b)
    BY <1>3 DEF Plain
  <2>2. r \in Word
    BY <1>1, <2>1, WrapFacts
  <2> HIDE DEF r
  <2>3. r = a - b \/ r = a - b + m
    BY <2>1, Arithmetic
  <2>4. Meant(inst, a, b, r)
    BY <1>3, <2>3 DEF Meant
  <2> QED
    BY <2>2, <2>4 DEF r
<1>4. CASE inst.mnemonic = "MUL"
  <2>1. r = Wrap(Signed(a) * Signed(b))
    BY <1>4 DEF Plain
  <2>2. Signed(a) * Signed(b) \in Int
    BY <1>1
  <2>3. r \in Word
    BY <2>1, <2>2, WrapFacts
  <2> HIDE DEF r
  <2>4. (Signed(r) - Signed(a) * Signed(b)) % m = 0
    BY <2>1, Arithmetic
  <2>5. Meant(inst, a, b, r)
    BY <1>4, <2>4 DEF Meant
  <2> QED
    BY <2>3, <2>5 DEF r
<1>5. CASE inst.mnemonic = "AND"
  <2>1. r = ValueOf(Ones(a) \cap Ones(b), WordBits)
    BY <1>5 DEF Plain
  <2> HIDE DEF r
  <2> DEFINE bits == Ones(a) \cap Ones(b)
  <2>4. ValueOf(bits, WordBits) \in Word
    BY MadeOfBits, Zenon
  <2>5. \A i \in 0 .. WordBits - 1 : BitAt(ValueOf(bits, WordBits), i) = BitAt(a, i) * BitAt(b, i)
    BY BitwiseBits, Zenon
  <2>2. r \in Word /\ \A i \in 0 .. WordBits - 1 : BitAt(r, i) = BitAt(a, i) * BitAt(b, i)
    BY <2>1, <2>4, <2>5, Zenon
  <2>3. Meant(inst, a, b, r)
    BY <1>5, <2>2 DEF Meant
  <2> QED
    BY <2>2, <2>3 DEF r
<1>6. CASE inst.mnemonic = "OR"
  <2>1. r = ValueOf(Ones(a) \cup Ones(b), WordBits)
    BY <1>6 DEF Plain
  <2> HIDE DEF r
  <2>2. r \in Word
    BY <2>1, MadeOfBits
  <2>3. ASSUME NEW i \in 0 .. WordBits - 1
        PROVE  BitAt(r, i) = 1 <=> 1 \in {BitAt(a, i), BitAt(b, i)}
    <3>1. BitAt(ValueOf(Ones(a) \cup Ones(b), WordBits), i) = 1 <=> 1 \in {BitAt(a, i), BitAt(b, i)}
      BY BitwiseBits, Zenon
    <3> QED
      BY <2>1, <3>1, Zenon
  <2>4. Meant(inst, a, b, r)
    BY <1>6, <2>3 DEF Meant
  <2> QED
    BY <2>2, <2>4 DEF r
<1>7. CASE inst.mnemonic = "XOR"
  <2>1. r = ValueOf((Ones(a) \ Ones(b)) \cup (Ones(b) \ Ones(a)), WordBits)
    BY <1>7 DEF Plain
  <2> HIDE DEF r
  <2>2. /\ r \in Word
        /\ \A i \in 0 .. WordBits - 1 : BitAt(r, i) = 1 <=> BitAt(a, i) # BitAt(b, i)
    <3> DEFINE bits == (Ones(a) \ Ones(b)) \cup (Ones(b) \ Ones(a))
    <3>1. ValueOf(bits, WordBits) \in Word
      BY MadeOfBits, Zenon
    <3>2. \A i \in 0 .. WordBits - 1 :
            BitAt(ValueOf(bits, WordBits), i) = 1 <=> BitAt(a, i) # BitAt(b, i)
      BY BitwiseBits, Zenon
    <3> HIDE DEF bits
    <3>3. r = ValueOf(bits, WordBits)
      BY <2>1, Zenon DEF bits
    <3> QED
      BY <3>1, <3>2, <3>3, Zenon
  <2>3. Meant(inst, a, b, r)
    BY <1>7, <2>2 DEF Meant
  <2> QED
    BY <2>2, <2>3 DEF r
<1>8. CASE inst.mnemonic = "NOT"
  <2>1. r = ValueOf((0 .. WordBits - 1) \ Ones(a), WordBits)
    BY <1>8 DEF Plain
  <2> HIDE DEF r
  <2>2. r \in Word /\ r = AllOnes - a
    BY <2>1, MadeOfBits, Complement
  <2>3. Meant(inst, a, b, r)
    BY <1>8, <2>2 DEF Meant
  <2> QED
    BY <2>2, <2>3 DEF r
<1>9. CASE inst.mnemonic = "CMPEQ"
  <2>1. r = IF a = b THEN 1 ELSE 0
    BY <1>9 DEF Plain, Truth
  <2> HIDE DEF r
  <2>2. r \in Word /\ r \in {0, 1} /\ (r = 1 <=> a = b) /\ (r = 0 <=> a # b)
    BY <2>1, ZeroAndOne
  <2>3. Meant(inst, a, b, r)
    BY <1>9, <2>2 DEF Meant
  <2> QED
    BY <2>2, <2>3 DEF r
<1>10. CASE inst.mnemonic = "CMPNE"
  <2>1. r = IF a # b THEN 1 ELSE 0
    BY <1>10 DEF Plain, Truth
  <2> HIDE DEF r
  <2>2. r \in Word /\ r \in {0, 1} /\ (r = 1 <=> a # b) /\ (r = 0 <=> ~(a # b))
    BY <2>1, ZeroAndOne
  <2>3. Meant(inst, a, b, r)
    BY <1>10, <2>2 DEF Meant
  <2> QED
    BY <2>2, <2>3 DEF r
<1>11. /\ Signed(a) < Signed(b) <=> Biased(a) < Biased(b)
       /\ Signed(a) <= Signed(b) <=> Biased(a) <= Biased(b)
  <2>1. Half \in Int
    BY WordFacts
  <2> QED
    BY <1>1, <2>1, BiasedOrder
<1>12. CASE inst.mnemonic = "CMPLT"
  <2>1. r = IF Signed(a) < Signed(b) THEN 1 ELSE 0
    BY <1>12 DEF Plain, Truth
  <2> HIDE DEF r
  <2>2. r \in Word /\ r \in {0, 1} /\ (r = 1 <=> Signed(a) < Signed(b))
    BY <2>1, ZeroAndOne
  <2>3. Meant(inst, a, b, r)
    BY <1>11, <1>12, <2>2 DEF Meant
  <2> QED
    BY <2>2, <2>3 DEF r
<1>13. CASE inst.mnemonic = "CMPLE"
  <2>1. r = IF Signed(a) <= Signed(b) THEN 1 ELSE 0
    BY <1>13 DEF Plain, Truth
  <2> HIDE DEF r
  <2>2. r \in Word /\ r \in {0, 1} /\ (r = 1 <=> Signed(a) <= Signed(b))
    BY <2>1, ZeroAndOne
  <2>3. Meant(inst, a, b, r)
    BY <1>11, <1>13, <2>2 DEF Meant
  <2> QED
    BY <2>2, <2>3 DEF r
<1> QED
  BY <1>2, <1>3, <1>4, <1>5, <1>6, <1>7, <1>8, <1>9, <1>10, <1>12, <1>13

-------------------------------------------------------------------------------
(* The instructions that write a register, by their formats.                   *)
Immediate == {"MOVZ", "LUI", "ADDI", "LDA"}

LEMMA Formats ==
  ASSUME NEW m \in Mnemonics
  PROVE  /\ m \in Immediate \cup LoadOps \cup StoreOps => RowOf(m)[3] = "I"
         /\ m \in ValueOps \ Immediate => RowOf(m)[3] = "R"
<1> DEFINE row == RowOf(m)
<1>1. row \in Base32 \cup Escape32 /\ row[1] = m
  BY RowFacts
<1> HIDE DEF row
<1>2. row[1] \in Immediate \cup LoadOps \cup StoreOps => row[3] = "I"
  BY <1>1, SMTT(60) DEF Base32, Escape32, Immediate, LoadOps, StoreOps
<1>3. row[1] \in ValueOps \ Immediate => row[3] = "R"
  BY <1>1, SMTT(60) DEF Base32, Escape32, Immediate, ValueOps, ShiftOps, DivideOps, PlainOps
<1> QED
  BY <1>1, <1>2, <1>3 DEF row

LEMMA ResultMeant ==
  ASSUME NEW inst \in Inst, inst.mnemonic \in ValueOps, NEW di, Says(di, inst),
         NEW a \in Word, NEW b \in Word, NEW c, di.rs2 = inst.rs2 => b = c
  PROVE  /\ Result(di, a, c) \in Word /\ di.rd = inst.rd /\ di.rs1 = inst.rs1
         /\ inst.mnemonic \notin Counting =>
              Undefined([op |-> inst.mnemonic], a, b) \/ Meant(inst, a, b, Result(di, a, c))
<1> DEFINE m == inst.mnemonic
           format == RowOf(m)[3]
           imm == IF m \in Unsigned THEN SignExtend(inst.imm, 15) ELSE inst.imm
<1>1. m \in Mnemonics /\ inst.imm \in Int
  BY DEF Inst
<1>2. /\ m \in Immediate => format = "I"
      /\ m \notin Immediate => format = "R"
  BY <1>1, Formats
<1>3. /\ di.op = m
      /\ format \in {"R", "I", "J"} => di.rd = inst.rd
      /\ format \in {"R", "I", "B"} => di.rs1 = inst.rs1
      /\ format \in {"R", "B"} => di.rs2 = inst.rs2
      /\ format \in {"I", "B", "J"} => di.imm = imm
  BY Zenon DEF Says
<1> HIDE DEF format
<1>4. format \in {"R", "I"}
  BY <1>2
<1>5. di.rd = inst.rd /\ di.rs1 = inst.rs1
  BY <1>3, <1>4
<1>6. m \notin Immediate => b = c
  BY <1>2, <1>3
<1>7. m \in Immediate => di.imm = imm
  BY <1>2, <1>3
<1>8. CASE m \in ShiftOps
  <2>1. m \notin Immediate
    BY <1>8 DEF ShiftOps, Immediate
  <2>2. Result(di, a, b) \in Word /\ Meant(inst, a, b, Result(di, a, b))
    BY <1>3, <1>8, ShiftMeant
  <2> QED
    BY <1>5, <1>6, <2>1, <2>2
<1>9. CASE m \in DivideOps
  <2>1. m \notin Immediate
    BY <1>9 DEF DivideOps, Immediate
  <2>2. /\ Result(di, a, b) \in Word
        /\ Undefined([op |-> inst.mnemonic], a, b) \/ Meant(inst, a, b, Result(di, a, b))
    BY <1>3, <1>9, DivideMeant
  <2> QED
    BY <1>5, <1>6, <2>1, <2>2
<1>10. CASE m \in {"MOV", "RETAIN", "RELEASE", "MOVZ", "LUI", "ADDI", "LDA"}
  <2>1. Result(di, a, c) = Plain(di, a, c)
    BY <1>3, <1>10 DEF Result, ShiftOps, DivideOps, PlainOps
  <2>2. m \in {"MOV", "RETAIN", "RELEASE"} \/ m \in Immediate
    BY <1>10 DEF Immediate
  <2>3. /\ Plain(di, a, c) \in Word
        /\ inst.mnemonic \notin Counting => Meant(inst, a, b, Plain(di, a, c))
    BY <1>1, <1>3, <1>7, <1>10, <2>2, MoveMeant
  <2> QED
    BY <1>5, <2>1, <2>3
<1>11. CASE m \in {"ADD", "SUB", "MUL", "AND", "OR", "XOR", "NOT", "CMPEQ", "CMPNE", "CMPLT", "CMPLE"}
  <2>1. Result(di, a, b) = Plain(di, a, b)
    BY <1>3, <1>11 DEF Result, ShiftOps, DivideOps, PlainOps
  <2>2. m \notin Immediate
    BY <1>11 DEF Immediate
  <2>3. Plain(di, a, b) \in Word /\ Meant(inst, a, b, Plain(di, a, b))
    BY <1>3, <1>11, ArithmeticMeant
  <2> QED
    BY <1>5, <1>6, <2>1, <2>2, <2>3
<1> QED
  BY <1>8, <1>9, <1>10, <1>11 DEF ValueOps, PlainOps

-------------------------------------------------------------------------------
(* Memory: its bounds, its bytes, and numbers read from them.                  *)
Cell     == 0 .. TwoTo[ByteBits] - 1
Memories == [0 .. DataSize - 1 -> Cell]

LEMMA Bounds ==
  ASSUME NEW image \in Memories, NEW addr \in Nat, NEW n \in Nat
  PROVE  /\ CheckBounds(image, addr, n) => addr + n <= DataSize
         /\ n > 0 /\ ~CheckBounds(image, addr, n) => addr + n > DataSize
<1>1. DataSize \in Nat
  BY DataAssumption
<1>2. DOMAIN image = 0 .. DataSize - 1
  BY DEF Memories
<1>3. Cardinality(0 .. DataSize - 1) = DataSize
  <2>1. 0 \in Int /\ DataSize - 1 \in Int
    BY <1>1
  <2>2. Cardinality(0 .. DataSize - 1) = IF 0 > DataSize - 1 THEN 0 ELSE (DataSize - 1) - 0 + 1
    BY <2>1, FS_Interval
  <2> QED
    BY <1>1, <2>2
<1>4. CheckBounds(image, addr, n) <=> addr \in 0 .. DataSize - 1 /\ addr + n <= DataSize
  BY <1>2, <1>3 DEF CheckBounds
<1> QED
  BY <1>1, <1>4

LEMMA TransferWidths ==
  ASSUME NEW op \in LoadOps \cup StoreOps
  PROVE  Width(op) \in {1, 2, 4, 8}
BY DEF Width, LoadOps, StoreOps

ReadsAs(low, image, addr, n) ==
  low = [k \in 0 .. n |->
           IF k = 0 THEN 0 ELSE low[k - 1] + image[addr + (k - 1)] * TwoTo[ByteBits * (k - 1)]]

LEMMA ReadDigits ==
  ASSUME NEW image \in Memories, NEW addr \in Nat, NEW n \in Nat, addr + n <= DataSize
  PROVE  \E low : /\ Read(image, addr, n) = low[n]
                  /\ Digits(low, [i \in 0 .. n - 1 |-> image[addr + i]], ByteBits, n)
<1> DEFINE d == [i \in 0 .. n - 1 |-> image[addr + i]]
           w == [k \in 1 .. n |-> image[addr + (k - 1)] * TwoTo[ByteBits * (k - 1)]]
<1>1. \E low : ReadsAs(low, image, addr, n)
  <2>1. PICK low : SumTo(low, w, n)
    BY SumExists, Zenon
  <2>2. \A k \in 0 .. n : low[k] = IF k = 0 THEN 0 ELSE low[k - 1] + w[k]
    BY <2>1, Zenon DEF SumTo
  <2>3. \A k \in 0 .. n : k # 0 => w[k] = image[addr + (k - 1)] * TwoTo[ByteBits * (k - 1)]
    OBVIOUS
  <2>4. low = [k \in 0 .. n |-> low[k]]
    BY <2>1 DEF SumTo
  <2> HIDE DEF w
  <2>5. ReadsAs(low, image, addr, n)
    BY <2>2, <2>3, <2>4 DEF ReadsAs
  <2> QED
    BY <2>5
<1> DEFINE low == CHOOSE f : ReadsAs(f, image, addr, n)
<1>2. ReadsAs(low, image, addr, n)
  BY <1>1, Zenon
<1>3. Read(image, addr, n) = low[n]
  BY Zenon DEF Read, ReadsAs
<1> HIDE DEF low
<1>4. \A k \in 0 .. n : low[k] = IF k = 0 THEN 0
                                  ELSE low[k - 1] + image[addr + (k - 1)] * TwoTo[ByteBits * (k - 1)]
  BY <1>2, Zenon DEF ReadsAs
<1>5. low[0] = 0
  BY <1>4
<1>6. \A k \in 1 .. n : low[k] = low[k - 1] + d[k - 1] * TwoTo[ByteBits * (k - 1)]
  <2> SUFFICES ASSUME NEW k \in 1 .. n
               PROVE  low[k] = low[k - 1] + d[k - 1] * TwoTo[ByteBits * (k - 1)]
    OBVIOUS
  <2>1. k \in 0 .. n /\ k # 0 /\ k - 1 \in 0 .. n - 1
    OBVIOUS
  <2>2. d[k - 1] = image[addr + (k - 1)]
    BY <2>1
  <2> QED
    BY <1>4, <2>1, <2>2
<1>7. d \in [0 .. n - 1 -> 0 .. TwoTo[ByteBits] - 1]
  <2> SUFFICES ASSUME NEW i \in 0 .. n - 1 PROVE image[addr + i] \in 0 .. TwoTo[ByteBits] - 1
    OBVIOUS
  <2>1. addr + i \in 0 .. DataSize - 1
    BY DataAssumption
  <2> QED
    BY <2>1 DEF Memories, Cell
<1> HIDE DEF d
<1>8. Digits(low, d, ByteBits, n)
  BY <1>5, <1>6, <1>7, Zenon DEF Digits
<1> QED
  BY <1>3, <1>8 DEF d

(* The digits of a number: those it was made of, and the ones of its sign.     *)
Digit(r, i) == (r \div TwoTo[ByteBits * i]) % TwoTo[ByteBits]

LEMMA ReadFacts ==
  ASSUME NEW image \in Memories, NEW addr \in Nat, NEW n \in Nat \ {0}, addr + n <= DataSize
  PROVE  LET v == Read(image, addr, n)
         IN  /\ v \in 0 .. TwoTo[ByteBits * n] - 1
             /\ \A i \in 0 .. n - 1 : Digit(v, i) = image[addr + i]
             /\ v >= TwoTo[ByteBits * n - 1] <=> 2 * image[addr + n - 1] >= TwoTo[ByteBits]
<1> DEFINE v == Read(image, addr, n)
           d == [i \in 0 .. n - 1 |-> image[addr + i]]
           B == ByteBits
<1>1. PICK low : v = low[n] /\ Digits(low, d, B, n)
  BY ReadDigits
<1>2. B \in Nat \ {0} /\ B \in Nat
  BY ByteAssumption
<1> HIDE DEF v, B
<1>3. \A k \in 0 .. n : low[k] \in 0 .. TwoTo[B * k] - 1
  <2> HIDE DEF d
  <2> QED
    BY <1>1, <1>2, DigitsRange
<1>4. ASSUME NEW i \in 0 .. n - 1 PROVE Digit(v, i) = image[addr + i]
  <2>1. n \in i + 1 .. n /\ d[i] = image[addr + i]
    OBVIOUS
  <2> HIDE DEF d
  <2>2. \A k \in i + 1 .. n : (low[k] \div TwoTo[B * i]) % TwoTo[B] = d[i]
    BY <1>1, <1>2, DigitOf
  <2>3. (low[n] \div TwoTo[B * i]) % TwoTo[B] = d[i]
    BY <2>1, <2>2
  <2> QED
    BY <1>1, <2>1, <2>3 DEF Digit, B
<1>5. v \in 0 .. TwoTo[B * n] - 1
  BY <1>1, <1>3
<1>6. v >= TwoTo[B * n - 1] <=> 2 * image[addr + n - 1] >= TwoTo[B]
  <2> DEFINE p == TwoTo[B * (n - 1)]
             h == TwoTo[B - 1]
             t == d[n - 1]
             l == low[n - 1]
  <2>1. /\ n - 1 \in 0 .. n - 1 /\ n - 1 \in 0 .. n /\ n \in 1 .. n /\ addr + (n - 1) = addr + n - 1
        /\ B * (n - 1) \in Nat /\ B - 1 \in Nat /\ (B - 1) + 1 = B
        /\ B * (n - 1) + (B - 1) = B * n - 1
    BY <1>2
  <2>2. t = image[addr + n - 1] /\ t \in 0 .. TwoTo[B] - 1
    <3>1. t = image[addr + n - 1]
      BY <2>1
    <3> HIDE DEF d
    <3> QED
      BY <1>1, <2>1, <3>1 DEF Digits
  <2>3. v = l + t * p
    <3> HIDE DEF d
    <3> QED
      BY <1>1, <2>1, Zenon DEF Digits
  <2>4. TwoTo[B * n - 1] = p * h /\ p \in Nat \ {0} /\ h \in Nat \ {0} /\ TwoTo[B] = 2 * h
    <3>1. TwoTo[B * (n - 1) + (B - 1)] = p * h
      BY <2>1, TwoToSum
    <3>2. p \in Nat \ {0} /\ h \in Nat \ {0} /\ TwoTo[(B - 1) + 1] = 2 * h
      BY <2>1, TwoToNext
    <3> QED
      BY <2>1, <3>1, <3>2
  <2>5. l \in 0 .. p - 1
    BY <1>3, <2>1
  <2> HIDE DEF d, p, h, t, l
  <2>6. t \in Nat
    BY <2>2, <2>4
  <2>7. v >= p * h <=> t >= h
    <3>1. ASSUME t >= h PROVE v >= p * h
      <4>1. t * p >= h * p /\ h * p = p * h /\ t * p \in Nat
        BY <2>4, <2>6, <3>1
      <4> QED
        BY <2>3, <2>4, <2>5, <4>1
    <3>2. ASSUME ~(t >= h) PROVE ~(v >= p * h)
      <4>1. t * p <= (h - 1) * p /\ (h - 1) * p = p * h - p /\ t * p \in Nat /\ p * h \in Nat
        BY <2>4, <2>6, <3>2
      <4> QED
        BY <2>3, <2>4, <2>5, <4>1
    <3> QED
      BY <3>1, <3>2
  <2>8. t >= h <=> 2 * t >= TwoTo[B]
    BY <2>4, <2>6
  <2> QED
    BY <2>2, <2>4, <2>7, <2>8
<1> QED
  BY <1>4, <1>5, <1>6 DEF v, B

LEMMA HighDigits ==
  ASSUME NEW n \in 0 .. 7, NEW v \in 0 .. TwoTo[ByteBits * n] - 1, NEW i \in n .. 7
  PROVE  /\ Digit(v, i) = 0
         /\ Digit(v + TwoTo[ByteBits * n] * (TwoTo[ByteBits * (8 - n)] - 1), i) = TwoTo[ByteBits] - 1
<1> DEFINE B == ByteBits
           p == TwoTo[B * n]
           s == TwoTo[B * (i - n)]
           u == TwoTo[B * (7 - i)]
           b == TwoTo[B]
           r == v + p * (TwoTo[B * (8 - n)] - 1)
<1>1. B \in Nat \ {0}
  BY ByteAssumption
<1> HIDE DEF B
<1>2. /\ n \in Nat /\ i \in Nat /\ B * n \in Nat /\ B * (i - n) \in Nat /\ B * (7 - i) \in Nat
      /\ B * i = B * n + B * (i - n) /\ B * i \in Nat /\ B * n <= B * i
      /\ B * (8 - n) = B * (i - n) + (B + B * (7 - i))
  <2>1. n \in Nat /\ i \in Nat /\ i - n \in Nat /\ 7 - i \in Nat
    OBVIOUS
  <2>2. B * n \in Nat /\ B * (i - n) \in Nat /\ B * (7 - i) \in Nat /\ B * i \in Nat
    BY <1>1, <2>1
  <2>3. B * i = B * n + B * (i - n) /\ B * (8 - n) = B * (i - n) + (B + B * (7 - i))
    BY <1>1, <2>1
  <2> QED
    BY <2>1, <2>2, <2>3
<1>3. /\ p \in Nat \ {0} /\ s \in Nat \ {0} /\ u \in Nat \ {0} /\ b \in Nat \ {0}
      /\ TwoTo[B * i] = p * s /\ TwoTo[B * (8 - n)] = s * (b * u)
  <2>1. TwoTo[B * n + B * (i - n)] = p * s
    BY <1>2, TwoToSum
  <2>2. TwoTo[B * (i - n) + (B + B * (7 - i))] = s * TwoTo[B + B * (7 - i)]
    <3>1. B + B * (7 - i) \in Nat
      BY <1>1, <1>2
    <3> QED
      BY <1>2, <3>1, TwoToSum
  <2>3. TwoTo[B + B * (7 - i)] = b * u
    BY <1>1, <1>2, TwoToSum
  <2> QED
    BY <1>1, <1>2, <2>1, <2>2, <2>3, TwoToNext
<1>4. v \in 0 .. p - 1
  BY DEF B
<1>5. Digit(v, i) = 0
  <2>1. v \div TwoTo[B * i] = 0
    BY <1>2, <1>4, BitBeyond
  <2>2. 0 % b = 0
    BY <1>3
  <2> QED
    BY <2>1, <2>2 DEF Digit, B
<1>6. Digit(r, i) = b - 1
  <2> DEFINE m == s * (b * u) - 1
  <2>1. m \in Int
    BY <1>3
  <2>2. r = v + p * m
    BY <1>3
  <2> HIDE DEF p, s, u, b, r
  <2>3. (r \div p) \div s = r \div (p * s)
    <3>1. r \in Int
      <4> HIDE DEF m
      <4> QED
        BY <1>3, <1>4, <2>1, <2>2
    <3> QED
      BY <1>3, <3>1, DivisionTwice
  <2>4. r \div p = m
    <3> HIDE DEF m
    <3>1. (v + p * m) \div p = (v \div p) + m
      <4>1. v \in Int
        BY <1>3, <1>4
      <4> QED
        BY <1>3, <2>1, <4>1, DivisionAdds
    <3>2. v \div p = 0
      BY <1>3, <1>4, SmallModulo
    <3> QED
      BY <2>1, <2>2, <3>1, <3>2
  <2>5. m \div s = b * u - 1
    <3>1. b * u \in Int
      BY <1>3
    <3> DEFINE w == b * u
    <3> HIDE DEF w
    <3>2. w - 1 \in Int /\ m - s * (w - 1) \in 0 .. s - 1
      <4>1. w \in Int /\ m = s * w - 1
        BY <3>1 DEF w
      <4>2. m - s * (w - 1) = s - 1
        BY <1>3, <4>1
      <4> QED
        BY <1>3, <4>1, <4>2
    <3> HIDE DEF m
    <3>3. m \div s = w - 1
      BY <1>3, <2>1, <3>2, DivisionFrom
    <3> QED
      BY <3>3 DEF w
  <2>6. (b * u - 1) % b = b - 1
    <3> DEFINE x == b * u - 1
    <3>1. x \in Int /\ u - 1 \in Int /\ x - b * (u - 1) = b - 1
      BY <1>3
    <3> HIDE DEF x
    <3>2. x - b * (u - 1) \in 0 .. b - 1
      BY <1>3, <3>1
    <3>3. x % b = x - b * (u - 1)
      BY <1>3, <3>1, <3>2, DivisionFrom
    <3> QED
      BY <3>1, <3>3 DEF x
  <2>7. (r \div (p * s)) % b = b - 1
    BY <2>3, <2>4, <2>5, <2>6
  <2> QED
    BY <1>3, <2>7 DEF Digit, B, b
<1> QED
  BY <1>5, <1>6 DEF r, p, b, B

LEMMA LowDigitsKept ==
  ASSUME NEW n \in Nat, NEW v \in Int, NEW m \in Int, NEW i \in 0 .. n - 1
  PROVE  Digit(v + TwoTo[ByteBits * n] * m, i) = Digit(v, i)
<1> DEFINE B == ByteBits
           p == TwoTo[B * i]
           u == TwoTo[B * (n - (i + 1))]
           b == TwoTo[B]
<1>1. B \in Nat \ {0}
  BY ByteAssumption
<1> HIDE DEF B
<1>2. /\ i \in Nat /\ B * i \in Nat /\ B * (n - (i + 1)) \in Nat
      /\ B * n = B * i + (B + B * (n - (i + 1)))
  <2>1. n - (i + 1) \in Nat /\ i \in Nat
    OBVIOUS
  <2> QED
    BY <1>1, <2>1
<1>3. /\ p \in Nat \ {0} /\ u \in Nat \ {0} /\ b \in Nat \ {0} /\ TwoTo[B * n] = p * (b * u)
  <2>1. TwoTo[B * i + (B + B * (n - (i + 1)))] = p * TwoTo[B + B * (n - (i + 1))]
    <3>1. B + B * (n - (i + 1)) \in Nat
      BY <1>1, <1>2
    <3> QED
      BY <1>2, <3>1, TwoToSum
  <2>2. TwoTo[B + B * (n - (i + 1))] = b * u
    BY <1>1, <1>2, TwoToSum
  <2> QED
    BY <1>1, <1>2, <2>1, <2>2, TwoToNext
<1> HIDE DEF p, u, b
<1>4. TwoTo[B * n] * m = p * (b * (u * m)) /\ u * m \in Int
  BY <1>3
<1> DEFINE c == u * m
           q == v \div p
<1>5. TwoTo[B * n] * m = p * (b * c) /\ c \in Int /\ b * c \in Int /\ q \in Int
  <2>1. q \in Int
    BY <1>3, Division
  <2>2. c \in Int /\ TwoTo[B * n] * m = p * (b * c)
    BY <1>4
  <2> HIDE DEF c
  <2>3. b * c \in Int
    BY <1>3, <2>2
  <2> QED
    BY <2>1, <2>2, <2>3
<1> HIDE DEF c
<1>6. (v + p * (b * c)) \div p = q + b * c
  BY <1>3, <1>5, DivisionAdds
<1> HIDE DEF q
<1>7. (q + b * c) % b = q % b
  BY <1>3, <1>5, DivisionAdds
<1>8. ((v + TwoTo[B * n] * m) \div p) % b = q % b
  BY <1>5, <1>6, <1>7
<1> QED
  BY <1>8 DEF Digit, q, p, b, B

(* A load leaves the bytes it read, extended by zeros or by their sign.        *)
LEMMA LoadMeant ==
  ASSUME data \in Memories, NEW inst, inst.mnemonic \in LoadOps, NEW addr \in Nat,
         addr + Width(inst.mnemonic) <= DataSize
  PROVE  /\ Loaded(inst.mnemonic, data, addr) \in Word
         /\ MeantLoad(inst, addr, Loaded(inst.mnemonic, data, addr))
<1> DEFINE op == inst.mnemonic
           n  == Width(op)
           v  == Read(data, addr, n)
           r  == Loaded(op, data, addr)
           P  == TwoTo[ByteBits * n]
           top == data[addr + n - 1]
<1>1. n \in {1, 2, 4, 8} /\ (op \in SignedLoads => n \in {1, 2, 4})
  BY TransferWidths DEF Width, LoadOps, SignedLoads
<1>2. /\ v \in 0 .. P - 1
      /\ \A i \in 0 .. n - 1 : Digit(v, i) = data[addr + i]
      /\ v >= TwoTo[ByteBits * n - 1] <=> 2 * top >= TwoTo[ByteBits]
  <2>1. n \in Nat \ {0}
    BY <1>1
  <2> QED
    BY <2>1, ReadFacts
<1>3. /\ P \in Nat \ {0} /\ n \in 0 .. 8 /\ ByteBits \in Nat \ {0}
      /\ TwoTo[ByteBits * (8 - n)] \in Nat \ {0}
      /\ Modulus = P * TwoTo[ByteBits * (8 - n)] /\ Word = 0 .. Modulus - 1
      /\ Half \in Nat \ {0} /\ Modulus = 2 * Half
  <2>1. n \in 0 .. 8 /\ 8 - n \in Nat /\ n \in Nat
    BY <1>1
  <2>2. /\ ByteBits * n \in Nat /\ ByteBits * (8 - n) \in Nat
        /\ ByteBits * n + ByteBits * (8 - n) = WordBits
    <3>1. ByteBits \in Nat
      BY WordFacts
    <3> HIDE DEF n
    <3> QED
      BY <2>1, <3>1 DEF WordBits
  <2>3. TwoTo[ByteBits * n + ByteBits * (8 - n)] = P * TwoTo[ByteBits * (8 - n)]
    BY <2>2, TwoToSum
  <2>4. P \in Nat \ {0} /\ TwoTo[ByteBits * (8 - n)] \in Nat \ {0}
    BY <2>2, TwoToNext
  <2> QED
    BY <2>1, <2>2, <2>3, <2>4, WordFacts DEF Modulus
<1> DEFINE S == TwoTo[ByteBits * (8 - n)]
           Negative == op \in SignedLoads /\ 2 * top >= TwoTo[ByteBits]
<1>4. S \in Nat \ {0} /\ Modulus = P * S
  BY <1>3
<1>5. r = IF op \in SignedLoads THEN Wrap(SignExtend(v, ByteBits * n)) ELSE v
  BY DEF Loaded, SignedLoads
<1>6. SignExtend(v, ByteBits * n) = IF 2 * top >= TwoTo[ByteBits] THEN v - P ELSE v
  BY <1>2 DEF SignExtend
<1>7. S = 1 => ~Negative
  <2>1. op \in SignedLoads => 8 - n \in Nat \ {0}
    BY <1>1
  <2>2. op \in SignedLoads => ByteBits * (8 - n) \in Nat \ {0}
    <3> DEFINE k == 8 - n
    <3> HIDE DEF k
    <3>1. k \in Nat \ {0} => ByteBits * k \in Nat \ {0}
      BY <1>3
    <3> QED
      BY <2>1, <3>1 DEF k
  <2> DEFINE j == ByteBits * (8 - n)
  <2> HIDE DEF j
  <2>3. j \in Nat \ {0} => TwoTo[j] >= 2
    <3>1. ASSUME j \in Nat \ {0} PROVE TwoTo[j] >= 2
      <4>1. j - 1 \in Nat /\ (j - 1) + 1 = j
        BY <3>1
      <4>2. TwoTo[(j - 1) + 1] = 2 * TwoTo[j - 1] /\ TwoTo[j - 1] \in Nat \ {0}
        BY <4>1, TwoToNext
      <4> QED
        BY <4>1, <4>2
    <3> QED
      BY <3>1
  <2>4. op \in SignedLoads => S >= 2
    BY <2>2, <2>3 DEF j
  <2> QED
    BY <1>4, <2>4
<1> HIDE DEF P, S, top
<1>8. v \in Word
  <2>1. P <= P * S /\ P * S \in Nat
    BY <1>3, <1>4
  <2> QED
    BY <1>2, <1>3, <1>4, <2>1
<1> HIDE DEF v, r
<1>9. r = IF Negative THEN v + P * (S - 1) ELSE v
  <2>1. CASE Negative
    <3>1. r = (v - P) % Modulus
      BY <1>5, <1>6, <2>1 DEF Wrap, Modulus
    <3>2. P * (S - 1) = Modulus - P /\ P * (S - 1) \in Int
      BY <1>3, <1>4
    <3>3. Modulus >= P
      <4>1. P <= P * S
        BY <1>3, <1>4
      <4> QED
        BY <1>4, <4>1
    <3>4. v - P \in Int /\ -1 \in Int /\ (v - P) - Modulus * (-1) \in 0 .. Modulus - 1
      BY <1>2, <1>3, <3>3, SMTT(30)
    <3>5. (v - P) % Modulus = (v - P) - Modulus * (-1)
      <4>1. Modulus \in Nat \ {0}
        BY <1>3
      <4> QED
        BY <3>4, <4>1, DivisionFrom
    <3>6. r = v + P * (S - 1)
      <4> DEFINE x == P * (S - 1)
      <4>1. x = Modulus - P
        BY <3>2
      <4> HIDE DEF Negative, x
      <4>2. r = (v - P) - Modulus * (-1)
        BY <3>1, <3>5, Zenon
      <4>3. v \in Int /\ P \in Int /\ Modulus \in Int
        BY <1>2, <1>3
      <4>4. r = v + x
        BY <4>1, <4>2, <4>3
      <4> QED
        BY <4>4 DEF x
    <3> QED
      BY <2>1, <3>6
  <2>2. CASE ~Negative
    <3>1. r = v \/ r = v % Modulus
      BY <1>5, <1>6, <2>2 DEF Wrap, Modulus
    <3>2. v % Modulus = v
      <4>1. Modulus \in Nat \ {0} /\ v \in 0 .. Modulus - 1
        BY <1>3, <1>8
      <4> QED
        BY <4>1, SmallModulo
    <3> QED
      BY <2>2, <3>1, <3>2
  <2> QED
    BY <2>1, <2>2
<1> HIDE DEF Negative
<1>10. r \in Word
  <2>1. CASE Negative
    <3>1. P * (S - 1) = Modulus - P /\ P * (S - 1) \in Nat /\ Modulus \in Nat
      <4>1. P * (S - 1) = P * S - P
        BY <1>3, <1>4
      <4>2. S - 1 \in Nat
        BY <1>4
      <4>3. P * (S - 1) \in Nat
        BY <1>3, <4>2
      <4> QED
        BY <1>3, <1>4, <4>1, <4>3
    <3> DEFINE x == P * (S - 1)
    <3>2. r = v + x /\ x = Modulus - P /\ x \in Nat /\ Modulus \in Nat
      BY <1>9, <2>1, <3>1
    <3> HIDE DEF x
    <3> QED
      BY <1>2, <1>3, <3>2
  <2>2. CASE ~Negative
    BY <1>8, <1>9, <2>2
  <2> QED
    BY <2>1, <2>2
<1>11. S - 1 \in Int /\ v \in Int /\ n \in Nat
  BY <1>2, <1>3, <1>4
<1>12. ASSUME NEW i \in 0 .. n - 1 PROVE data[addr + i] = Digit(r, i)
  <2>1. Digit(v + P * (S - 1), i) = Digit(v, i)
    <3> HIDE DEF n
    <3> DEFINE mm == S - 1
    <3>1. mm \in Int
      BY <1>11
    <3> HIDE DEF mm
    <3>2. Digit(v + TwoTo[ByteBits * n] * mm, i) = Digit(v, i)
      BY <1>11, <3>1, LowDigitsKept
    <3> QED
      BY <3>2 DEF P, mm
  <2> QED
    BY <1>2, <1>9, <2>1
<1>13. ASSUME NEW i \in n .. 7
       PROVE  Digit(r, i) = IF Negative THEN TwoTo[ByteBits] - 1 ELSE 0
  <2>1. n \in 0 .. 7
    BY <1>3, <1>11
  <2> HIDE DEF n
  <2>2. v \in 0 .. TwoTo[ByteBits * n] - 1
    BY <1>2 DEF P
  <2>3. /\ Digit(v, i) = 0
        /\ Digit(v + TwoTo[ByteBits * n] * (TwoTo[ByteBits * (8 - n)] - 1), i) = TwoTo[ByteBits] - 1
    BY <2>1, <2>2, HighDigits
  <2> QED
    BY <1>9, <2>3 DEF P, S
<1>14. MeantLoad(inst, addr, r)
  BY <1>12, <1>13 DEF MeantLoad, Digit, Negative, top
<1> QED
  BY <1>10, <1>14 DEF r

(* A store leaves the bytes of the value in place of those it overwrites.      *)
LEMMA StoreMeant ==
  ASSUME data \in Memories, NEW inst, inst.mnemonic \in StoreOps, NEW addr \in Nat, NEW v \in Word,
         data' = Stored(inst.mnemonic, data, addr, v)
  PROVE  data' \in Memories /\ MeantStore(inst, addr, v)
<1> DEFINE n == Width(inst.mnemonic)
<1>1. n \in {1, 2, 4, 8}
  BY TransferWidths
<1> HIDE DEF n
<1>2. DOMAIN data = 0 .. DataSize - 1 /\ DataSize \in Nat
  BY DataAssumption DEF Memories
<1>3. data' = [a \in 0 .. DataSize - 1 |->
                 IF a \in addr .. addr + n - 1
                 THEN (v \div TwoTo[ByteBits * (a - addr)]) % TwoTo[ByteBits] ELSE data[a]]
  BY <1>2 DEF Stored, Write, n
<1>4. ASSUME NEW a \in 0 .. DataSize - 1
      PROVE  /\ a \in addr .. addr + n - 1 <=> a - addr \in 0 .. n - 1
             /\ a - addr \in 0 .. n - 1 =>
                  (v \div TwoTo[ByteBits * (a - addr)]) % TwoTo[ByteBits] \in Cell
             /\ data[a] \in Cell
  <2>1. a \in addr .. addr + n - 1 <=> a - addr \in 0 .. n - 1
    BY <1>1, <1>2
  <2>2. ASSUME a - addr \in 0 .. n - 1
        PROVE  (v \div TwoTo[ByteBits * (a - addr)]) % TwoTo[ByteBits] \in Cell
    <3>1. ByteBits \in Nat /\ a - addr \in Nat /\ v \in Int
      BY <1>2, <2>2, WordFacts
    <3>2. ByteBits * (a - addr) \in Nat
      <4> DEFINE k == a - addr
      <4>1. k \in Nat
        BY <3>1
      <4> HIDE DEF k
      <4>2. ByteBits * k \in Nat
        BY <3>1, <4>1
      <4> QED
        BY <4>2 DEF k
    <3>3. TwoTo[ByteBits * (a - addr)] \in Nat \ {0} /\ TwoTo[ByteBits] \in Nat \ {0}
      BY <3>1, <3>2, TwoToNext
    <3>4. v \div TwoTo[ByteBits * (a - addr)] \in Int
      BY <3>1, <3>3, Division
    <3> QED
      BY <3>3, <3>4, Division DEF Cell
  <2>3. data[a] \in Cell
    BY DEF Memories
  <2> QED
    BY <2>1, <2>2, <2>3
<1>5. data' \in Memories
  <2>1. \A a \in 0 .. DataSize - 1 : data'[a] \in Cell
    BY <1>3, <1>4
  <2>2. data' = [a \in 0 .. DataSize - 1 |-> data'[a]]
    BY <1>3
  <2> QED
    BY <2>1, <2>2 DEF Memories
<1>6. \A a \in 0 .. DataSize - 1 :
        data'[a] = IF a - addr \in 0 .. n - 1
                   THEN (v \div TwoTo[ByteBits * (a - addr)]) % TwoTo[ByteBits] ELSE data[a]
  BY <1>3, <1>4
<1>7. MeantStore(inst, addr, v)
  BY <1>2, <1>6 DEF MeantStore, n
<1> QED
  BY <1>5, <1>7

-------------------------------------------------------------------------------
(* The hart is at the instruction it is to run next, and its registers and its *)
(* memory hold words and bytes.                                                *)
HartInv ==
  Readable(program) =>
    /\ regs \in [0 .. 31 -> Word] /\ data \in Memories
    /\ executed \in 0 .. encoded /\ (encoded < Len(program) => executed = 0)
    /\ \E at : Places(at, program, encoded, code) /\ pc = at[executed]

LEMMA ReadableEach ==
  ASSUME Readable(program), NEW k \in 1 .. Len(program)
  PROVE  Fits(program[k]) /\ ~Escapes(program[k])
BY Zenon DEF Readable

LEMMA HartInitInv == CodeInit => HartInv
<1> SUFFICES ASSUME CodeInit
             PROVE  /\ regs \in [0 .. 31 -> Word] /\ data \in Memories
                    /\ executed \in 0 .. encoded /\ (encoded < Len(program) => executed = 0)
                    /\ \E at : Places(at, program, encoded, code) /\ pc = at[executed]
  BY Zenon DEF HartInv
<1>1. encoded = 0 /\ pc = 0 /\ executed = 0
  BY DEF CodeInit
<1>2. regs \in [0 .. 31 -> Word]
  BY StartsAssumption DEF CodeInit
<1>3. data \in Memories
  <2>1. /\ DataSize \in Nat /\ ByteBits \in Nat
        /\ Image \in Seq(0 .. TwoTo[ByteBits] - 1)
    BY DataAssumption, ByteAssumption
  <2>2. Len(Image) \in Nat /\ \A i \in 1 .. Len(Image) : Image[i] \in Cell
    BY <2>1, LenProperties, ElementOfSeq DEF Cell
  <2>3. 0 \in Cell
    <3>1. TwoTo[ByteBits] \in Nat \ {0}
      BY <2>1, TwoToNext
    <3> QED
      BY <3>1 DEF Cell
  <2>4. data = [a \in 0 .. DataSize - 1 |->
                  IF a \in 0 .. 0 + Len(Image) - 1 THEN Image[a - 0 + 1] ELSE Zeroed(DataSize)[a]]
    <3>1. DOMAIN Zeroed(DataSize) = 0 .. DataSize - 1
      BY DEF Zeroed
    <3> QED
      BY <3>1 DEF CodeInit, Load
  <2>5. ASSUME NEW a \in 0 .. DataSize - 1 PROVE data[a] \in Cell
    <3>1. Zeroed(DataSize)[a] = 0
      BY DEF Zeroed
    <3>2. a \in 0 .. 0 + Len(Image) - 1 => a - 0 + 1 \in 1 .. Len(Image)
      BY <2>1, <2>2
    <3> QED
      BY <2>2, <2>3, <2>4, <3>1, <3>2
  <2>6. data = [a \in 0 .. DataSize - 1 |-> data[a]]
    BY <2>4
  <2> QED
    BY <2>5, <2>6 DEF Memories
<1>4. PICK at : Places(at, program, encoded, code)
  BY CodeInitInv, Zenon DEF CodeInv
<1>5. pc = at[executed]
  BY <1>1, <1>4 DEF Places
<1>6. executed \in 0 .. encoded /\ (encoded < Len(program) => executed = 0)
  BY <1>1
<1> QED
  BY <1>2, <1>3, <1>4, <1>5, <1>6

(* What the next instruction is.                                               *)
LEMMA NextInstruction ==
  ASSUME CodeInv, HartInv, Runnable, Readable(program)
  PROVE  LET inst == program[executed + 1]
             di   == Decode(pc)
         IN  /\ inst \in Inst /\ Says(di, inst)
             /\ inst.mnemonic \in ValueOps \cup LoadOps \cup StoreOps
             /\ regs \in [0 .. 31 -> Word] /\ data \in Memories
             /\ executed \in Nat /\ executed + 1 \in 0 .. encoded /\ encoded = Len(program)
             /\ \E at : Places(at, program, encoded, code) /\ pc + di.len = at[executed + 1]
<1>1. /\ regs \in [0 .. 31 -> Word] /\ data \in Memories /\ executed \in 0 .. encoded
  BY Zenon DEF HartInv
<1>2. PICK at : Places(at, program, encoded, code) /\ pc = at[executed]
  BY Zenon DEF HartInv
<1>3. /\ program \in Seq(Inst) /\ encoded \in 0 .. Len(program) /\ code \in Seq(Octet)
      /\ Len(program) \in Nat /\ Len(code) \in Nat /\ encoded \in Nat
  BY LenProperties DEF CodeInv
<1>4. /\ encoded = Len(program) /\ pc < Len(code)
      /\ \A k \in 1 .. Len(program) : program[k].mnemonic \in ValueOps \cup LoadOps \cup StoreOps
  BY Zenon DEF Runnable
<1>5. at[encoded] = Len(code)
  BY <1>2, Zenon DEF Places
<1>6. executed # encoded
  BY <1>2, <1>3, <1>4, <1>5
<1>7. executed + 1 \in 1 .. encoded /\ (executed + 1) - 1 = executed /\ executed + 1 \in 1 .. Len(program)
  BY <1>1, <1>3, <1>4, <1>6
<1>8. Fits(program[executed + 1]) /\ ~Escapes(program[executed + 1])
  BY <1>7, ReadableEach
<1>9. /\ program[executed + 1] \in Inst /\ Says(Decode(pc), program[executed + 1])
      /\ at[executed + 1] = pc + Decode(pc).len
  <2> DEFINE k == executed + 1
  <2>1. k \in 1 .. encoded /\ k - 1 = executed /\ Fits(program[k]) /\ ~Escapes(program[k])
    BY <1>7, <1>8
  <2> HIDE DEF k
  <2>2. /\ program[k] \in Inst /\ Says(Decode(at[k - 1]), program[k])
        /\ at[k] = at[k - 1] + Decode(at[k - 1]).len
    BY <1>2, <2>1, FoundAt
  <2>3. at[k - 1] = pc
    BY <1>2, <2>1
  <2> QED
    BY <2>2, <2>3 DEF k
<1>10. executed \in Nat /\ executed + 1 \in 0 .. encoded
  BY <1>1, <1>7
<1> QED
  BY <1>1, <1>2, <1>4, <1>7, <1>9, <1>10, Zenon

LEMMA KindsApart ==
  ASSUME NEW m
  PROVE  /\ m \in ValueOps => m \notin LoadOps /\ m \notin StoreOps
         /\ m \in LoadOps => m \notin ValueOps /\ m \notin StoreOps
         /\ m \in StoreOps => m \notin ValueOps /\ m \notin LoadOps
BY SMTT(60) DEF ValueOps, ShiftOps, DivideOps, PlainOps, LoadOps, StoreOps

(* The operands that the bytes of a load or a store say.                       *)
LEMMA TransferOperands ==
  ASSUME NEW inst \in Inst, inst.mnemonic \in LoadOps \cup StoreOps, NEW di, Says(di, inst)
  PROVE  di.rd = inst.rd /\ di.rs1 = inst.rs1 /\ di.imm = inst.imm
<1> DEFINE m == inst.mnemonic
           format == RowOf(m)[3]
           imm == IF m \in Unsigned THEN SignExtend(inst.imm, 15) ELSE inst.imm
<1>1. m \in Mnemonics
  BY DEF Inst
<1>2. format = "I"
  BY <1>1, Formats
<1>3. m \notin Unsigned
  BY DEF LoadOps, StoreOps, Unsigned
<1>4. /\ format \in {"R", "I", "J"} => di.rd = inst.rd
      /\ format \in {"R", "I", "B"} => di.rs1 = inst.rs1
      /\ format \in {"I", "B", "J"} => di.imm = imm
  BY Zenon DEF Says
<1> HIDE DEF format
<1> QED
  BY <1>2, <1>3, <1>4

(* What a step does to an instruction's registers and memory.                  *)
LEMMA RunMeant ==
  ASSUME CodeInv, HartInv, Run, Readable(program)
  PROVE  /\ program[executed + 1].mnemonic \notin Counting => AsWritten(program[executed + 1])
         /\ HartInv'
<1> DEFINE inst == program[executed + 1]
           di   == Decode(pc)
           m    == inst.mnemonic
           a    == regs[inst.rs1]
           addr == (a + inst.imm) % TwoTo[WordBits]
<1>1. Runnable
  BY DEF Run
<1>2. /\ inst \in Inst /\ Says(di, inst) /\ m \in ValueOps \cup LoadOps \cup StoreOps
      /\ regs \in [0 .. 31 -> Word] /\ data \in Memories
      /\ executed \in Nat /\ executed + 1 \in 0 .. encoded /\ encoded = Len(program)
  BY <1>1, NextInstruction
<1>3. PICK at : Places(at, program, encoded, code) /\ pc + di.len = at[executed + 1]
  BY <1>1, NextInstruction
<1>4. Compute(di) \/ Killed(di) \/ LoadData(di) \/ StoreData(di) \/ ThrowsAt(di) \/ Invalid(di)
  BY DEF Run
<1>5. outcome = "running"
  BY <1>1 DEF Runnable
<1> HIDE DEF di, inst
<1>6. di.op = m
  BY <1>2 DEF Says
<1>7. inst.rd \in 0 .. 31 /\ inst.rs1 \in 0 .. 31 /\ inst.rs2 \in 0 .. 31 /\ inst.imm \in Int
  BY <1>2 DEF Inst
<1>8. a \in Word /\ regs[inst.rs2] \in Word /\ regs[inst.rd] \in Word
  BY <1>2, <1>7
<1>9. addr \in Nat /\ addr = Wrap(a + inst.imm)
  <2>1. a + inst.imm \in Int
    BY <1>7, <1>8, WordFacts
  <2>2. addr = Wrap(a + inst.imm)
    BY DEF Wrap
  <2> HIDE DEF addr, a
  <2>3. Wrap(a + inst.imm) \in Word
    BY <2>1, WrapFacts
  <2> QED
    BY <2>2, <2>3, WordFacts
<1>10. m \in LoadOps \cup StoreOps => Width(m) \in Nat \ {0}
  BY TransferWidths
<1>11. /\ m \in ValueOps => m \notin LoadOps /\ m \notin StoreOps
       /\ m \in LoadOps => m \notin ValueOps /\ m \notin StoreOps
       /\ m \in StoreOps => m \notin ValueOps /\ m \notin LoadOps
  BY KindsApart
<1> HIDE DEF m, a, addr
(* A retired instruction leaves the hart at the next one.                      *)
<1>12. ASSUME Retire(di), regs' \in [0 .. 31 -> Word], data' \in Memories
       PROVE  HartInv'
  <2>1. /\ program' = program /\ encoded' = encoded /\ code' = code
        /\ pc' = pc + di.len /\ executed' = executed + 1
    BY <1>12 DEF Retire
  <2>2. executed' \in 0 .. encoded' /\ (encoded' < Len(program') => executed' = 0)
    BY <1>2, <2>1
  <2>3. Places(at, program', encoded', code') /\ pc' = at[executed']
    BY <1>3, <2>1
  <2> QED
    BY <1>12, <2>2, <2>3, Zenon DEF HartInv
<1>13. ASSUME NEW why, Stop(why) PROVE HartInv' /\ outcome' = why
  <2>1. /\ program' = program /\ encoded' = encoded /\ code' = code /\ pc' = pc
        /\ executed' = executed /\ regs' = regs /\ data' = data /\ outcome' = why
    BY <1>13 DEF Stop
  <2> QED
    BY <2>1, Zenon DEF HartInv
<1>14. CASE Compute(di)
  <2> DEFINE r == Result(di, regs[di.rs1], regs[di.rs2])
  <2>1. m \in ValueOps /\ regs' = WriteReg(di.rd, r) /\ data' = data /\ Retire(di) /\ outcome' = "running"
    BY <1>5, <1>6, <1>14 DEF Compute, Retire
  <2>2. r \in Word /\ di.rd = inst.rd /\ di.rs1 = inst.rs1
    <3> DEFINE b == regs[inst.rs2]
               c == regs[di.rs2]
    <3>1. di.rs2 = inst.rs2 => b = c
      OBVIOUS
    <3>2. a \in Word /\ b \in Word
      BY <1>8
    <3> HIDE DEF b, c
    <3>3. Result(di, a, c) \in Word /\ di.rd = inst.rd /\ di.rs1 = inst.rs1
      BY <1>2, <2>1, <3>1, <3>2, ResultMeant DEF m
    <3> QED
      BY <3>3 DEF a, c
  <2>3. m \notin Counting => Undefined([op |-> m], a, regs[inst.rs2])
                                \/ Meant(inst, a, regs[inst.rs2], r)
    <3> DEFINE b == regs[inst.rs2]
               c == regs[di.rs2]
    <3>1. di.rs2 = inst.rs2 => b = c
      OBVIOUS
    <3>2. a \in Word /\ b \in Word
      BY <1>8
    <3> HIDE DEF b, c, r
    <3>3. m \notin Counting => Undefined([op |-> m], a, b) \/ Meant(inst, a, b, Result(di, a, c))
      BY <1>2, <2>1, <3>1, <3>2, ResultMeant DEF m
    <3>4. r = Result(di, a, c)
      BY <2>2 DEF a, c, r
    <3> QED
      BY <3>3, <3>4 DEF b
  <2> HIDE DEF r
  <2>4. /\ inst.rd = 0 => regs' = regs
        /\ inst.rd # 0 => regs' = [regs EXCEPT ![inst.rd] = r] /\ regs'[inst.rd] = r
    BY <1>2, <1>7, <2>1, <2>2 DEF WriteReg
  <2>5. regs' \in [0 .. 31 -> Word]
    BY <1>2, <2>2, <2>4
  <2>6. HartInv'
    BY <1>2, <1>12, <2>1, <2>5
  <2>7. m \notin Counting => AsWritten(inst)
    <3>1. /\ outcome' = "running" /\ m \in ValueOps
          /\ regs' = IF inst.rd = 0 THEN regs ELSE [regs EXCEPT ![inst.rd] = regs'[inst.rd]]
          /\ data' = data
      BY <2>1, <2>4
    <3>2. m \notin Counting =>
            \/ inst.rd = 0
            \/ Undefined([op |-> m], a, regs[inst.rs2])
            \/ Meant(inst, a, regs[inst.rs2], regs'[inst.rd])
      BY <2>3, <2>4
    <3> QED
      BY <1>11, <3>1, <3>2 DEF AsWritten, a, m
  <2> QED
    BY <2>6, <2>7 DEF inst, m
<1>15. CASE Killed(di)
  <2>1. m \in ValueOps /\ Undefined(di, regs[di.rs1], regs[di.rs2]) /\ Stop("killed")
    BY <1>6, <1>15 DEF Killed
  <2>2. m \in {"DIV", "REM"} /\ regs[di.rs2] = AllOnes
    BY <1>6, <2>1 DEF Undefined
  <2>3. di.rs1 = inst.rs1 /\ di.rs2 = inst.rs2
    <3>1. m \in Mnemonics
      BY <1>2 DEF Inst, m
    <3>2. m \in ValueOps \ Immediate
      BY <2>1, <2>2 DEF Immediate
    <3>3. RowOf(m)[3] = "R"
      BY <3>1, <3>2, Formats
    <3> QED
      BY <1>2, <3>3 DEF Says, m
  <2>4. HartInv' /\ outcome' = "killed"
    BY <1>13, <2>1
  <2>5. Undefined([op |-> m], regs[inst.rs1], regs[inst.rs2])
    BY <1>6, <2>1, <2>3 DEF Undefined
  <2>6. AsWritten(inst)
    BY <2>4, <2>5 DEF AsWritten, m
  <2> QED
    BY <2>4, <2>6 DEF inst
<1>16. ASSUME m \in LoadOps \cup StoreOps
       PROVE  /\ di.rd = inst.rd /\ di.rs1 = inst.rs1 /\ EffectiveAddress(di, regs[di.rs1]) = addr
              /\ CheckBounds(data, addr, Width(m)) => addr + Width(m) <= DataSize
              /\ ~CheckBounds(data, addr, Width(m)) => addr + Width(m) > DataSize
  <2>1. di.rd = inst.rd /\ di.rs1 = inst.rs1 /\ di.imm = inst.imm
    BY <1>2, <1>16, TransferOperands DEF m
  <2>2. EffectiveAddress(di, regs[di.rs1]) = addr
    BY <1>9, <2>1 DEF EffectiveAddress, a
  <2>3. /\ CheckBounds(data, addr, Width(m)) => addr + Width(m) <= DataSize
        /\ ~CheckBounds(data, addr, Width(m)) => addr + Width(m) > DataSize
    <3>1. Width(m) \in Nat /\ Width(m) > 0
      BY <1>10, <1>16
    <3> QED
      BY <1>2, <1>9, <3>1, Bounds
  <2> QED
    BY <2>1, <2>2, <2>3
<1>17. CASE LoadData(di)
  <2> DEFINE r == Loaded(m, data, addr)
  <2>1. m \in LoadOps
    BY <1>6, <1>17 DEF LoadData
  <2>2. /\ CheckBounds(data, addr, Width(m)) /\ regs' = WriteReg(di.rd, r) /\ data' = data
        /\ Retire(di) /\ outcome' = "running" /\ di.rd = inst.rd
    BY <1>5, <1>6, <1>16, <1>17, <2>1 DEF LoadData, Retire
  <2>3. r \in Word /\ MeantLoad(inst, addr, r)
    <3>1. addr + Width(m) <= DataSize
      BY <1>16, <2>1, <2>2
    <3> QED
      BY <1>2, <1>9, <2>1, <3>1, LoadMeant DEF m
  <2> HIDE DEF r
  <2>4. /\ inst.rd = 0 => regs' = regs
        /\ inst.rd # 0 => regs' = [regs EXCEPT ![inst.rd] = r] /\ regs'[inst.rd] = r
    BY <1>2, <1>7, <2>2 DEF WriteReg
  <2>5. regs' \in [0 .. 31 -> Word]
    BY <1>2, <2>3, <2>4
  <2>6. HartInv'
    BY <1>2, <1>12, <2>2, <2>5
  <2>7. AsWritten(inst)
    <3>1. /\ outcome' = "running" /\ m \in LoadOps
          /\ regs' = IF inst.rd = 0 THEN regs ELSE [regs EXCEPT ![inst.rd] = regs'[inst.rd]]
          /\ data' = data
      BY <2>1, <2>2, <2>4
    <3>2. inst.rd = 0 \/ MeantLoad(inst, addr, regs'[inst.rd])
      BY <2>3, <2>4
    <3> QED
      BY <1>11, <3>1, <3>2 DEF AsWritten, a, m, addr
  <2> QED
    BY <2>6, <2>7 DEF inst
<1>18. CASE StoreData(di)
  <2>1. m \in StoreOps
    BY <1>6, <1>18 DEF StoreData
  <2>2. /\ data' = Stored(m, data, addr, regs[inst.rd]) /\ regs' = regs
        /\ Retire(di) /\ outcome' = "running"
    BY <1>5, <1>6, <1>16, <1>18, <2>1 DEF StoreData, Retire
  <2>3. data' \in Memories /\ MeantStore(inst, addr, regs[inst.rd])
    BY <1>2, <1>8, <1>9, <2>1, <2>2, StoreMeant DEF m
  <2>4. HartInv'
    BY <1>2, <1>12, <2>2, <2>3
  <2>5. AsWritten(inst)
    BY <1>11, <2>1, <2>2, <2>3 DEF AsWritten, a, m, addr
  <2> QED
    BY <2>4, <2>5 DEF inst
<1>19. CASE ThrowsAt(di)
  <2>1. m \in LoadOps \cup StoreOps
    BY <1>6, <1>19 DEF ThrowsAt
  <2>2. ~CheckBounds(data, addr, Width(m)) /\ Stop("thrown")
    BY <1>6, <1>16, <1>19, <2>1 DEF ThrowsAt
  <2>3. addr + Width(m) > DataSize
    BY <1>16, <2>1, <2>2
  <2>4. HartInv' /\ outcome' = "thrown"
    BY <1>13, <2>2
  <2>5. AsWritten(inst)
    BY <2>3, <2>4 DEF AsWritten, a, m, addr
  <2> QED
    BY <2>4, <2>5 DEF inst
<1>20. CASE Invalid(di)
  BY <1>2, <1>6, <1>20 DEF Invalid, m
<1> QED
  BY <1>4, <1>14, <1>15, <1>17, <1>18, <1>19, <1>20

LEMMA HartStepInv == CodeInv /\ HartInv /\ [CodeNext]_codeVars => HartInv'
<1> SUFFICES ASSUME CodeInv, HartInv, [CodeNext]_codeVars, Readable(program') PROVE HartInv'
  BY Zenon DEF HartInv
<1>0. program' = program
  BY DEF CodeNext, codeVars, EncodeNext, Run, Over, Compute, Killed, LoadData, StoreData,
         ThrowsAt, Invalid, Retire, Stop
<1>1. Readable(program)
  BY <1>0, Zenon
<1>2. CASE EncodeNext
  <2>1. /\ encoded' = encoded + 1 /\ encoded < Len(program) /\ pc' = pc /\ regs' = regs
        /\ data' = data /\ executed' = executed
    BY <1>2 DEF EncodeNext
  <2>2. regs \in [0 .. 31 -> Word] /\ data \in Memories /\ executed = 0
    BY <1>1, <2>1, Zenon DEF HartInv
  <2>3. PICK at : Places(at, program, encoded, code) /\ pc = at[executed]
    BY <1>1, Zenon DEF HartInv
  <2>4. pc = 0
    BY <2>2, <2>3 DEF Places
  <2>5. CodeInv'
    BY <1>2, EncodeNextPlaces
  <2>6. PICK to : Places(to, program', encoded', code')
    BY <2>5, Zenon DEF CodeInv
  <2>7. pc' = to[executed']
    BY <2>1, <2>2, <2>4, <2>6 DEF Places
  <2>8. executed' \in 0 .. encoded' /\ executed' = 0
    <3>1. encoded \in Nat
      BY LenProperties DEF CodeInv
    <3> QED
      BY <2>1, <2>2, <3>1
  <2> QED
    BY <2>1, <2>2, <2>6, <2>7, <2>8, Zenon DEF HartInv
<1>3. CASE Run
  BY <1>1, <1>3, RunMeant
<1>4. CASE UNCHANGED codeVars
  <2>1. /\ program' = program /\ encoded' = encoded /\ code' = code /\ pc' = pc
        /\ executed' = executed /\ regs' = regs /\ data' = data
    BY <1>4 DEF codeVars
  <2> QED
    BY <2>1, Zenon DEF HartInv
<1> QED
  BY <1>2, <1>3, <1>4 DEF CodeNext, Over

(* For every width of a word, every memory and every start: the hart does with *)
(* the bytes of a readable program what the instruction set says of each of    *)
(* its instructions; of RETAIN, RELEASE and a division that overflows it says  *)
(* nothing.                                                                    *)
THEOREM ProgramExecutes == CodeSpec => ExecutesAsWritten
<1>1. CodeInit => CodeInv /\ HartInv
  BY CodeInitInv, HartInitInv
<1>2. CodeInv /\ HartInv /\ [CodeNext]_codeVars => (CodeInv /\ HartInv)'
  BY CodeStepInv, HartStepInv
<1>3. CodeInv /\ HartInv /\ [CodeNext]_codeVars
        => [Run /\ Readable(program) /\ program[executed + 1].mnemonic \notin Counting
              => AsWritten(program[executed + 1])]_codeVars
  BY RunMeant
<1> QED
  BY <1>1, <1>2, <1>3, PTL DEF CodeSpec, ExecutesAsWritten
===============================================================================
