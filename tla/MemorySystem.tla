------------------------------ MODULE MemorySystem ------------------------------
(***************************************************************************)
(* The multi-region physical memory of the simulator                       *)
(* (src/src/hvm_sim_mem/memory.cpp): a list of regions searched first      *)
(* match first, and a table of MMIO handlers keyed by a region's base.     *)
(* Only byte accesses consult the handlers; wider and bulk accesses use    *)
(* the bytes the region itself holds.  A call that throws changes nothing. *)
(*                                                                         *)
(* Addresses are unsigned and wrap at AddrSize (2^64 in the code).  A      *)
(* value of several bytes is the sequence of its bytes, lowest first.  A   *)
(* device is the callback pair of add_mmio, kept as the byte it holds.     *)
(***************************************************************************)
EXTENDS Integers, Sequences

CONSTANTS
  AddrSize,    (* number of addresses                                        *)
  Byte,
  Device,
  Kinds,       (* the region types in use, of MemoryRegionType                *)
  Bases,       (* the bases and the sizes the host gives its regions         *)
  Sizes,
  Widths,      (* lengths of the wide and the bulk accesses                  *)
  MaxRegions   (* bound on the number of regions                             *)

Address == 0 .. AddrSize - 1

ASSUME AddrAssumption ==
  /\ AddrSize \in Nat \ {0} /\ 0 \in Byte
  /\ Kinds \subseteq {"ram", "rom", "mmio", "reserved"}
  /\ Bases \subseteq Address /\ Sizes \subseteq Address
  /\ Widths \subseteq Nat /\ MaxRegions \in Nat

(* No caller asks for so many bytes that offset + size wraps in bounds_check; *)
(* what the code does then is undefined.                                      *)
ASSUME WidthsAssumption == \A n \in Widths, s \in Sizes : s + n < AddrSize

VARIABLES
  regions,    (* regions_: a sequence of region records           *)
  handlers,   (* mmio_handlers_: a function from bases to devices *)
  device,     (* the byte each device holds                       *)
  request,    (* the last call with its arguments                 *)
  reply       (* its outcome                                      *)

vars == <<regions, handlers, device, request, reply>>

Contents(size) == [0 .. size - 1 -> Byte]
Region == UNION {[base : Bases, size : {s}, kind : Kinds \cup {"rom", "mmio"}, readOnly : BOOLEAN,
                  data : Contents(s)] : s \in Sizes}

Ok(v)  == [status |-> "ok", value |-> v]
Done   == reply' = [status |-> "none", value |-> <<>>]
Throws(what) == /\ reply' = [status |-> what, value |-> <<>>]
                /\ UNCHANGED <<regions, handlers, device>>

-------------------------------------------------------------------------------
(* find_region: the first region whose half-open range holds the address; the *)
(* end of the range is computed modulo AddrSize.                              *)
Covers(r, a) == r.base <= a /\ a < (r.base + r.size) % AddrSize

Hits(a)   == {i \in DOMAIN regions : Covers(regions[i], a)}
Mapped(a) == Hits(a) # {}
Owner(a)  == CHOOSE i \in Hits(a) : \A j \in Hits(a) : i <= j
Offset(a) == a - regions[Owner(a)].base

(* bounds_check: the whole access lies in the region that owns its first byte. *)
InBounds(a, n) == Mapped(a) /\ (Offset(a) + n) % AddrSize <= regions[Owner(a)].size

HasHandler(r) == r.kind = "mmio" /\ r.base \in DOMAIN handlers

-------------------------------------------------------------------------------
(* Configuration.                                                            *)

AddRegion(r) == /\ Len(regions) < MaxRegions
                /\ regions' = Append(regions, r)
                /\ Done

Zeros_OneMore(size) == [i \in 0 .. size |-> 0]

Zeros(size) == [i \in 0 .. size - 1 |-> 0]

AddPlain(base, size, kind, readOnly) ==
  /\ request' = <<"add_region", base, size, readOnly>>
  /\ AddRegion([base |-> base, size |-> size, kind |-> kind, readOnly |-> readOnly,
                data |-> Zeros(size)])
  /\ UNCHANGED <<handlers, device>>

AddRom(base, size, data) ==
  /\ request' = <<"add_rom", base, size, data>>
  /\ AddRegion([base |-> base, size |-> size, kind |-> "rom", readOnly |-> TRUE,
                data |-> data])
  /\ UNCHANGED <<handlers, device>>

AddMmio(base, size, d) ==
  /\ request' = <<"add_mmio", base, size, d>>
  /\ AddRegion([base |-> base, size |-> size, kind |-> "mmio", readOnly |-> FALSE,
                data |-> Zeros(size)])
  /\ handlers' = [b \in DOMAIN handlers \cup {base} |-> IF b = base THEN d ELSE handlers[b]]
  /\ UNCHANGED device

(* Only the first region with exactly this base and size changes.            *)
SetReadOnly(base, size, flag) ==
  LET Same == {i \in DOMAIN regions : regions[i].base = base /\ regions[i].size = size}
  IN /\ request' = <<"set_read_only", base, size, flag>>
     /\ regions' = [i \in DOMAIN regions |->
                      IF i \in Same /\ \A j \in Same : i <= j
                      THEN [regions[i] EXCEPT !.readOnly = flag] ELSE regions[i]]
     /\ Done
     /\ UNCHANGED <<handlers, device>>

Clear == /\ request' = <<"clear">>
         /\ regions' = <<>> /\ handlers' = <<>>
         /\ Done
         /\ UNCHANGED device

-------------------------------------------------------------------------------
(* Accesses.                                                                 *)

ReadByte(a) ==
  /\ request' = <<"read", a, 1>>
  /\ IF ~Mapped(a) THEN Throws("unmapped")
     ELSE LET r == regions[Owner(a)]
          IN /\ reply' = Ok(<<IF HasHandler(r) THEN device[handlers[r.base]]
                                               ELSE r.data[Offset(a)]>>)
             /\ UNCHANGED <<regions, handlers, device>>

ReadWide(a, n) ==
  /\ request' = <<"read", a, n>>
  /\ IF ~InBounds(a, n) THEN Throws("unmapped")
     ELSE /\ reply' = Ok([i \in 1 .. n |-> regions[Owner(a)].data[Offset(a) + i - 1]])
          /\ UNCHANGED <<regions, handlers, device>>

Overwrite(a, v) ==
  LET o == Owner(a)
  IN regions' = [regions EXCEPT ![o].data =
                   [x \in DOMAIN regions[o].data |->
                      IF x \in Offset(a) .. Offset(a) + Len(v) - 1
                      THEN v[x - Offset(a) + 1] ELSE regions[o].data[x]]]

WriteByte_DeviceFirst(a, b) ==
  /\ request' = <<"write", a, <<b>>>>
  /\ IF ~Mapped(a) THEN Throws("unmapped")
     ELSE LET r == regions[Owner(a)]
          IN IF HasHandler(r)
             THEN /\ device' = [device EXCEPT ![handlers[r.base]] = b]
                  /\ reply' = Ok(<<>>) /\ UNCHANGED <<regions, handlers>>
             ELSE IF r.readOnly THEN Throws("readonly")
             ELSE Overwrite(a, <<b>>) /\ reply' = Ok(<<>>) /\ UNCHANGED <<handlers, device>>

WriteByte(a, b) ==
  /\ request' = <<"write", a, <<b>>>>
  /\ IF ~Mapped(a) THEN Throws("unmapped")
     ELSE LET r == regions[Owner(a)]
          IN IF r.readOnly THEN Throws("readonly")
             ELSE /\ reply' = Ok(<<>>)
                  /\ IF HasHandler(r)
                     THEN device' = [device EXCEPT ![handlers[r.base]] = b] /\ UNCHANGED regions
                     ELSE Overwrite(a, <<b>>) /\ UNCHANGED device
                  /\ UNCHANGED handlers

WriteWide(a, v) ==
  /\ request' = <<"write", a, v>>
  /\ IF ~InBounds(a, Len(v)) THEN Throws("unmapped")
     ELSE IF regions[Owner(a)].readOnly THEN Throws("readonly")
     ELSE Overwrite(a, v) /\ reply' = Ok(<<>>) /\ UNCHANGED <<handlers, device>>

-------------------------------------------------------------------------------
Init == /\ regions = <<>> /\ handlers = <<>>
        /\ device \in [Device -> Byte]
        /\ request = <<>> /\ reply = [status |-> "none", value |-> <<>>]

Configure ==
  \/ \E b \in Bases, s \in Sizes :
       \/ \E kind \in Kinds, readOnly \in BOOLEAN : AddPlain(b, s, kind, readOnly)
       \/ \E data \in Contents(s) : AddRom(b, s, data)
       \/ \E d \in Device : AddMmio(b, s, d)
       \/ \E flag \in BOOLEAN : SetReadOnly(b, s, flag)
  \/ Clear

AccessByte(a) == ReadByte(a) \/ \E b \in Byte : WriteByte(a, b)

AccessWide(a) == \E n \in Widths : ReadWide(a, n) \/ \E v \in [1 .. n -> Byte] : WriteWide(a, v)

(* The host's side of the bargain: regions do not overlap, not even an empty  *)
(* one has the base of another, by which handlers are kept, none reaches the  *)
(* very top of the address space, where its end would wrap to zero, and an    *)
(* address with a device behind it is accessed byte by byte.                  *)
RangeOf(r) == r.base .. r.base + r.size - 1
Apart(r, s) == r.base # s.base /\ RangeOf(r) \cap RangeOf(s) = {}
LaidOut(rs) == /\ \A i, j \in DOMAIN rs : i # j => Apart(rs[i], rs[j])
               /\ \A i \in DOMAIN rs : rs[i].base + rs[i].size < AddrSize
Disjoint == LaidOut(regions)
OnDevice(a) == Mapped(a) /\ HasHandler(regions[Owner(a)])

Next == \/ Configure /\ Disjoint'
        \/ \E a \in Address : AccessByte(a) \/ (~OnDevice(a) /\ AccessWide(a))

Spec == Init /\ [][Next]_vars

-------------------------------------------------------------------------------
(* Every variable stays in its type.                                         *)
TypeOK ==
  /\ regions \in Seq(Region)
  /\ Len(regions) <= MaxRegions
  /\ \A b \in DOMAIN handlers : b \in Bases /\ handlers[b] \in Device
  /\ device \in [Device -> Byte]

(* What the regions and handlers mean: the byte or the device behind each     *)
(* mapped address, the region it lies in and whether it may be written.       *)
MappedAddresses == {a \in Address : Mapped(a)}
Bytes  == [a \in {x \in MappedAddresses : ~OnDevice(x)} |-> regions[Owner(a)].data[Offset(a)]]
Port   == [a \in {x \in MappedAddresses : OnDevice(x)} |-> handlers[regions[Owner(a)].base]]
Block  == [a \in MappedAddresses |-> regions[Owner(a)].base]
Locked == {a \in MappedAddresses : regions[Owner(a)].readOnly}

Store == INSTANCE ByteStore WITH
  Widths <- {1} \cup Widths,
  bytes <- Bytes, port <- Port, block <- Block, locked <- Locked

(* Memory the host lays out in disjoint regions is a byte store: a read       *)
(* answers what was last written to the addresses it asked for, a write       *)
(* changes exactly the bytes it names or, when refused, none, a new region    *)
(* maps exactly its own addresses with the contents asked for, protection     *)
(* covers exactly the region named or nothing, and a device sees exactly the  *)
(* bytes written to its addresses.                                            *)
ImplementsStore == Store!Spec

===============================================================================
