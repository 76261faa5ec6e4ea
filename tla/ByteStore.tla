-------------------------------- MODULE ByteStore --------------------------------
(***************************************************************************)
(* What MemorySystem promises its callers, without regions, searches or    *)
(* offsets: every mapped address holds a byte of its own or is a port of a *)
(* device.  Addresses come in blocks; an access of several bytes is served *)
(* when it stays inside one block of plain memory and refused as a whole   *)
(* otherwise.  Every step is the answer to one call: request is the call   *)
(* with its arguments, and what is answered and what changes is a function *)
(* of the store and of the request.                                        *)
(***************************************************************************)
EXTENDS Integers, Sequences

CONSTANTS Address, Byte, Device,
          Bases, Sizes,           (* where blocks may begin, and their sizes      *)
          Widths                  (* how many bytes an access may be of           *)

VARIABLES bytes,    (* the plain memory: a function on its addresses      *)
          port,     (* the device behind each of the other mapped ones    *)
          block,    (* the first address of each mapped address's block   *)
          locked,   (* the mapped addresses that may not be written       *)
          device,   (* the byte each device holds                         *)
          request,  (* the last call                                      *)
          reply     (* what it answered                                   *)

vars == <<bytes, port, block, locked, device, request, reply>>
layout == <<port, block, locked>>

Nothing == [status |-> "none", value |-> <<>>]
Ok(v)   == [status |-> "ok", value |-> v]
Refuse(what) == /\ reply' = [status |-> what, value |-> <<>>]
                /\ UNCHANGED <<bytes, layout, device>>

(* The n addresses from a on lie in the block of the first of them.          *)
Within(a, n) == \A x \in {a} \cup a .. a + n - 1 :
                  x \in DOMAIN block /\ block[x] = block[a]

Init == /\ bytes = <<>> /\ port = <<>> /\ block = <<>> /\ locked = {}
        /\ device \in [Device -> Byte]
        /\ request = <<>> /\ reply = Nothing

(* The s addresses from b on, none of them mapped before, become a block, to *)
(* be written or not; whatever was mapped is as it was.                      *)
NewBlock(b, s, flag) ==
  LET new == b .. b + s - 1
  IN /\ new \cap DOMAIN block = {}
     /\ block' = [x \in DOMAIN block \cup new |-> IF x \in new THEN b ELSE block[x]]
     /\ locked' = IF flag THEN locked \cup new ELSE locked
     /\ reply' = Nothing
     /\ UNCHANGED device

Filled(b, s, v) ==
  LET new == b .. b + s - 1
  IN /\ bytes' = [x \in DOMAIN bytes \cup new |-> IF x \in new THEN v[x - b] ELSE bytes[x]]
     /\ UNCHANGED port

Map(b, s, flag) ==
  /\ request' = <<"add_region", b, s, flag>>
  /\ NewBlock(b, s, flag)
  /\ Filled(b, s, [i \in 0 .. s - 1 |-> 0])

MapImage(b, s, image) ==
  /\ request' = <<"add_rom", b, s, image>>
  /\ NewBlock(b, s, TRUE)
  /\ Filled(b, s, image)

MapDevice(b, s, d) ==
  /\ request' = <<"add_mmio", b, s, d>>
  /\ NewBlock(b, s, FALSE)
  /\ LET new == b .. b + s - 1
     IN port' = [x \in DOMAIN port \cup new |-> IF x \in new THEN d ELSE port[x]]
  /\ UNCHANGED bytes

(* Everything is unmapped but the devices go on.                             *)
Unmap == /\ request' = <<"clear">>
         /\ reply' = Nothing
         /\ bytes' = <<>> /\ port' = <<>> /\ block' = <<>> /\ locked' = {}
         /\ UNCHANGED device

(* Protection changes for the block with exactly these addresses, if there is *)
(* one, and for nothing else.                                                 *)
Protect(b, s, flag) ==
  LET range == {x \in DOMAIN block : block[x] = b}
  IN /\ request' = <<"set_read_only", b, s, flag>>
     /\ reply' = Nothing
     /\ locked' = IF range # b .. b + s - 1 THEN locked
                  ELSE IF flag THEN locked \cup range ELSE locked \ range
     /\ UNCHANGED <<bytes, port, block, device>>

Read(a, n) ==
  /\ request' = <<"read", a, n>>
  /\ IF ~Within(a, n) THEN Refuse("unmapped")
     ELSE /\ a \in DOMAIN bytes
          /\ reply' = Ok([i \in 1 .. n |-> bytes[a + i - 1]])
          /\ UNCHANGED <<bytes, layout, device>>

Write(a, v) ==
  /\ request' = <<"write", a, v>>
  /\ IF ~Within(a, Len(v)) THEN Refuse("unmapped")
     ELSE IF a \in locked THEN Refuse("readonly")
     ELSE /\ a \in DOMAIN bytes
          /\ bytes' = [x \in DOMAIN bytes |-> IF x \in a .. a + Len(v) - 1
                                              THEN v[x - a + 1] ELSE bytes[x]]
          /\ reply' = Ok(<<>>)
          /\ UNCHANGED <<layout, device>>

ReadPort(a) == /\ a \in DOMAIN port
               /\ request' = <<"read", a, 1>>
               /\ reply' = Ok(<<device[port[a]]>>)
               /\ UNCHANGED <<bytes, layout, device>>

WritePort(a, b) == /\ a \in DOMAIN port
                   /\ request' = <<"write", a, <<b>>>>
                   /\ IF a \in locked THEN Refuse("readonly")
                      ELSE /\ device' = [device EXCEPT ![port[a]] = b]
                           /\ reply' = Ok(<<>>)
                           /\ UNCHANGED <<bytes, layout>>

Next == \/ \E b \in Bases, s \in Sizes :
             \/ \E flag \in BOOLEAN : Map(b, s, flag) \/ Protect(b, s, flag)
             \/ \E image \in [0 .. s - 1 -> Byte] : MapImage(b, s, image)
             \/ \E d \in Device : MapDevice(b, s, d)
        \/ Unmap
        \/ \E a \in Address :
             \/ \E n \in Widths : Read(a, n) \/ \E v \in [1 .. n -> Byte] : Write(a, v)
             \/ ReadPort(a) \/ \E b \in Byte : WritePort(a, b)

Spec == Init /\ [][Next]_vars

===============================================================================
