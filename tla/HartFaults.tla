------------------------------- MODULE HartFaults -------------------------------
(***************************************************************************)
(* What is left behind by an instruction whose memory access throws.       *)
(* step() signals a trap with sepc at the instruction; a handler that maps *)
(* the page and returns runs the whole instruction again, so the effects   *)
(* that came before the throw are done twice.                              *)
(***************************************************************************)
EXTENDS Hart

(* A tick is seen: stime, 64 bits wide in the code, is not the same after it. *)
ASSUME ClockAssumption == TimeSize >= 2

(* The registers an instruction that accesses memory reads.                  *)
Sources(di) ==
  CASE di.op \in {"LD_D", "LD_D_NZ", "LR_D"} -> {di.rs1}
    [] di.op = "ST_D"  -> {di.rs1, di.rd}
    [] di.op = "LD_P"  -> {di.rs2}
    [] di.op = "ST_P"  -> {di.rs2, di.rd, di.rs1}
    [] di.op = "PUSH"  -> {31, di.rd}
    [] di.op = "POP"   -> {31}
    [] di.op = "ENTER" -> {29, 30, 31}
    [] di.op = "LEAVE" -> {30}
    [] di.op = "SC_D"  -> {di.rs1, di.rs2}
    [] OTHER           -> {}

Throws(di) == Thrown /\ Execute(di)

(* The two instructions whose repetition is not the same as their first run: *)
(* PUSH has moved the stack pointer, and a pair load whose first destination *)
(* is its own base register has lost the base.                               *)
Repeats(di) == ~ (\/ di.op = "PUSH"
                  \/ di.op = "LD_P" /\ di.rd = di.rs2 /\ di.rd # 0)

(* Every other instruction that throws can be run again: what it reads is    *)
(* what it read, so ENTER, LEAVE and the pairs, which commit half of their   *)
(* work before the second access throws, redo that half with equal effect.   *)
FaultsRepeatable ==
  [][\A di \in Code(ctl.pc) : Throws(di) /\ Repeats(di) =>
       \A r \in Sources(di) : regs'[r] = regs[r]]_vars

(* The half a throwing instruction commits to memory is confined: read-only  *)
(* doublewords keep their value in every step, and a step that throws        *)
(* changes at most the one doubleword that lies just below the one that      *)
(* could not be written.                                                     *)
PartialStoreConfined ==
  [][/\ \A a \in ReadOnly : mem'[a] = mem[a]
     /\ \A di \in Code(ctl.pc) : Throws(di) =>
          \A a \in Cells : mem'[a] # mem[a] =>
            di.op \in {"ST_P", "ENTER"} /\ ~Writable(Wrap(a + 8))]_vars

(* An SC.D that stored: it held a reservation of the address, stored there   *)
(* and nowhere else, says so in rd, and has used the reservation up.         *)
Stored(di) ==
  /\ resv.valid /\ resv.addr = regs[di.rs1] /\ Writable(resv.addr)
  /\ mem' = [mem EXCEPT ![resv.addr] = regs[di.rs2]]
  /\ di.rd # 0 => regs'[di.rd] = 0
  /\ ~resv'.valid

(* Every SC.D that stores is paid for by an LR.D of its own: a reservation   *)
(* comes only from an LR.D that loaded, a store uses it up, and an SC.D that *)
(* stored nothing either threw, with no result in rd, or reports failure.    *)
(* So however often an SC.D is run again after a fault, the program never    *)
(* takes a store for done that was not, and no second store rides on the     *)
(* first one's LR.D.  (What else may invalidate a reservation is left open.) *)
ReservationEarned ==
  [][/\ resv'.valid /\ resv' # resv =>
          \E di \in Code(ctl.pc) :
            di.op = "LR_D" /\ regs[di.rs1] \in Cells /\ resv'.addr = regs[di.rs1]
     /\ \A di \in Code(ctl.pc) : di.op = "SC_D" /\ Execute(di) =>
          \/ Stored(di)
          \/ mem' = mem /\ Thrown /\ regs' = regs
          \/ mem' = mem /\ (di.rd # 0 => regs'[di.rd] # 0)]_vars

===============================================================================
