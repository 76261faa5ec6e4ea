------------------------------ MODULE VectorProofs ------------------------------
(***************************************************************************)
(* Proofs about the vector unit, for every number and width of lanes, every *)
(* set of registers and doublewords, and every program.  The loops over    *)
(* the lanes are recursive functions: a first part gives the induction and *)
(* the recursion that everything about them rests on.                      *)
(***************************************************************************)
EXTENDS VectorSpec, WellFoundedInduction, TLAPS

-------------------------------------------------------------------------------
(* Induction and recursion over an initial segment of the naturals.          *)

LEMMA LeastExists ==
  ASSUME NEW T \in SUBSET Nat, T # {}
  PROVE  \E x \in T : \A y \in T : x <= y
<1> DEFINE R == OpToRel(<, Nat)
<1>1. IsWellFoundedOn(R, Nat)
  BY NatLessThanWellFounded
<1>2. \A x, y \in Nat : <<y, x>> \in R <=> y < x
  BY DEF OpToRel
<1> HIDE DEF R
<1>3. PICK x \in T : \A y \in T : ~(<<y, x>> \in R)
  BY <1>1, WFMin
<1>4. ASSUME NEW y \in T PROVE x <= y
  <2>1. y \in Nat /\ x \in Nat
    OBVIOUS
  <2>2. ~(<<y, x>> \in R)
    BY <1>3
  <2>3. ~(y < x)
    BY <1>2, <2>1, <2>2, Zenon
  <2> QED
    BY <2>1, <2>3
<1> QED
  BY <1>4

LEMMA Induction ==
  ASSUME NEW n \in Nat, NEW T, 0 \in T, \A k \in 0 .. n - 1 : k \in T => k + 1 \in T
  PROVE  0 .. n \subseteq T
<1> DEFINE Out == (0 .. n) \ T
<1> SUFFICES ASSUME Out # {} PROVE FALSE
  OBVIOUS
<1>0. Out \in SUBSET Nat
  OBVIOUS
<1>1. PICK x \in Out : \A y \in Out : x <= y
  <2> HIDE DEF Out
  <2> QED
    BY <1>0, LeastExists
<1>2. x # 0 /\ x - 1 \in 0 .. n - 1
  BY <1>1
<1>3. x - 1 \notin Out
  BY <1>1, <1>2
<1>4. x - 1 \in T
  BY <1>2, <1>3
<1>5. (x - 1) + 1 \in T
  BY <1>2, <1>4
<1> QED
  BY <1>2, <1>5

(* A recursive function over 0 .. n exists, and stays in the set its first   *)
(* value and its step stay in.                                               *)
Steps(n, S)        == [S \X (1 .. n) -> S]
Runs(n, S, first, G) ==
  {s \in [0 .. n -> S] : s[0] = first /\ \A i \in 1 .. n : s[i] = G[<<s[i - 1], i>>]}

LEMMA Recursion ==
  ASSUME NEW n \in Nat, NEW S, NEW first \in S, NEW G \in Steps(n, S)
  PROVE  Runs(n, S, first, G) # {}
<1> USE DEF Steps
<1> DEFINE T == {k \in 0 .. n : \E s \in [0 .. k -> S] :
                    s = [i \in 0 .. k |-> IF i = 0 THEN first ELSE G[<<s[i - 1], i>>]]}
<1>1. 0 \in T
  <2> DEFINE s == [i \in 0 .. 0 |-> first]
  <2>1. s \in [0 .. 0 -> S]
    OBVIOUS
  <2>2. s = [i \in 0 .. 0 |-> IF i = 0 THEN first ELSE G[<<s[i - 1], i>>]]
    <3>1. \A i \in 0 .. 0 : i = 0
      OBVIOUS
    <3> QED
      BY <3>1, Zenon
  <2> HIDE DEF s
  <2>3. 0 \in 0 .. n
    OBVIOUS
  <2> QED
    BY <2>1, <2>2, <2>3
<1>2. ASSUME NEW k \in 0 .. n - 1, k \in T PROVE k + 1 \in T
  <2>1. PICK s \in [0 .. k -> S] :
          s = [i \in 0 .. k |-> IF i = 0 THEN first ELSE G[<<s[i - 1], i>>]]
    BY <1>2
  <2> DEFINE t == [i \in 0 .. k + 1 |-> IF i = k + 1 THEN G[<<s[k], k + 1>>] ELSE s[i]]
  <2>2. G[<<s[k], k + 1>>] \in S
    OBVIOUS
  <2>3. t \in [0 .. k + 1 -> S]
    BY <2>2
  <2>4. ASSUME NEW i \in 0 .. k + 1
        PROVE  t[i] = IF i = 0 THEN first ELSE G[<<t[i - 1], i>>]
    <3>1. CASE i = k + 1
      <4>1. i # 0 /\ i - 1 = k /\ k # k + 1 /\ k \in 0 .. k + 1
        BY <3>1
      <4>2. t[i] = G[<<s[k], k + 1>>] /\ t[k] = s[k]
        BY <3>1, <4>1
      <4> QED
        BY <3>1, <4>1, <4>2
    <3>2. CASE i # k + 1
      <4>1. i \in 0 .. k /\ (i # 0 => i - 1 \in 0 .. k /\ i - 1 # k + 1)
        BY <3>2
      <4>2. t[i] = s[i] /\ (i # 0 => t[i - 1] = s[i - 1])
        BY <4>1
      <4>3. s[i] = IF i = 0 THEN first ELSE G[<<s[i - 1], i>>]
        BY <2>1, <4>1
      <4> QED
        BY <4>2, <4>3
    <3> QED
      BY <3>1, <3>2
  <2>5. t = [i \in 0 .. k + 1 |-> t[i]]
    BY <2>3
  <2> HIDE DEF t
  <2>6. t = [i \in 0 .. k + 1 |-> IF i = 0 THEN first ELSE G[<<t[i - 1], i>>]]
    BY <2>4, <2>5
  <2>7. k + 1 \in 0 .. n
    OBVIOUS
  <2> QED
    BY <2>3, <2>6, <2>7
<1> HIDE DEF T
<1>3. n \in T
  BY <1>1, <1>2, Induction
<1>4. PICK s \in [0 .. n -> S] :
        s = [i \in 0 .. n |-> IF i = 0 THEN first ELSE G[<<s[i - 1], i>>]]
  BY <1>3 DEF T
<1>5. s[0] = first /\ \A i \in 1 .. n : s[i] = G[<<s[i - 1], i>>]
  BY <1>4
<1> QED
  BY <1>5 DEF Runs

-------------------------------------------------------------------------------
(* Words and types.                                                          *)

Vectors  == [VecRegs -> [Lane -> Word]]
Memory   == [Cells -> Word]
Progress == [vec : Vectors, mem : Memory, missing : Word \cup {NoFault}]

LEMMA WordFacts ==
  /\ WordSize \in Nat /\ WordSize >= 1 /\ Word \subseteq Nat /\ NoFault \notin Word
  /\ \A n \in Int : Wrap(n) \in Word
  /\ 0 \in Word /\ AllOnes \in Word
<1>1. WordSize \in Nat /\ WordSize >= 1
  BY PowersAssumption, SizesAssumption DEF WordSize
<1> QED
  BY <1>1 DEF Word, Wrap, AllOnes, NoFault

(* The operands of an access.                                                *)
LEMMA AccessOperands ==
  ASSUME NEW di \in Program, di.op \in LoadOps \cup StoreOps
  PROVE  /\ di.rd \in VecRegs /\ di.rs2 \in Regs
         /\ di.op \in {"VLDS_V", "VSTS_V"} => di.rs1 \in Regs
         /\ di.op \in {"VLDX_V", "VSTX_V"} => di.rs1 \in VecRegs
<1>1. /\ di["rd"] \in IF "rd" \in VectorOperands(di) THEN VecRegs ELSE Regs
      /\ di["rs1"] \in IF "rs1" \in VectorOperands(di) THEN VecRegs ELSE Regs
      /\ di["rs2"] \in IF "rs2" \in VectorOperands(di) THEN VecRegs ELSE Regs
  BY ProgramAssumption
<1>2. /\ "rd" \in VectorOperands(di) /\ "rs2" \notin VectorOperands(di)
      /\ di.op \in {"VLDS_V", "VSTS_V"} => "rs1" \notin VectorOperands(di)
      /\ di.op \in {"VLDX_V", "VSTX_V"} => "rs1" \in VectorOperands(di)
  <2>1. CASE di.op \in {"VLD_V", "VLDS_V", "VST_V", "VSTS_V"}
    <3>1. VectorOperands(di) = {"rd"}
      BY <2>1 DEF VectorOperands, LaneOps
    <3> QED
      BY <2>1, <3>1
  <2>2. CASE di.op \in {"VLDX_V", "VSTX_V"}
    <3>1. VectorOperands(di) = {"rd", "rs1"}
      BY <2>2 DEF VectorOperands, LaneOps
    <3> QED
      BY <2>2, <3>1
  <2> QED
    BY <2>1, <2>2 DEF LoadOps, StoreOps
<1>3. di.rd = di["rd"] /\ di.rs1 = di["rs1"] /\ di.rs2 = di["rs2"]
  OBVIOUS
<1> QED
  BY <1>1, <1>2, <1>3

LEMMA AddressType ==
  ASSUME regs \in [Regs -> Word], NEW di \in Program, di.op \in LoadOps \cup StoreOps,
         NEW v \in Vectors, NEW i \in Lane
  PROVE  Address(di, v, i) \in Word
<1>1. /\ di.rs2 \in Regs
      /\ di.op \in {"VLDS_V", "VSTS_V"} => di.rs1 \in Regs
      /\ di.op \in {"VLDX_V", "VSTX_V"} => di.rs1 \in VecRegs
  BY AccessOperands
<1>2. \A w \in Word : w \in Int
  BY WordFacts
<1>3. regs[di.rs2] \in Int /\ i \in Int
  BY <1>1, <1>2 DEF Lane
<1>4. CASE di.op \in {"VLD_V", "VST_V"}
  <2>1. Address(di, v, i) = Wrap(regs[di.rs2] + 8 * (i - 1))
    BY <1>4 DEF Address
  <2> QED
    BY <1>3, <2>1, WordFacts
<1>5. CASE di.op \in {"VLDS_V", "VSTS_V"}
  <2>1. regs[di.rs1] \in Int
    BY <1>1, <1>2, <1>5
  <2>2. Address(di, v, i) = Wrap(regs[di.rs2] + regs[di.rs1] * (i - 1))
    BY <1>5 DEF Address
  <2> DEFINE n == regs[di.rs2] + regs[di.rs1] * (i - 1)
  <2>3. n \in Int
    BY <1>3, <2>1
  <2> HIDE DEF n
  <2> QED
    BY <2>2, <2>3, WordFacts DEF n
<1>6. CASE di.op \in {"VLDX_V", "VSTX_V"}
  <2>1. v[di.rs1][i] \in Int
    BY <1>1, <1>2, <1>6 DEF Vectors
  <2>2. Address(di, v, i) = Wrap(regs[di.rs2] + v[di.rs1][i])
    BY <1>6 DEF Address
  <2> QED
    BY <1>3, <2>1, <2>2, WordFacts
<1> QED
  BY <1>4, <1>5, <1>6 DEF LoadOps, StoreOps

-------------------------------------------------------------------------------
(* The loop of a load or a store.                                            *)

LaneStep(di, there, s, i) ==
  IF di.op \in LoadOps THEN LoadLane(di, there, s, i) ELSE StoreLane(di, there, s, i)

LEMMA LaneSkips ==
  ASSUME NEW di, NEW there, NEW s \in Progress, NEW i, s.missing # NoFault
  PROVE  LaneStep(di, there, s, i) = s
  BY DEF LaneStep, LoadLane, StoreLane, Progress

LEMMA LaneThrows ==
  ASSUME NEW di, NEW there, NEW s \in Progress, NEW i,
         s.missing = NoFault, Address(di, s.vec, i) \notin there
  PROVE  LaneStep(di, there, s, i) =
           [vec |-> s.vec, mem |-> s.mem, missing |-> Address(di, s.vec, i)]
  BY DEF LaneStep, LoadLane, StoreLane, Progress

LEMMA LaneLoads ==
  ASSUME NEW di, NEW there \in SUBSET Cells, NEW s \in Progress, NEW i \in Lane, di.rd \in VecRegs,
         s.missing = NoFault, Address(di, s.vec, i) \in there, di.op \in LoadOps
  PROVE  LET t == LaneStep(di, there, s, i)
         IN /\ t \in Progress /\ t.missing = NoFault /\ t.mem = s.mem
            /\ \A r \in VecRegs, j \in Lane :
                 t.vec[r][j] = IF r = di.rd /\ j = i THEN s.mem[Address(di, s.vec, i)] ELSE s.vec[r][j]
<1> DEFINE a == Address(di, s.vec, i)
           v == [s.vec EXCEPT ![di.rd][i] = s.mem[a]]
<1>1. LaneStep(di, there, s, i) = [vec |-> v, mem |-> s.mem, missing |-> NoFault]
  BY DEF LaneStep, LoadLane, Progress
<1> HIDE DEF a
<1>2. s.mem[a] \in Word /\ s.vec \in Vectors /\ s.mem \in Memory
  BY DEF Progress, Memory, a
<1>3. v \in Vectors
  BY <1>2 DEF Vectors
<1>4. \A r \in VecRegs, j \in Lane : v[r][j] = IF r = di.rd /\ j = i THEN s.mem[a] ELSE s.vec[r][j]
  BY <1>2 DEF Vectors
<1> HIDE DEF v
<1> QED
  BY <1>1, <1>2, <1>3, <1>4 DEF Progress, a

LEMMA LaneStores ==
  ASSUME NEW di, NEW there \in SUBSET Cells, NEW s \in Progress, NEW i \in Lane, di.rd \in VecRegs,
         s.missing = NoFault, Address(di, s.vec, i) \in there, di.op \notin LoadOps
  PROVE  LET t == LaneStep(di, there, s, i)
         IN /\ t \in Progress /\ t.missing = NoFault /\ t.vec = s.vec
            /\ \A c \in Cells :
                 t.mem[c] = IF c = Address(di, s.vec, i) THEN s.vec[di.rd][i] ELSE s.mem[c]
<1> DEFINE a == Address(di, s.vec, i)
           m == [s.mem EXCEPT ![a] = s.vec[di.rd][i]]
<1>1. LaneStep(di, there, s, i) = [vec |-> s.vec, mem |-> m, missing |-> NoFault]
  BY DEF LaneStep, StoreLane, Progress
<1> HIDE DEF a
<1>2. s.vec[di.rd][i] \in Word /\ s.vec \in Vectors /\ s.mem \in Memory
  BY DEF Progress, Vectors
<1>3. m \in Memory
  BY <1>2 DEF Memory
<1>4. \A c \in Cells : m[c] = IF c = a THEN s.vec[di.rd][i] ELSE s.mem[c]
  BY <1>2 DEF Memory
<1> HIDE DEF m
<1> QED
  BY <1>1, <1>2, <1>3, <1>4 DEF Progress, a

LEMMA LaneStepType ==
  ASSUME regs \in [Regs -> Word], NEW di \in Program, di.op \in LoadOps \cup StoreOps,
         NEW there \in SUBSET Cells, NEW s \in Progress, NEW i \in Lane
  PROVE  LaneStep(di, there, s, i) \in Progress
<1>1. Address(di, s.vec, i) \in Word /\ di.rd \in VecRegs
  BY AddressType, AccessOperands DEF Progress
<1>2. CASE s.missing # NoFault
  BY <1>2, LaneSkips
<1>3. CASE s.missing = NoFault /\ Address(di, s.vec, i) \notin there
  <2>1. LaneStep(di, there, s, i) =
          [vec |-> s.vec, mem |-> s.mem, missing |-> Address(di, s.vec, i)]
    BY <1>3, LaneThrows
  <2> QED
    BY <1>1, <2>1 DEF Progress
<1>4. CASE s.missing = NoFault /\ Address(di, s.vec, i) \in there /\ di.op \in LoadOps
  BY <1>1, <1>4, LaneLoads
<1>5. CASE s.missing = NoFault /\ Address(di, s.vec, i) \in there /\ di.op \notin LoadOps
  BY <1>1, <1>5, LaneStores
<1> QED
  BY <1>2, <1>3, <1>4, <1>5

(* The states the loop goes through.                                         *)
Stages(di, v, m, there, s) ==
  /\ s \in [0 .. Active -> Progress]
  /\ s[0] = [vec |-> v, mem |-> m, missing |-> NoFault]
  /\ \A i \in 1 .. Active : s[i] = LaneStep(di, there, s[i - 1], i)
  /\ Transfer(di, v, m, there) = s[Active]

LEMMA ActiveLanes ==
  ASSUME vl \in 0 .. Lanes
  PROVE  Active \in Nat /\ Active = vl /\ 1 .. Active \subseteq Lane
  BY SizesAssumption DEF Active, Lane

LEMMA TransferStages ==
  ASSUME regs \in [Regs -> Word], vl \in 0 .. Lanes,
         NEW di \in Program, di.op \in LoadOps \cup StoreOps,
         NEW v \in Vectors, NEW m \in Memory, NEW there \in SUBSET Cells
  PROVE  \E s : Stages(di, v, m, there, s)
<1> DEFINE n == Active
           first == [vec |-> v, mem |-> m, missing |-> NoFault]
           Whole(s) == s = [i \in 0 .. n |-> IF i = 0 THEN first
                                            ELSE LaneStep(di, there, s[i - 1], i)]
           G == [p \in Progress \X (1 .. n) |-> LaneStep(di, there, p[1], p[2])]
           s == CHOOSE s : Whole(s)
<1>1. n \in Nat /\ 1 .. n \subseteq Lane
  BY ActiveLanes
<1>2. first \in Progress
  BY DEF Progress
<1>3. G \in Steps(n, Progress)
  BY <1>1, LaneStepType DEF Steps
<1>4. \E r : Whole(r)
  <2> HIDE DEF n, first
  <2>1. PICK r \in [0 .. n -> Progress] :
          r[0] = first /\ \A i \in 1 .. n : r[i] = G[<<r[i - 1], i>>]
    <3> HIDE DEF G
    <3>1. Runs(n, Progress, first, G) # {}
      BY <1>1, <1>2, <1>3, Recursion
    <3> QED
      BY <3>1 DEF Runs
  <2>2. ASSUME NEW i \in 0 .. n
        PROVE  r[i] = IF i = 0 THEN first ELSE LaneStep(di, there, r[i - 1], i)
    <3>1. CASE i = 0
      BY <2>1, <3>1
    <3>2. CASE i # 0
      <4>1. i \in 1 .. n /\ i - 1 \in 0 .. n
        BY <1>1, <3>2
      <4> QED
        BY <2>1, <3>2, <4>1
    <3> QED
      BY <3>1, <3>2
  <2> HIDE DEF G
  <2>3. r = [i \in 0 .. n |-> r[i]]
    BY <2>1
  <2>4. Whole(r)
    BY <2>2, <2>3
  <2> QED
    BY <2>4
<1>5. Whole(s)
  BY <1>4
<1>6. Transfer(di, v, m, there) = s[n]
  BY DEF Transfer, Loop, LaneStep
<1> HIDE DEF s, n, first
<1>7. /\ s[0] = first
      /\ \A i \in 1 .. n : s[i] = LaneStep(di, there, s[i - 1], i)
      /\ s = [i \in 0 .. n |-> s[i]]
  BY <1>1, <1>5
<1> HIDE DEF Whole
<1>8. 0 .. n \subseteq {i \in 0 .. n : s[i] \in Progress}
  <2> DEFINE T == {i \in 0 .. n : s[i] \in Progress}
  <2>1. 0 \in T
    BY <1>1, <1>2, <1>7
  <2>2. ASSUME NEW i \in 0 .. n - 1, i \in T PROVE i + 1 \in T
    <3>1. i + 1 \in 1 .. n /\ (i + 1) - 1 = i /\ i + 1 \in 0 .. n
      BY <1>1
    <3>2. s[i + 1] = LaneStep(di, there, s[i], i + 1)
      BY <1>7, <3>1
    <3>3. s[i + 1] \in Progress
      BY <1>1, <2>2, <3>1, <3>2, LaneStepType
    <3> QED
      BY <3>1, <3>3
  <2> HIDE DEF T
  <2>3. 0 .. n \subseteq T
    BY <1>1, <2>1, <2>2, Induction
  <2> QED
    BY <2>3 DEF T
<1>9. s \in [0 .. n -> Progress]
  BY <1>7, <1>8
<1> QED
  BY <1>6, <1>7, <1>9 DEF Stages, n, first

-------------------------------------------------------------------------------
(* What the loop leaves, lane by lane and doubleword by doubleword.          *)

(* The first k lanes do not throw.                                           *)
Reached(di, v, there, k) == \A j \in 1 .. k : Address(di, v, j) \in there

(* What a load has done after k lanes.  Each lane's address is read before   *)
(* the lane is written, so that v, from before the loop, gives it.           *)
LoadedBy(di, v, m, there, t, k) ==
  /\ t.mem = m
  /\ t.missing = NoFault <=> Reached(di, v, there, k)
  /\ \A r \in VecRegs, j \in Lane :
       t.vec[r][j] = IF r = di.rd /\ j <= k /\ Reached(di, v, there, j)
                     THEN m[Address(di, v, j)] ELSE v[r][j]

(* What a store has done after k lanes: the last lane to write a doubleword  *)
(* gave it its value.                                                        *)
Writers(di, v, there, c, k) ==
  {j \in 1 .. k : Reached(di, v, there, j) /\ Address(di, v, j) = c}

StoredBy(di, v, m, there, t, k) ==
  /\ t.vec = v
  /\ t.missing = NoFault <=> Reached(di, v, there, k)
  /\ \A c \in Cells :
       \/ Writers(di, v, there, c, k) = {} /\ t.mem[c] = m[c]
       \/ \E j \in Writers(di, v, there, c, k) :
            /\ \A l \in Writers(di, v, there, c, k) : l <= j
            /\ t.mem[c] = v[di.rd][j]

LEMMA ReachedNext ==
  ASSUME NEW di, NEW v, NEW there, NEW k \in Nat
  PROVE  /\ Reached(di, v, there, 0)
         /\ Reached(di, v, there, k + 1) <=>
              Reached(di, v, there, k) /\ Address(di, v, k + 1) \in there
         /\ \A j \in 1 .. k : Reached(di, v, there, k) => Reached(di, v, there, j)
<1>1. \A j \in 1 .. k + 1 : j \in 1 .. k \/ j = k + 1
  OBVIOUS
<1>2. 1 .. k \subseteq 1 .. k + 1 /\ k + 1 \in 1 .. k + 1 /\ 1 .. 0 = {}
  OBVIOUS
<1>3. \A j \in 1 .. k : 1 .. j \subseteq 1 .. k
  OBVIOUS
<1> QED
  BY <1>1, <1>2, <1>3, Zenon DEF Reached

LEMMA LoadStage ==
  ASSUME regs \in [Regs -> Word], NEW di \in Program, di.op \in LoadOps,
         NEW v \in Vectors, NEW m \in Memory, NEW there \in SUBSET Cells,
         NEW s \in Progress, NEW k \in Nat, k + 1 \in Lane,
         LoadedBy(di, v, m, there, s, k)
  PROVE  LoadedBy(di, v, m, there, LaneStep(di, there, s, k + 1), k + 1)
<1> DEFINE t == LaneStep(di, there, s, k + 1)
           a == Address(di, v, k + 1)
<1>1. di.rd \in VecRegs /\ (di.op = "VLDX_V" => di.rs1 \in VecRegs)
  BY AccessOperands DEF LoadOps
<1>2. \A r \in VecRegs : s.vec[r][k + 1] = v[r][k + 1]
  BY DEF LoadedBy
<1>3. Address(di, s.vec, k + 1) = a
  BY <1>1, <1>2 DEF Address, LoadOps
<1>4. \A j \in Lane : (j <= k + 1 <=> j <= k \/ j = k + 1) /\ j \in Nat
  BY DEF Lane
<1>5. CASE s.missing # NoFault
  <2>1. t = s
    BY <1>5, LaneSkips
  <2>2. ~Reached(di, v, there, k + 1)
    BY <1>5, ReachedNext DEF LoadedBy
  <2> HIDE DEF t
  <2> QED
    BY <1>4, <1>5, <2>1, <2>2 DEF LoadedBy, t
<1>6. CASE s.missing = NoFault /\ a \notin there
  <2>1. t = [vec |-> s.vec, mem |-> s.mem, missing |-> a]
    BY <1>3, <1>6, LaneThrows
  <2>2. ~Reached(di, v, there, k + 1)
    BY <1>6, ReachedNext
  <2>3. a # NoFault
    BY AddressType, WordFacts
  <2> HIDE DEF t, a
  <2> QED
    BY <1>4, <1>6, <2>1, <2>2, <2>3 DEF LoadedBy, t
<1>7. CASE s.missing = NoFault /\ a \in there
  <2>1. /\ t.missing = NoFault /\ t.mem = s.mem
        /\ \A r \in VecRegs, j \in Lane :
             t.vec[r][j] = IF r = di.rd /\ j = k + 1 THEN s.mem[a] ELSE s.vec[r][j]
    <3>1. Address(di, s.vec, k + 1) \in there
      BY <1>3, <1>7
    <3>2. /\ t.missing = NoFault /\ t.mem = s.mem
          /\ \A r \in VecRegs, j \in Lane :
               t.vec[r][j] = IF r = di.rd /\ j = k + 1
                             THEN s.mem[Address(di, s.vec, k + 1)] ELSE s.vec[r][j]
      BY <1>1, <1>7, <3>1, LaneLoads
    <3> QED
      BY <1>3, <3>2
  <2>2. Reached(di, v, there, k + 1)
    BY <1>7, ReachedNext DEF LoadedBy
  <2>3. s.mem = m
    BY DEF LoadedBy
  <2>4. ASSUME NEW r \in VecRegs, NEW j \in Lane
        PROVE  t.vec[r][j] = IF r = di.rd /\ j <= k + 1 /\ Reached(di, v, there, j)
                             THEN m[Address(di, v, j)] ELSE v[r][j]
    <3> HIDE DEF t
    <3>1. CASE j = k + 1
      BY <1>2, <1>4, <2>1, <2>2, <2>3, <3>1
    <3>2. CASE j # k + 1
      BY <1>4, <2>1, <3>2 DEF LoadedBy
    <3> QED
      BY <3>1, <3>2
  <2> HIDE DEF t, a
  <2> QED
    BY <1>7, <2>1, <2>2, <2>3, <2>4 DEF LoadedBy, t
<1> QED
  BY <1>5, <1>6, <1>7

LEMMA StoreStage ==
  ASSUME regs \in [Regs -> Word], NEW di \in Program, di.op \in StoreOps,
         NEW v \in Vectors, NEW m \in Memory, NEW there \in SUBSET Cells,
         NEW s \in Progress, NEW k \in Nat, k + 1 \in Lane,
         StoredBy(di, v, m, there, s, k)
  PROVE  StoredBy(di, v, m, there, LaneStep(di, there, s, k + 1), k + 1)
<1> DEFINE t == LaneStep(di, there, s, k + 1)
           a == Address(di, v, k + 1)
           W(c) == Writers(di, v, there, c, k)
           N(c) == Writers(di, v, there, c, k + 1)
<1>1. di.rd \in VecRegs /\ di.op \notin LoadOps /\ s.vec = v
  BY AccessOperands DEF LoadOps, StoreOps, StoredBy
<1>2. \A j \in 1 .. k + 1 : j \in 1 .. k \/ j = k + 1
  OBVIOUS
<1>3. 1 .. k \subseteq 1 .. k + 1 /\ k + 1 \in 1 .. k + 1 /\ \A j \in 1 .. k : j <= k + 1
  OBVIOUS
<1>4. ~Reached(di, v, there, k + 1) => \A c \in Cells : N(c) = W(c)
  BY <1>2, <1>3, Zenon DEF Writers
<1>5. CASE s.missing # NoFault
  <2>1. t = s
    BY <1>5, LaneSkips
  <2>2. ~Reached(di, v, there, k + 1)
    BY <1>5, ReachedNext DEF StoredBy
  <2> HIDE DEF t
  <2> QED
    BY <1>4, <1>5, <2>1, <2>2 DEF StoredBy, t
<1>6. CASE s.missing = NoFault /\ a \notin there
  <2>1. t = [vec |-> s.vec, mem |-> s.mem, missing |-> a]
    BY <1>1, <1>6, LaneThrows
  <2>2. ~Reached(di, v, there, k + 1)
    BY <1>6, ReachedNext
  <2>3. a # NoFault
    BY AddressType, WordFacts
  <2> HIDE DEF t, a
  <2> QED
    BY <1>4, <1>6, <2>1, <2>2, <2>3 DEF StoredBy, t
<1>7. CASE s.missing = NoFault /\ a \in there
  <2>1. /\ t.missing = NoFault /\ t.vec = s.vec
        /\ \A c \in Cells : t.mem[c] = IF c = a THEN s.vec[di.rd][k + 1] ELSE s.mem[c]
    <3>1. Address(di, s.vec, k + 1) \in there
      BY <1>1, <1>7
    <3>2. /\ t.missing = NoFault /\ t.vec = s.vec
          /\ \A c \in Cells :
               t.mem[c] = IF c = Address(di, s.vec, k + 1) THEN s.vec[di.rd][k + 1] ELSE s.mem[c]
      BY <1>1, <1>7, <3>1, LaneStores
    <3> QED
      BY <1>1, <3>2
  <2>2. Reached(di, v, there, k + 1)
    BY <1>7, ReachedNext DEF StoredBy
  <2>3. ASSUME NEW c \in Cells
        PROVE  \/ N(c) = {} /\ t.mem[c] = m[c]
               \/ \E j \in N(c) : (\A l \in N(c) : l <= j) /\ t.mem[c] = v[di.rd][j]
    <3> HIDE DEF t
    <3>1. CASE c = a
      <4>1. k + 1 \in N(c)
        BY <1>3, <2>2, <3>1 DEF Writers
      <4>2. \A l \in N(c) : l <= k + 1
        BY DEF Writers
      <4>3. t.mem[c] = v[di.rd][k + 1]
        BY <1>1, <2>1, <3>1
      <4> HIDE DEF N
      <4> QED
        BY <4>1, <4>2, <4>3
    <3>2. CASE c # a
      <4>1. N(c) = W(c)
        BY <1>2, <1>3, <3>2, Zenon DEF Writers
      <4>2. t.mem[c] = s.mem[c]
        BY <2>1, <3>2
      <4>3. \/ W(c) = {} /\ s.mem[c] = m[c]
            \/ \E j \in W(c) : (\A l \in W(c) : l <= j) /\ s.mem[c] = v[di.rd][j]
        BY DEF StoredBy
      <4> HIDE DEF N, W
      <4> QED
        BY <4>1, <4>2, <4>3
    <3> QED
      BY <3>1, <3>2
  <2> HIDE DEF t, a
  <2> QED
    BY <1>1, <1>7, <2>1, <2>2, <2>3 DEF StoredBy, t
<1> QED
  BY <1>5, <1>6, <1>7

LEMMA TransferLoads ==
  ASSUME regs \in [Regs -> Word], vl \in 0 .. Lanes, NEW di \in Program, di.op \in LoadOps,
         NEW v \in Vectors, NEW m \in Memory, NEW there \in SUBSET Cells
  PROVE  /\ Transfer(di, v, m, there) \in Progress
         /\ LoadedBy(di, v, m, there, Transfer(di, v, m, there), Active)
<1>1. PICK s : Stages(di, v, m, there, s)
  BY TransferStages
<1> DEFINE T == {k \in 0 .. Active : LoadedBy(di, v, m, there, s[k], k)}
<1>2. Active \in Nat /\ 1 .. Active \subseteq Lane
  BY ActiveLanes
<1>3. 0 \in T
  <2>1. s[0] = [vec |-> v, mem |-> m, missing |-> NoFault]
    BY <1>1 DEF Stages
  <2>2. \A j \in Lane : ~(j <= 0)
    BY DEF Lane
  <2> QED
    BY <1>2, <2>1, <2>2, ReachedNext DEF LoadedBy
<1>4. ASSUME NEW k \in 0 .. Active - 1, k \in T PROVE k + 1 \in T
  <2>1. /\ k \in Nat /\ k \in 0 .. Active /\ k + 1 \in 1 .. Active /\ k + 1 \in 0 .. Active
        /\ (k + 1) - 1 = k
    BY <1>2
  <2>2. s[k] \in Progress /\ s[k + 1] = LaneStep(di, there, s[k], k + 1)
    BY <1>1, <2>1 DEF Stages
  <2>3. LoadedBy(di, v, m, there, s[k], k)
    BY <1>4
  <2>4. k + 1 \in Lane
    BY <1>2, <2>1
  <2>5. LoadedBy(di, v, m, there, s[k + 1], k + 1)
    BY <2>1, <2>2, <2>3, <2>4, LoadStage
  <2> QED
    BY <2>1, <2>5
<1> HIDE DEF T
<1>5. 0 .. Active \subseteq T
  BY <1>2, <1>3, <1>4, Induction
<1>6. Active \in T /\ Active \in 0 .. Active
  BY <1>2, <1>5
<1> QED
  BY <1>1, <1>6 DEF T, Stages

LEMMA TransferStores ==
  ASSUME regs \in [Regs -> Word], vl \in 0 .. Lanes, NEW di \in Program, di.op \in StoreOps,
         NEW v \in Vectors, NEW m \in Memory, NEW there \in SUBSET Cells
  PROVE  /\ Transfer(di, v, m, there) \in Progress
         /\ StoredBy(di, v, m, there, Transfer(di, v, m, there), Active)
<1>1. PICK s : Stages(di, v, m, there, s)
  BY TransferStages
<1> DEFINE T == {k \in 0 .. Active : StoredBy(di, v, m, there, s[k], k)}
<1>2. Active \in Nat /\ 1 .. Active \subseteq Lane
  BY ActiveLanes
<1>3. 0 \in T
  <2>1. s[0] = [vec |-> v, mem |-> m, missing |-> NoFault]
    BY <1>1 DEF Stages
  <2>2. \A c \in Cells : Writers(di, v, there, c, 0) = {}
    BY DEF Writers
  <2>3. Reached(di, v, there, 0)
    BY DEF Reached
  <2>4. StoredBy(di, v, m, there, s[0], 0)
    BY <2>1, <2>2, <2>3 DEF StoredBy
  <2> QED
    BY <1>2, <2>4
<1>4. ASSUME NEW k \in 0 .. Active - 1, k \in T PROVE k + 1 \in T
  <2>1. /\ k \in Nat /\ k \in 0 .. Active /\ k + 1 \in 1 .. Active /\ k + 1 \in 0 .. Active
        /\ (k + 1) - 1 = k
    BY <1>2
  <2>2. s[k] \in Progress /\ s[k + 1] = LaneStep(di, there, s[k], k + 1)
    BY <1>1, <2>1 DEF Stages
  <2>3. StoredBy(di, v, m, there, s[k], k)
    BY <1>4
  <2>4. k + 1 \in Lane
    BY <1>2, <2>1
  <2>5. StoredBy(di, v, m, there, s[k + 1], k + 1)
    BY <2>1, <2>2, <2>3, <2>4, StoreStage
  <2> QED
    BY <2>1, <2>5
<1> HIDE DEF T
<1>5. 0 .. Active \subseteq T
  BY <1>2, <1>3, <1>4, Induction
<1>6. Active \in T /\ Active \in 0 .. Active
  BY <1>2, <1>5
<1> QED
  BY <1>1, <1>6 DEF T, Stages

-------------------------------------------------------------------------------
(* Starting again.                                                           *)

(* A run that did not throw did what it would have done with every           *)
(* doubleword there.                                                         *)
LEMMA CompletedRun ==
  ASSUME regs \in [Regs -> Word], vl \in 0 .. Lanes,
         NEW di \in Program, di.op \in LoadOps \cup StoreOps,
         NEW v \in Vectors, NEW m \in Memory, NEW there \in SUBSET Cells,
         Transfer(di, v, m, there).missing = NoFault
  PROVE  /\ Transfer(di, v, m, Cells).vec = Transfer(di, v, m, there).vec
         /\ Transfer(di, v, m, Cells).mem = Transfer(di, v, m, there).mem
<1> DEFINE t == Transfer(di, v, m, there)
           g == Transfer(di, v, m, Cells)
<1>1. Active \in Nat /\ Active = vl /\ Cells \in SUBSET Cells
  BY ActiveLanes
<1>2. CASE di.op \in LoadOps
  <2>1. t \in Progress /\ LoadedBy(di, v, m, there, t, Active)
        /\ g \in Progress /\ LoadedBy(di, v, m, Cells, g, Active)
    BY <1>1, <1>2, TransferLoads
  <2>2. Reached(di, v, there, Active)
    BY <2>1 DEF LoadedBy
  <2>3. \A j \in 1 .. Active : Reached(di, v, there, j) /\ Reached(di, v, Cells, j)
    <3>1. Reached(di, v, Cells, Active)
      BY <2>2 DEF Reached
    <3> QED
      BY <1>1, <2>2, <3>1, ReachedNext
  <2>4. \A j \in Lane : j <= Active => j \in 1 .. Active
    BY <1>1 DEF Lane
  <2> HIDE DEF t, g
  <2>5. \A r \in VecRegs, j \in Lane : g.vec[r][j] = t.vec[r][j]
    BY <2>1, <2>3, <2>4 DEF LoadedBy
  <2>6. g.vec = t.vec
    BY <2>1, <2>5 DEF Progress, Vectors
  <2> QED
    BY <2>1, <2>6 DEF LoadedBy, t, g
<1>3. CASE di.op \in StoreOps
  <2>1. t \in Progress /\ StoredBy(di, v, m, there, t, Active)
        /\ g \in Progress /\ StoredBy(di, v, m, Cells, g, Active)
    BY <1>1, <1>3, TransferStores
  <2>2. Reached(di, v, there, Active)
    BY <2>1 DEF StoredBy
  <2>3. \A j \in 1 .. Active : Reached(di, v, there, j) /\ Reached(di, v, Cells, j)
    <3>1. Reached(di, v, Cells, Active)
      BY <2>2 DEF Reached
    <3> QED
      BY <1>1, <2>2, <3>1, ReachedNext
  <2>4. \A c \in Cells : Writers(di, v, there, c, Active) = Writers(di, v, Cells, c, Active)
    BY <2>3 DEF Writers
  <2> HIDE DEF t, g
  <2>5. ASSUME NEW c \in Cells PROVE g.mem[c] = t.mem[c]
    <3> DEFINE W == Writers(di, v, Cells, c, Active)
    <3>1. W \subseteq Int
      BY DEF Writers
    <3>2. /\ \/ W = {} /\ t.mem[c] = m[c]
             \/ \E j \in W : (\A l \in W : l <= j) /\ t.mem[c] = v[di.rd][j]
          /\ \/ W = {} /\ g.mem[c] = m[c]
             \/ \E j \in W : (\A l \in W : l <= j) /\ g.mem[c] = v[di.rd][j]
      BY <2>1, <2>4 DEF StoredBy
    <3> HIDE DEF W
    <3>3. \A j, l \in W : j <= l /\ l <= j => j = l
      BY <3>1
    <3> QED
      BY <3>2, <3>3
  <2>6. g.mem = t.mem
    BY <2>1, <2>5 DEF Progress, Memory
  <2> QED
    BY <2>1, <2>6 DEF StoredBy, t, g
<1> QED
  BY <1>2, <1>3

(* A run that starts on what an earlier one left does what one run from the  *)
(* start would have done.                                                    *)
LEMMA RunAgain ==
  ASSUME regs \in [Regs -> Word], vl \in 0 .. Lanes,
         NEW di \in Program, di.op \in LoadOps \cup StoreOps, ~SelfIndexed(di),
         NEW v \in Vectors, NEW m \in Memory, NEW there \in SUBSET Cells,
         NEW t, t = Transfer(di, v, m, there)
  PROVE  /\ Transfer(di, t.vec, t.mem, Cells).vec = Transfer(di, v, m, Cells).vec
         /\ Transfer(di, t.vec, t.mem, Cells).mem = Transfer(di, v, m, Cells).mem
<1> DEFINE g == Transfer(di, v, m, Cells)
           u == Transfer(di, t.vec, t.mem, Cells)
<1>1. Active \in Nat /\ Active = vl /\ 1 .. Active \subseteq Lane /\ Cells \in SUBSET Cells
  BY ActiveLanes
<1>2. CASE di.op \in LoadOps
  <2>1. t \in Progress /\ LoadedBy(di, v, m, there, t, Active)
        /\ g \in Progress /\ LoadedBy(di, v, m, Cells, g, Active)
    BY <1>1, <1>2, TransferLoads
  <2>2. t.vec \in Vectors /\ t.mem = m
    BY <2>1 DEF Progress, LoadedBy
  <2>3. u \in Progress /\ LoadedBy(di, t.vec, m, Cells, u, Active)
    BY <1>1, <1>2, <2>2, TransferLoads
  <2>4. ASSUME NEW j PROVE Address(di, t.vec, j) = Address(di, v, j)
    <3>1. CASE di.op = "VLDX_V"
      <4>1. di.rs1 # di.rd /\ di.rs1 \in VecRegs
        BY <1>2, <3>1, AccessOperands DEF SelfIndexed
      <4>2. \A i \in Lane : t.vec[di.rs1][i] = v[di.rs1][i]
        BY <2>1, <4>1 DEF LoadedBy
      <4>3. t.vec[di.rs1] = v[di.rs1]
        BY <2>2, <4>1, <4>2 DEF Vectors
      <4> QED
        BY <3>1, <4>3 DEF Address
    <3>2. CASE di.op # "VLDX_V"
      BY <1>2, <3>2 DEF Address, LoadOps
    <3> QED
      BY <3>1, <3>2
  <2>5. \A j \in Nat : /\ Reached(di, t.vec, Cells, j) <=> Reached(di, v, Cells, j)
                       /\ Reached(di, v, there, j) => Reached(di, v, Cells, j)
    BY <2>4 DEF Reached
  <2>6. Lane \subseteq Nat
    BY DEF Lane
  <2> HIDE DEF u, g
  <2>7. \A r \in VecRegs, j \in Lane : u.vec[r][j] = g.vec[r][j]
    BY <2>1, <2>3, <2>4, <2>5, <2>6 DEF LoadedBy
  <2>8. u.vec = g.vec
    BY <2>1, <2>3, <2>7 DEF Progress, Vectors
  <2> QED
    BY <2>1, <2>3, <2>8 DEF LoadedBy, u, g
<1>3. CASE di.op \in StoreOps
  <2>1. t \in Progress /\ StoredBy(di, v, m, there, t, Active)
        /\ g \in Progress /\ StoredBy(di, v, m, Cells, g, Active)
    BY <1>1, <1>3, TransferStores
  <2>2. t.vec = v /\ t.mem \in Memory
    BY <2>1 DEF Progress, StoredBy
  <2>3. u \in Progress /\ StoredBy(di, v, t.mem, Cells, u, Active)
    BY <1>1, <1>3, <2>2, TransferStores
  <2> HIDE DEF u, g
  <2>4. ASSUME NEW c \in Cells PROVE u.mem[c] = g.mem[c]
    <3> DEFINE W == Writers(di, v, Cells, c, Active)
               B == Writers(di, v, there, c, Active)
    <3>1. W \subseteq Int /\ B \subseteq W
      BY DEF Writers, Reached
    <3>2. /\ \/ W = {} /\ g.mem[c] = m[c]
             \/ \E j \in W : (\A l \in W : l <= j) /\ g.mem[c] = v[di.rd][j]
          /\ \/ W = {} /\ u.mem[c] = t.mem[c]
             \/ \E j \in W : (\A l \in W : l <= j) /\ u.mem[c] = v[di.rd][j]
          /\ B = {} => t.mem[c] = m[c]
      BY <2>1, <2>3 DEF StoredBy
    <3> HIDE DEF W, B
    <3>3. \A j, l \in W : j <= l /\ l <= j => j = l
      BY <3>1
    <3> QED
      BY <3>1, <3>2, <3>3
  <2>5. u.mem = g.mem
    BY <2>1, <2>3, <2>4 DEF Progress, Memory
  <2> QED
    BY <2>1, <2>3, <2>5 DEF StoredBy, u, g
<1> QED
  BY <1>2, <1>3

-------------------------------------------------------------------------------
(* The instructions that do not touch memory.                                *)

LEMMA Quotients ==
  ASSUME NEW a \in Nat, NEW b \in Nat \ {0}
  PROVE  a \div b \in 0 .. a
<1> DEFINE q == a \div b
<1>1. q \in Int /\ b * q <= a /\ a < b * q + b
  OBVIOUS
<1>2. b * q \in Int
  BY <1>1
<1> HIDE DEF q
<1>3. q >= 0
  <2> SUFFICES ASSUME q <= -1 PROVE FALSE
    BY <1>1
  <2>1. b * q <= b * (-1)
    BY <1>1
  <2> QED
    BY <1>1, <2>1
<1>4. b * q >= q
  BY <1>1, <1>3
<1> QED
  BY <1>1, <1>2, <1>3, <1>4 DEF q

LEMMA ComputesWords ==
  ASSUME NEW op \in LaneOps, NEW a \in Word, NEW b \in Word
  PROVE  Compute(op, a, b) \in Word
<1>1. a \in Nat /\ b \in Nat
  BY WordFacts
<1>2. CASE op \in {"VADD", "VSUB", "VMUL"}
  BY <1>1, <1>2, WordFacts DEF Compute
<1>3. CASE op = "VDIV"
  BY <1>1, <1>3, WordFacts, Quotients DEF Compute, Word
<1>4. CASE op = "VCOMP"
  BY <1>4, WordFacts DEF Compute
<1>5. 2 ^ (b % Bits) \in Nat \ {0}
  <2>1. b % Bits \in 0 .. Bits
    BY <1>1, SizesAssumption
  <2> QED
    BY <2>1, PowersAssumption
<1>6. CASE op = "VSLL"
  <2>1. a * 2 ^ (b % Bits) \in Int
    BY <1>1, <1>5
  <2> QED
    BY <1>6, <2>1, WordFacts DEF Compute
<1>7. CASE op = "VSRL"
  <2> DEFINE p == 2 ^ (b % Bits)
  <2>1. p \in Nat \ {0}
    BY <1>5
  <2>2. Compute(op, a, b) = a \div p
    BY <1>7 DEF Compute
  <2> HIDE DEF p
  <2>3. a \div p \in 0 .. a
    BY <1>1, <2>1, Quotients
  <2> QED
    BY <1>1, <2>2, <2>3, WordFacts DEF Word
<1> QED
  BY <1>2, <1>3, <1>4, <1>6, <1>7 DEF LaneOps

LEMMA CombinesWords ==
  ASSUME NEW op \in ReduceOps, NEW a \in Word, NEW b \in Word
  PROVE  Combine(op, a, b) \in Word
<1>1. a \in Nat /\ b \in Nat
  BY WordFacts
<1> QED
  BY <1>1, WordFacts DEF Combine, ReduceOps

LEMMA OtherOperands ==
  ASSUME NEW di \in Program
  PROVE  /\ di.op \in LaneOps \cup ReduceOps \cup {"VMERGE"} => di.rd \in VecRegs /\ di.rs1 \in VecRegs
         /\ di.op \in ReduceOps \cup {"VMERGE"} \/ (di.op \in LaneOps /\ di.form = "VV") =>
              di.rs2 \in VecRegs
         /\ di.op \in LaneOps /\ di.form # "VV" => di.rs2 \in Regs
         /\ di.op = "VSETVL" => di.rd \in Regs /\ di.rs1 \in Regs
         /\ di.op = "VFIRST" => di.rd \in Regs /\ di.rs1 \in VecRegs
<1>1. /\ di["rd"] \in IF "rd" \in VectorOperands(di) THEN VecRegs ELSE Regs
      /\ di["rs1"] \in IF "rs1" \in VectorOperands(di) THEN VecRegs ELSE Regs
      /\ di["rs2"] \in IF "rs2" \in VectorOperands(di) THEN VecRegs ELSE Regs
      /\ di.form \in {"VV", "VX"}
  BY ProgramAssumption DEF Instruction
<1>2. di.op \in LaneOps /\ di.form = "VX" => VectorOperands(di) = {"rd", "rs1"}
  BY DEF VectorOperands, LaneOps
<1>3. di.op \in ReduceOps \cup {"VMERGE"} \/ (di.op \in LaneOps /\ di.form # "VX") =>
        VectorOperands(di) = {"rd", "rs1", "rs2"}
  BY DEF VectorOperands, LaneOps, ReduceOps
<1>4. di.op = "VSETVL" => VectorOperands(di) = {}
  BY DEF VectorOperands, LaneOps
<1>5. di.op = "VFIRST" => VectorOperands(di) = {"rs1"}
  BY DEF VectorOperands, LaneOps
<1>6. di.rd = di["rd"] /\ di.rs1 = di["rs1"] /\ di.rs2 = di["rs2"]
  OBVIOUS
<1> QED
  BY <1>1, <1>2, <1>3, <1>4, <1>5, <1>6

-------------------------------------------------------------------------------
(* Their loops.                                                              *)

LEMMA Determined ==
  ASSUME NEW n \in Nat, NEW S, NEW first \in S, NEW G \in Steps(n, S),
         NEW s, s = [i \in 0 .. n |-> s[i]], s[0] = first,
         \A i \in 1 .. n : s[i - 1] \in S => s[i] = G[<<s[i - 1], i>>]
  PROVE  s \in Runs(n, S, first, G)
<1> DEFINE T == {i \in 0 .. n : s[i] \in S}
<1>1. 0 \in T
  OBVIOUS
<1>2. ASSUME NEW i \in 0 .. n - 1, i \in T PROVE i + 1 \in T
  <2>1. i + 1 \in 1 .. n /\ (i + 1) - 1 = i /\ i + 1 \in 0 .. n
    OBVIOUS
  <2>2. s[i + 1] = G[<<s[i], i + 1>>]
    BY <1>2, <2>1
  <2> QED
    BY <1>2, <2>1, <2>2 DEF Steps
<1> HIDE DEF T
<1>3. 0 .. n \subseteq T
  BY <1>1, <1>2, Induction
<1>4. \A i \in 0 .. n : s[i] \in S
  BY <1>3 DEF T
<1>5. \A i \in 1 .. n : i - 1 \in 0 .. n
  OBVIOUS
<1> QED
  BY <1>4, <1>5 DEF Runs

(* A loop over lanes that keeps the registers' type.                         *)
LEMMA LaneOpKeepsType ==
  ASSUME TypeOK, NEW di \in Program, LaneOp(di)
  PROVE  vec' \in Vectors
<1> DEFINE Body(v, i) == [v EXCEPT ![di.rd][i] =
                            Compute(di.op, v[di.rs1][i],
                                    IF di.form = "VV" THEN v[di.rs2][i] ELSE regs[di.rs2])]
           Whole(s) == s = [i \in 0 .. Lanes |-> IF i = 0 THEN vec ELSE Body(s[i - 1], i)]
           G == [p \in Vectors \X (1 .. Lanes) |-> Body(p[1], p[2])]
           s == CHOOSE s : Whole(s)
<1>1. di.op \in LaneOps /\ vec \in Vectors /\ regs \in [Regs -> Word] /\ Lanes \in Nat
  BY SizesAssumption DEF LaneOp, Starts, TypeOK, Vectors
<1>2. ASSUME NEW v \in Vectors, NEW i \in 1 .. Lanes PROVE Body(v, i) \in Vectors
  <2> DEFINE b == IF di.form = "VV" THEN v[di.rs2][i] ELSE regs[di.rs2]
             w == Compute(di.op, v[di.rs1][i], b)
  <2>1. v[di.rs1][i] \in Word /\ b \in Word
    BY <1>1, OtherOperands DEF Vectors, Lane
  <2>2. w \in Word
    BY <1>1, <2>1, ComputesWords
  <2> HIDE DEF w
  <2>3. [v EXCEPT ![di.rd][i] = w] \in Vectors
    BY <2>2 DEF Vectors
  <2> QED
    BY <2>3 DEF w
<1> HIDE DEF Body
<1>3. G \in Steps(Lanes, Vectors)
  BY <1>2 DEF Steps
<1>4. \E r : Whole(r)
  <2>1. Runs(Lanes, Vectors, vec, G) # {}
    <3> HIDE DEF G
    <3> QED
      BY <1>1, <1>3, Recursion
  <2>2. PICK r \in [0 .. Lanes -> Vectors] :
          r[0] = vec /\ \A i \in 1 .. Lanes : r[i] = G[<<r[i - 1], i>>]
    BY <2>1 DEF Runs
  <2>3. \A i \in 0 .. Lanes : i = 0 \/ (i \in 1 .. Lanes /\ i - 1 \in 0 .. Lanes)
    BY <1>1
  <2>4. \A i \in 0 .. Lanes : r[i] = IF i = 0 THEN vec ELSE Body(r[i - 1], i)
    BY <2>2, <2>3
  <2>5. r = [i \in 0 .. Lanes |-> r[i]]
    BY <2>2
  <2>6. Whole(r)
    BY <2>4, <2>5
  <2> QED
    BY <2>6
<1>5. Whole(s)
  BY <1>4
<1>6. vec' = s[Lanes]
  BY DEF LaneOp, Loop, Body
<1> HIDE DEF s
<1>7. /\ s[0] = vec /\ s = [i \in 0 .. Lanes |-> s[i]]
      /\ \A i \in 1 .. Lanes : s[i] = Body(s[i - 1], i)
  BY <1>1, <1>5
<1>8. \A i \in 1 .. Lanes : s[i - 1] \in Vectors => s[i] = G[<<s[i - 1], i>>]
  BY <1>7
<1> HIDE DEF G, Whole
<1>9. s \in Runs(Lanes, Vectors, vec, G)
  BY <1>1, <1>3, <1>7, <1>8, Determined
<1> QED
  BY <1>1, <1>6, <1>9 DEF Runs

LEMMA MergeKeepsType ==
  ASSUME TypeOK, NEW di \in Program, Merge(di)
  PROVE  vec' \in Vectors
<1> DEFINE Body(v, i) == [v EXCEPT ![di.rd][i] =
                            IF v[0][i] % 2 = 1 THEN v[di.rs1][i] ELSE v[di.rs2][i]]
           Whole(s) == s = [i \in 0 .. Lanes |-> IF i = 0 THEN vec ELSE Body(s[i - 1], i)]
           G == [p \in Vectors \X (1 .. Lanes) |-> Body(p[1], p[2])]
           s == CHOOSE s : Whole(s)
<1>1. di.op = "VMERGE" /\ vec \in Vectors /\ Lanes \in Nat
  BY SizesAssumption DEF Merge, Starts, TypeOK, Vectors
<1>2. ASSUME NEW v \in Vectors, NEW i \in 1 .. Lanes PROVE Body(v, i) \in Vectors
  <2> DEFINE w == IF v[0][i] % 2 = 1 THEN v[di.rs1][i] ELSE v[di.rs2][i]
  <2>1. w \in Word
    BY <1>1, OtherOperands DEF Vectors, Lane
  <2> HIDE DEF w
  <2>2. [v EXCEPT ![di.rd][i] = w] \in Vectors
    BY <2>1 DEF Vectors
  <2> QED
    BY <2>2 DEF w
<1> HIDE DEF Body
<1>3. G \in Steps(Lanes, Vectors)
  BY <1>2 DEF Steps
<1>4. \E r : Whole(r)
  <2>1. Runs(Lanes, Vectors, vec, G) # {}
    <3> HIDE DEF G
    <3> QED
      BY <1>1, <1>3, Recursion
  <2>2. PICK r \in [0 .. Lanes -> Vectors] :
          r[0] = vec /\ \A i \in 1 .. Lanes : r[i] = G[<<r[i - 1], i>>]
    BY <2>1 DEF Runs
  <2>3. \A i \in 0 .. Lanes : i = 0 \/ (i \in 1 .. Lanes /\ i - 1 \in 0 .. Lanes)
    BY <1>1
  <2>4. \A i \in 0 .. Lanes : r[i] = IF i = 0 THEN vec ELSE Body(r[i - 1], i)
    BY <2>2, <2>3
  <2>5. r = [i \in 0 .. Lanes |-> r[i]]
    BY <2>2
  <2>6. Whole(r)
    BY <2>4, <2>5
  <2> QED
    BY <2>6
<1>5. Whole(s)
  BY <1>4
<1>6. vec' = s[Lanes]
  BY DEF Merge, Loop, Body
<1> HIDE DEF s
<1>7. /\ s[0] = vec /\ s = [i \in 0 .. Lanes |-> s[i]]
      /\ \A i \in 1 .. Lanes : s[i] = Body(s[i - 1], i)
  BY <1>1, <1>5
<1>8. \A i \in 1 .. Lanes : s[i - 1] \in Vectors => s[i] = G[<<s[i - 1], i>>]
  BY <1>7
<1> HIDE DEF G, Whole
<1>9. s \in Runs(Lanes, Vectors, vec, G)
  BY <1>1, <1>3, <1>7, <1>8, Determined
<1> QED
  BY <1>1, <1>6, <1>9 DEF Runs

(* The accumulator of a reduction, lane after lane.                          *)
LEMMA ReduceStages ==
  ASSUME TypeOK, NEW di \in Program, Reduce(di)
  PROVE  /\ vec' \in Vectors
         /\ \E s \in [0 .. Lanes -> Vectors] :
              /\ s[0][di.rd][1] = vec[di.rs2][1]
              /\ \A r \in VecRegs \ {di.rd} : s[0][r] = vec[r]
              /\ \A i \in 1 .. Lanes :
                   /\ s[i][di.rd][1] = Combine(di.op, s[i - 1][di.rd][1], s[i - 1][di.rs1][i])
                   /\ \A r \in VecRegs \ {di.rd} : s[i][r] = s[i - 1][r]
              /\ vec'[di.rd][1] = s[Lanes][di.rd][1]
<1> DEFINE start == [vec EXCEPT ![di.rd][1] = vec[di.rs2][1]]
           Body(v, i) == [v EXCEPT ![di.rd][1] = Combine(di.op, @, v[di.rs1][i])]
           Whole(s) == s = [i \in 0 .. Lanes |-> IF i = 0 THEN start ELSE Body(s[i - 1], i)]
           G == [p \in Vectors \X (1 .. Lanes) |-> Body(p[1], p[2])]
           s == CHOOSE s : Whole(s)
<1>0. /\ di.op \in ReduceOps /\ vec \in Vectors /\ Lanes \in Nat /\ 1 \in Lane /\ 1 .. Lanes = Lane
      /\ di.rd \in VecRegs /\ di.rs1 \in VecRegs /\ di.rs2 \in VecRegs
  <2>1. di.op \in ReduceOps /\ vec \in Vectors
    BY DEF Reduce, Starts, TypeOK, Vectors
  <2>2. Lanes \in Nat /\ 1 \in Lane /\ 1 .. Lanes = Lane
    BY SizesAssumption DEF Lane
  <2> QED
    BY <2>1, <2>2, OtherOperands
<1>1. start \in Vectors /\ Lanes \in Nat
  <2>1. vec[di.rs2][1] \in Word
    BY <1>0 DEF Vectors
  <2> QED
    BY <1>0, <2>1 DEF Vectors
<1>2. ASSUME NEW v \in Vectors, NEW i \in 1 .. Lanes
      PROVE  /\ Body(v, i) \in Vectors
             /\ Body(v, i)[di.rd][1] = Combine(di.op, v[di.rd][1], v[di.rs1][i])
             /\ \A r \in VecRegs \ {di.rd} : Body(v, i)[r] = v[r]
  <2> DEFINE w == Combine(di.op, v[di.rd][1], v[di.rs1][i])
  <2>1. v[di.rd][1] \in Word /\ v[di.rs1][i] \in Word
    BY <1>0 DEF Vectors
  <2>2. w \in Word
    BY <1>0, <2>1, CombinesWords
  <2> HIDE DEF w
  <2>3. /\ [v EXCEPT ![di.rd][1] = w] \in Vectors
        /\ [v EXCEPT ![di.rd][1] = w][di.rd][1] = w
        /\ \A r \in VecRegs \ {di.rd} : [v EXCEPT ![di.rd][1] = w][r] = v[r]
    BY <1>0, <2>2 DEF Vectors
  <2> QED
    BY <2>3 DEF w
<1>10. start[di.rd][1] = vec[di.rs2][1] /\ \A r \in VecRegs \ {di.rd} : start[r] = vec[r]
  BY <1>0 DEF Vectors
<1> HIDE DEF Body
<1>3. G \in Steps(Lanes, Vectors)
  BY <1>2 DEF Steps
<1> HIDE DEF start
<1>4. \E r : Whole(r)
  <2>1. Runs(Lanes, Vectors, start, G) # {}
    <3> HIDE DEF G
    <3> QED
      BY <1>1, <1>3, Recursion
  <2>2. PICK r \in [0 .. Lanes -> Vectors] :
          r[0] = start /\ \A i \in 1 .. Lanes : r[i] = G[<<r[i - 1], i>>]
    BY <2>1 DEF Runs
  <2>3. \A i \in 0 .. Lanes : i = 0 \/ (i \in 1 .. Lanes /\ i - 1 \in 0 .. Lanes)
    BY <1>1
  <2>4. \A i \in 0 .. Lanes : r[i] = IF i = 0 THEN start ELSE Body(r[i - 1], i)
    BY <2>2, <2>3
  <2>5. r = [i \in 0 .. Lanes |-> r[i]]
    BY <2>2
  <2>6. Whole(r)
    BY <2>4, <2>5
  <2> QED
    BY <2>6
<1>5. Whole(s)
  BY <1>4
<1>6. vec' = [s[Lanes] EXCEPT ![di.rd] = [i \in Lane |-> IF i = 1 THEN s[Lanes][di.rd][1] ELSE 0]]
  BY DEF Reduce, Loop, Body, start
<1> HIDE DEF s
<1>7. /\ s[0] = start /\ s = [i \in 0 .. Lanes |-> s[i]]
      /\ \A i \in 1 .. Lanes : s[i] = Body(s[i - 1], i)
  <2>1. 0 \in 0 .. Lanes /\ \A i \in 1 .. Lanes : i \in 0 .. Lanes /\ i # 0
    BY <1>1
  <2>2. s = [i \in 0 .. Lanes |-> s[i]]
    BY <1>5
  <2>3. \A i \in 0 .. Lanes : s[i] = IF i = 0 THEN start ELSE Body(s[i - 1], i)
    BY <1>5
  <2> HIDE DEF Whole
  <2> QED
    BY <2>1, <2>2, <2>3
<1>8. \A i \in 1 .. Lanes : s[i - 1] \in Vectors => s[i] = G[<<s[i - 1], i>>]
  BY <1>7
<1> HIDE DEF G, Whole
<1>9. s \in Runs(Lanes, Vectors, start, G)
  BY <1>1, <1>3, <1>7, <1>8, Determined
<1>11. s \in [0 .. Lanes -> Vectors] /\ s[Lanes] \in Vectors
  BY <1>1, <1>9 DEF Runs
<1>12. vec' \in Vectors /\ vec'[di.rd][1] = s[Lanes][di.rd][1]
  <2>1. s[Lanes][di.rd][1] \in Word /\ 0 \in Word
    BY <1>0, <1>11, WordFacts DEF Vectors
  <2> QED
    BY <1>0, <1>6, <1>11, <2>1 DEF Vectors
<1>13. ASSUME NEW i \in 1 .. Lanes
       PROVE  /\ s[i][di.rd][1] = Combine(di.op, s[i - 1][di.rd][1], s[i - 1][di.rs1][i])
              /\ \A r \in VecRegs \ {di.rd} : s[i][r] = s[i - 1][r]
  <2>1. i - 1 \in 0 .. Lanes
    BY <1>1
  <2>2. s[i - 1] \in Vectors /\ s[i] = Body(s[i - 1], i)
    BY <1>7, <1>11, <2>1
  <2> QED
    BY <1>2, <2>2
<1>14. s[0][di.rd][1] = vec[di.rs2][1] /\ \A r \in VecRegs \ {di.rd} : s[0][r] = vec[r]
  BY <1>7, <1>10
<1> QED
  BY <1>11, <1>12, <1>13, <1>14

LEMMA ReductionStages ==
  ASSUME NEW op \in ReduceOps, NEW a \in Word, NEW v \in [Lane -> Word]
  PROVE  \E s \in [0 .. Lanes -> Word] :
           /\ s[0] = a
           /\ \A i \in 1 .. Lanes : s[i] = Combine(op, s[i - 1], v[i])
           /\ Reduction(op, Lanes, a, v) = s[Lanes]
<1> DEFINE Body(acc, i) == Combine(op, acc, v[i])
           Whole(s) == s = [i \in 0 .. Lanes |-> IF i = 0 THEN a ELSE Body(s[i - 1], i)]
           G == [p \in Word \X (1 .. Lanes) |-> Body(p[1], p[2])]
           s == CHOOSE s : Whole(s)
<1>1. Lanes \in Nat
  BY SizesAssumption
<1>2. ASSUME NEW acc \in Word, NEW i \in 1 .. Lanes PROVE Body(acc, i) \in Word
  BY CombinesWords DEF Lane
<1> HIDE DEF Body
<1>3. G \in Steps(Lanes, Word)
  BY <1>2 DEF Steps
<1>4. \E r : Whole(r)
  <2>1. Runs(Lanes, Word, a, G) # {}
    <3> HIDE DEF G
    <3> QED
      BY <1>1, <1>3, Recursion
  <2>2. PICK r \in [0 .. Lanes -> Word] :
          r[0] = a /\ \A i \in 1 .. Lanes : r[i] = G[<<r[i - 1], i>>]
    BY <2>1 DEF Runs
  <2>3. \A i \in 0 .. Lanes : i = 0 \/ (i \in 1 .. Lanes /\ i - 1 \in 0 .. Lanes)
    BY <1>1
  <2>4. \A i \in 0 .. Lanes : r[i] = IF i = 0 THEN a ELSE Body(r[i - 1], i)
    BY <2>2, <2>3
  <2>5. r = [i \in 0 .. Lanes |-> r[i]]
    BY <2>2
  <2>6. Whole(r)
    BY <2>4, <2>5
  <2> QED
    BY <2>6
<1>5. Whole(s)
  BY <1>4
<1>6. Reduction(op, Lanes, a, v) = s[Lanes]
  BY DEF Reduction, Loop, Body
<1> HIDE DEF s
<1>7. /\ s[0] = a /\ s = [i \in 0 .. Lanes |-> s[i]]
      /\ \A i \in 1 .. Lanes : s[i] = Body(s[i - 1], i)
  BY <1>1, <1>5
<1>8. \A i \in 1 .. Lanes : s[i - 1] \in Word => s[i] = G[<<s[i - 1], i>>]
  BY <1>7
<1> HIDE DEF G, Whole
<1>9. s \in Runs(Lanes, Word, a, G)
  BY <1>1, <1>3, <1>7, <1>8, Determined
<1> QED
  BY <1>6, <1>7, <1>9 DEF Runs, Body

-------------------------------------------------------------------------------
(* Types.                                                                    *)

LEMMA TypeInitially == Init => TypeOK
<1> SUFFICES ASSUME Init PROVE TypeOK
  OBVIOUS
<1>1. /\ vec \in [VecRegs -> [Lane -> Word]] /\ regs \in [Regs -> Word] /\ regs[0] = 0
      /\ mem \in [Cells -> Word]
  BY BootAssumption DEF Init
<1> QED
  BY <1>1, SizesAssumption DEF Init, TypeOK

LEMMA AccessKeepsType ==
  ASSUME TypeOK, NEW di \in Program, Access(di)
  PROVE  TypeOK'
<1> DEFINE done == Transfer(di, vec, mem, present)
<1>1. /\ di.op \in LoadOps \cup StoreOps /\ vec \in Vectors /\ mem \in Memory
      /\ present \in SUBSET Cells /\ regs \in [Regs -> Word] /\ vl \in 0 .. Lanes
  BY DEF Access, Starts, TypeOK, Vectors, Memory
<1>2. done \in Progress
  BY <1>1, TransferLoads, TransferStores
<1>3. /\ vec' = done.vec /\ mem' = done.mem /\ missing' = done.missing
      /\ missing' # NoFault =>
           retried' = IF retried # <<>> THEN retried
                      ELSE <<[di |-> di, goal |-> Transfer(di, vec, mem, Cells)]>>
      /\ regs' = regs /\ vl' = vl /\ present' = present
  BY DEF Access
<1>4. missing' # NoFault => retried' # <<>>
  BY <1>3
<1> HIDE DEF done
<1>5. vec' \in [VecRegs -> [Lane -> Word]] /\ mem' \in [Cells -> Word] /\ missing' \in Word \cup {NoFault}
  BY <1>2, <1>3 DEF Progress, Vectors, Memory
<1> QED
  BY <1>3, <1>4, <1>5 DEF TypeOK

LEMMA WritesKeepType ==
  ASSUME regs \in [Regs -> Word], regs[0] = 0, NEW i \in Regs, NEW w \in Word
  PROVE  WriteReg(regs, i, w) \in [Regs -> Word] /\ WriteReg(regs, i, w)[0] = 0
  BY DEF WriteReg

LEMMA SetVlKeepsType ==
  ASSUME TypeOK, NEW di \in Program, SetVl(di)
  PROVE  TypeOK'
<1> DEFINE n == IF regs[di.rs1] < Lanes THEN regs[di.rs1] ELSE Lanes
<1>1. di.rd \in Regs /\ di.rs1 \in Regs
  BY OtherOperands DEF SetVl, Starts
<1>2. n \in Word /\ n \in 0 .. Lanes
  <2>1. regs[di.rs1] \in Word
    BY <1>1 DEF TypeOK
  <2> QED
    BY <2>1, WordFacts, SizesAssumption DEF Word
<1>3. /\ vl' = n /\ regs' = WriteReg(regs, di.rd, n)
      /\ vec' = vec /\ mem' = mem /\ present' = present /\ missing' = missing /\ missing = NoFault
  BY DEF SetVl, Starts
<1> HIDE DEF n
<1> QED
  BY <1>1, <1>2, <1>3, WritesKeepType DEF TypeOK

LEMMA FirstKeepsType ==
  ASSUME TypeOK, NEW di \in Program, First(di)
  PROVE  TypeOK'
<1> DEFINE set == {i \in Lane : vec[di.rs1][i] % 2 = 1}
           least == CHOOSE i \in set : \A j \in set : i <= j
           w == IF set = {} THEN AllOnes ELSE least - 1
<1>1. di.rd \in Regs
  BY OtherOperands DEF First, Starts
<1>2. w \in Word
  <2>1. CASE set = {}
    BY <2>1, WordFacts
  <2>2. CASE set # {}
    <3>1. set \in SUBSET Nat /\ set \subseteq Lane
      BY DEF Lane
    <3> HIDE DEF set
    <3>2. \E i \in set : \A j \in set : i <= j
      BY <2>2, <3>1, LeastExists
    <3>3. least \in set
      BY <3>2
    <3> HIDE DEF least
    <3>4. least \in 1 .. Lanes
      BY <3>1, <3>3 DEF Lane
    <3>5. WordSize = 2 ^ Bits /\ WordSize \in Nat
      BY WordFacts DEF WordSize
    <3>6. Lanes <= WordSize /\ Lanes \in Nat
      BY <3>5, SizesAssumption
    <3>7. least - 1 \in 0 .. WordSize - 1
      BY <3>4, <3>5, <3>6
    <3> QED
      BY <2>2, <3>7 DEF Word
  <2> QED
    BY <2>1, <2>2
<1>3. /\ regs' = WriteReg(regs, di.rd, w)
      /\ vec' = vec /\ mem' = mem /\ present' = present /\ missing' = missing /\ vl' = vl
      /\ missing = NoFault
  BY DEF First, Starts
<1> HIDE DEF w
<1> QED
  BY <1>1, <1>2, <1>3, WritesKeepType DEF TypeOK

LEMMA TypeStep == TypeOK /\ [Next]_vars => TypeOK'
<1> SUFFICES ASSUME TypeOK, [Next]_vars PROVE TypeOK'
  OBVIOUS
<1>1. CASE UNCHANGED vars
  BY <1>1 DEF TypeOK, vars
<1>2. CASE Repair
  <2>1. missing \in Word
    BY <1>2, CellsAssumption DEF Repair
  <2> QED
    BY <1>2, <2>1 DEF Repair, TypeOK
<1>3. ASSUME NEW di \in Program, Execute(di) PROVE TypeOK'
  <2>1. CASE Access(di)
    BY <2>1, AccessKeepsType
  <2>2. CASE SetVl(di)
    BY <2>2, SetVlKeepsType
  <2>3. CASE LaneOp(di)
    <3>1. vec' \in Vectors
      BY <2>3, LaneOpKeepsType
    <3>2. UNCHANGED <<regs, vl, mem, present, missing>> /\ missing = NoFault
      BY <2>3 DEF LaneOp, Starts
    <3> QED
      BY <3>1, <3>2 DEF TypeOK, Vectors
  <2>4. CASE Merge(di)
    <3>1. vec' \in Vectors
      BY <2>4, MergeKeepsType
    <3>2. UNCHANGED <<regs, vl, mem, present, missing>> /\ missing = NoFault
      BY <2>4 DEF Merge, Starts
    <3> QED
      BY <3>1, <3>2 DEF TypeOK, Vectors
  <2>5. CASE First(di)
    BY <2>5, FirstKeepsType
  <2>6. CASE Reduce(di)
    <3>1. vec' \in Vectors
      BY <2>6, ReduceStages
    <3>2. UNCHANGED <<regs, vl, mem, present, missing>> /\ missing = NoFault
      BY <2>6 DEF Reduce, Starts
    <3> QED
      BY <3>1, <3>2 DEF TypeOK, Vectors
  <2> QED
    BY <1>3, <2>1, <2>2, <2>3, <2>4, <2>5, <2>6 DEF Execute
<1> QED
  BY <1>1, <1>2, <1>3 DEF Next

(* Every register, lane and doubleword holds a word and register 0 holds 0,  *)
(* vl never exceeds the lanes, and an address is missing only while an       *)
(* instruction that threw waits to run again (executor.cpp, kVSETVL to       *)
(* kVSRL_VX).                                                                *)
THEOREM VectorTypeCorrect == Spec => []TypeOK
  BY TypeInitially, TypeStep, PTL DEF Spec

-------------------------------------------------------------------------------
(* A restart is exact.  While an instruction waits to run again, one         *)
(* undisturbed run of it from here ends where its first run would have.      *)
Owed ==
  retried # <<>> =>
    /\ retried[1].di \in Program /\ retried[1].di.op \in LoadOps \cup StoreOps
    /\ ~SelfIndexed(retried[1].di) =>
         LET t == Transfer(retried[1].di, vec, mem, Cells)
         IN t.vec = retried[1].goal.vec /\ t.mem = retried[1].goal.mem

LEMMA TransferUnprimed ==
  ASSUME NEW CONSTANT di, NEW CONSTANT v, NEW CONSTANT m, NEW CONSTANT there,
         regs' = regs, vl' = vl
  PROVE  Transfer(di, v, m, there)' = Transfer(di, v, m, there)
  BY DEF Transfer, Loop, LoadLane, StoreLane, Address, Active

LEMMA OwedUnprimed ==
  ASSUME NEW CONSTANT di, NEW CONSTANT v, NEW CONSTANT m,
         regs' = regs, vl' = vl, vec' = v, mem' = m, retried'[1].di = di
  PROVE  Transfer(retried[1].di, vec, mem, Cells)' = Transfer(di, v, m, Cells)
  BY TransferUnprimed

LEMMA AccessKeepsOwed ==
  ASSUME TypeOK, Owed, NEW di \in Program, Access(di)
  PROVE  /\ Owed'
         /\ retried # <<>> /\ retried' = <<>> /\ ~SelfIndexed(retried[1].di) =>
              vec' = retried[1].goal.vec /\ mem' = retried[1].goal.mem
<1> DEFINE done == Transfer(di, vec, mem, present)
           goal == Transfer(di, vec, mem, Cells)
<1>1. /\ di.op \in LoadOps \cup StoreOps /\ vec \in Vectors /\ mem \in Memory
      /\ present \in SUBSET Cells /\ regs \in [Regs -> Word] /\ vl \in 0 .. Lanes
      /\ retried # <<>> => di = retried[1].di
  BY DEF Access, Starts, TypeOK, Vectors, Memory
<1>2. /\ vec' = done.vec /\ mem' = done.mem /\ missing' = done.missing
      /\ done.missing = NoFault => retried' = <<>>
      /\ done.missing # NoFault =>
           retried' = IF retried # <<>> THEN retried ELSE <<[di |-> di, goal |-> goal]>>
      /\ regs' = regs /\ vl' = vl /\ present' = present
  BY DEF Access, Completes
<1>3. retried # <<>> /\ ~SelfIndexed(di) => goal.vec = retried[1].goal.vec /\ goal.mem = retried[1].goal.mem
  BY <1>1 DEF Owed
<1>4. done.missing = NoFault => goal.vec = done.vec /\ goal.mem = done.mem
  BY <1>1, CompletedRun
<1>5. ~SelfIndexed(di) => /\ Transfer(di, done.vec, done.mem, Cells).vec = goal.vec
                          /\ Transfer(di, done.vec, done.mem, Cells).mem = goal.mem
  BY <1>1, RunAgain
<1> HIDE DEF done, goal
<1>6. ASSUME retried' # <<>> PROVE Owed'
  <2>1. retried' = IF retried # <<>> THEN retried ELSE <<[di |-> di, goal |-> goal]>>
    BY <1>2, <1>6
  <2>2. retried'[1].di = di
    BY <1>1, <2>1
  <2>3. ~SelfIndexed(di) => retried'[1].goal.vec = goal.vec /\ retried'[1].goal.mem = goal.mem
    <3>1. CASE retried # <<>>
      BY <1>3, <2>1, <3>1
    <3>2. CASE retried = <<>>
      <4>1. retried' = <<[di |-> di, goal |-> goal]>>
        BY <2>1, <3>2
      <4>2. retried'[1].goal = goal
        BY <4>1
      <4> QED
        BY <4>2
    <3> QED
      BY <3>1, <3>2
  <2>4. Transfer(retried[1].di, vec, mem, Cells)' = Transfer(di, done.vec, done.mem, Cells)
    BY <1>2, <2>2, OwedUnprimed
  <2> QED
    BY <1>1, <1>5, <2>2, <2>3, <2>4 DEF Owed
<1>7. retried' = <<>> => Owed'
  BY DEF Owed
<1> QED
  BY <1>1, <1>2, <1>3, <1>4, <1>6, <1>7

LEMMA OthersKeepOwed ==
  ASSUME Owed, retried' = <<>> \/ UNCHANGED <<vec, regs, vl, mem, retried>>
  PROVE  Owed'
<1>1. CASE retried' = <<>>
  BY <1>1 DEF Owed
<1>2. CASE UNCHANGED <<vec, regs, vl, mem, retried>>
  <2>1. Transfer(retried[1].di, vec, mem, Cells)' = Transfer(retried[1].di, vec, mem, Cells)
    BY <1>2, OwedUnprimed
  <2> QED
    BY <1>2, <2>1 DEF Owed
<1> QED
  BY <1>1, <1>2

LEMMA OwedStep ==
  ASSUME TypeOK, Owed, [Next]_vars
  PROVE  /\ Owed'
         /\ retried # <<>> /\ retried' = <<>> /\ ~SelfIndexed(retried[1].di) =>
              vec' = retried[1].goal.vec /\ mem' = retried[1].goal.mem
<1>1. CASE UNCHANGED vars
  BY <1>1, OthersKeepOwed DEF vars
<1>2. CASE Repair
  BY <1>2, OthersKeepOwed DEF Repair
<1>3. ASSUME NEW di \in Program, Execute(di), ~Access(di)
      PROVE  retried' = <<>> /\ retried = <<>>
  <2>1. PICK ops \in {{"VSETVL"}, LaneOps, {"VMERGE"}, {"VFIRST"}, ReduceOps} :
          Starts(di, ops) /\ Completes
    BY <1>3, Zenon DEF Execute, SetVl, LaneOp, Merge, First, Reduce
  <2>2. di.op \notin LoadOps \cup StoreOps
    BY <2>1 DEF Starts, LoadOps, StoreOps, LaneOps, ReduceOps
  <2> QED
    BY <2>1, <2>2 DEF Starts, Completes, Owed
<1> QED
  BY <1>1, <1>2, <1>3, AccessKeepsOwed, OthersKeepOwed DEF Next

(* However often a load or a store throws on its way, on whatever lanes, its *)
(* completion leaves registers and memory as one undisturbed run would have  *)
(* left them (executor.cpp, kVLD_V to kVSTX_V: every access starts at lane   *)
(* 0 again).                                                                 *)
THEOREM RestartExact == Spec => RestartIsExact
<1>1. Init => Owed
  BY DEF Init, Owed
<1>2. TypeOK /\ Owed /\ [Next]_vars => Owed'
  BY OwedStep
<1>3. TypeOK /\ Owed /\ [Next]_vars =>
        [retried # <<>> /\ retried' = <<>> /\ ~SelfIndexed(retried[1].di) =>
           vec' = retried[1].goal.vec /\ mem' = retried[1].goal.mem]_vars
  BY OwedStep
<1> QED
  BY <1>1, <1>2, <1>3, VectorTypeCorrect, PTL DEF Spec, RestartIsExact

-------------------------------------------------------------------------------
(* Reductions, and the lanes past the vector length.                         *)

LEMMA ReduceReduces ==
  ASSUME TypeOK, NEW di \in Program, Reduce(di), di.rd # di.rs1
  PROVE  vec'[di.rd][1] = Reduction(di.op, Lanes, vec[di.rs2][1], vec[di.rs1])
<1>1. /\ di.op \in ReduceOps /\ vec \in Vectors /\ Lanes \in Nat /\ 1 \in Lane
      /\ di.rs1 \in VecRegs \ {di.rd} /\ di.rs2 \in VecRegs
  <2>1. di.op \in ReduceOps /\ vec \in Vectors
    BY DEF Reduce, Starts, TypeOK, Vectors
  <2>2. Lanes \in Nat /\ 1 \in Lane
    BY SizesAssumption DEF Lane
  <2> QED
    BY <2>1, <2>2, OtherOperands
<1>2. vec[di.rs2][1] \in Word /\ vec[di.rs1] \in [Lane -> Word]
  BY <1>1 DEF Vectors
<1>3. PICK s \in [0 .. Lanes -> Vectors] :
        /\ s[0][di.rd][1] = vec[di.rs2][1]
        /\ \A r \in VecRegs \ {di.rd} : s[0][r] = vec[r]
        /\ \A i \in 1 .. Lanes :
             /\ s[i][di.rd][1] = Combine(di.op, s[i - 1][di.rd][1], s[i - 1][di.rs1][i])
             /\ \A r \in VecRegs \ {di.rd} : s[i][r] = s[i - 1][r]
        /\ vec'[di.rd][1] = s[Lanes][di.rd][1]
  BY ReduceStages
<1>4. PICK q \in [0 .. Lanes -> Word] :
        /\ q[0] = vec[di.rs2][1]
        /\ \A i \in 1 .. Lanes : q[i] = Combine(di.op, q[i - 1], vec[di.rs1][i])
        /\ Reduction(di.op, Lanes, vec[di.rs2][1], vec[di.rs1]) = q[Lanes]
  BY <1>1, <1>2, ReductionStages
<1> DEFINE T == {i \in 0 .. Lanes : s[i][di.rd][1] = q[i] /\ s[i][di.rs1] = vec[di.rs1]}
<1>5. 0 \in T
  BY <1>1, <1>3, <1>4
<1>6. ASSUME NEW i \in 0 .. Lanes - 1, i \in T PROVE i + 1 \in T
  <2>1. i + 1 \in 1 .. Lanes /\ (i + 1) - 1 = i /\ i + 1 \in 0 .. Lanes
    BY <1>1
  <2>2. s[i + 1][di.rd][1] = Combine(di.op, s[i][di.rd][1], s[i][di.rs1][i + 1])
        /\ s[i + 1][di.rs1] = s[i][di.rs1]
    BY <1>1, <1>3, <2>1
  <2>3. q[i + 1] = Combine(di.op, q[i], vec[di.rs1][i + 1])
    BY <1>4, <2>1
  <2>4. s[i][di.rd][1] = q[i] /\ s[i][di.rs1] = vec[di.rs1]
    BY <1>6
  <2> QED
    BY <2>1, <2>2, <2>3, <2>4
<1> HIDE DEF T
<1>7. Lanes \in T
  <2>1. Lanes \in Nat /\ Lanes \in 0 .. Lanes
    BY <1>1
  <2>2. \A k \in 0 .. Lanes - 1 : k \in T => k + 1 \in T
    BY <1>6, Zenon
  <2>3. 0 .. Lanes \subseteq T
    BY <1>5, <2>1, <2>2, Induction
  <2> QED
    BY <2>1, <2>3, Zenon
<1>8. s[Lanes][di.rd][1] = q[Lanes]
  BY <1>7, Zenon DEF T
<1> QED
  BY <1>3, <1>4, <1>8, Zenon

(* While every lane is active a reduction leaves the value its definition    *)
(* gives, though it accumulates in its destination, as long as that is not   *)
(* the vector it reduces (executor.cpp, kVREDADD_VS to kVREDMAX_VS).         *)
THEOREM ReductionsExact == Spec => ReductionExact
<1>1. TypeOK /\ [Next]_vars =>
        [vl = Lanes =>
           \A di \in Program : di.op \in ReduceOps /\ di.rd # di.rs1 => Reduces(di)]_vars
  BY ReduceReduces DEF Reduces
<1> QED
  BY <1>1, VectorTypeCorrect, PTL DEF Spec, ReductionExact

LEMMA AccessConfined ==
  ASSUME TypeOK, NEW di \in Program, Access(di)
  PROVE  /\ \A i \in Inactive, r \in VecRegs : vec'[r][i] = vec[r][i]
         /\ \A a \in Cells : mem'[a] # mem[a] =>
              \E i \in Lane \ Inactive : a = Address(di, vec, i)
<1> DEFINE done == Transfer(di, vec, mem, present)
<1>1. /\ di.op \in LoadOps \cup StoreOps /\ vec \in Vectors /\ mem \in Memory
      /\ present \in SUBSET Cells /\ regs \in [Regs -> Word] /\ vl \in 0 .. Lanes
      /\ vec' = done.vec /\ mem' = done.mem
  BY DEF Access, Starts, TypeOK, Vectors, Memory
<1>2. /\ Active = vl
      /\ \A i \in Inactive : i \in Lane /\ ~(i <= Active)
      /\ 1 .. Active \subseteq Lane \ Inactive
  <2>1. Active = vl /\ vl \in Nat /\ vl <= Lanes /\ Lanes \in Nat
    BY <1>1, ActiveLanes, SizesAssumption
  <2> QED
    BY <2>1 DEF Inactive, Lane
<1>3. CASE di.op \in LoadOps
  <2>1. LoadedBy(di, vec, mem, present, done, Active)
    BY <1>1, <1>3, TransferLoads
  <2> HIDE DEF done
  <2> QED
    BY <1>1, <1>2, <2>1 DEF LoadedBy
<1>4. CASE di.op \in StoreOps
  <2>1. StoredBy(di, vec, mem, present, done, Active)
    BY <1>1, <1>4, TransferStores
  <2> HIDE DEF done
  <2>2. ASSUME NEW a \in Cells, mem'[a] # mem[a]
        PROVE  \E i \in Lane \ Inactive : a = Address(di, vec, i)
    <3>1. PICK j \in Writers(di, vec, present, a, Active) : TRUE
      BY <1>1, <2>1, <2>2 DEF StoredBy
    <3>2. j \in 1 .. Active /\ Address(di, vec, j) = a
      BY DEF Writers
    <3> QED
      BY <1>2, <3>2
  <2> QED
    BY <1>1, <2>1, <2>2 DEF StoredBy
<1> QED
  BY <1>1, <1>3, <1>4

(* In none of its runs does a load change a lane past the vector length, nor *)
(* a store a doubleword that no active lane addresses (executor.cpp, kVLD_V  *)
(* to kVSTX_V).                                                              *)
THEOREM InactiveKept == Spec => AccessKeepsInactive
<1>1. TypeOK /\ [Next]_vars =>
        [\A di \in Program : Access(di) =>
           /\ \A i \in Inactive, r \in VecRegs : vec'[r][i] = vec[r][i]
           /\ \A a \in Cells : mem'[a] # mem[a] =>
                \E i \in Lane \ Inactive : a = Address(di, vec, i)]_vars
  BY AccessConfined
<1> QED
  BY <1>1, VectorTypeCorrect, PTL DEF Spec, AccessKeepsInactive

===============================================================================
