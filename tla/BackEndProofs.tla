----------------------------- MODULE BackEndProofs -----------------------------
(***************************************************************************)
(* Proofs about the back end of hvmc, the code generator, the assembler    *)
(* and the ELF writer.                                                     *)
(*                                                                         *)
(* The code generator places every label once and refers to none it does   *)
(* not place, for every program and every nesting.                         *)
(*                                                                         *)
(* The two passes of the assembler agree on every offset, for every        *)
(* source, and lose nothing of one that enters each section once.          *)
(*                                                                         *)
(* The ELF writer puts every piece where its headers say it is, links the  *)
(* tables, resolves the symbols, and makes executables that are loaded     *)
(* where they were linked, for every object.                               *)
(***************************************************************************)
EXTENDS CodeGen, AssemblerSpec, ElfSpec, FiniteSetTheorems, SequenceTheorems,
        WellFoundedInduction, TLAPS

(* Where the elements of s \o t come from.                                    *)
LEMMA ConcatIndex ==
  ASSUME NEW s \in Seq(Entry), NEW t \in Seq(Entry)
  PROVE  /\ \A i \in DOMAIN s : i \in DOMAIN (s \o t) /\ (s \o t)[i] = s[i]
         /\ \A i \in DOMAIN t : Len(s) + i \in DOMAIN (s \o t) /\ (s \o t)[Len(s) + i] = t[i]
         /\ \A i \in DOMAIN (s \o t) :
              \/ i \in DOMAIN s /\ (s \o t)[i] = s[i]
              \/ i - Len(s) \in DOMAIN t /\ (s \o t)[i] = t[i - Len(s)]
         /\ \A i \in DOMAIN s : i <= Len(s) /\ i \in Int
         /\ \A i \in DOMAIN t : i > 0 /\ i \in Int
         /\ Len(s) \in Nat
         /\ \A i \in DOMAIN (s \o t) : i \in Int
<1>1. /\ Len(s) \in Nat /\ DOMAIN s = 1 .. Len(s)
      /\ Len(t) \in Nat /\ DOMAIN t = 1 .. Len(t)
  BY LenProperties
<1>2. /\ s \o t \in Seq(Entry) /\ Len(s \o t) = Len(s) + Len(t)
      /\ \A i \in 1 .. Len(s) + Len(t) :
           (s \o t)[i] = IF i <= Len(s) THEN s[i] ELSE t[i - Len(s)]
  BY ConcatProperties
<1>3. DOMAIN (s \o t) = 1 .. Len(s) + Len(t)
  BY <1>2, LenProperties
<1> HIDE DEF Entry
<1> QED
  BY <1>1, <1>2, <1>3

LEMMA PlacedConcat ==
  ASSUME NEW s \in Seq(Entry), NEW t \in Seq(Entry)
  PROVE  Placed(s \o t) = Placed(s) \cup Placed(t)
<1>1. \A i \in DOMAIN s : i \in DOMAIN (s \o t) /\ (s \o t)[i] = s[i]
  BY ConcatIndex
<1>2. \A i \in DOMAIN t : Len(s) + i \in DOMAIN (s \o t) /\ (s \o t)[Len(s) + i] = t[i]
  BY ConcatIndex
<1>3. \A i \in DOMAIN (s \o t) :
        \/ i \in DOMAIN s /\ (s \o t)[i] = s[i]
        \/ i - Len(s) \in DOMAIN t /\ (s \o t)[i] = t[i - Len(s)]
  BY ConcatIndex
<1>4. Placed(s \o t) \subseteq Placed(s) \cup Placed(t)
  BY <1>3, Zenon DEF Placed
<1>5. Placed(s) \subseteq Placed(s \o t)
  BY <1>1, Zenon DEF Placed
<1>6. Placed(t) \subseteq Placed(s \o t)
  BY <1>2, Zenon DEF Placed
<1> QED
  BY <1>4, <1>5, <1>6

LEMMA ReferredConcat ==
  ASSUME NEW s \in Seq(Entry), NEW t \in Seq(Entry)
  PROVE  Referred(s \o t) = Referred(s) \cup Referred(t)
<1>1. \A i \in DOMAIN s : i \in DOMAIN (s \o t) /\ (s \o t)[i] = s[i]
  BY ConcatIndex
<1>2. \A i \in DOMAIN t : Len(s) + i \in DOMAIN (s \o t) /\ (s \o t)[Len(s) + i] = t[i]
  BY ConcatIndex
<1>3. \A i \in DOMAIN (s \o t) :
        \/ i \in DOMAIN s /\ (s \o t)[i] = s[i]
        \/ i - Len(s) \in DOMAIN t /\ (s \o t)[i] = t[i - Len(s)]
  BY ConcatIndex
<1>4. Referred(s \o t) \subseteq Referred(s) \cup Referred(t)
  BY <1>3, Zenon DEF Referred
<1>5. Referred(s) \subseteq Referred(s \o t)
  BY <1>1, Zenon DEF Referred
<1>6. Referred(t) \subseteq Referred(s \o t)
  BY <1>2, Zenon DEF Referred
<1> QED
  BY <1>4, <1>5, <1>6

LEMMA OnceConcat ==
  ASSUME NEW s \in Seq(Entry), NEW t \in Seq(Entry)
  PROVE  Once(s \o t) <=> Once(s) /\ Once(t) /\ Placed(s) \cap Placed(t) = {}
<1>1. \A i \in DOMAIN s : i \in DOMAIN (s \o t) /\ (s \o t)[i] = s[i]
  BY ConcatIndex
<1>2. \A i \in DOMAIN t : Len(s) + i \in DOMAIN (s \o t) /\ (s \o t)[Len(s) + i] = t[i]
  BY ConcatIndex
<1>3. \A i \in DOMAIN (s \o t) :
        \/ i \in DOMAIN s /\ (s \o t)[i] = s[i]
        \/ i - Len(s) \in DOMAIN t /\ (s \o t)[i] = t[i - Len(s)]
  BY ConcatIndex
<1>4. /\ \A i \in DOMAIN s : i <= Len(s) /\ i \in Int
      /\ \A i \in DOMAIN t : i > 0 /\ i \in Int
      /\ Len(s) \in Nat
      /\ \A i \in DOMAIN (s \o t) : i \in Int
  BY ConcatIndex
<1>5. ASSUME Once(s \o t)
      PROVE  Once(s) /\ Once(t) /\ Placed(s) \cap Placed(t) = {}
  <2>1. Once(s)
    BY <1>1, <1>5, Zenon DEF Once
  <2>2. Once(t)
    <3> SUFFICES ASSUME NEW i \in DOMAIN t, NEW j \in DOMAIN t,
                        Places(t[i]), Places(t[j]), t[i].label = t[j].label
                 PROVE  i = j
      BY DEF Once
    <3>1. Len(s) + i = Len(s) + j
      BY <1>2, <1>5, Zenon DEF Once
    <3> QED
      BY <3>1, <1>4
  <2>3. ASSUME NEW i \in DOMAIN s, NEW j \in DOMAIN t, Places(s[i]), Places(t[j]),
               s[i].label = t[j].label
        PROVE  FALSE
    <3>1. i = Len(s) + j
      BY <1>1, <1>2, <1>5, <2>3, Zenon DEF Once
    <3> QED
      BY <3>1, <1>4
  <2>4. Placed(s) \cap Placed(t) = {}
    BY <2>3, Zenon DEF Placed
  <2> QED
    BY <2>1, <2>2, <2>4
<1>6. ASSUME Once(s), Once(t), Placed(s) \cap Placed(t) = {}
      PROVE  Once(s \o t)
  <2> SUFFICES ASSUME NEW i \in DOMAIN (s \o t), NEW j \in DOMAIN (s \o t),
                      Places((s \o t)[i]), Places((s \o t)[j]),
                      (s \o t)[i].label = (s \o t)[j].label
               PROVE  i = j
    BY DEF Once
  <2>1. CASE i \in DOMAIN s /\ j \in DOMAIN s
    BY <2>1, <1>1, <1>6, Zenon DEF Once
  <2>2. CASE i - Len(s) \in DOMAIN t /\ j - Len(s) \in DOMAIN t
              /\ (s \o t)[i] = t[i - Len(s)] /\ (s \o t)[j] = t[j - Len(s)]
    <3>1. i - Len(s) = j - Len(s)
      BY <2>2, <1>6, Zenon DEF Once
    <3> QED
      BY <3>1, <1>4
  <2>3. ASSUME NEW a \in DOMAIN s, NEW b \in DOMAIN t, Places(s[a]), Places(t[b]),
               s[a].label = t[b].label
        PROVE  FALSE
    BY <2>3, <1>6, Zenon DEF Placed
  <2> QED
    BY <1>1, <1>3, <2>1, <2>2, <2>3, Zenon
<1> QED
  BY <1>5, <1>6

LEMMA SplitHead ==
  ASSUME NEW s \in Seq(Entry), s # <<>>
  PROVE  /\ Head(s) \in Entry /\ Tail(s) \in Seq(Entry)
         /\ <<Head(s)>> \in Seq(Entry)
         /\ s = <<Head(s)>> \o Tail(s)
<1> HIDE DEF Entry
<1>1. Len(s) \in Nat \ {0} /\ DOMAIN s = 1 .. Len(s) /\ Head(s) = s[1]
  BY EmptySeq, LenProperties
<1>2. Head(s) \in Entry /\ Tail(s) \in Seq(Entry) /\ Len(Tail(s)) = Len(s) - 1
      /\ \A i \in 1 .. Len(s) - 1 : Tail(s)[i] = s[i + 1]
  BY <1>1, HeadTailProperties, ElementOfSeq
<1>3. <<Head(s)>> \in Seq(Entry) /\ Len(<<Head(s)>>) = 1
  BY <1>2
<1>4. /\ <<Head(s)>> \o Tail(s) \in Seq(Entry)
      /\ Len(<<Head(s)>> \o Tail(s)) = Len(s)
      /\ \A i \in 1 .. Len(s) : (<<Head(s)>> \o Tail(s))[i] = s[i]
  <2>1. /\ <<Head(s)>> \o Tail(s) \in Seq(Entry)
        /\ Len(<<Head(s)>> \o Tail(s)) = 1 + Len(Tail(s))
        /\ \A i \in 1 .. 1 + Len(Tail(s)) :
             (<<Head(s)>> \o Tail(s))[i] = IF i <= 1 THEN <<Head(s)>>[i] ELSE Tail(s)[i - 1]
    BY <1>2, <1>3, ConcatProperties
  <2> QED
    BY <2>1, <1>1, <1>2
<1> QED
  BY <1>2, <1>3, <1>4, SeqEqual

(* A line or call on its own.                                                 *)
LEMMA Single ==
  ASSUME NEW e \in Entry
  PROVE  /\ <<e>> \in Seq(Entry) /\ Once(<<e>>)
         /\ Placed(<<e>>) = IF Places(e) THEN {e.label} ELSE {}
         /\ Referred(<<e>>) = (IF Places(e) THEN {} ELSE {e.label}) \ {NoLabel}
BY DEF Once, Placed, Referred

LEMMA Nothing ==
  <<>> \in Seq(Entry) /\ Once(<<>>) /\ Placed(<<>>) = {} /\ Referred(<<>>) = {}
BY DEF Once, Placed, Referred

-------------------------------------------------------------------------------
(* A call may be replaced by any lines and calls that place only new labels,  *)
(* each once, and refer to these or to the label the call was given.          *)
LEMMA Replacement ==
  ASSUME TypeOK, LabelsInv, work # <<>>, Head(work).op \in Calls,
         NEW s \in Seq(Entry), NEW n \in Nat, Do(s, n), Once(s),
         Placed(s) \subseteq label_counter .. label_counter + n - 1,
         Referred(s) \subseteq Placed(s) \cup Referred(<<Head(work)>>)
  PROVE  LabelsInv'
<1> DEFINE h == Head(work)
           t == Tail(work)
<1>1. h \in Entry /\ t \in Seq(Entry) /\ <<h>> \in Seq(Entry) /\ work = <<h>> \o t
  BY SplitHead DEF TypeOK
<1>2. out \in Seq(Entry) /\ label_counter \in Nat
  BY DEF TypeOK
<1>3. Placed(<<h>>) = {}
  <2>1. ~Places(h)
    BY DEF Places, Calls
  <2> QED
    BY <2>1, <1>1, Single
<1>4. Placed(work) = Placed(t) /\ Referred(work) = Referred(<<h>>) \cup Referred(t)
      /\ Once(t)
  <2>1. Placed(work) = Placed(<<h>>) \cup Placed(t)
    BY <1>1, PlacedConcat
  <2>2. Referred(work) = Referred(<<h>>) \cup Referred(t)
    BY <1>1, ReferredConcat
  <2>3. Once(t)
    <3>1. Once(<<h>> \o t)
      BY <1>1 DEF LabelsInv
    <3> QED
      BY <3>1, <1>1, OnceConcat
  <2> QED
    BY <2>1, <2>2, <2>3, <1>3
<1>5. work' = s \o t /\ out' = out /\ label_counter' = label_counter + n
  BY DEF Do
<1>6. Placed(work') = Placed(s) \cup Placed(t) /\ Referred(work') = Referred(s) \cup Referred(t)
  BY <1>1, <1>5, PlacedConcat, ReferredConcat
<1>7. \A l \in Placed(s) : l \notin 0 .. label_counter - 1
  BY <1>2
<1>8. Placed(out) \cup Placed(t) \subseteq 0 .. label_counter - 1
  BY <1>4 DEF LabelsInv
<1>9. Once(work')
  <2>1. Placed(s) \cap Placed(t) = {}
    BY <1>7, <1>8, Zenon
  <2> QED
    BY <2>1, <1>1, <1>4, <1>5, OnceConcat
<1>10. Once(out') /\ Placed(out') = Placed(out) /\ Referred(out') = Referred(out)
  BY <1>5 DEF LabelsInv
<1>11. Placed(out') \cap Placed(work') = {}
  <2>1. Placed(out) \cap Placed(t) = {}
    BY <1>4 DEF LabelsInv
  <2> QED
    BY <2>1, <1>6, <1>7, <1>8, <1>10, Zenon
<1>12. Placed(out') \cup Placed(work') \subseteq 0 .. label_counter' - 1
  <2>1. /\ 0 .. label_counter - 1 \subseteq 0 .. label_counter + n - 1
        /\ label_counter .. label_counter + n - 1 \subseteq 0 .. label_counter + n - 1
    BY <1>2
  <2>2. 0 .. label_counter' - 1 = 0 .. label_counter + n - 1
    BY <1>2, <1>5
  <2> QED
    BY <2>1, <2>2, <1>6, <1>8, <1>10, Zenon
<1>13. Referred(out') \cup Referred(work') \subseteq Placed(out') \cup Placed(work')
  <2>1. Referred(out) \cup Referred(<<h>>) \cup Referred(t) \subseteq Placed(out) \cup Placed(t)
    BY <1>4 DEF LabelsInv
  <2> QED
    BY <2>1, <1>6, <1>10, Zenon
<1> QED
  BY <1>9, <1>10, <1>11, <1>12, <1>13 DEF LabelsInv

(* What is emitted and what is still to do, taken together, are the same.     *)
LEMMA EmitKeeps ==
  ASSUME TypeOK, LabelsInv, Emit
  PROVE  TypeOK' /\ LabelsInv'
<1> DEFINE h == Head(work)
           t == Tail(work)
<1>1. h \in Entry /\ t \in Seq(Entry) /\ <<h>> \in Seq(Entry) /\ work = <<h>> \o t
  BY SplitHead DEF TypeOK, Emit
<1>2. out' = out \o <<h>> /\ out' \in Seq(Entry) /\ out \in Seq(Entry)
      /\ work' = t /\ label_counter' = label_counter /\ program' = program
  <2>1. out' = Append(out, h) /\ out \in Seq(Entry)
    BY DEF Emit, TypeOK
  <2>2. Append(out, h) = out \o <<h>> /\ Append(out, h) \in Seq(Entry)
    <3> HIDE DEF Entry, h
    <3> QED
      BY <1>1, <2>1, AppendIsConcat
  <2> QED
    BY <2>1, <2>2 DEF Emit
<1>3. TypeOK'
  BY <1>1, <1>2 DEF TypeOK
<1>4. /\ Placed(work) = Placed(<<h>>) \cup Placed(t)
      /\ Referred(work) = Referred(<<h>>) \cup Referred(t)
      /\ Placed(out') = Placed(out) \cup Placed(<<h>>)
      /\ Referred(out') = Referred(out) \cup Referred(<<h>>)
  BY <1>1, <1>2, PlacedConcat, ReferredConcat
<1>5. Once(<<h>>) /\ Once(t) /\ Placed(<<h>>) \cap Placed(t) = {}
  <2>1. Once(<<h>> \o t)
    BY <1>1 DEF LabelsInv
  <2> QED
    BY <2>1, <1>1, OnceConcat
<1>6. Once(out')
  <2>1. Once(out) /\ Placed(out) \cap Placed(<<h>>) = {}
    BY <1>4 DEF LabelsInv
  <2> QED
    BY <2>1, <1>1, <1>2, <1>5, OnceConcat
<1>7. Placed(out') \cap Placed(work') = {}
  <2>1. Placed(out) \cap Placed(t) = {}
    BY <1>4 DEF LabelsInv
  <2> QED
    BY <2>1, <1>2, <1>4, <1>5
<1>8. Placed(out') \cup Placed(work') \subseteq 0 .. label_counter' - 1
  <2>1. Placed(out) \cup Placed(<<h>>) \cup Placed(t) \subseteq 0 .. label_counter - 1
    BY <1>4 DEF LabelsInv
  <2> QED
    BY <2>1, <1>2, <1>4
<1>9. Referred(out') \cup Referred(work') \subseteq Placed(out') \cup Placed(work')
  <2>1. Referred(out) \cup Referred(<<h>>) \cup Referred(t)
          \subseteq Placed(out) \cup Placed(<<h>>) \cup Placed(t)
    BY <1>4 DEF LabelsInv
  <2> QED
    BY <2>1, <1>2, <1>4
<1> QED
  BY <1>2, <1>3, <1>5, <1>6, <1>7, <1>8, <1>9 DEF LabelsInv

-------------------------------------------------------------------------------
(* Lines and calls that place nothing, and refer to nothing but l.            *)
Silent(e, l) == e \in Entry /\ ~Places(e) /\ e.label \in {NoLabel, l}
Quiet(s, l)  == s \in Seq(Entry) /\ \A i \in DOMAIN s : Silent(s[i], l)

LEMMA QuietConcat ==
  ASSUME NEW l, NEW s, NEW t, Quiet(s, l), Quiet(t, l)
  PROVE  Quiet(s \o t, l)
<1>1. s \o t \in Seq(Entry)
  BY ConcatProperties DEF Quiet
<1>2. \A i \in DOMAIN (s \o t) :
        \/ i \in DOMAIN s /\ (s \o t)[i] = s[i]
        \/ i - Len(s) \in DOMAIN t /\ (s \o t)[i] = t[i - Len(s)]
  BY ConcatIndex DEF Quiet
<1> QED
  BY <1>1, <1>2, Zenon DEF Quiet

LEMMA QuietSingle ==
  ASSUME NEW l, NEW e, Silent(e, l)
  PROVE  Quiet(<<e>>, l)
BY DEF Quiet, Silent

LEMMA QuietTuples ==
  ASSUME NEW l, NEW a, NEW b, NEW c, NEW d, NEW e, NEW f,
         Silent(a, l), Silent(b, l)
  PROVE  /\ Quiet(<<a, b>>, l)
         /\ Silent(c, l) /\ Silent(d, l) /\ Silent(e, l) => Quiet(<<a, b, c, d, e>>, l)
         /\ Silent(c, l) /\ Silent(d, l) /\ Silent(e, l) /\ Silent(f, l)
              => Quiet(<<a, b, c, d, e, f>>, l)
<1>1. Silent(a, l) => a \in Entry
  BY DEF Silent
<1>2. Silent(b, l) => b \in Entry
  BY DEF Silent
<1>3. Silent(c, l) => c \in Entry
  BY DEF Silent
<1>4. Silent(d, l) => d \in Entry
  BY DEF Silent
<1>5. Silent(e, l) => e \in Entry
  BY DEF Silent
<1>6. Silent(f, l) => f \in Entry
  BY DEF Silent
<1> HIDE DEF Entry
<1> QED
  BY <1>1, <1>2, <1>3, <1>4, <1>5, <1>6 DEF Quiet

LEMMA QuietNothing == \A l : Quiet(<<>>, l)
BY DEF Quiet

LEMMA QuietLabels ==
  ASSUME NEW l, NEW s, Quiet(s, l)
  PROVE  Once(s) /\ Placed(s) = {} /\ Referred(s) \subseteq {l} \ {NoLabel}
BY DEF Quiet, Silent, Once, Placed, Referred

(* A call replaced by these, with any number of labels taken.                 *)
LEMMA QuietReplacement ==
  ASSUME TypeOK, LabelsInv, work # <<>>, Head(work).op \in Calls,
         NEW s, NEW n \in Nat, Quiet(s, Head(work).label), Do(s, n)
  PROVE  TypeOK' /\ LabelsInv'
<1> DEFINE h == Head(work)
<1>1. h \in Entry /\ Tail(work) \in Seq(Entry)
  BY SplitHead DEF TypeOK
<1>2. s \in Seq(Entry) /\ Once(s) /\ Placed(s) = {} /\ Referred(s) \subseteq {h.label} \ {NoLabel}
  BY QuietLabels DEF Quiet
<1>3. Referred(<<h>>) = {h.label} \ {NoLabel}
  <2>1. ~Places(h)
    BY DEF Places, Calls
  <2> QED
    BY <2>1, <1>1, Single
<1>4. LabelsInv'
  BY <1>2, <1>3, Replacement
<1>5. TypeOK'
  <2>1. s \o Tail(work) \in Seq(Entry)
    BY <1>1, <1>2, ConcatProperties
  <2> QED
    BY <2>1 DEF TypeOK, Do
<1> QED
  BY <1>4, <1>5

-------------------------------------------------------------------------------
(* The nodes in the node that a call is on.                                   *)
LEMMA Nodes ==
  ASSUME TypeOK, work # <<>>
  PROVE  /\ The \in Node /\ Null \in Node
         /\ Head(work).reg \in Nat /\ Head(work).label \in Nat \cup {NoLabel}
         /\ The.kind \in {"PROGRAM", "BLOCK", "CALL"} => The.list \in Seq(Node)
         /\ The.kind = "FUNCTION_DEF" => The.body \in Node
         /\ The.kind \in {"WHILE_STMT", "DO_WHILE_STMT"} => The.cond \in Node /\ The.body \in Node
         /\ The.kind \in {"RETURN_STMT", "EXPR_STMT"} => The.expr \in Node
         /\ The.kind = "VARIABLE_DECL" => The.init \in Node
         /\ The.kind = "IF_STMT" => /\ The.cond \in Node
                                    /\ The.then_body \in Node /\ The.else_body \in Node
         /\ The.kind = "FOR_STMT" => /\ The.init \in Node /\ The.cond \in Node
                                     /\ The.inc \in Node /\ The.body \in Node
         /\ The.kind \in {"BINARY_OP", "ARRAY_INDEX"} => The.left \in Node /\ The.right \in Node
         /\ The.kind \in {"UNARY_OP", "ADDRESS_OF", "DEREF"} => The.operand \in Node
         /\ The.kind = "ASSIGN" => The.value \in Node
<1>1. Head(work) \in Entry
  BY SplitHead DEF TypeOK
<1>2. /\ The \in Node /\ Null \in Node
      /\ Head(work).reg \in Nat /\ Head(work).label \in Nat \cup {NoLabel}
  BY <1>1 DEF Entry, The, Node
<1>3. /\ \A p \in Parts(The) : p \in Node
      /\ The.kind \in {"PROGRAM", "BLOCK", "CALL"} => The.list \in Seq(Node)
  BY <1>2, NodeAssumption
<1> DEFINE n == The
<1> HIDE DEF n, Node, Null
<1> QED
  BY <1>2, <1>3 DEF Parts

(* The lines and calls that the generator writes.                             *)
LEMMA Entries ==
  ASSUME NEW n \in Node, NEW r \in Nat, NEW l \in Nat \cup {NoLabel}, NEW k,
         NEW op \in Calls \cup Marks \cup Jumps \cup Values, op \notin {"label", "string"}
  PROVE  /\ Silent(Line(op, n), k) /\ Silent(Into(op, n, r), k)
         /\ Silent(Gen(n), k) /\ Silent(Expression(n, r), k)
         /\ Silent(Branch(op, r, l), l) /\ Silent(Condition(n, l), l) /\ Silent(Jmp(l), l)
         /\ LabelLine(l) \in Entry /\ Places(LabelLine(l)) /\ LabelLine(l).label = l
<1>1. Null \in Node /\ 1 \in Nat
  BY DEF Node
<1> HIDE DEF Node, Null
<1>2. Line(op, n) \in Entry /\ ~Places(Line(op, n)) /\ Line(op, n).label = NoLabel
  BY DEF Line, Entry, Places
<1>3. Into(op, n, r) \in Entry /\ ~Places(Into(op, n, r)) /\ Into(op, n, r).label = NoLabel
  BY DEF Into, Entry, Places
<1>4. Gen(n) \in Entry /\ ~Places(Gen(n)) /\ Gen(n).label = NoLabel
  BY DEF Gen, Line, Entry, Places, Calls, Marks, Jumps, Values
<1>5. /\ Expression(n, r) \in Entry /\ ~Places(Expression(n, r))
      /\ Expression(n, r).label = NoLabel
  BY DEF Expression, Into, Entry, Places, Calls, Marks, Jumps, Values
<1>6. Branch(op, r, l) \in Entry /\ ~Places(Branch(op, r, l)) /\ Branch(op, r, l).label = l
  BY <1>1 DEF Branch, Entry, Places
<1>7. Condition(n, l) \in Entry /\ ~Places(Condition(n, l)) /\ Condition(n, l).label = l
  BY <1>1 DEF Condition, Entry, Places, Calls, Marks, Jumps, Values
<1>8. Jmp(l) \in Entry /\ ~Places(Jmp(l)) /\ Jmp(l).label = l
  BY <1>1 DEF Jmp, Entry, Places, Calls, Marks, Jumps, Values
<1>9. LabelLine(l) \in Entry /\ Places(LabelLine(l)) /\ LabelLine(l).label = l
  BY <1>1 DEF LabelLine, Entry, Places, Calls, Marks, Jumps, Values
<1> QED
  BY <1>2, <1>3, <1>4, <1>5, <1>6, <1>7, <1>8, <1>9, Zenon DEF Silent

(* One call for each element of a list.                                       *)
LEMMA QuietList ==
  ASSUME NEW l, NEW list \in Seq(Node), NEW s, DOMAIN s = 1 .. Len(list),
         s = [i \in 1 .. Len(list) |-> s[i]],
         \A i \in 1 .. Len(list) : Silent(s[i], l)
  PROVE  Quiet(s, l)
<1>1. Len(list) \in Nat
  BY LenProperties
<1>2. \A i \in 1 .. Len(list) : s[i] \in Entry
  BY Zenon DEF Silent
<1> HIDE DEF Entry
<1>3. s \in [1 .. Len(list) -> Entry]
  BY <1>2
<1>4. s \in Seq(Entry)
  BY <1>1, <1>3
<1> QED
  BY <1>4 DEF Quiet

-------------------------------------------------------------------------------
(* The statements that take no label.                                         *)
LEMMA PlainStatements ==
  ASSUME TypeOK, LabelsInv,
         GenList \/ GenExprStmt \/ GenAsm \/ GenNothing \/ GenReturn \/ GenFunctionDef
           \/ GenVariableDecl
  PROVE  TypeOK' /\ LabelsInv'
<1> DEFINE l == Head(work).label
<1>1. work # <<>> /\ Head(work).op \in Calls /\ Head(work).op = "gen"
  BY DEF GenList, GenExprStmt, GenAsm, GenNothing, GenReturn, GenFunctionDef,
         GenVariableDecl, Calling, Calls
<1> SUFFICES \E s : Quiet(s, l) /\ Do(s, 0)
  BY <1>1, QuietReplacement
<1>2. CASE GenList
  <2> DEFINE s == [i \in 1 .. Len(The.list) |-> Gen(The.list[i])]
  <2>1. The.list \in Seq(Node)
    BY <1>1, <1>2, Nodes DEF GenList, Calling
  <2>2. \A i \in 1 .. Len(The.list) : Silent(s[i], l)
    <3>1. \A i \in 1 .. Len(The.list) : The.list[i] \in Node
      BY <2>1, ElementOfSeq
    <3>2. \A n \in Node : Silent(Gen(n), l)
      BY Entries DEF Calls, Marks, Jumps, Values
    <3> QED
      BY <3>1, <3>2
  <2>3. Quiet(s, l)
    BY <2>1, <2>2, QuietList
  <2> QED
    BY <2>3, <1>2 DEF GenList
<1>3. CASE GenExprStmt
  <2>1. Silent(Gen(The.expr), l)
    BY <1>1, <1>3, Nodes, Entries DEF Calls, Marks, Jumps, Values, GenExprStmt, Calling
  <2> QED
    BY <2>1, <1>3, QuietSingle DEF GenExprStmt
<1>4. CASE GenAsm
  <2>1. Silent(Line("asm", The), l)
    BY <1>1, Nodes, Entries DEF Calls, Marks, Jumps, Values
  <2> QED
    BY <2>1, <1>4, QuietSingle DEF GenAsm
<1>5. CASE GenNothing
  BY <1>5, QuietNothing DEF GenNothing
<1>6. CASE GenReturn
  <2>1. Silent(Expression(The.expr, 1), l) /\ Silent(Line("ret", The), l)
    BY <1>1, <1>6, Nodes, Entries DEF Calls, Marks, Jumps, Values, GenReturn, Calling
  <2>2. /\ Quiet(IF The.expr = Null THEN <<>> ELSE <<Expression(The.expr, 1)>>, l)
        /\ Quiet(<<Line("ret", The)>>, l)
    BY <2>1, QuietSingle, QuietNothing
  <2> QED
    BY <2>2, <1>6, QuietConcat DEF GenReturn
<1>7. CASE GenFunctionDef
  <2> DEFINE s == <<Line(".section", The), Line(".global", The), Line("function", The),
                    Line("enter", The), Gen(The.body), Line("ret", Null)>>
  <2>1. /\ Silent(Line(".section", The), l) /\ Silent(Line(".global", The), l)
        /\ Silent(Line("function", The), l) /\ Silent(Line("enter", The), l)
        /\ Silent(Gen(The.body), l) /\ Silent(Line("ret", Null), l)
    BY <1>1, <1>7, Nodes, Entries DEF Calls, Marks, Jumps, Values, GenFunctionDef, Calling
  <2>2. Quiet(s, l)
    BY <2>1, QuietTuples
  <2> QED
    BY <2>2, <1>7, QuietNothing DEF GenFunctionDef
<1>8. CASE GenVariableDecl
  <2>1. Silent(Expression(The.init, 1), l) /\ Silent(Line("mov_name", The), l)
    BY <1>1, <1>8, Nodes, Entries DEF Calls, Marks, Jumps, Values, GenVariableDecl, Calling
  <2> QED
    BY <2>1, <1>8, QuietTuples, QuietNothing DEF GenVariableDecl
<1> QED
  BY <1>2, <1>3, <1>4, <1>5, <1>6, <1>7, <1>8

(* The conditions, and the expressions that take no label.                    *)
LEMMA QuietMove ==
  ASSUME NEW l, NEW r \in Nat
  PROVE  Quiet(MoveResult(r), l)
<1>1. Silent(Into("mov_r1", Null, r), l)
  BY Entries DEF Calls, Marks, Jumps, Values, Node
<1> QED
  BY <1>1, QuietSingle, QuietNothing DEF MoveResult

LEMMA Operators ==
  /\ \A op \in DOMAIN BranchUnless : BranchUnless[op] \in Jumps
  /\ \A op \in DOMAIN BinaryOps : BinaryOps[op] \in Values
BY DEF BranchUnless, BinaryOps, Jumps, Values

LEMMA PlainExpressions ==
  ASSUME TypeOK, LabelsInv,
         GenCondition \/ GenConditionOther \/ GenOperand \/ GenBinaryOp \/ GenUnaryOp \/ GenAssign
           \/ GenAddressOf \/ GenCall \/ GenDeref \/ GenArrayIndex \/ GenNoExpression
  PROVE  TypeOK' /\ LabelsInv'
<1> DEFINE l == Head(work).label
           r == Head(work).reg
<1>1. work # <<>> /\ Head(work).op \in Calls
  BY DEF GenCondition, GenConditionOther, GenOperand, GenBinaryOp, GenUnaryOp, GenAssign,
         GenAddressOf, GenCall, GenDeref, GenArrayIndex, GenNoExpression, Calling, Calls
<1>2. The \in Node /\ Null \in Node /\ r \in Nat /\ l \in Nat \cup {NoLabel}
  BY <1>1, Nodes
<1> SUFFICES \E s : Quiet(s, l) /\ Do(s, 0)
  BY <1>1, QuietReplacement
<1>3. ASSUME The.left \in Node, The.right \in Node
      PROVE  Quiet(<<Expression(The.left, 1), Expression(The.right, 2)>>, l)
  <2>1. Silent(Expression(The.left, 1), l) /\ Silent(Expression(The.right, 2), l)
    BY <1>3, Entries DEF Calls, Marks, Jumps, Values
  <2> QED
    BY <2>1, QuietTuples
<1>4. CASE GenCondition
  <2> DEFINE b == IF The.op \notin DOMAIN BranchUnless THEN <<>>
                  ELSE <<Branch(BranchUnless[The.op], 2, l)>>
  <2>1. Quiet(<<Expression(The.left, 1), Expression(The.right, 2)>>, l)
    BY <1>1, <1>3, <1>4, Nodes DEF GenCondition, Calling
  <2>2. ASSUME NEW op \in Jumps
        PROVE  Silent(Branch(op, 2, l), l)
    BY <1>2, Entries DEF Calls, Marks, Jumps, Values
  <2>3. Quiet(b, l)
    BY <2>2, Operators, QuietSingle, QuietNothing
  <2>4. Quiet(<<Expression(The.left, 1), Expression(The.right, 2)>> \o b, l)
    BY <2>1, <2>3, QuietConcat
  <2> QED
    BY <2>4, <1>4 DEF GenCondition
<1>5. CASE GenConditionOther
  <2>1. Silent(Expression(The, 1), l)
    BY <1>2, Entries DEF Calls, Marks, Jumps, Values
  <2>2. Silent(Branch("beq", 0, l), l)
    BY <1>2, Entries DEF Calls, Marks, Jumps, Values
  <2> QED
    BY <2>1, <2>2, <1>5, QuietTuples, QuietNothing DEF GenConditionOther
<1>6. CASE GenOperand
  <2>1. Silent(Into("mov_imm", The, r), l) /\ Silent(Into("mov_name", The, r), l)
    BY <1>2, Entries DEF Calls, Marks, Jumps, Values
  <2> QED
    BY <2>1, <1>6, QuietSingle DEF GenOperand
<1>7. CASE GenBinaryOp
  <2> DEFINE a == <<Expression(The.left, 1), Expression(The.right, 2)>>
             b == IF The.op \in DOMAIN BinaryOps THEN <<Line(BinaryOps[The.op], Null)>> ELSE <<>>
  <2>1. Quiet(a, l)
    BY <1>1, <1>3, <1>7, Nodes DEF GenBinaryOp, Calling
  <2>2. ASSUME NEW op \in Values
        PROVE  Silent(Line(op, Null), l)
    BY <1>2, Entries DEF Calls, Marks, Jumps, Values
  <2>3. Quiet(b, l)
    BY <2>2, Operators, QuietSingle, QuietNothing
  <2>4. Quiet(MoveResult(r), l)
    BY <1>2, QuietMove
  <2> HIDE DEF a, b
  <2>5. Quiet((a \o b) \o MoveResult(r), l)
    BY <2>1, <2>3, <2>4, QuietConcat
  <2> USE DEF a, b
  <2> QED
    BY <2>5, <1>7 DEF GenBinaryOp
<1>8. CASE GenUnaryOp
  <2>1. Silent(Expression(The.operand, r), l)
    BY <1>1, <1>2, <1>8, Nodes, Entries DEF Calls, Marks, Jumps, Values, GenUnaryOp, Calling
  <2> QED
    BY <2>1, <1>8, QuietSingle DEF GenUnaryOp
<1>9. CASE GenAssign
  <2>1. Silent(Expression(The.value, 1), l) /\ Silent(Into("mov_r1", Null, r), l)
    BY <1>1, <1>2, <1>9, Nodes, Entries DEF Calls, Marks, Jumps, Values, GenAssign, Calling
  <2> QED
    BY <2>1, <1>9, QuietTuples DEF GenAssign
<1>10. CASE GenAddressOf
  <2>1. Silent(Into("mov_address", The.operand, r), l)
    BY <1>1, <1>2, <1>10, Nodes, Entries DEF Calls, Marks, Jumps, Values, GenAddressOf, Calling
  <2> QED
    BY <2>1, <1>10, QuietSingle, QuietNothing DEF GenAddressOf
<1>11. CASE GenCall
  <2> DEFINE s == [i \in 1 .. Len(The.list) |-> Expression(The.list[i], i)]
             b == <<Line("call", The)>>
  <2>1. The.list \in Seq(Node)
    BY <1>1, <1>11, Nodes DEF GenCall, Calling
  <2>2. \A i \in 1 .. Len(The.list) : Silent(s[i], l)
    <3>1. \A i \in 1 .. Len(The.list) : The.list[i] \in Node /\ i \in Nat
      BY <2>1, ElementOfSeq
    <3>2. \A n \in Node, i \in Nat : Silent(Expression(n, i), l)
      BY Entries DEF Calls, Marks, Jumps, Values
    <3> QED
      BY <3>1, <3>2
  <2>3. Quiet(s, l)
    BY <2>1, <2>2, QuietList
  <2>4. Quiet(b, l)
    BY <1>2, Entries, QuietSingle DEF Calls, Marks, Jumps, Values
  <2>5. Quiet(MoveResult(r), l)
    BY <1>2, QuietMove
  <2> HIDE DEF s, b
  <2>6. Quiet((s \o b) \o MoveResult(r), l)
    BY <2>3, <2>4, <2>5, QuietConcat
  <2> USE DEF s, b
  <2> QED
    BY <2>6, <1>11 DEF GenCall
<1>12. CASE GenDeref
  <2>1. Silent(Expression(The.operand, r), l) /\ Silent(Into("ld", Null, r), l)
    BY <1>1, <1>2, <1>12, Nodes, Entries DEF Calls, Marks, Jumps, Values, GenDeref, Calling
  <2> QED
    BY <2>1, <1>12, QuietTuples DEF GenDeref
<1>13. CASE GenArrayIndex
  <2>1. The.left \in Node /\ The.right \in Node
    BY <1>1, <1>13, Nodes DEF GenArrayIndex, Calling
  <2>2. /\ Silent(Expression(The.left, 1), l) /\ Silent(Expression(The.right, 2), l)
        /\ Silent(Line("scale_r2", Null), l) /\ Silent(Line("add", Null), l)
        /\ Silent(Into("ld_r1", Null, r), l)
    BY <1>2, <2>1, Entries DEF Calls, Marks, Jumps, Values
  <2> QED
    BY <2>2, <1>13, QuietTuples DEF GenArrayIndex
<1>14. CASE GenNoExpression
  BY <1>14, QuietNothing DEF GenNoExpression
<1> QED
  BY <1>4, <1>5, <1>6, <1>7, <1>8, <1>9, <1>10, <1>11, <1>12, <1>13, <1>14

-------------------------------------------------------------------------------
(* Lines and calls that place the labels in P, once, and refer to some in R.  *)
Body(s, P, R) ==
  s \in Seq(Entry) /\ Once(s) /\ Placed(s) = P /\ Referred(s) \subseteq R

LEMMA BodyConcat ==
  ASSUME NEW s, NEW t, NEW P, NEW Q, NEW R, Body(s, P, R), Body(t, Q, R), P \cap Q = {}
  PROVE  Body(s \o t, P \cup Q, R)
<1>1. s \o t \in Seq(Entry)
  BY ConcatProperties DEF Body
<1>2. Placed(s \o t) = P \cup Q
  BY PlacedConcat DEF Body
<1>3. Referred(s \o t) \subseteq R
  BY ReferredConcat DEF Body
<1>4. Once(s \o t)
  BY OnceConcat DEF Body
<1> QED
  BY <1>1, <1>2, <1>3, <1>4 DEF Body

LEMMA QuietBody ==
  ASSUME NEW l, NEW s, NEW R, Quiet(s, l), l \in R
  PROVE  Body(s, {}, R)
<1>1. s \in Seq(Entry)
  BY DEF Quiet
<1>2. Once(s) /\ Placed(s) = {} /\ Referred(s) \subseteq {l} \ {NoLabel}
  BY QuietLabels
<1> QED
  BY <1>1, <1>2 DEF Body

LEMMA LabelBody ==
  ASSUME NEW l \in Nat, NEW R
  PROVE  Body(<<LabelLine(l)>>, {l}, R)
<1>1. LabelLine(l) \in Entry /\ Places(LabelLine(l)) /\ LabelLine(l).label = l
  BY Entries DEF Calls, Marks, Jumps, Values, Node
<1> HIDE DEF Entry
<1>2. /\ <<LabelLine(l)>> \in Seq(Entry) /\ Once(<<LabelLine(l)>>)
      /\ Placed(<<LabelLine(l)>>) = {l} /\ Referred(<<LabelLine(l)>>) = {}
  BY <1>1, Single
<1> QED
  BY <1>2 DEF Body

(* The labels taken at the start of a statement: the next two.                *)
LEMMA BodyReplacement ==
  ASSUME TypeOK, LabelsInv, work # <<>>, Head(work).op \in Calls,
         NEW s, NEW P, Do(s, 2), P \subseteq {label_counter, label_counter + 1},
         Body(s, P, P)
  PROVE  TypeOK' /\ LabelsInv'
<1>1. label_counter \in Nat
  BY DEF TypeOK
<1>2. /\ s \in Seq(Entry) /\ Once(s)
      /\ Placed(s) \subseteq label_counter .. label_counter + 2 - 1
      /\ Referred(s) \subseteq Placed(s) \cup Referred(<<Head(work)>>)
  BY <1>1 DEF Body
<1>3. LabelsInv'
  BY <1>2, Replacement
<1>4. Tail(work) \in Seq(Entry)
  BY SplitHead DEF TypeOK
<1>5. s \o Tail(work) \in Seq(Entry)
  BY <1>2, <1>4, ConcatProperties
<1> QED
  BY <1>1, <1>3, <1>5 DEF TypeOK, Do

LEMMA LabelledIf ==
  ASSUME TypeOK, LabelsInv, GenIf
  PROVE  TypeOK' /\ LabelsInv'
<1> DEFINE else_lbl == label_counter
           end_lbl  == label_counter + 1
           c == <<Condition(The.cond, else_lbl), Gen(The.then_body)>>
<1>1. work # <<>> /\ Head(work).op \in Calls /\ label_counter \in Nat
  BY DEF GenIf, Calling, Calls, TypeOK
<1>2. The.cond \in Node /\ The.then_body \in Node /\ The.else_body \in Node
  BY Nodes DEF GenIf, Calling
<1> HIDE DEF Node
<1>3. Quiet(c, else_lbl)
  <2>1. Silent(Condition(The.cond, else_lbl), else_lbl) /\ Silent(Gen(The.then_body), else_lbl)
    BY <1>1, <1>2, Entries DEF Calls, Marks, Jumps, Values
  <2> QED
    BY <2>1, QuietTuples
<1>4. CASE The.else_body = Null
  <2>1. Body(c, {}, {else_lbl}) /\ Body(<<LabelLine(else_lbl)>>, {else_lbl}, {else_lbl})
    BY <1>1, <1>3, QuietBody, LabelBody
  <2>2. Body(c \o <<LabelLine(else_lbl)>>, {} \cup {else_lbl}, {else_lbl})
    <3> HIDE DEF c
    <3> QED
      BY <2>1, BodyConcat
  <2>3. Do(c \o <<LabelLine(else_lbl)>>, 2)
    BY <1>4 DEF GenIf
  <2>4. {} \cup {else_lbl} = {else_lbl}
    OBVIOUS
  <2> QED
    BY <2>2, <2>3, <2>4, <1>1, BodyReplacement
<1>5. CASE The.else_body # Null
  <2> DEFINE R == {else_lbl, end_lbl}
             j == <<Jmp(end_lbl)>>
             e == <<LabelLine(else_lbl)>>
             g == <<Gen(The.else_body)>>
             x == <<LabelLine(end_lbl)>>
             s == c \o <<Jmp(end_lbl), LabelLine(else_lbl), Gen(The.else_body),
                         LabelLine(end_lbl)>>
  <2>1. Silent(Jmp(end_lbl), end_lbl) /\ Silent(Gen(The.else_body), end_lbl)
    BY <1>1, <1>2, Entries DEF Calls, Marks, Jumps, Values
  <2>2. Quiet(j, end_lbl) /\ Quiet(g, end_lbl)
    BY <2>1, QuietSingle
  <2>3. /\ Body(c, {}, R) /\ Body(j, {}, R) /\ Body(e, {else_lbl}, R)
        /\ Body(g, {}, R) /\ Body(x, {end_lbl}, R)
    BY <1>1, <1>3, <2>2, QuietBody, LabelBody
  <2>4. <<Jmp(end_lbl), LabelLine(else_lbl), Gen(The.else_body), LabelLine(end_lbl)>>
          = ((j \o e) \o g) \o x
    OBVIOUS
  <2>5. Body(j \o e, {else_lbl}, R)
    <3> HIDE DEF j, e, R
    <3>1. Body(j \o e, {} \cup {else_lbl}, R)
      BY <2>3, BodyConcat
    <3> QED
      BY <3>1
  <2>6. Body((j \o e) \o g, {else_lbl}, R)
    <3> HIDE DEF j, e, g, R
    <3>1. Body((j \o e) \o g, {else_lbl} \cup {}, R)
      BY <2>3, <2>5, BodyConcat
    <3> QED
      BY <3>1
  <2>7. Body(((j \o e) \o g) \o x, {else_lbl} \cup {end_lbl}, R)
    <3>1. {else_lbl} \cap {end_lbl} = {}
      BY <1>1
    <3> HIDE DEF j, e, g, x, R, end_lbl
    <3> QED
      BY <3>1, <2>3, <2>6, BodyConcat
  <2>8. Body(s, R, R)
    <3>1. Body(c \o (((j \o e) \o g) \o x), {} \cup ({else_lbl} \cup {end_lbl}), R)
      <4> HIDE DEF c, j, e, g, x, R, end_lbl
      <4> QED
        BY <2>3, <2>7, BodyConcat
    <3>2. {} \cup ({else_lbl} \cup {end_lbl}) = R
      OBVIOUS
    <3> HIDE DEF R
    <3> QED
      BY <3>1, <3>2, <2>4
  <2>9. Do(s, 2)
    BY <1>5 DEF GenIf
  <2> QED
    BY <2>8, <2>9, <1>1, BodyReplacement
<1> QED
  BY <1>4, <1>5

-------------------------------------------------------------------------------
(* Loops: quiet lines, the label of the start, quiet lines, the end.          *)
LEMMA BodyQuiet ==
  ASSUME NEW s, NEW t, NEW P, NEW R, NEW l, Body(s, P, R), Quiet(t, l), l \in R
  PROVE  Body(s \o t, P, R)
<1>1. Body(t, {}, R)
  BY QuietBody
<1>2. Body(s \o t, P \cup {}, R)
  BY <1>1, BodyConcat
<1> QED
  BY <1>2

LEMMA LoopStart ==
  ASSUME NEW s, NEW l, NEW start \in Nat, NEW R, Quiet(s, l), l \in R
  PROVE  Body(s \o <<LabelLine(start)>>, {start}, R)
<1>1. Body(s, {}, R) /\ Body(<<LabelLine(start)>>, {start}, R)
  BY QuietBody, LabelBody
<1>2. Body(s \o <<LabelLine(start)>>, {} \cup {start}, R)
  BY <1>1, BodyConcat
<1> QED
  BY <1>2

LEMMA Pair ==
  ASSUME NEW a, NEW b
  PROVE  <<a>> \o <<b>> = <<a, b>>
<1> DEFINE S == {a, b}
<1>1. <<a>> \in Seq(S) /\ <<b>> \in Seq(S) /\ <<a, b>> \in Seq(S)
  OBVIOUS
<1>2. Len(<<a>>) = 1 /\ Len(<<b>>) = 1 /\ Len(<<a, b>>) = 2
  OBVIOUS
<1> HIDE DEF S
<1>3. /\ <<a>> \o <<b>> \in Seq(S) /\ Len(<<a>> \o <<b>>) = 2
      /\ \A i \in 1 .. 2 : (<<a>> \o <<b>>)[i] = IF i <= 1 THEN <<a>>[i] ELSE <<b>>[i - 1]
  BY <1>1, <1>2, ConcatProperties
<1>4. \A i \in 1 .. 2 : (<<a>> \o <<b>>)[i] = <<a, b>>[i]
  BY <1>3
<1> QED
  BY <1>1, <1>2, <1>3, <1>4, SeqEqual

LEMMA LoopEnd ==
  ASSUME NEW s, NEW start \in Nat, NEW end \in Nat, start # end, Body(s, {start}, {start, end})
  PROVE  Body(s \o <<Jmp(start), LabelLine(end)>>, {start, end}, {start, end})
<1> DEFINE R == {start, end}
<1>1. Silent(Jmp(start), start)
  BY Entries DEF Calls, Marks, Jumps, Values, Node
<1>2. Quiet(<<Jmp(start)>>, start)
  BY <1>1, QuietSingle
<1>3. Body(<<Jmp(start)>>, {}, R) /\ Body(<<LabelLine(end)>>, {end}, R)
  BY <1>2, QuietBody, LabelBody
<1>4. Body(<<Jmp(start)>> \o <<LabelLine(end)>>, {} \cup {end}, R)
  <2> HIDE DEF R
  <2> QED
    BY <1>3, BodyConcat
<1>5. <<Jmp(start)>> \o <<LabelLine(end)>> = <<Jmp(start), LabelLine(end)>>
  BY Pair
<1>6. Body(<<Jmp(start), LabelLine(end)>>, {end}, R)
  BY <1>4, <1>5
<1>7. Body(s \o <<Jmp(start), LabelLine(end)>>, {start} \cup {end}, R)
  <2> DEFINE t == <<Jmp(start), LabelLine(end)>>
  <2>1. Body(s, {start}, R) /\ Body(t, {end}, R) /\ {start} \cap {end} = {}
    BY <1>6
  <2> HIDE DEF t, R
  <2>2. Body(s \o t, {start} \cup {end}, R)
    BY <2>1, BodyConcat
  <2> QED
    BY <2>2 DEF t
<1> QED
  BY <1>7

LEMMA LabelledLoop ==
  ASSUME TypeOK, LabelsInv, GenWhile \/ GenFor \/ GenDoWhile
  PROVE  TypeOK' /\ LabelsInv'
<1> DEFINE start == label_counter
           end   == label_counter + 1
           R     == {start, end}
           p     == <<LabelLine(start)>>
           z     == <<Jmp(start), LabelLine(end)>>
<1>1. /\ work # <<>> /\ Head(work).op \in Calls
      /\ start \in Nat /\ end \in Nat /\ start # end /\ end \in R
  BY DEF GenWhile, GenFor, GenDoWhile, Calling, Calls, TypeOK
<1>2. ASSUME NEW s, Body(s, {start}, R)
      PROVE  Body(s \o z, R, R)
  BY <1>1, <1>2, LoopEnd
<1>3. ASSUME NEW s, Do(s, 2), Body(s, R, R)
      PROVE  TypeOK' /\ LabelsInv'
  BY <1>1, <1>3, BodyReplacement
<1>4. \A n \in Node : /\ Silent(Condition(n, end), end) /\ Silent(Gen(n), end)
                      /\ Silent(Expression(n, 1), end)
  <2> TAKE n \in Node
  <2>1. Silent(Condition(n, end), end)
    BY <1>1, Entries DEF Calls, Marks, Jumps, Values
  <2> QED
    BY <2>1, <1>1, Entries DEF Calls, Marks, Jumps, Values
<1> HIDE DEF Node
<1>5. CASE GenWhile
  <2> DEFINE a == Condition(The.cond, end)
             b == Gen(The.body)
             g == <<a, b>>
             s == <<LabelLine(start), a, b, Jmp(start), LabelLine(end)>>
  <2>1. Silent(a, end) /\ Silent(b, end)
    BY <1>1, <1>4, <1>5, Nodes DEF GenWhile, Calling
  <2>2. Quiet(g, end) /\ Quiet(<<>>, end)
    <3> HIDE DEF a, b
    <3> QED
      BY <2>1, QuietTuples, QuietNothing
  <2>3. Body((<<>> \o p) \o g, {start}, R)
    <3> HIDE DEF g, R, start, end
    <3> QED
      BY <1>1, <2>2, LoopStart, BodyQuiet
  <2>4. s = ((<<>> \o p) \o g) \o z
    <3> HIDE DEF a, b
    <3> QED
      OBVIOUS
  <2>5. Body(s, R, R)
    BY <2>3, <2>4, <1>2
  <2> QED
    BY <2>5, <1>3, <1>5 DEF GenWhile
<1>6. CASE GenDoWhile
  <2> DEFINE a == Gen(The.body)
             b == Condition(The.cond, end)
             g == <<a, b>>
             s == <<LabelLine(start), a, b, Jmp(start), LabelLine(end)>>
  <2>1. Silent(a, end) /\ Silent(b, end)
    BY <1>1, <1>4, <1>6, Nodes DEF GenDoWhile, Calling
  <2>2. Quiet(g, end) /\ Quiet(<<>>, end)
    <3> HIDE DEF a, b
    <3> QED
      BY <2>1, QuietTuples, QuietNothing
  <2>3. Body((<<>> \o p) \o g, {start}, R)
    <3> HIDE DEF g, R, start, end
    <3> QED
      BY <1>1, <2>2, LoopStart, BodyQuiet
  <2>4. s = ((<<>> \o p) \o g) \o z
    <3> HIDE DEF a, b
    <3> QED
      OBVIOUS
  <2>5. Body(s, R, R)
    BY <2>3, <2>4, <1>2
  <2> QED
    BY <2>5, <1>3, <1>6 DEF GenDoWhile
<1>7. CASE GenFor
  <2> DEFINE If(n, e) == IF n = Null THEN <<>> ELSE <<e>>
             i == If(The.init, Expression(The.init, 1))
             c == If(The.cond, Condition(The.cond, end))
             g == <<Gen(The.body)>>
             n == If(The.inc, Expression(The.inc, 1))
             s == ((((i \o p) \o c) \o g) \o n) \o z
  <2>1. The.init \in Node /\ The.cond \in Node /\ The.inc \in Node /\ The.body \in Node
    BY <1>7, Nodes DEF GenFor, Calling
  <2>2. Quiet(i, end) /\ Quiet(c, end) /\ Quiet(g, end) /\ Quiet(n, end)
    BY <2>1, <1>4, QuietSingle, QuietNothing
  <2>3. Body((i \o p) \o c, {start}, R)
    <3> HIDE DEF i, c, R, start, end
    <3> QED
      BY <1>1, <2>2, LoopStart, BodyQuiet
  <2>4. Body(((i \o p) \o c) \o g, {start}, R)
    <3> HIDE DEF i, c, g, R, p, start, end
    <3> QED
      BY <1>1, <2>2, <2>3, BodyQuiet
  <2>5. Body((((i \o p) \o c) \o g) \o n, {start}, R)
    <3> HIDE DEF i, c, g, n, R, p, start, end
    <3> QED
      BY <1>1, <2>2, <2>4, BodyQuiet
  <2>6. Body(s, R, R)
    BY <2>5, <1>2
  <2>7. Do(s, 2)
    BY <1>7 DEF GenFor
  <2> QED
    BY <2>6, <2>7, <1>3
<1> QED
  BY <1>5, <1>6, <1>7

LEMMA LabelledString ==
  ASSUME TypeOK, LabelsInv, GenStringLit
  PROVE  TypeOK' /\ LabelsInv'
<1> DEFINE lbl == label_counter
           a == [Line("string", The) EXCEPT !.label = lbl]
           b == [Into("mov_label", The, Head(work).reg) EXCEPT !.label = lbl]
<1>1. /\ work # <<>> /\ Head(work).op \in Calls /\ lbl \in Nat
      /\ The \in Node /\ Head(work).reg \in Nat
  BY Nodes DEF GenStringLit, Calling, Calls, TypeOK
<1> HIDE DEF Node
<1>2. a \in Entry /\ Places(a) /\ a.label = lbl
  BY <1>1 DEF Line, Entry, Places, Calls, Marks, Jumps, Values
<1>3. b \in Entry /\ ~Places(b) /\ b.label = lbl
  BY <1>1 DEF Into, Entry, Places, Calls, Marks, Jumps, Values
<1>4. <<a, b>> = <<a>> \o <<b>>
  BY Pair
<1>5. Body(<<a>>, {lbl}, {lbl})
  <2> HIDE DEF a, Entry
  <2> QED
    BY <1>2, Single DEF Body
<1>6. Quiet(<<b>>, lbl)
  <2> HIDE DEF b
  <2> QED
    BY <1>3, QuietSingle DEF Silent
<1>7. Body(<<a, b>>, {lbl}, {lbl})
  <2> HIDE DEF a, b
  <2> QED
    BY <1>4, <1>5, <1>6, BodyQuiet
<1>8. Do(<<a, b>>, 1)
  BY DEF GenStringLit
<1>9. Tail(work) \in Seq(Entry)
  BY <1>1, SplitHead DEF TypeOK
<1> HIDE DEF a, b
<1>10. LabelsInv'
  <2>1. /\ <<a, b>> \in Seq(Entry) /\ Once(<<a, b>>)
        /\ Placed(<<a, b>>) \subseteq lbl .. lbl + 1 - 1
        /\ Referred(<<a, b>>) \subseteq Placed(<<a, b>>) \cup Referred(<<Head(work)>>)
    BY <1>1, <1>7 DEF Body
  <2> HIDE DEF lbl
  <2> QED
    BY <2>1, <1>1, <1>8, Replacement DEF lbl
<1>11. <<a, b>> \o Tail(work) \in Seq(Entry)
  BY <1>7, <1>9, ConcatProperties DEF Body
<1> QED
  BY <1>1, <1>8, <1>10, <1>11 DEF TypeOK, Do

-------------------------------------------------------------------------------
LEMMA Inductive ==
  ASSUME TypeOK, LabelsInv, [Next]_vars
  PROVE  TypeOK' /\ LabelsInv'
<1>1. CASE Emit
  BY <1>1, EmitKeeps
<1>2. CASE Statement
  BY <1>2, PlainStatements, LabelledIf, LabelledLoop DEF Statement
<1>3. CASE Compute
  BY <1>3, PlainExpressions, LabelledString DEF Compute
<1>4. CASE UNCHANGED vars
  BY <1>4 DEF vars, TypeOK, LabelsInv
<1> QED
  BY <1>1, <1>2, <1>3, <1>4 DEF Next

LEMMA Initial == Init => TypeOK /\ LabelsInv
<1> SUFFICES ASSUME Init
             PROVE  TypeOK /\ LabelsInv
  OBVIOUS
<1>1. program \in Node /\ out = <<>> /\ label_counter = 0 /\ work = <<Gen(program)>>
  BY DEF Init, Node
<1>2. Silent(Gen(program), NoLabel)
  BY <1>1, Entries DEF Calls, Marks, Jumps, Values
<1>3. Quiet(work, NoLabel)
  BY <1>1, <1>2, QuietSingle
<1>4. work \in Seq(Entry) /\ Once(work) /\ Placed(work) = {} /\ Referred(work) = {}
  <2>1. Referred(work) \subseteq {NoLabel} \ {NoLabel}
    BY <1>3, QuietLabels
  <2> QED
    BY <1>3, <2>1, QuietLabels DEF Quiet
<1> QED
  BY <1>1, <1>4, Nothing DEF TypeOK, LabelsInv

(* What is to be done and what is written stay calls and lines on nodes of    *)
(* the tree, through every program.                                           *)
THEOREM CodeGenTypeCorrect == Spec => []TypeOK
<1>1. Init => TypeOK /\ LabelsInv
  BY Initial
<1>2. TypeOK /\ LabelsInv /\ [Next]_vars => TypeOK' /\ LabelsInv'
  BY Inductive
<1> QED
  BY <1>1, <1>2, PTL DEF Spec

(* Every program's text places each label once, and places every label that   *)
(* it refers to.                                                              *)
THEOREM EveryLabelResolves == Spec => []LabelsResolve
<1>1. Init => TypeOK /\ LabelsInv
  BY Initial
<1>2. TypeOK /\ LabelsInv /\ [Next]_vars => TypeOK' /\ LabelsInv'
  BY Inductive
<1>3. TypeOK /\ LabelsInv => LabelsResolve
  <2> SUFFICES ASSUME LabelsInv, work = <<>>
               PROVE  Referred(out) \subseteq Placed(out)
    BY DEF LabelsResolve, LabelsInv
  <2>1. Placed(work) = {} /\ Referred(work) = {}
    BY Nothing
  <2> QED
    BY <2>1 DEF LabelsInv
<1> QED
  BY <1>1, <1>2, <1>3, PTL DEF Spec

-------------------------------------------------------------------------------
(* The inductive invariant.                                                  *)

Base      == IF object.is_exec THEN BaseAddr ELSE 0
HeaderEnd == EhdrSize + IF object.is_exec THEN PhdrSize ELSE 0

(* The section headers once the tables have been pushed; n is the number of   *)
(* sections.                                                                  *)
LoadedBuilt ==
  /\ secs[1].type = "null" /\ ~secs[1].alloc
  /\ \A i \in 2 .. 5 : secs[i].alloc
  /\ \A i \in 2 .. 4 : secs[i].type = "progbits"
  /\ secs[2].align = 4 /\ secs[3].align = 8 /\ secs[4].align = 8
  /\ secs[2].size = object.text /\ secs[3].size = object.rodata /\ secs[4].size = object.data
  /\ secs[5].type = "nobits" /\ secs[5].size = 0
  /\ secs[2].addr = Base
  /\ \A i \in 3 .. 5 : secs[i].addr = After(secs[i - 1].addr, secs[i - 1].size)
  /\ Len(shstrtab) >= 5
  /\ shstrtab[2] = [name |-> ".text", off |-> secs[2].name_off] /\ secs[2].name_off # 0

TablesBuilt ==
  LET n == IF object.relocs > 0 THEN 9 ELSE 8
  IN /\ Len(secs) = n /\ Len(shstrtab) = n /\ header.shstrndx = n - 1
     /\ \A i \in 6 .. n : ~secs[i].alloc /\ secs[i].align \in {1, 8}
                          /\ secs[i].type \notin {"null", "nobits", "progbits"}
                          /\ secs[i].name_off # 0
     /\ secs[6].type = "symtab" /\ secs[6].link = 6 /\ secs[6].info = 1
     /\ secs[7].type = "strtab" /\ secs[n].type = "strtab" /\ secs[n].size = EndOf(shstrtab)
     /\ object.relocs > 0 => secs[8].type = "rela" /\ secs[8].link = 5 /\ secs[8].info = 1
     /\ shstrtab[6] = [name |-> ".symtab", off |-> secs[6].name_off]
     /\ shstrtab[7] = [name |-> ".strtab", off |-> secs[7].name_off]
     /\ object.relocs > 0 => shstrtab[8] = [name |-> ".rela.text", off |-> secs[8].name_off]
     /\ shstrtab[n] = [name |-> ".shstrtab", off |-> secs[n].name_off]

HeadersInv ==
  /\ stage = "sections" =>
       secs = <<>> /\ shstrtab = <<>> /\ strtab = <<>> /\ syms = <<>> /\ next = 1
  /\ stage # "sections" => Len(secs) >= 5 /\ LoadedBuilt
  /\ stage = "symbols" => Len(secs) = 5 /\ Len(shstrtab) = 5
  /\ stage \notin {"sections", "symbols"} => TablesBuilt

SymbolsInv ==
  /\ stage # "sections" =>
       Len(syms) = 5 + Len(strtab) /\ \A i \in 1 .. 5 : ~syms[i].global
  /\ stage = "symbols" => Len(strtab) = next - 1 /\ next <= Len(object.symbols) + 1
  /\ stage \notin {"sections", "symbols"} => Len(strtab) = Len(object.symbols)
  /\ \A i \in 1 .. Len(strtab) :
       /\ strtab[i] = [name |-> object.symbols[i].name, off |-> syms[5 + i].st_name]
       /\ i > 1 => syms[5 + i].st_name # 0
       /\ syms[5 + i].shndx \in 1 .. 4
       /\ syms[5 + i].value = object.symbols[i].value
                              + IF object.is_exec THEN secs[syms[5 + i].shndx + 1].addr ELSE 0

(* The first sections have their places in the file, one after the other, the *)
(* loaded ones as far from the end of the headers as from the base address.   *)
PlacedUpTo == IF stage = "layout" THEN next - 1
              ELSE IF stage \in {"sections", "symbols"} THEN 0 ELSE Len(secs)

LayoutInv ==
  /\ \A i \in DOMAIN secs : i > PlacedUpTo \/ ~InFile(secs[i]) => secs[i].offset = 0
  /\ stage \notin {"sections", "symbols"} =>
       /\ HeaderEnd <= offset
       /\ \A i \in DOMAIN secs : i <= PlacedUpTo /\ InFile(secs[i]) =>
            HeaderEnd <= secs[i].offset /\ secs[i].offset + secs[i].size <= offset
       /\ \A i, j \in DOMAIN secs : i < j /\ j <= PlacedUpTo /\ InFile(secs[i]) /\ InFile(secs[j]) =>
            secs[i].offset + secs[i].size <= secs[j].offset
       /\ object.is_exec =>
            /\ PlacedUpTo <= 1 => offset = HeaderEnd
            /\ PlacedUpTo \in 2 .. 3 => After(BaseAddr, offset - HeaderEnd) = secs[PlacedUpTo + 1].addr
            /\ \A i \in 2 .. 4 : i <= PlacedUpTo /\ InFile(secs[i]) =>
                 secs[i].offset - HeaderEnd = secs[i].addr - BaseAddr

(* The first sections have been written.                                      *)
Out == IF stage = "write" THEN next - 1 ELSE IF stage = "done" THEN Len(secs) ELSE 0

Distinct    == \A j, k \in DOMAIN file : file[j].what = file[k].what => j = k
Ordered     == \A j \in 1 .. Len(file) - 1 : file[j].at + file[j].size <= file[j + 1].at
Fresh(what) == \A j \in DOMAIN file : file[j].what # what

FileInv ==
  /\ Distinct /\ Ordered
  /\ stage \in {"sections", "symbols", "layout"} => file = <<>>
  /\ stage \in {"segment", "write", "done"} =>
       /\ header.shoff = AlignUp(offset, 8)
       /\ Len(file) >= 1 /\ file[1] = [what |-> <<"ehdr">>, size |-> EhdrSize, at |-> 0]
  /\ stage = "segment" => Len(file) = 1 /\ object.is_exec /\ next = 1
  /\ stage \in {"write", "done"} /\ object.is_exec =>
       Len(file) >= 2 /\ file[2] = [what |-> <<"phdr">>, size |-> PhdrSize, at |-> EhdrSize]
  /\ \A i \in DOMAIN secs : i <= Out /\ InFile(secs[i]) =>
       \E j \in DOMAIN file :
         file[j] = [what |-> <<"section", i - 1>>, size |-> secs[i].size, at |-> secs[i].offset]
  /\ stage = "done" =>
       \E j \in DOMAIN file :
         file[j] = [what |-> <<"shdrs">>, size |-> 64 * Len(secs), at |-> header.shoff]
  /\ stage = "segment" => \A j \in DOMAIN file : file[j].what = <<"ehdr">>
  /\ stage = "write" =>
       /\ FileEnd <= offset
       /\ \A i \in DOMAIN secs : i > Out /\ InFile(secs[i]) => FileEnd <= secs[i].offset
       /\ Fresh(<<"shdrs">>)
       /\ \A i \in Out .. 8 : Fresh(<<"section", i>>)

SegmentInv ==
  stage \in {"write", "done"} /\ object.is_exec => header.segment = SegmentOf

ElfInv == ElfTypeOK /\ HeadersInv /\ SymbolsInv /\ LayoutInv /\ FileInv /\ SegmentInv

-------------------------------------------------------------------------------
(* Arithmetic of alignment, least and greatest elements.                     *)

LEMMA AlignUpFacts ==
  ASSUME NEW n \in Nat, NEW a \in {1, 4, 8}
  PROVE  /\ AlignUp(n, a) \in Nat /\ n <= AlignUp(n, a) /\ AlignUp(n, a) < n + a
         /\ AlignUp(n, a) % a = 0
<1>1. CASE a = 1
  BY <1>1 DEF AlignUp
<1>2. CASE a = 4
  BY <1>2 DEF AlignUp
<1>3. CASE a = 8
  BY <1>3 DEF AlignUp
<1> QED
  BY <1>1, <1>2, <1>3

LEMMA AfterFacts ==
  ASSUME NEW addr \in Nat, NEW size \in Nat
  PROVE  /\ After(addr, size) \in Nat /\ addr + size <= After(addr, size)
         /\ After(addr, size) < addr + size + 8 /\ After(addr, size) % 8 = 0
BY AlignUpFacts DEF After

LEMMA LeastElement ==
  ASSUME NEW T \in SUBSET Nat, T # {}
  PROVE  \E x \in T : \A y \in T : x <= y
<1> DEFINE R == OpToRel(<, Nat)
<1>1. IsWellFoundedOn(R, Nat)
  BY NatLessThanWellFounded
<1>2. \A x, y \in Nat : <<y, x>> \in R <=> y < x
  BY DEF OpToRel
<1> HIDE DEF R
<1>3. PICK x \in T : \A y \in T : ~(<<y, x>> \in R)
  BY <1>1, WFMin
<1>4. ASSUME NEW y \in T PROVE x <= y
  <2>1. y \in Nat /\ x \in Nat
    OBVIOUS
  <2>2. ~(<<y, x>> \in R)
    BY <1>3
  <2>3. ~(y < x)
    BY <1>2, <2>1, <2>2, Zenon
  <2> QED
    BY <2>1, <2>3
<1> QED
  BY <1>4

LEMMA MinFacts ==
  ASSUME NEW S \in SUBSET Nat, S # {}
  PROVE  Min(S) \in S /\ \A y \in S : Min(S) <= y
BY LeastElement DEF Min

LEMMA MaxFacts ==
  ASSUME NEW S \in SUBSET Nat, S # {}, NEW b \in Nat, \A x \in S : x <= b
  PROVE  Max(S) \in S /\ \A y \in S : y <= Max(S)
<1> DEFINE T == {b - x : x \in S}
<1>1. PICK t \in T : \A u \in T : t <= u
  <2>1. \A x \in S : b - x \in Nat
    OBVIOUS
  <2>2. T \in SUBSET Nat
    BY <2>1
  <2>3. PICK x \in S : TRUE
    OBVIOUS
  <2>4. b - x \in T
    OBVIOUS
  <2> HIDE DEF T
  <2> QED
    BY <2>2, <2>4, LeastElement
<1>2. PICK x \in S : t = b - x
  OBVIOUS
<1>3. \A y \in S : y <= x
  <2> SUFFICES ASSUME NEW y \in S PROVE y <= x
    OBVIOUS
  <2>1. b - x <= b - y
    BY <1>1, <1>2
  <2> QED
    BY <2>1
<1>4. \E z \in S : \A y \in S : z >= y
  BY <1>3
<1> QED
  BY <1>4 DEF Max

-------------------------------------------------------------------------------
(* String tables and section headers.                                        *)

LEMMA EndOfType == \A tab \in Seq(TabString) : EndOf(tab) \in Nat
<1> SUFFICES ASSUME NEW tab \in Seq(TabString) PROVE EndOf(tab) \in Nat
  OBVIOUS
<1>1. CASE tab = <<>>
  BY <1>1 DEF EndOf
<1>2. CASE tab # <<>>
  <2>1. Last(tab) \in TabString
    BY <1>2, EmptySeq, LenProperties DEF Last
  <2>2. Last(tab).off \in Nat /\ Len(Last(tab).name) \in Nat
    BY <2>1, NamesAssumption DEF TabString
  <2> QED
    BY <1>2, <2>2 DEF EndOf
<1> QED
  BY <1>1, <1>2

(* Every string but the first of a table ends beyond its beginning.          *)
LEMMA EndOfPositive ==
  ASSUME NEW tab \in Seq(TabString), Len(tab) >= 1
  PROVE  EndOf(tab) # 0
<1>1. tab # <<>> /\ Last(tab) \in TabString
  BY EmptySeq, LenProperties DEF Last
<1>2. Last(tab).off \in Nat /\ Len(Last(tab).name) \in Nat
  BY <1>1, NamesAssumption DEF TabString
<1> QED
  BY <1>1, <1>2 DEF EndOf

LEMMA AddedString ==
  \A tab \in Seq(TabString), str \in TabNames : [name |-> str, off |-> EndOf(tab)] \in TabString
BY EndOfType DEF TabString

LEMMA AddStrType ==
  \A tab \in Seq(TabString), str \in TabNames :
    AddStr(tab, str) \in Seq(TabString) /\ Len(AddStr(tab, str)) = Len(tab) + 1
<1> SUFFICES ASSUME NEW tab \in Seq(TabString), NEW str \in TabNames
             PROVE  AddStr(tab, str) \in Seq(TabString) /\ Len(AddStr(tab, str)) = Len(tab) + 1
  OBVIOUS
<1> QED
  BY AddedString, AppendProperties DEF AddStr

LEMMA AddStrKeeps ==
  \A tab \in Seq(TabString), str \in TabNames :
    \A i \in 1 .. Len(tab) : AddStr(tab, str)[i] = tab[i]
BY AddedString, AppendProperties DEF AddStr

LEMMA AddStrLast ==
  \A tab \in Seq(TabString), str \in TabNames :
    AddStr(tab, str)[Len(tab) + 1] = [name |-> str, off |-> EndOf(tab)]
BY AddedString, AppendProperties DEF AddStr

LEMMA ObjectFacts ==
  ASSUME object \in Objects
  PROVE  /\ object.text \in Nat /\ object.rodata \in Nat /\ object.data \in Nat
         /\ object.relocs \in Nat /\ object.is_exec \in BOOLEAN
         /\ object.symbols \in Seq(GlobalSymbol)
         /\ Len(object.symbols) \in Nat
         /\ \A i \in 1 .. Len(object.symbols) :
              /\ object.symbols[i].name \in SymbolNames /\ object.symbols[i].value \in Nat
              /\ object.symbols[i].section_idx \in 1 .. 4
              /\ object.symbols[i].is_global \in BOOLEAN
<1>1. object \in [text : Nat, rodata : Nat, data : Nat, relocs : Nat, is_exec : BOOLEAN,
                  symbols : Seq(GlobalSymbol)]
  BY ObjectsAssumption
<1>2. object.symbols \in Seq(GlobalSymbol)
  BY <1>1
<1>3. \A i \in 1 .. Len(object.symbols) :
        object.symbols[i] \in GlobalSymbol
  BY <1>2, ElementOfSeq
<1> QED
  BY <1>1, <1>2, <1>3, LenProperties DEF GlobalSymbol

LEMMA SecFields ==
  ASSUME NEW sec \in SecHeader
  PROVE  /\ sec.name_off \in Nat /\ sec.alloc \in BOOLEAN /\ sec.addr \in Nat /\ sec.offset \in Nat
         /\ sec.size \in Nat /\ sec.link \in Nat /\ sec.info \in Nat /\ sec.align \in {0, 1, 4, 8}
         /\ sec.type \in {"null", "progbits", "nobits", "symtab", "strtab", "rela"}
BY DEF SecHeader

(* What PushSections pushes.                                                  *)
LEMMA PushSectionsEffect ==
  ASSUME ElfTypeOK, PushSections
  PROVE  /\ secs' \in Seq(SecHeader) /\ Len(secs') = 5
         /\ shstrtab' \in Seq(TabString) /\ Len(shstrtab') = 5
         /\ syms' \in Seq(SymEntry) /\ Len(syms') = 5 /\ \A i \in 1 .. 5 : ~syms'[i].global
         /\ LoadedBuilt'
         /\ \A i \in 1 .. 5 : secs'[i].offset = 0
<1>0. /\ object.text \in Nat /\ object.rodata \in Nat /\ object.data \in Nat
      /\ object.is_exec \in BOOLEAN
  BY ObjectFacts DEF ElfTypeOK
<1> DEFINE n1 == ""   n2 == ".text"   n3 == ".rodata"   n4 == ".data"   n5 == ".bss"
           text    == IF object.is_exec THEN BaseAddr ELSE 0
           rodata  == After(text, object.text)
           data    == After(rodata, object.rodata)
           bss     == After(data, object.data)
           null    == AddStr(<<>>, n1)
           upText  == AddStr(null, n2)
           upRo    == AddStr(upText, n3)
           upData  == AddStr(upRo, n4)
           upBss   == AddStr(upData, n5)
           S1 == Sec(0, "null", FALSE, 0, 0, 0, 0, 0)
           S2 == Sec(EndOf(null),   "progbits", TRUE, text,   object.text,   0, 0, 4)
           S3 == Sec(EndOf(upText), "progbits", TRUE, rodata, object.rodata, 0, 0, 8)
           S4 == Sec(EndOf(upRo),   "progbits", TRUE, data,   object.data,   0, 0, 8)
           S5 == Sec(EndOf(upData), "nobits",   TRUE, bss,    0,             0, 0, 8)
<1>1. /\ shstrtab' = upBss
      /\ secs' = <<S1, S2, S3, S4, S5>>
      /\ syms' = [i \in 1 .. 5 |-> [st_name |-> 0, shndx |-> i - 1, value |-> 0, global |-> FALSE]]
      /\ object' = object
  BY DEF PushSections
<1>a. n1 \in TabNames /\ n2 \in TabNames /\ n3 \in TabNames /\ n4 \in TabNames /\ n5 \in TabNames
  BY DEF TabNames, TableNames
<1>b. n2 = ".text"
  OBVIOUS
<1> HIDE DEF n1, n2, n3, n4, n5
<1>2. text \in Nat /\ rodata \in Nat /\ data \in Nat /\ bss \in Nat
  <2>1. text \in Nat
    BY SizesAssumption
  <2> HIDE DEF text
  <2>2. rodata \in Nat
    BY <1>0, <2>1, AfterFacts
  <2> HIDE DEF rodata
  <2>3. data \in Nat
    BY <1>0, <2>2, AfterFacts
  <2> HIDE DEF data
  <2>4. bss \in Nat
    BY <1>0, <2>3, AfterFacts
  <2> QED
    BY <2>1, <2>2, <2>3, <2>4
<1>3. /\ null \in Seq(TabString) /\ Len(null) = 1
      /\ upText \in Seq(TabString) /\ Len(upText) = 2
      /\ upText[2] = [name |-> n2, off |-> EndOf(null)]
  <2> DEFINE none == <<>>
  <2>1. none \in Seq(TabString) /\ Len(none) = 0
    BY EmptySeq
  <2>2. null = AddStr(none, n1)
    OBVIOUS
  <2> HIDE DEF none, null
  <2>3. null \in Seq(TabString) /\ Len(null) = Len(none) + 1
    BY <1>a, <2>1, <2>2, AddStrType, Zenon
  <2>4. /\ upText \in Seq(TabString) /\ Len(upText) = Len(null) + 1
        /\ upText[Len(null) + 1] = [name |-> n2, off |-> EndOf(null)]
    BY <1>a, <2>3, AddStrType, AddStrLast, Zenon
  <2> HIDE DEF upText
  <2> QED
    BY <2>1, <2>3, <2>4
<1> HIDE DEF text, rodata, data, bss, null, upText
<1>4. upRo \in Seq(TabString) /\ Len(upRo) = 3 /\ upRo[2] = upText[2]
  <2>1. /\ upRo \in Seq(TabString) /\ Len(upRo) = Len(upText) + 1
        /\ \A i \in 1 .. Len(upText) : upRo[i] = upText[i]
    BY <1>a, <1>3, AddStrType, AddStrKeeps, Zenon
  <2> HIDE DEF upRo
  <2> QED
    BY <1>3, <2>1
<1> HIDE DEF upRo
<1>5. upData \in Seq(TabString) /\ Len(upData) = 4 /\ upData[2] = upText[2]
  <2>1. /\ upData \in Seq(TabString) /\ Len(upData) = Len(upRo) + 1
        /\ \A i \in 1 .. Len(upRo) : upData[i] = upRo[i]
    BY <1>a, <1>4, AddStrType, AddStrKeeps, Zenon
  <2> HIDE DEF upData
  <2> QED
    BY <1>4, <2>1
<1> HIDE DEF upData
<1>6. upBss \in Seq(TabString) /\ Len(upBss) = 5 /\ upBss[2] = upText[2]
  <2>1. /\ upBss \in Seq(TabString) /\ Len(upBss) = Len(upData) + 1
        /\ \A i \in 1 .. Len(upData) : upBss[i] = upData[i]
    BY <1>a, <1>5, AddStrType, AddStrKeeps, Zenon
  <2> HIDE DEF upBss
  <2> QED
    BY <1>5, <2>1
<1> HIDE DEF upBss
<1>7. EndOf(null) \in Nat /\ EndOf(upText) \in Nat /\ EndOf(upRo) \in Nat /\ EndOf(upData) \in Nat
  BY <1>3, <1>4, <1>5, EndOfType
<1>c. EndOf(null) # 0
  BY <1>3, EndOfPositive
<1>8. S1 \in SecHeader /\ S2 \in SecHeader /\ S3 \in SecHeader /\ S4 \in SecHeader /\ S5 \in SecHeader
  BY <1>0, <1>2, <1>7 DEF Sec, SecHeader
<1> HIDE DEF S1, S2, S3, S4, S5
<1>9. /\ secs' \in Seq(SecHeader) /\ Len(secs') = 5
      /\ secs'[1] = S1 /\ secs'[2] = S2 /\ secs'[3] = S3 /\ secs'[4] = S4 /\ secs'[5] = S5
  BY <1>1, <1>8
<1>10. syms' \in Seq(SymEntry) /\ Len(syms') = 5 /\ \A i \in 1 .. 5 : ~syms'[i].global
  <2>1. \A i \in 1 .. 5 : [st_name |-> 0, shndx |-> i - 1, value |-> 0, global |-> FALSE] \in SymEntry
    BY DEF SymEntry
  <2>2. syms' \in [1 .. 5 -> SymEntry]
    BY <1>1, <2>1
  <2> QED
    BY <1>1, <2>2, SeqDef
<1>11. /\ S1.type = "null" /\ ~S1.alloc
       /\ S2.type = "progbits" /\ S2.alloc /\ S2.addr = text /\ S2.size = object.text /\ S2.align = 4
       /\ S3.type = "progbits" /\ S3.alloc /\ S3.addr = rodata /\ S3.size = object.rodata /\ S3.align = 8
       /\ S4.type = "progbits" /\ S4.alloc /\ S4.addr = data /\ S4.size = object.data /\ S4.align = 8
       /\ S5.type = "nobits" /\ S5.alloc /\ S5.addr = bss /\ S5.size = 0
       /\ S2.name_off = EndOf(null)
  BY DEF S1, S2, S3, S4, S5, Sec
<1>12. S1.offset = 0 /\ S2.offset = 0 /\ S3.offset = 0 /\ S4.offset = 0 /\ S5.offset = 0
  BY DEF S1, S2, S3, S4, S5, Sec
<1>13. /\ \A i \in 3 .. 5 : secs'[i].addr = After(secs'[i - 1].addr, secs'[i - 1].size)
       /\ secs'[2].addr = Base'
  <2>1. secs'[2].addr = Base'
    BY <1>1, <1>9, <1>11 DEF Base, text
  <2>2. secs'[3].addr = After(secs'[2].addr, secs'[2].size)
    BY <1>9, <1>11 DEF rodata
  <2>3. secs'[4].addr = After(secs'[3].addr, secs'[3].size)
    BY <1>9, <1>11 DEF data
  <2>4. secs'[5].addr = After(secs'[4].addr, secs'[4].size)
    BY <1>9, <1>11 DEF bss
  <2>5. \A i \in 3 .. 5 : i = 3 \/ i = 4 \/ i = 5
    OBVIOUS
  <2> QED
    BY <2>1, <2>2, <2>3, <2>4, <2>5
<1>14. LoadedBuilt'
  <2>0. \A i \in 2 .. 5 : i = 2 \/ i = 3 \/ i = 4 \/ i = 5
    OBVIOUS
  <2>1. \A i \in 2 .. 5 : secs'[i].alloc
    BY <1>9, <1>11, <2>0, Zenon
  <2>2. \A i \in 2 .. 4 : secs'[i].type = "progbits"
    <3>1. \A i \in 2 .. 4 : i = 2 \/ i = 3 \/ i = 4
      OBVIOUS
    <3> QED
      BY <1>9, <1>11, <3>1, Zenon
  <2>3. /\ shstrtab'[2] = [name |-> ".text", off |-> secs'[2].name_off] /\ Len(shstrtab') >= 5
        /\ secs'[2].name_off # 0
    BY <1>1, <1>b, <1>c, <1>3, <1>4, <1>5, <1>6, <1>9, <1>11
  <2> QED
    BY <1>1, <1>9, <1>11, <1>13, <2>1, <2>2, <2>3 DEF LoadedBuilt
<1>15. \A i \in 1 .. 5 : secs'[i].offset = 0
  <2>1. \A i \in 1 .. 5 : i = 1 \/ i = 2 \/ i = 3 \/ i = 4 \/ i = 5
    OBVIOUS
  <2> QED
    BY <1>9, <1>12, <2>1, Zenon
<1> QED
  BY <1>1, <1>6, <1>9, <1>10, <1>14, <1>15

LEMMA SecsAppended ==
  ASSUME NEW s \in Seq(SecHeader), NEW t \in Seq(SecHeader)
  PROVE  /\ s \o t \in Seq(SecHeader) /\ Len(s \o t) = Len(s) + Len(t)
         /\ \A i \in 1 .. Len(s) : (s \o t)[i] = s[i]
         /\ \A i \in 1 .. Len(t) : (s \o t)[Len(s) + i] = t[i]
<1>1. /\ s \o t \in Seq(SecHeader) /\ Len(s \o t) = Len(s) + Len(t)
      /\ \A i \in 1 .. Len(s) + Len(t) :
           (s \o t)[i] = IF i <= Len(s) THEN s[i] ELSE t[i - Len(s)]
  BY ConcatProperties
<1>2. Len(s) \in Nat /\ Len(t) \in Nat
  BY LenProperties
<1> QED
  BY <1>1, <1>2

(* What PushTables pushes.                                                    *)
LEMMA PushTablesEffect ==
  ASSUME ElfTypeOK, HeadersInv, PushTables
  PROVE  /\ secs' \in Seq(SecHeader) /\ shstrtab' \in Seq(TabString)
         /\ Len(secs) = 5 /\ Len(shstrtab) = 5 /\ Len(secs') \in {8, 9}
         /\ \A i \in 1 .. 5 : secs'[i] = secs[i] /\ shstrtab'[i] = shstrtab[i]
         /\ TablesBuilt'
         /\ \A i \in 6 .. Len(secs') : secs'[i].offset = 0
<1>0. /\ Len(secs) = 5 /\ Len(shstrtab) = 5 /\ secs \in Seq(SecHeader)
      /\ shstrtab \in Seq(TabString) /\ strtab \in Seq(TabString) /\ Len(syms) \in Nat
      /\ object.relocs \in Nat /\ header \in [entry : Nat, shoff : Nat, shstrndx : Nat, segment : SegHeader]
  BY ObjectFacts, LenProperties DEF ElfTypeOK, HeadersInv, PushTables
<1> DEFINE n6 == ".symtab"   n7 == ".strtab"   n8 == ".rela.text"   n9 == ".shstrtab"
           has    == object.relocs > 0
           upSym  == AddStr(shstrtab, n6)
           upStr  == AddStr(upSym, n7)
           upRela == IF has THEN AddStr(upStr, n8) ELSE upStr
           names  == AddStr(upRela, n9)
           symtab == Sec(EndOf(shstrtab), "symtab", FALSE, 0, Len(syms) * SymSize, StrtabIndex, 1, 8)
           strs   == Sec(EndOf(upSym), "strtab", FALSE, 0, EndOf(strtab), 0, 0, 1)
           rel    == Sec(EndOf(upStr), "rela", FALSE, 0, object.relocs * RelaSize, 5, 1, 8)
           last   == Sec(EndOf(upRela), "strtab", FALSE, 0, EndOf(names), 0, 0, 1)
           p      == secs \o <<symtab, strs>>
           q      == p \o IF has THEN <<rel>> ELSE <<>>
           n      == IF has THEN 9 ELSE 8
<1>1. /\ shstrtab' = names /\ secs' = q \o <<last>> /\ object' = object
      /\ header' = [header EXCEPT !.shstrndx = Len(secs') - 1]
  BY DEF PushTables
<1>2. n6 \in TabNames /\ n7 \in TabNames /\ n8 \in TabNames /\ n9 \in TabNames
  BY DEF TabNames, TableNames
<1>3. n6 = ".symtab" /\ n7 = ".strtab" /\ n8 = ".rela.text" /\ n9 = ".shstrtab"
  OBVIOUS
<1>4. has \in BOOLEAN /\ (has <=> object.relocs > 0)
  OBVIOUS
<1> HIDE DEF n6, n7, n8, n9, has
<1>5. /\ upSym \in Seq(TabString) /\ Len(upSym) = 6
      /\ \A i \in 1 .. 5 : upSym[i] = shstrtab[i]
      /\ upSym[6] = [name |-> n6, off |-> EndOf(shstrtab)]
  <2>1. /\ upSym \in Seq(TabString) /\ Len(upSym) = Len(shstrtab) + 1
        /\ \A i \in 1 .. Len(shstrtab) : upSym[i] = shstrtab[i]
        /\ upSym[Len(shstrtab) + 1] = [name |-> n6, off |-> EndOf(shstrtab)]
    BY <1>0, <1>2, AddStrType, AddStrKeeps, AddStrLast, Zenon
  <2> HIDE DEF upSym
  <2> QED
    BY <1>0, <2>1
<1> HIDE DEF upSym
<1>6. /\ upStr \in Seq(TabString) /\ Len(upStr) = 7
      /\ \A i \in 1 .. 5 : upStr[i] = shstrtab[i]
      /\ upStr[6] = [name |-> n6, off |-> EndOf(shstrtab)]
      /\ upStr[7] = [name |-> n7, off |-> EndOf(upSym)]
  <2>1. /\ upStr \in Seq(TabString) /\ Len(upStr) = Len(upSym) + 1
        /\ \A i \in 1 .. Len(upSym) : upStr[i] = upSym[i]
        /\ upStr[Len(upSym) + 1] = [name |-> n7, off |-> EndOf(upSym)]
    BY <1>2, <1>5, AddStrType, AddStrKeeps, AddStrLast, Zenon
  <2> HIDE DEF upStr
  <2> QED
    BY <1>5, <2>1
<1> HIDE DEF upStr
<1>7. /\ upRela \in Seq(TabString) /\ Len(upRela) = n - 1
      /\ \A i \in 1 .. 5 : upRela[i] = shstrtab[i]
      /\ upRela[6] = [name |-> n6, off |-> EndOf(shstrtab)]
      /\ upRela[7] = [name |-> n7, off |-> EndOf(upSym)]
      /\ has => upRela[8] = [name |-> n8, off |-> EndOf(upStr)]
  <2>1. CASE has
    <3> DEFINE more == AddStr(upStr, n8)
    <3>1. /\ more \in Seq(TabString) /\ Len(more) = Len(upStr) + 1
          /\ \A i \in 1 .. Len(upStr) : more[i] = upStr[i]
          /\ more[Len(upStr) + 1] = [name |-> n8, off |-> EndOf(upStr)]
      BY <1>2, <1>6, AddStrType, AddStrKeeps, AddStrLast, Zenon
    <3>2. upRela = more
      BY <2>1
    <3>3. n = 9
      BY <2>1
    <3>4. has => upRela[8] = [name |-> n8, off |-> EndOf(upStr)]
      BY <1>6, <3>1, <3>2
    <3> HIDE DEF more, upRela, n
    <3> QED
      BY <1>6, <3>1, <3>2, <3>3, <3>4
  <2>2. CASE ~has
    <3>1. upRela = upStr
      BY <2>2
    <3>2. n = 8 /\ (has => upRela[8] = [name |-> n8, off |-> EndOf(upStr)])
      BY <2>2
    <3> HIDE DEF upRela, n
    <3> QED
      BY <1>6, <3>1, <3>2
  <2> QED
    BY <2>1, <2>2
<1> HIDE DEF upRela
<1>8. /\ names \in Seq(TabString) /\ Len(names) = n
      /\ \A i \in 1 .. 5 : names[i] = shstrtab[i]
      /\ names[6] = [name |-> n6, off |-> EndOf(shstrtab)]
      /\ names[7] = [name |-> n7, off |-> EndOf(upSym)]
      /\ has => names[8] = [name |-> n8, off |-> EndOf(upStr)]
      /\ names[n] = [name |-> n9, off |-> EndOf(upRela)]
  <2>1. /\ names \in Seq(TabString) /\ Len(names) = Len(upRela) + 1
        /\ \A i \in 1 .. Len(upRela) : names[i] = upRela[i]
        /\ names[Len(upRela) + 1] = [name |-> n9, off |-> EndOf(upRela)]
    BY <1>2, <1>7, AddStrType, AddStrKeeps, AddStrLast, Zenon
  <2> HIDE DEF names
  <2> QED
    BY <1>7, <2>1
<1> HIDE DEF names
<1>9. /\ EndOf(shstrtab) \in Nat /\ EndOf(upSym) \in Nat /\ EndOf(upStr) \in Nat
      /\ EndOf(upRela) \in Nat /\ EndOf(names) \in Nat /\ EndOf(strtab) \in Nat
  BY <1>0, <1>5, <1>6, <1>7, <1>8, EndOfType
<1>20. EndOf(shstrtab) # 0 /\ EndOf(upSym) # 0 /\ EndOf(upStr) # 0 /\ EndOf(upRela) # 0
  <2>1. Len(shstrtab) >= 1 /\ Len(upSym) >= 1 /\ Len(upStr) >= 1 /\ Len(upRela) >= 1
    BY <1>0, <1>5, <1>6, <1>7
  <2> QED
    BY <1>0, <1>5, <1>6, <1>7, <2>1, EndOfPositive
<1>10. /\ symtab \in SecHeader /\ strs \in SecHeader /\ rel \in SecHeader /\ last \in SecHeader
  <2>1. Len(syms) * SymSize \in Nat /\ object.relocs * RelaSize \in Nat /\ StrtabIndex \in Nat
    BY <1>0 DEF SymSize, RelaSize, StrtabIndex
  <2> QED
    BY <1>9, <2>1 DEF Sec, SecHeader
<1>11. /\ symtab.type = "symtab" /\ ~symtab.alloc /\ symtab.link = 6 /\ symtab.info = 1
       /\ symtab.align = 8 /\ symtab.name_off = EndOf(shstrtab) /\ symtab.offset = 0
       /\ strs.type = "strtab" /\ ~strs.alloc /\ strs.align = 1 /\ strs.name_off = EndOf(upSym)
       /\ strs.offset = 0
       /\ rel.type = "rela" /\ ~rel.alloc /\ rel.link = 5 /\ rel.info = 1 /\ rel.align = 8
       /\ rel.name_off = EndOf(upStr) /\ rel.offset = 0
       /\ last.type = "strtab" /\ ~last.alloc /\ last.align = 1 /\ last.name_off = EndOf(upRela)
       /\ last.size = EndOf(names) /\ last.offset = 0
  BY DEF Sec, StrtabIndex
<1> HIDE DEF symtab, strs, rel, last
<1>12. /\ p \in Seq(SecHeader) /\ Len(p) = 7 /\ \A i \in 1 .. 5 : p[i] = secs[i]
       /\ p[6] = symtab /\ p[7] = strs
  <2> DEFINE pair == <<symtab, strs>>
  <2>1. pair \in Seq(SecHeader) /\ Len(pair) = 2 /\ pair[1] = symtab /\ pair[2] = strs
    BY <1>10
  <2>2. p = secs \o pair
    OBVIOUS
  <2> HIDE DEF pair, p
  <2>3. /\ p \in Seq(SecHeader) /\ Len(p) = Len(secs) + Len(pair)
        /\ \A i \in 1 .. Len(secs) : p[i] = secs[i]
        /\ \A i \in 1 .. Len(pair) : p[Len(secs) + i] = pair[i]
    BY <1>0, <2>1, <2>2, SecsAppended, Zenon
  <2> QED
    BY <1>0, <2>1, <2>3
<1> HIDE DEF p
<1>13. /\ q \in Seq(SecHeader) /\ Len(q) = n - 1 /\ \A i \in 1 .. 5 : q[i] = secs[i]
       /\ q[6] = symtab /\ q[7] = strs /\ (has => q[8] = rel)
  <2>1. CASE has
    <3> DEFINE one == <<rel>>
    <3>1. one \in Seq(SecHeader) /\ Len(one) = 1 /\ one[1] = rel
      BY <1>10
    <3>2. q = p \o one /\ n = 9
      BY <2>1
    <3> HIDE DEF one, q, n
    <3>3. /\ q \in Seq(SecHeader) /\ Len(q) = Len(p) + Len(one)
          /\ \A i \in 1 .. Len(p) : q[i] = p[i]
          /\ \A i \in 1 .. Len(one) : q[Len(p) + i] = one[i]
      BY <1>12, <3>1, <3>2, SecsAppended, Zenon
    <3> QED
      BY <1>12, <3>1, <3>2, <3>3, SMTT(30)
  <2>2. CASE ~has
    <3>1. q = p \o <<>> /\ n = 8
      BY <2>2
    <3>2. p \o <<>> = p
      BY <1>12, ConcatEmptySeq
    <3> HIDE DEF q, n
    <3> QED
      BY <1>12, <2>2, <3>1, <3>2
  <2> QED
    BY <2>1, <2>2
<1> HIDE DEF q
<1>14. /\ secs' \in Seq(SecHeader) /\ Len(secs') = n /\ \A i \in 1 .. 5 : secs'[i] = secs[i]
       /\ secs'[6] = symtab /\ secs'[7] = strs /\ (has => secs'[8] = rel) /\ secs'[n] = last
  BY <1>1, <1>10, <1>13
<1>15. \A i \in 6 .. n : i = 6 \/ i = 7 \/ (has /\ i = 8) \/ i = n
  OBVIOUS
<1>16. \A i \in 6 .. n : secs'[i] \in {symtab, strs, rel, last}
  BY <1>14, <1>15
<1>17. \A sec \in {symtab, strs, rel, last} :
         /\ ~sec.alloc /\ sec.align \in {1, 8} /\ sec.offset = 0
         /\ sec.type \notin {"null", "nobits", "progbits"} /\ sec.name_off # 0
  BY <1>11, <1>20
<1>18. header'.shstrndx = n - 1
  BY <1>0, <1>1, <1>14
<1>19. TablesBuilt'
  <2>1. /\ secs'[6].type = "symtab" /\ secs'[6].link = 6 /\ secs'[6].info = 1
        /\ secs'[7].type = "strtab" /\ secs'[n].type = "strtab" /\ secs'[n].size = EndOf(shstrtab')
        /\ has => secs'[8].type = "rela" /\ secs'[8].link = 5 /\ secs'[8].info = 1
    BY <1>1, <1>11, <1>14
  <2>2. /\ shstrtab'[6] = [name |-> ".symtab", off |-> secs'[6].name_off]
        /\ shstrtab'[7] = [name |-> ".strtab", off |-> secs'[7].name_off]
        /\ has => shstrtab'[8] = [name |-> ".rela.text", off |-> secs'[8].name_off]
        /\ shstrtab'[n] = [name |-> ".shstrtab", off |-> secs'[n].name_off]
    BY <1>1, <1>3, <1>8, <1>11, <1>14
  <2>3. \A i \in 6 .. n : ~secs'[i].alloc /\ secs'[i].align \in {1, 8}
                          /\ secs'[i].type \notin {"null", "nobits", "progbits"}
                          /\ secs'[i].name_off # 0
    BY <1>16, <1>17
  <2>4. n = IF object'.relocs > 0 THEN 9 ELSE 8
    BY <1>1, <1>4
  <2> QED
    BY <1>1, <1>4, <1>8, <1>14, <1>18, <2>1, <2>2, <2>3, <2>4 DEF TablesBuilt
<1> QED
  BY <1>0, <1>1, <1>8, <1>14, <1>16, <1>17, <1>19

(* What Place, AddSymbol and the writes do.                                   *)
LEMMA PlaceEffect ==
  ASSUME ElfTypeOK, HeadersInv, Place
  PROVE  /\ secs' \in Seq(SecHeader) /\ Len(secs') = Len(secs) /\ offset' \in Nat
         /\ \A i \in DOMAIN secs : secs'[i] = [secs[i] EXCEPT !.offset = secs'[i].offset]
         /\ \A i \in DOMAIN secs : i # next => secs'[i] = secs[i]
         /\ InFile(secs[next]) =>
              /\ secs[next].align \in {1, 4, 8}
              /\ secs'[next].offset = AlignUp(offset, secs[next].align)
              /\ offset' = AlignUp(offset, secs[next].align) + secs[next].size
         /\ ~InFile(secs[next]) => secs'[next] = secs[next] /\ offset' = offset
<1>1. /\ secs \in Seq(SecHeader) /\ offset \in Nat /\ next \in 1 .. Len(secs) /\ Len(secs) \in Nat
      /\ DOMAIN secs = 1 .. Len(secs)
  BY LenProperties, ObjectFacts DEF ElfTypeOK, Place
<1>2. \A i \in DOMAIN secs : secs[i] \in SecHeader
  BY <1>1, ElementOfSeq
<1>3. CASE ~InFile(secs[next])
  <2>1. secs' = secs /\ offset' = offset
    BY <1>3 DEF Place
  <2>2. \A i \in DOMAIN secs : secs[i] = [secs[i] EXCEPT !.offset = secs[i].offset]
    <3> SUFFICES ASSUME NEW i \in DOMAIN secs
                 PROVE  secs[i] = [secs[i] EXCEPT !.offset = secs[i].offset]
      OBVIOUS
    <3> QED
      BY <1>2 DEF SecHeader
  <2> QED
    BY <1>1, <1>3, <2>1, <2>2
<1>4. CASE InFile(secs[next])
  <2> DEFINE at == AlignUp(offset, secs[next].align)
  <2>1. secs[next].align \in {1, 4, 8}
    <3>1. stage \notin {"sections", "symbols"} /\ stage # "sections"
      BY DEF Place
    <3>2. LoadedBuilt /\ TablesBuilt /\ Len(secs) \in {8, 9}
      BY <3>1 DEF HeadersInv, TablesBuilt
    <3>3. next # 1 /\ next # 5
      BY <1>4, <3>2 DEF InFile, LoadedBuilt
    <3>4. next = 2 \/ next = 3 \/ next = 4 \/ next \in 6 .. Len(secs)
      BY <1>1, <3>3
    <3>5. next = 2 \/ next = 3 \/ next = 4 => secs[next].align \in {4, 8}
      BY <3>2 DEF LoadedBuilt
    <3>6. next \in 6 .. Len(secs) => secs[next].align \in {1, 8}
      BY <3>2 DEF TablesBuilt
    <3> QED
      BY <3>4, <3>5, <3>6
  <2>2. at \in Nat
    BY <1>1, <2>1, AlignUpFacts
  <2>3. secs[next].size \in Nat
    BY <1>1, <1>2, SecFields
  <2>4. secs' = [secs EXCEPT ![next].offset = at] /\ offset' = at + secs[next].size
    BY <1>4 DEF Place
  <2> HIDE DEF at
  <2>5. secs' = [secs EXCEPT ![next] = [secs[next] EXCEPT !.offset = at]]
    BY <2>4
  <2>6. [secs[next] EXCEPT !.offset = at] \in SecHeader
    BY <1>1, <1>2, <2>2, ZenonT(60) DEF SecHeader
  <2>7. secs' \in Seq(SecHeader) /\ Len(secs') = Len(secs)
    BY <1>1, <2>5, <2>6, ExceptSeq
  <2>8. \A i \in DOMAIN secs : secs'[i] = IF i = next THEN [secs[next] EXCEPT !.offset = at] ELSE secs[i]
    BY <1>1, <2>5
  <2>9. [secs[next] EXCEPT !.offset = at].offset = at
    BY <1>1, <1>2 DEF SecHeader
  <2>10. secs'[next].offset = at
    BY <1>1, <2>8, <2>9
  <2>11. \A i \in DOMAIN secs : secs'[i] = [secs[i] EXCEPT !.offset = secs'[i].offset]
    <3> SUFFICES ASSUME NEW i \in DOMAIN secs
                 PROVE  secs'[i] = [secs[i] EXCEPT !.offset = secs'[i].offset]
      OBVIOUS
    <3>1. CASE i = next
      BY <2>8, <2>10, <3>1
    <3>2. CASE i # next
      <4>1. secs'[i] = secs[i]
        BY <2>8, <3>2
      <4> QED
        BY <1>2, <4>1 DEF SecHeader
    <3> QED
      BY <3>1, <3>2
  <2> QED
    BY <1>1, <1>4, <2>1, <2>2, <2>3, <2>4, <2>7, <2>8, <2>10, <2>11 DEF at
<1> QED
  BY <1>3, <1>4

LEMMA AddSymbolEffect ==
  ASSUME ElfTypeOK, HeadersInv, AddSymbol
  PROVE  LET gs == object.symbols[next]
         IN /\ next \in 1 .. Len(object.symbols)
            /\ strtab' \in Seq(TabString) /\ Len(strtab') = Len(strtab) + 1
            /\ \A i \in 1 .. Len(strtab) : strtab'[i] = strtab[i]
            /\ syms' \in Seq(SymEntry) /\ Len(syms') = Len(syms) + 1
            /\ \A i \in 1 .. Len(syms) : syms'[i] = syms[i]
            /\ strtab'[Len(strtab) + 1] = [name |-> gs.name, off |-> syms'[Len(syms) + 1].st_name]
            /\ Len(strtab) >= 1 => syms'[Len(syms) + 1].st_name # 0
            /\ syms'[Len(syms) + 1].shndx = gs.section_idx
            /\ syms'[Len(syms) + 1].value
                 = gs.value + IF object.is_exec THEN secs[gs.section_idx + 1].addr ELSE 0
<1> DEFINE gs == object.symbols[next]
           sym == [st_name |-> EndOf(strtab), shndx |-> SectionOf(gs), value |-> Value(gs),
                   global |-> gs.is_global]
<1>1. /\ next \in 1 .. Len(object.symbols) /\ Len(secs) = 5 /\ secs \in Seq(SecHeader)
      /\ strtab \in Seq(TabString) /\ syms \in Seq(SymEntry)
  BY ObjectFacts DEF ElfTypeOK, HeadersInv, AddSymbol
<1>2. /\ gs.name \in TabNames /\ gs.value \in Nat /\ gs.section_idx \in 1 .. 4
      /\ gs.is_global \in BOOLEAN
  BY <1>1, ObjectFacts DEF ElfTypeOK, TabNames
<1>3. strtab' = AddStr(strtab, gs.name) /\ syms' = Append(syms, sym)
  BY DEF AddSymbol
<1> HIDE DEF gs
<1>4. SectionOf(gs) = gs.section_idx
  BY <1>2 DEF SectionOf
<1>5. secs[gs.section_idx + 1].addr \in Nat
  <2>1. gs.section_idx + 1 \in 1 .. Len(secs)
    BY <1>1, <1>2
  <2> QED
    BY <1>1, <2>1, ElementOfSeq, SecFields
<1>6. Value(gs) = gs.value + IF object.is_exec THEN secs[gs.section_idx + 1].addr ELSE 0
  <2>1. AddrOf(gs.section_idx) = secs[gs.section_idx + 1].addr
    BY <1>1, <1>2 DEF AddrOf
  <2> QED
    BY <1>2, <1>5, <2>1 DEF Value
<1>7. Value(gs) \in Nat
  BY <1>2, <1>5, <1>6
<1>8. sym \in SymEntry
  BY <1>1, <1>2, <1>4, <1>7, EndOfType DEF SymEntry
<1>9. sym.st_name = EndOf(strtab) /\ sym.shndx = gs.section_idx /\ sym.value = Value(gs)
  BY <1>4
<1> HIDE DEF sym
<1>10. /\ syms' \in Seq(SymEntry) /\ Len(syms') = Len(syms) + 1
       /\ \A i \in 1 .. Len(syms) : syms'[i] = syms[i]
       /\ syms'[Len(syms) + 1] = sym
  BY <1>1, <1>3, <1>8, AppendProperties
<1>11. /\ strtab' \in Seq(TabString) /\ Len(strtab') = Len(strtab) + 1
       /\ \A i \in 1 .. Len(strtab) : strtab'[i] = strtab[i]
       /\ strtab'[Len(strtab) + 1] = [name |-> gs.name, off |-> EndOf(strtab)]
  BY <1>1, <1>2, <1>3, AddStrType, AddStrKeeps, AddStrLast, Zenon
<1>12. Len(strtab) >= 1 => EndOf(strtab) # 0
  BY <1>1, EndOfPositive
<1> QED
  BY <1>1, <1>6, <1>9, <1>10, <1>11, <1>12 DEF gs

LEMMA FileEndType == ASSUME file \in Seq(FilePiece) PROVE FileEnd \in Nat
<1>1. CASE file = <<>>
  BY <1>1 DEF FileEnd
<1>2. CASE file # <<>>
  <2>1. Last(file) \in FilePiece
    BY <1>2, EmptySeq, LenProperties DEF Last
  <2> QED
    BY <1>2, <2>1 DEF FileEnd, FilePiece
<1> QED
  BY <1>1, <1>2

(* Where a piece goes that is to start at a place the file has not reached.   *)
LEMMA WriteEffect ==
  ASSUME file \in Seq(FilePiece), NEW what \in Contents, NEW size \in Nat, NEW from \in Nat,
         WriteFrom(what, size, from)
  PROVE  /\ file' \in Seq(FilePiece) /\ Len(file') = Len(file) + 1 /\ FileEnd \in Nat
         /\ \A i \in 1 .. Len(file) : file'[i] = file[i]
         /\ \E at \in Nat :
              /\ file'[Len(file) + 1] = [what |-> what, size |-> size, at |-> at]
              /\ FileEnd <= at
              /\ FileEnd < from => at = from
              /\ from <= FileEnd => at = FileEnd
              /\ FileEnd' = at + size
<1>1. FileEnd \in Nat
  BY FileEndType
<1> DEFINE at == IF FileEnd < from THEN from ELSE FileEnd
           new == [what |-> what, size |-> size, at |-> at]
<1>2. at \in Nat /\ FileEnd <= at /\ (FileEnd < from => at = from)
      /\ (from <= FileEnd => at = FileEnd)
  BY <1>1
<1>3. file' = Append(file, new)
  BY DEF WriteFrom
<1> HIDE DEF at
<1>4. new \in FilePiece /\ new.at = at /\ new.size = size
  BY <1>2 DEF FilePiece
<1> HIDE DEF new
<1>5. /\ file' \in Seq(FilePiece) /\ Len(file') = Len(file) + 1
      /\ \A i \in 1 .. Len(file) : file'[i] = file[i]
      /\ file'[Len(file) + 1] = new
  BY <1>3, <1>4, AppendProperties
<1>6. FileEnd' = at + size
  <2>1. Len(file) \in Nat /\ file' # <<>>
    BY <1>5, LenProperties, EmptySeq
  <2> QED
    BY <1>4, <1>5, <2>1 DEF FileEnd, Last
<1> QED
  BY <1>1, <1>2, <1>5, <1>6 DEF new

-------------------------------------------------------------------------------
(* The types and the headers.                                                *)

LEMMA ElfStart == ElfInit => ElfInv
<1> SUFFICES ASSUME ElfInit PROVE ElfInv
  OBVIOUS
<1> USE DEF ElfInit
<1>1. <<>> \in Seq(SecHeader) /\ <<>> \in Seq(TabString) /\ <<>> \in Seq(SymEntry) /\ <<>> \in Seq(FilePiece)
      /\ Len(<<>>) = 0
  BY EmptySeq
<1>2. header \in [entry : Nat, shoff : Nat, shstrndx : Nat, segment : SegHeader]
  BY SizesAssumption DEF NoSegment, SegHeader
<1>3. next \in 1 .. Len(object.symbols) + Len(secs) + 1
  BY ObjectFacts
<1>4. ElfTypeOK
  BY <1>1, <1>2, <1>3 DEF ElfTypeOK
<1>5. HeadersInv /\ SymbolsInv
  BY <1>1 DEF HeadersInv, SymbolsInv
<1>6. LayoutInv /\ FileInv /\ SegmentInv
  BY <1>1 DEF LayoutInv, FileInv, SegmentInv, Out, PlacedUpTo, Distinct, Ordered
<1> QED
  BY <1>4, <1>5, <1>6 DEF ElfInv

LEMMA ContentsFacts ==
  /\ <<"ehdr">> \in Contents /\ <<"phdr">> \in Contents /\ <<"shdrs">> \in Contents
  /\ \A i \in 0 .. 8 : <<"section", i>> \in Contents
BY DEF Contents

LEMMA EntryType == ASSUME ElfTypeOK PROVE EntryAddr \in Nat
<1> DEFINE named == {i \in DOMAIN object.symbols : object.symbols[i].name \in EntryNames}
           gs    == object.symbols[Max(named)]
<1>1. CASE named = {}
  BY <1>1 DEF EntryAddr
<1>2. CASE named # {}
  <2>1. DOMAIN object.symbols = 1 .. Len(object.symbols) /\ Len(object.symbols) \in Nat
    BY ObjectFacts, LenProperties DEF ElfTypeOK
  <2>2. named \in SUBSET Nat /\ (\A x \in named : x <= Len(object.symbols))
    BY <2>1
  <2>3. Max(named) \in named
    <3> HIDE DEF named
    <3> QED
      BY <1>2, <2>1, <2>2, MaxFacts
  <2>4. Max(named) \in 1 .. Len(object.symbols)
    BY <2>1, <2>3
  <2>5. gs.value \in Nat /\ gs.section_idx \in 1 .. 4
    BY <2>4, ObjectFacts DEF ElfTypeOK
  <2>6. AddrOf(SectionOf(gs)) \in Nat
    <3>1. \A i \in 1 .. 4 : AddrOf(i) \in Nat
      <4> SUFFICES ASSUME NEW i \in 1 .. 4, i < Len(secs) PROVE secs[i + 1].addr \in Nat
        BY DEF AddrOf
      <4>1. secs \in Seq(SecHeader) /\ i + 1 \in 1 .. Len(secs)
        BY LenProperties DEF ElfTypeOK
      <4> QED
        BY <4>1, ElementOfSeq, SecFields
    <3> QED
      BY <2>5, <3>1 DEF SectionOf
  <2> HIDE DEF gs
  <2>7. (IF object.is_exec THEN AddrOf(SectionOf(gs)) + gs.value ELSE gs.value) \in Nat
    BY <2>5, <2>6
  <2> QED
    BY <1>2, <2>7 DEF EntryAddr, gs
<1> QED
  BY <1>1, <1>2

LEMMA LoadedAre ==
  ASSUME ElfTypeOK, HeadersInv, stage \notin {"sections", "symbols"}
  PROVE  /\ Loaded = 2 .. 5 /\ Len(secs) \in {8, 9} /\ DOMAIN secs = 1 .. Len(secs)
         /\ \A i \in 2 .. 5 : secs[i].offset \in Nat /\ secs[i].addr \in Nat /\ secs[i].size \in Nat
<1>1. LoadedBuilt /\ TablesBuilt
  BY DEF HeadersInv
<1>2. Len(secs) \in {8, 9} /\ DOMAIN secs = 1 .. Len(secs) /\ secs \in Seq(SecHeader)
  BY <1>1, LenProperties DEF TablesBuilt, ElfTypeOK
<1>3. /\ ~secs[1].alloc /\ \A i \in 2 .. 5 : secs[i].alloc
  BY <1>1 DEF LoadedBuilt
<1>4. \A i \in 6 .. Len(secs) : ~secs[i].alloc
  BY <1>1 DEF TablesBuilt
<1>5. \A i \in 1 .. Len(secs) : i = 1 \/ i \in 2 .. 5 \/ i \in 6 .. Len(secs)
  BY <1>2
<1>6. Loaded = 2 .. 5
  BY <1>2, <1>3, <1>4, <1>5 DEF Loaded
<1>7. \A i \in 2 .. 5 : secs[i] \in SecHeader
  BY <1>2, ElementOfSeq
<1> QED
  BY <1>2, <1>6, <1>7, SecFields

(* The segment, by its bounds.                                                *)
LEMMA SegmentBounds ==
  ASSUME ElfTypeOK, HeadersInv, stage \notin {"sections", "symbols"}
  PROVE  \E first, last, low, high \in Nat :
           /\ SegmentOf = [offset |-> first, vaddr |-> low, filesz |-> (last - first) % WordSize,
                           memsz |-> (high - low) % WordSize]
           /\ first = WordSize - 1 \/ \E i \in 2 .. 5 : secs[i].offset > 0 /\ first = secs[i].offset
           /\ low = WordSize - 1 \/ \E i \in 2 .. 5 : low = secs[i].addr
           /\ last = 0 \/ \E i \in 2 .. 5 : last = secs[i].offset + secs[i].size
           /\ high = 0 \/ \E i \in 2 .. 5 : high = secs[i].addr + secs[i].size
           /\ \A i \in 2 .. 5 :
                /\ secs[i].offset > 0 => first <= secs[i].offset
                /\ low <= secs[i].addr
                /\ secs[i].offset + secs[i].size <= last
                /\ secs[i].addr + secs[i].size <= high
<1> DEFINE F == {WordSize - 1} \cup {secs[i].offset : i \in {j \in Loaded : secs[j].offset > 0}}
           L == {WordSize - 1} \cup {secs[i].addr : i \in Loaded}
           E == {0} \cup {secs[i].offset + secs[i].size : i \in Loaded}
           H == {0} \cup {secs[i].addr + secs[i].size : i \in Loaded}
<1>1. /\ Loaded = 2 .. 5
      /\ \A i \in 2 .. 5 : secs[i].offset \in Nat /\ secs[i].addr \in Nat /\ secs[i].size \in Nat
  BY LoadedAre
<1>2. WordSize - 1 \in Nat
  BY SizesAssumption
<1>3. /\ F \in SUBSET Nat /\ WordSize - 1 \in F
      /\ \A x \in F : x = WordSize - 1 \/ \E i \in 2 .. 5 : secs[i].offset > 0 /\ x = secs[i].offset
      /\ \A i \in 2 .. 5 : secs[i].offset > 0 => secs[i].offset \in F
  BY <1>1, <1>2
<1>4. /\ L \in SUBSET Nat /\ WordSize - 1 \in L
      /\ \A x \in L : x = WordSize - 1 \/ \E i \in 2 .. 5 : x = secs[i].addr
      /\ \A i \in 2 .. 5 : secs[i].addr \in L
  BY <1>1, <1>2
<1>5. /\ E \in SUBSET Nat /\ 0 \in E
      /\ \A x \in E : x = 0 \/ \E i \in 2 .. 5 : x = secs[i].offset + secs[i].size
      /\ \A i \in 2 .. 5 : secs[i].offset + secs[i].size \in E
  BY <1>1
<1>6. /\ H \in SUBSET Nat /\ 0 \in H
      /\ \A x \in H : x = 0 \/ \E i \in 2 .. 5 : x = secs[i].addr + secs[i].size
      /\ \A i \in 2 .. 5 : secs[i].addr + secs[i].size \in H
  BY <1>1
<1>7. SegmentOf = [offset |-> Min(F), vaddr |-> Min(L), filesz |-> (Max(E) - Min(F)) % WordSize,
                   memsz |-> (Max(H) - Min(L)) % WordSize]
  BY DEF SegmentOf, Span
<1> DEFINE e == secs[2].offset + secs[2].size + secs[3].offset + secs[3].size
                + secs[4].offset + secs[4].size + secs[5].offset + secs[5].size
           h == secs[2].addr + secs[2].size + secs[3].addr + secs[3].size
                + secs[4].addr + secs[4].size + secs[5].addr + secs[5].size
<1>8. \A i \in 2 .. 5 : i = 2 \/ i = 3 \/ i = 4 \/ i = 5
  OBVIOUS
<1>9. e \in Nat /\ \A x \in E : x <= e
  <2> HIDE DEF E
  <2> QED
    BY <1>1, <1>5, <1>8
<1>10. h \in Nat /\ \A x \in H : x <= h
  <2> HIDE DEF H
  <2> QED
    BY <1>1, <1>6, <1>8
<1> HIDE DEF F, L, E, H, e, h
<1>11. Min(F) \in F /\ \A y \in F : Min(F) <= y
  BY <1>3, MinFacts
<1>12. Min(L) \in L /\ \A y \in L : Min(L) <= y
  BY <1>4, MinFacts
<1>13. Max(E) \in E /\ \A y \in E : y <= Max(E)
  BY <1>5, <1>9, MaxFacts
<1>14. Max(H) \in H /\ \A y \in H : y <= Max(H)
  BY <1>6, <1>10, MaxFacts
<1> DEFINE mf == Min(F)  ml == Min(L)  me == Max(E)  mh == Max(H)
<1>15. mf \in Nat /\ ml \in Nat /\ me \in Nat /\ mh \in Nat
  BY <1>3, <1>4, <1>5, <1>6, <1>11, <1>12, <1>13, <1>14
<1>16. /\ mf = WordSize - 1 \/ \E i \in 2 .. 5 : secs[i].offset > 0 /\ mf = secs[i].offset
       /\ ml = WordSize - 1 \/ \E i \in 2 .. 5 : ml = secs[i].addr
       /\ me = 0 \/ \E i \in 2 .. 5 : me = secs[i].offset + secs[i].size
       /\ mh = 0 \/ \E i \in 2 .. 5 : mh = secs[i].addr + secs[i].size
  BY <1>3, <1>4, <1>5, <1>6, <1>11, <1>12, <1>13, <1>14
<1>17. \A i \in 2 .. 5 :
                /\ secs[i].offset > 0 => mf <= secs[i].offset
                /\ ml <= secs[i].addr
                /\ secs[i].offset + secs[i].size <= me
                /\ secs[i].addr + secs[i].size <= mh
  BY <1>3, <1>4, <1>5, <1>6, <1>11, <1>12, <1>13, <1>14
<1>18. SegmentOf = [offset |-> mf, vaddr |-> ml, filesz |-> (me - mf) % WordSize,
                    memsz |-> (mh - ml) % WordSize]
  BY <1>7
<1> HIDE DEF mf, ml, me, mh
<1> QED
  BY <1>15, <1>16, <1>17, <1>18

LEMMA SegmentType ==
  ASSUME ElfTypeOK, HeadersInv, stage \notin {"sections", "symbols"}
  PROVE  SegmentOf \in SegHeader
<1>1. PICK first, last, low, high \in Nat :
        SegmentOf = [offset |-> first, vaddr |-> low, filesz |-> (last - first) % WordSize,
                     memsz |-> (high - low) % WordSize]
  BY SegmentBounds
<1>2. WordSize \in Nat \ {0}
  BY SizesAssumption
<1>3. (last - first) % WordSize \in 0 .. WordSize - 1 /\ (high - low) % WordSize \in 0 .. WordSize - 1
  BY <1>2
<1> QED
  BY <1>1, <1>3 DEF SegHeader

(* The types and the headers are kept by every step.                          *)
LEMMA HeadersStep ==
  ASSUME ElfTypeOK, HeadersInv, [ElfStep \/ ElfReturned]_elf_vars
  PROVE  ElfTypeOK' /\ HeadersInv'
<1> DEFINE HeaderSet == [entry : Nat, shoff : Nat, shstrndx : Nat, segment : SegHeader]
<1>0. /\ object \in Objects /\ Len(object.symbols) \in Nat /\ Len(secs) \in Nat /\ next \in Nat \ {0}
      /\ secs \in Seq(SecHeader) /\ shstrtab \in Seq(TabString) /\ strtab \in Seq(TabString)
      /\ syms \in Seq(SymEntry) /\ offset \in Nat /\ header \in HeaderSet /\ file \in Seq(FilePiece)
      /\ Len(secs) <= 9 /\ next <= Len(object.symbols) + Len(secs) + 1
  BY ObjectFacts, LenProperties DEF ElfTypeOK
<1>1. CASE PushSections
  <2>1. /\ stage' = "symbols" /\ next' = 1 /\ object' = object /\ strtab' = strtab /\ offset' = offset
        /\ header' = header /\ file' = file
    BY <1>1 DEF PushSections, HeadersInv
  <2>2. /\ secs' \in Seq(SecHeader) /\ Len(secs') = 5 /\ LoadedBuilt'
        /\ shstrtab' \in Seq(TabString) /\ Len(shstrtab') = 5 /\ syms' \in Seq(SymEntry)
    BY <1>1, PushSectionsEffect
  <2>3. ElfTypeOK'
    BY <1>0, <2>1, <2>2 DEF ElfTypeOK
  <2>4. HeadersInv'
    BY <2>1, <2>2 DEF HeadersInv
  <2> QED
    BY <2>3, <2>4
<1>2. CASE AddSymbol
  <2>1. /\ stage' = "symbols" /\ stage = "symbols" /\ next' = next + 1 /\ object' = object /\ secs' = secs
        /\ shstrtab' = shstrtab /\ offset' = offset /\ header' = header /\ file' = file
        /\ next <= Len(object.symbols)
    BY <1>2 DEF AddSymbol
  <2>2. strtab' \in Seq(TabString) /\ syms' \in Seq(SymEntry)
    BY <1>2, AddSymbolEffect
  <2>3. ElfTypeOK'
    BY <1>0, <2>1, <2>2 DEF ElfTypeOK
  <2>4. HeadersInv'
    BY <2>1 DEF HeadersInv, LoadedBuilt, Base
  <2> QED
    BY <2>3, <2>4
<1>3. CASE PushTables
  <2>1. /\ stage' = "layout" /\ stage = "symbols" /\ next' = 1 /\ object' = object /\ strtab' = strtab
        /\ syms' = syms /\ file' = file /\ header' = [header EXCEPT !.shstrndx = Len(secs') - 1]
        /\ offset' = EhdrSize + IF object.is_exec THEN PhdrSize ELSE 0
    BY <1>3 DEF PushTables
  <2>2. /\ secs' \in Seq(SecHeader) /\ shstrtab' \in Seq(TabString) /\ Len(secs') \in {8, 9}
        /\ \A i \in 1 .. 5 : secs'[i] = secs[i] /\ shstrtab'[i] = shstrtab[i]
        /\ TablesBuilt'
    BY <1>3, PushTablesEffect
  <2>3. header' \in HeaderSet /\ offset' \in Nat
    <3> DEFINE k == Len(secs') - 1
    <3>1. k \in Nat /\ header' = [header EXCEPT !.shstrndx = k]
      BY <2>1, <2>2
    <3>2. offset' \in Nat
      BY <2>1 DEF EhdrSize, PhdrSize
    <3> HIDE DEF k
    <3> QED
      BY <1>0, <3>1, <3>2
  <2>4. ElfTypeOK'
    <3> DEFINE m == Len(object.symbols)   k == Len(secs')
    <3>a. m \in Nat /\ k \in {8, 9}
      BY <1>0, <2>2
    <3>b. next' = 1 /\ Len(object'.symbols) = m
      BY <2>1
    <3> HIDE DEF m, k
    <3>c. 1 \in 1 .. m + k + 1 /\ k <= 9
      BY <3>a
    <3>1. next' \in 1 .. Len(object'.symbols) + Len(secs') + 1 /\ Len(secs') <= 9
      BY <3>b, <3>c DEF k
    <3> QED
      BY <1>0, <2>1, <2>2, <2>3, <3>1 DEF ElfTypeOK
  <2>5. LoadedBuilt'
    <3>1. LoadedBuilt
      BY <2>1 DEF HeadersInv
    <3>2. Len(shstrtab') = Len(secs')
      BY <2>2 DEF TablesBuilt
    <3> QED
      BY <2>1, <2>2, <3>1, <3>2, SMTT(30) DEF LoadedBuilt, Base
  <2>6. HeadersInv'
    BY <2>1, <2>2, <2>5 DEF HeadersInv
  <2> QED
    BY <2>4, <2>6
<1>4. CASE Place
  <2>1. /\ stage' = "layout" /\ stage = "layout" /\ next' = next + 1 /\ object' = object
        /\ shstrtab' = shstrtab /\ strtab' = strtab /\ syms' = syms /\ header' = header /\ file' = file
        /\ next <= Len(secs)
    BY <1>4 DEF Place
  <2>2. /\ secs' \in Seq(SecHeader) /\ Len(secs') = Len(secs) /\ offset' \in Nat
        /\ \A i \in DOMAIN secs : secs'[i] = [secs[i] EXCEPT !.offset = secs'[i].offset]
    BY <1>4, PlaceEffect
  <2>3. ElfTypeOK'
    BY <1>0, <2>1, <2>2 DEF ElfTypeOK
  <2>4. LoadedBuilt /\ TablesBuilt
    BY <2>1 DEF HeadersInv
  <2>5. Len(secs) \in {8, 9} /\ DOMAIN secs = 1 .. Len(secs)
    BY <1>0, <2>4, LenProperties DEF TablesBuilt
  <2>6. \A i \in 1 .. Len(secs) :
          /\ secs'[i].type = secs[i].type /\ secs'[i].alloc = secs[i].alloc /\ secs'[i].addr = secs[i].addr
          /\ secs'[i].size = secs[i].size /\ secs'[i].align = secs[i].align /\ secs'[i].link = secs[i].link
          /\ secs'[i].info = secs[i].info /\ secs'[i].name_off = secs[i].name_off
    <3> SUFFICES ASSUME NEW i \in 1 .. Len(secs)
                 PROVE  /\ secs'[i].type = secs[i].type /\ secs'[i].alloc = secs[i].alloc
                        /\ secs'[i].addr = secs[i].addr /\ secs'[i].size = secs[i].size
                        /\ secs'[i].align = secs[i].align /\ secs'[i].link = secs[i].link
                        /\ secs'[i].info = secs[i].info /\ secs'[i].name_off = secs[i].name_off
      OBVIOUS
    <3>1. secs'[i] = [secs[i] EXCEPT !.offset = secs'[i].offset]
      BY <2>2, <2>5
    <3>2. secs[i] \in SecHeader
      BY <1>0, ElementOfSeq
    <3> QED
      BY <3>1, <3>2 DEF SecHeader
  <2>7. LoadedBuilt'
    BY <2>1, <2>4, <2>5, <2>6, SMTT(30) DEF LoadedBuilt, Base
  <2>8. TablesBuilt'
    <3> DEFINE n == IF object.relocs > 0 THEN 9 ELSE 8
    <3>1. EndOf(shstrtab)' = EndOf(shstrtab) /\ n' = n
      BY <2>1
    <3>2. /\ Len(secs) = n /\ Len(shstrtab) = n /\ header.shstrndx = n - 1
          /\ \A i \in 6 .. n : ~secs[i].alloc /\ secs[i].align \in {1, 8}
                               /\ secs[i].type \notin {"null", "nobits", "progbits"}
                               /\ secs[i].name_off # 0
      BY <2>4 DEF TablesBuilt
    <3>3. /\ Len(secs') = n /\ Len(shstrtab') = n /\ header'.shstrndx = n - 1
          /\ \A i \in 6 .. n : ~secs'[i].alloc /\ secs'[i].align \in {1, 8}
                               /\ secs'[i].type \notin {"null", "nobits", "progbits"}
                               /\ secs'[i].name_off # 0
      BY <2>1, <2>2, <2>6, <3>2
    <3>4. 6 \in 1 .. Len(secs) /\ 7 \in 1 .. Len(secs) /\ n \in 1 .. Len(secs)
          /\ (object.relocs > 0 => 8 \in 1 .. Len(secs))
      BY <2>5, <3>2
    <3>5. /\ secs'[6].type = "symtab" /\ secs'[6].link = 6 /\ secs'[6].info = 1
          /\ secs'[7].type = "strtab" /\ secs'[n].type = "strtab" /\ secs'[n].size = EndOf(shstrtab)
          /\ object.relocs > 0 => secs'[8].type = "rela" /\ secs'[8].link = 5 /\ secs'[8].info = 1
      <4> HIDE DEF n
      <4> QED
        BY <2>4, <2>6, <3>4 DEF TablesBuilt, n
    <3>6. /\ shstrtab'[6] = [name |-> ".symtab", off |-> secs'[6].name_off]
          /\ shstrtab'[7] = [name |-> ".strtab", off |-> secs'[7].name_off]
          /\ object.relocs > 0 => shstrtab'[8] = [name |-> ".rela.text", off |-> secs'[8].name_off]
          /\ shstrtab'[n] = [name |-> ".shstrtab", off |-> secs'[n].name_off]
      BY <2>1, <2>4, <2>6, <3>4 DEF TablesBuilt
    <3> QED
      BY <2>1, <3>1, <3>3, <3>5, <3>6 DEF TablesBuilt
  <2>9. HeadersInv'
    BY <2>1, <2>2, <2>5, <2>7, <2>8 DEF HeadersInv
  <2> QED
    BY <2>3, <2>9
<1> DEFINE Fixed == /\ object' = object /\ secs' = secs /\ shstrtab' = shstrtab /\ strtab' = strtab
                    /\ syms' = syms /\ offset' = offset
                    /\ stage \notin {"sections", "symbols"} /\ stage' \notin {"sections", "symbols"}
                    /\ stage' \in {"segment", "write", "done"}
                    /\ header' \in HeaderSet /\ header'.shstrndx = header.shstrndx
                    /\ file' \in Seq(FilePiece) /\ next' \in 1 .. Len(object.symbols) + Len(secs) + 1
<1>5. ASSUME Fixed PROVE ElfTypeOK' /\ HeadersInv'
  <2>1. ElfTypeOK'
    BY <1>0, <1>5 DEF ElfTypeOK
  <2>2. HeadersInv'
    BY <1>5 DEF HeadersInv, LoadedBuilt, TablesBuilt, Base
  <2> QED
    BY <2>1, <2>2
<1>6. CASE WriteHeader
  <2>1. file' \in Seq(FilePiece)
    <3>1. WriteFrom(<<"ehdr">>, EhdrSize, 0) /\ EhdrSize \in Nat /\ 0 \in Nat
      BY <1>6 DEF WriteHeader, EhdrSize
    <3> QED
      BY <1>0, <3>1, WriteEffect, ContentsFacts
  <2>2. EntryAddr \in Nat /\ AlignUp(offset, 8) \in Nat
    BY <1>0, EntryType, AlignUpFacts
  <2>3. header' = [header EXCEPT !.entry = EntryAddr, !.shoff = AlignUp(offset, 8)]
    BY <1>6 DEF WriteHeader
  <2>4. header' \in HeaderSet /\ header'.shstrndx = header.shstrndx
    BY <1>0, <2>2, <2>3
  <2>5. Fixed
    BY <1>0, <1>6, <2>1, <2>4, SMTT(30) DEF WriteHeader
  <2> HIDE DEF Fixed
  <2> QED
    BY <1>5, <2>5
<1>7. CASE WriteSegment
  <2>1. file' \in Seq(FilePiece)
    <3>1. WriteFrom(<<"phdr">>, PhdrSize, 0) /\ PhdrSize \in Nat /\ 0 \in Nat
      BY <1>7 DEF WriteSegment, PhdrSize
    <3> QED
      BY <1>0, <3>1, WriteEffect, ContentsFacts
  <2>2. stage = "segment" /\ stage' = "write"
    BY <1>7 DEF WriteSegment
  <2>3. SegmentOf \in SegHeader
    BY <2>2, SegmentType
  <2>4. header' = [header EXCEPT !.segment = SegmentOf]
    BY <1>7 DEF WriteSegment
  <2>5. header' \in HeaderSet /\ header'.shstrndx = header.shstrndx
    BY <1>0, <2>3, <2>4
  <2>6. Fixed
    BY <1>0, <1>7, <2>1, <2>5 DEF WriteSegment
  <2> HIDE DEF Fixed
  <2> QED
    BY <1>5, <2>6
<1>8. CASE WriteSection
  <2>1. file' \in Seq(FilePiece)
    <3>1. CASE ~InFile(secs[next])
      BY <1>0, <1>8, <3>1 DEF WriteSection
    <3>2. CASE InFile(secs[next])
      <4>1. /\ WriteFrom(<<"section", next - 1>>, secs[next].size, secs[next].offset)
            /\ next \in 1 .. Len(secs)
        BY <1>0, <1>8, <3>2 DEF WriteSection
      <4>2. secs[next].size \in Nat /\ secs[next].offset \in Nat
        BY <1>0, <4>1, ElementOfSeq, SecFields
      <4>3. <<"section", next - 1>> \in Contents
        <5>1. next - 1 \in 0 .. 8
          BY <1>0, <4>1
        <5> QED
          BY <5>1, ContentsFacts, Zenon
      <4> QED
        BY <1>0, <4>1, <4>2, <4>3, WriteEffect
    <3> QED
      BY <3>1, <3>2
  <2>2. Fixed
    BY <1>0, <1>8, <2>1, SMTT(30) DEF WriteSection
  <2> HIDE DEF Fixed
  <2> QED
    BY <1>5, <2>2
<1>9. CASE WriteHeaders
  <2>1. file' \in Seq(FilePiece)
    <3>1. WriteFrom(<<"shdrs">>, 64 * Len(secs), header.shoff)
      BY <1>9 DEF WriteHeaders
    <3>2. 64 * Len(secs) \in Nat /\ header.shoff \in Nat
      BY <1>0
    <3> QED
      BY <1>0, <3>1, <3>2, WriteEffect, ContentsFacts
  <2>2. Fixed
    BY <1>0, <1>9, <2>1 DEF WriteHeaders
  <2> HIDE DEF Fixed
  <2> QED
    BY <1>5, <2>2
<1>10. CASE UNCHANGED elf_vars
  BY <1>10 DEF elf_vars, ElfTypeOK, HeadersInv, LoadedBuilt, TablesBuilt, Base
<1> QED
  BY <1>1, <1>2, <1>3, <1>4, <1>6, <1>7, <1>8, <1>9, <1>10 DEF ElfStep, ElfReturned

-------------------------------------------------------------------------------
(* The symbols.                                                              *)

LEMMA PlaceKeeps ==
  ASSUME ElfTypeOK, HeadersInv, Place
  PROVE  \A i \in DOMAIN secs :
           /\ secs'[i].type = secs[i].type /\ secs'[i].addr = secs[i].addr /\ secs'[i].size = secs[i].size
           /\ InFile(secs'[i]) <=> InFile(secs[i])
<1> SUFFICES ASSUME NEW i \in DOMAIN secs
             PROVE  /\ secs'[i].type = secs[i].type /\ secs'[i].addr = secs[i].addr
                    /\ secs'[i].size = secs[i].size
  BY DEF InFile
<1>1. secs'[i] = [secs[i] EXCEPT !.offset = secs'[i].offset]
  BY PlaceEffect
<1>2. secs[i] \in SecHeader
  BY ElementOfSeq, LenProperties DEF ElfTypeOK
<1> QED
  BY <1>1, <1>2 DEF SecHeader

LEMMA SymbolsStep ==
  ASSUME ElfTypeOK, HeadersInv, SymbolsInv, [ElfStep \/ ElfReturned]_elf_vars
  PROVE  SymbolsInv'
<1>0. /\ Len(secs) \in Nat /\ DOMAIN secs = 1 .. Len(secs) /\ next \in Nat \ {0} /\ Len(object.symbols) \in Nat
      /\ strtab \in Seq(TabString) /\ Len(strtab) \in Nat /\ Len(syms) \in Nat
  BY LenProperties, ObjectFacts DEF ElfTypeOK
<1>1. CASE PushSections
  <2>1. stage' = "symbols" /\ next' = 1 /\ strtab' = strtab /\ strtab = <<>> /\ object' = object
    BY <1>1 DEF PushSections, HeadersInv
  <2>2. Len(syms') = 5 /\ \A i \in 1 .. 5 : ~syms'[i].global
    BY <1>1, PushSectionsEffect
  <2>3. Len(strtab') = 0
    BY <2>1
  <2> QED
    BY <1>0, <2>1, <2>2, <2>3 DEF SymbolsInv
<1>2. CASE AddSymbol
  <2> DEFINE gs == object.symbols[next]   n == Len(strtab)
  <2>1. /\ stage = "symbols" /\ stage' = "symbols" /\ next' = next + 1 /\ object' = object /\ secs' = secs
        /\ next <= Len(object.symbols)
    BY <1>2 DEF AddSymbol
  <2>2. /\ n = next - 1 /\ Len(syms) = 5 + n /\ \A i \in 1 .. 5 : ~syms[i].global
    BY <2>1 DEF SymbolsInv
  <2>3. /\ Len(strtab') = n + 1 /\ \A i \in 1 .. n : strtab'[i] = strtab[i]
        /\ Len(syms') = Len(syms) + 1 /\ \A i \in 1 .. Len(syms) : syms'[i] = syms[i]
        /\ strtab'[n + 1] = [name |-> gs.name, off |-> syms'[Len(syms) + 1].st_name]
        /\ n >= 1 => syms'[Len(syms) + 1].st_name # 0
        /\ syms'[Len(syms) + 1].shndx = gs.section_idx
        /\ syms'[Len(syms) + 1].value
             = gs.value + IF object.is_exec THEN secs[gs.section_idx + 1].addr ELSE 0
    BY <1>2, AddSymbolEffect
  <2>4. gs.section_idx \in 1 .. 4
    <3>1. next \in 1 .. Len(object.symbols) /\ object \in Objects
      BY <1>0, <2>1 DEF ElfTypeOK
    <3> QED
      BY <3>1, ObjectFacts
  <2>5. n + 1 = next /\ Len(syms) + 1 = 5 + next /\ n \in Nat
    BY <1>0, <2>2
  <2> DEFINE Ok(i) == /\ strtab'[i] = [name |-> object.symbols[i].name, off |-> syms'[5 + i].st_name]
                      /\ i > 1 => syms'[5 + i].st_name # 0
                      /\ syms'[5 + i].shndx \in 1 .. 4
                      /\ syms'[5 + i].value = object.symbols[i].value
                              + IF object.is_exec THEN secs[syms'[5 + i].shndx + 1].addr ELSE 0
  <2>6. Ok(next)
    BY <2>3, <2>4, <2>5
  <2>7. ASSUME NEW i \in 1 .. n PROVE Ok(i)
    <3>0. 5 + i \in 1 .. Len(syms)
      BY <2>2, <2>5
    <3>1. strtab'[i] = strtab[i] /\ syms'[5 + i] = syms[5 + i]
      <4> HIDE DEF n
      <4> QED
        BY <2>3, <3>0
    <3>2. /\ strtab[i] = [name |-> object.symbols[i].name, off |-> syms[5 + i].st_name]
          /\ i > 1 => syms[5 + i].st_name # 0
          /\ syms[5 + i].shndx \in 1 .. 4
          /\ syms[5 + i].value = object.symbols[i].value
                              + IF object.is_exec THEN secs[syms[5 + i].shndx + 1].addr ELSE 0
      BY DEF SymbolsInv
    <3> QED
      BY <3>1, <3>2
  <2>8. \A i \in 1 .. Len(strtab') : Ok(i)
    <3>1. \A i \in 1 .. n + 1 : i \in 1 .. n \/ i = next
      BY <2>5
    <3> HIDE DEF Ok
    <3> QED
      BY <2>3, <2>6, <2>7, <3>1
  <2>9. \A i \in 1 .. 5 : ~syms'[i].global
    BY <1>0, <2>2, <2>3
  <2>10. Len(syms') = 5 + Len(strtab') /\ Len(strtab') = next' - 1 /\ next' <= Len(object'.symbols) + 1
    BY <1>0, <2>1, <2>2, <2>3
  <2> QED
    BY <2>1, <2>8, <2>9, <2>10 DEF SymbolsInv
<1>3. ASSUME strtab' = strtab, syms' = syms, object' = object, stage # "sections", stage' # "sections",
             stage' = "symbols" => stage = "symbols" /\ next' = next,
             stage = "symbols" /\ stage' # "symbols" => next > Len(object.symbols),
             \A i \in 2 .. 5 : secs'[i].addr = secs[i].addr
      PROVE  SymbolsInv'
  <2>1. stage = "symbols" /\ stage' # "symbols" => Len(strtab) = Len(object.symbols)
    BY <1>0, <1>3 DEF SymbolsInv
  <2>2. \A k \in 1 .. 4 : secs'[k + 1].addr = secs[k + 1].addr
    BY <1>3
  <2>3. \A i \in 1 .. Len(strtab) :
           syms[5 + i].shndx \in 1 .. 4 => secs'[syms[5 + i].shndx + 1].addr = secs[syms[5 + i].shndx + 1].addr
    BY <2>2
  <2> QED
    BY <1>3, <2>1, <2>3 DEF SymbolsInv
<1>4. CASE PushTables
  <2>1. \A i \in 1 .. 5 : secs'[i] = secs[i]
    BY <1>4, PushTablesEffect
  <2>2. \A i \in 2 .. 5 : secs'[i].addr = secs[i].addr
    BY <2>1
  <2> QED
    BY <1>3, <1>4, <2>2 DEF PushTables
<1>5. CASE Place
  <2>1. stage = "layout"
    BY <1>5 DEF Place
  <2>2. \A i \in 2 .. 5 : secs'[i].addr = secs[i].addr
    BY <1>0, <1>5, <2>1, PlaceKeeps, LoadedAre, SMTT(30)
  <2> QED
    BY <1>3, <1>5, <2>2 DEF Place
<1>6. CASE WriteHeader \/ WriteSegment \/ WriteSection \/ WriteHeaders
  <2>1. secs' = secs
    BY <1>6 DEF WriteHeader, WriteSegment, WriteSection, WriteHeaders
  <2> QED
    BY <1>3, <1>6, <2>1 DEF WriteHeader, WriteSegment, WriteSection, WriteHeaders
<1>7. CASE UNCHANGED elf_vars
  BY <1>7 DEF elf_vars, SymbolsInv
<1> QED
  BY <1>1, <1>2, <1>4, <1>5, <1>6, <1>7 DEF ElfStep, ElfReturned

-------------------------------------------------------------------------------
(* The layout.                                                               *)

LEMMA AlignShift ==
  ASSUME NEW b \in Nat, b % 8 = 0, NEW h \in Nat, h % 8 = 0, NEW o \in Nat, h <= o
  PROVE  AlignUp(b + (o - h), 8) - b = AlignUp(o, 8) - h
BY DEF AlignUp

LEMMA AlignedStays == ASSUME NEW n \in Nat, n % 8 = 0 PROVE AlignUp(n, 8) = n
BY DEF AlignUp

LEMMA LayoutStep ==
  ASSUME ElfTypeOK, HeadersInv, LayoutInv, [ElfStep \/ ElfReturned]_elf_vars
  PROVE  LayoutInv'
<1>0. /\ Len(secs) \in Nat /\ DOMAIN secs = 1 .. Len(secs) /\ next \in Nat \ {0} /\ offset \in Nat
      /\ secs \in Seq(SecHeader) /\ HeaderEnd \in Nat /\ object.is_exec \in BOOLEAN
  BY LenProperties, ObjectFacts DEF ElfTypeOK, HeaderEnd, EhdrSize, PhdrSize
<1>1. CASE PushSections
  <2>1. stage' = "symbols"
    BY <1>1 DEF PushSections
  <2>2. DOMAIN secs' = 1 .. 5 /\ \A i \in 1 .. 5 : secs'[i].offset = 0
    BY <1>1, PushSectionsEffect, LenProperties
  <2> QED
    BY <2>1, <2>2 DEF LayoutInv
<1>2. CASE AddSymbol
  <2>1. stage' = "symbols" /\ stage = "symbols" /\ secs' = secs
    BY <1>2 DEF AddSymbol
  <2> QED
    BY <2>1 DEF LayoutInv, PlacedUpTo
<1>3. CASE PushTables
  <2>1. /\ stage' = "layout" /\ stage = "symbols" /\ next' = 1 /\ object' = object /\ offset' = HeaderEnd
    BY <1>3 DEF PushTables, HeaderEnd
  <2>2. /\ secs' \in Seq(SecHeader) /\ \A i \in 1 .. 5 : secs'[i] = secs[i]
        /\ Len(secs) = 5 /\ Len(secs') \in {8, 9}
        /\ \A i \in 6 .. Len(secs') : secs'[i].offset = 0
    BY <1>3, PushTablesEffect
  <2>3. DOMAIN secs' = 1 .. Len(secs') /\ \A i \in 1 .. Len(secs') : i \in 1 .. 5 \/ i \in 6 .. Len(secs')
    BY <2>2, LenProperties
  <2>4. \A i \in 1 .. 5 : secs[i].offset = 0
    BY <1>0, <2>1, <2>2 DEF LayoutInv, PlacedUpTo
  <2>5. \A i \in DOMAIN secs' : secs'[i].offset = 0
    BY <2>2, <2>3, <2>4
  <2>6. PlacedUpTo' = 0 /\ HeaderEnd' = HeaderEnd
    BY <2>1 DEF PlacedUpTo, HeaderEnd
  <2>7. \A i \in DOMAIN secs' : ~(i <= 0)
    BY <2>3
  <2>8. \A i \in 2 .. 4 : ~(i <= 0)
    OBVIOUS
  <2> QED
    BY <1>0, <2>1, <2>5, <2>6, <2>7, <2>8 DEF LayoutInv
<1>4. CASE Place
  <2> DEFINE n == next   at == secs'[n].offset
  <2>1. /\ stage = "layout" /\ stage' = "layout" /\ next' = next + 1 /\ object' = object /\ n \in 1 .. Len(secs)
    BY <1>0, <1>4 DEF Place
  <2>2. /\ secs' \in Seq(SecHeader) /\ Len(secs') = Len(secs) /\ offset' \in Nat /\ DOMAIN secs' = DOMAIN secs
        /\ \A i \in DOMAIN secs : i # n => secs'[i] = secs[i]
        /\ InFile(secs[n]) =>
              /\ secs[n].align \in {1, 4, 8}
              /\ at = AlignUp(offset, secs[n].align)
              /\ offset' = AlignUp(offset, secs[n].align) + secs[n].size
        /\ ~InFile(secs[n]) => secs'[n] = secs[n] /\ offset' = offset
    BY <1>0, <1>4, PlaceEffect, LenProperties
  <2>3. \A i \in DOMAIN secs : /\ secs'[i].addr = secs[i].addr /\ secs'[i].size = secs[i].size
                               /\ InFile(secs'[i]) <=> InFile(secs[i])
    BY <1>4, PlaceKeeps
  <2>4. PlacedUpTo = n - 1 /\ PlacedUpTo' = n /\ HeaderEnd' = HeaderEnd
    BY <1>0, <2>1 DEF PlacedUpTo, HeaderEnd
  <2>5. /\ LoadedBuilt /\ Len(secs) \in {8, 9} /\ Loaded = 2 .. 5
        /\ \A i \in 2 .. 5 : secs[i].offset \in Nat /\ secs[i].addr \in Nat /\ secs[i].size \in Nat
    BY <2>1, LoadedAre DEF HeadersInv
  <2>6. \A i \in DOMAIN secs : secs[i].offset \in Nat /\ secs[i].size \in Nat
    BY <1>0, ElementOfSeq, SecFields
  <2>7. InFile(secs[n]) => /\ at \in Nat /\ offset <= at /\ offset' = at + secs[n].size
    BY <1>0, <2>2, AlignUpFacts
  <2>8. ~InFile(secs[n]) => at = secs[n].offset /\ secs[n].offset = 0
    BY <1>0, <2>1, <2>2 DEF LayoutInv
  <2>9. /\ HeaderEnd <= offset
        /\ \A i \in DOMAIN secs : i > n - 1 \/ ~InFile(secs[i]) => secs[i].offset = 0
        /\ \A i \in DOMAIN secs : i <= n - 1 /\ InFile(secs[i]) =>
             HeaderEnd <= secs[i].offset /\ secs[i].offset + secs[i].size <= offset
        /\ \A i, j \in DOMAIN secs : i < j /\ j <= n - 1 /\ InFile(secs[i]) /\ InFile(secs[j]) =>
             secs[i].offset + secs[i].size <= secs[j].offset
    BY <2>1, <2>4 DEF LayoutInv
  <2>10. offset <= offset' /\ HeaderEnd <= offset'
    BY <1>0, <2>1, <2>2, <2>6, <2>7, <2>9
  <2>11. \A i \in DOMAIN secs : i > n \/ ~InFile(secs[i]) => secs'[i].offset = 0
    BY <1>0, <2>1, <2>2, <2>8, <2>9
  <2>12. \A i \in DOMAIN secs : i <= n /\ InFile(secs[i]) =>
             HeaderEnd <= secs'[i].offset /\ secs'[i].offset + secs[i].size <= offset'
    <3> SUFFICES ASSUME NEW i \in DOMAIN secs, i <= n, InFile(secs[i])
                 PROVE  HeaderEnd <= secs'[i].offset /\ secs'[i].offset + secs[i].size <= offset'
      OBVIOUS
    <3>1. CASE i = n
      BY <1>0, <2>6, <2>7, <2>9, <3>1
    <3>2. CASE i # n
      BY <1>0, <2>1, <2>2, <2>6, <2>9, <2>10, <3>2
    <3> QED
      BY <3>1, <3>2
  <2>13. \A i, j \in DOMAIN secs : i < j /\ j <= n /\ InFile(secs[i]) /\ InFile(secs[j]) =>
             secs'[i].offset + secs[i].size <= secs'[j].offset
    <3> SUFFICES ASSUME NEW i \in DOMAIN secs, NEW j \in DOMAIN secs, i < j, j <= n,
                        InFile(secs[i]), InFile(secs[j])
                 PROVE  secs'[i].offset + secs[i].size <= secs'[j].offset
      OBVIOUS
    <3>1. i # n /\ i <= n - 1 /\ secs'[i] = secs[i]
      BY <1>0, <2>1, <2>2
    <3>2. CASE j = n
      BY <1>0, <2>2, <2>6, <2>7, <2>9, <3>1, <3>2
    <3>3. CASE j # n
      BY <1>0, <2>1, <2>2, <2>9, <3>1, <3>3
    <3> QED
      BY <3>2, <3>3
  <2>15. 3 \in DOMAIN secs /\ 4 \in DOMAIN secs /\ \A i \in 2 .. 4 : i \in DOMAIN secs
    <3>1. DOMAIN secs = 1 .. Len(secs)
      BY <1>0
    <3> QED
      BY <2>5, <3>1
  <2>14. ASSUME object.is_exec
         PROVE  /\ n <= 1 => offset' = HeaderEnd
                /\ n \in 2 .. 3 => After(BaseAddr, offset' - HeaderEnd) = secs[n + 1].addr
                /\ \A i \in 2 .. 4 : i <= n /\ InFile(secs[i]) =>
                     secs'[i].offset - HeaderEnd = secs[i].addr - BaseAddr
    <3>1. /\ n - 1 <= 1 => offset = HeaderEnd
          /\ n - 1 \in 2 .. 3 => After(BaseAddr, offset - HeaderEnd) = secs[n].addr
          /\ \A i \in 2 .. 4 : i <= n - 1 /\ InFile(secs[i]) =>
                secs[i].offset - HeaderEnd = secs[i].addr - BaseAddr
      <4>1. (n - 1) + 1 = n
        BY <1>0
      <4> QED
        BY <2>1, <2>4, <2>14, <4>1 DEF LayoutInv
    <3>2. HeaderEnd = 120 /\ BaseAddr \in Nat /\ BaseAddr % 8 = 0 /\ 120 % 8 = 0
      BY <2>14, SizesAssumption DEF HeaderEnd, EhdrSize, PhdrSize
    <3>3. /\ secs[2].addr = BaseAddr /\ secs[2].align = 4 /\ secs[3].align = 8 /\ secs[4].align = 8
          /\ secs[3].addr = After(secs[2].addr, secs[2].size)
          /\ secs[4].addr = After(secs[3].addr, secs[3].size)
          /\ secs[2].type = "progbits" /\ secs[3].type = "progbits" /\ secs[4].type = "progbits"
          /\ secs[1].type = "null"
      BY <2>5, <2>14 DEF LoadedBuilt, Base
    <3>4. /\ ~InFile(secs[1])
          /\ ~InFile(secs[2]) => secs[2].size = 0
          /\ ~InFile(secs[3]) => secs[3].size = 0
      BY <2>5, <3>3 DEF InFile
    <3>5. n <= 1 => offset' = HeaderEnd
      <4>1. n <= 1 => n = 1
        BY <2>1
      <4> QED
        BY <2>2, <3>1, <3>4, <4>1
    <3>6. CASE n = 2
      <4>1. offset = 120
        BY <3>1, <3>2, <3>6
      <4>2. CASE InFile(secs[2])
        <5>1. at = 120
          BY <2>2, <3>3, <3>6, <4>1, <4>2 DEF AlignUp
        <5>2. offset' - HeaderEnd = secs[2].size
          BY <2>5, <2>7, <3>2, <3>6, <4>2, <5>1
        <5> QED
          BY <3>2, <3>3, <3>6, <5>1, <5>2
      <4>3. CASE ~InFile(secs[2])
        <5>1. offset' - HeaderEnd = 0 /\ secs[2].size = 0
          BY <2>2, <3>2, <3>4, <3>6, <4>1, <4>3
        <5> QED
          BY <3>3, <3>6, <4>3, <5>1
      <4> QED
        BY <4>2, <4>3
    <3>7. CASE n = 3 \/ n = 4
      <4>1. After(BaseAddr, offset - HeaderEnd) = secs[n].addr
        BY <3>1, <3>7
      <4>2. AlignUp(BaseAddr + (offset - HeaderEnd), 8) = secs[n].addr
        BY <4>1 DEF After
      <4>3. secs[n].addr - BaseAddr = AlignUp(offset, 8) - HeaderEnd
        <5> DEFINE b == BaseAddr   h == HeaderEnd   o == offset
        <5>1. b \in Nat /\ b % 8 = 0 /\ h \in Nat /\ h % 8 = 0 /\ o \in Nat /\ h <= o
          BY <1>0, <2>9, <3>2
        <5>2. AlignUp(b + (o - h), 8) = secs[n].addr
          BY <4>2
        <5> HIDE DEF b, h, o
        <5>3. AlignUp(b + (o - h), 8) - b = AlignUp(o, 8) - h
          BY <5>1, AlignShift
        <5>4. secs[n].addr - b = AlignUp(o, 8) - h
          BY <5>2, <5>3
        <5> QED
          BY <5>4 DEF b, h, o
      <4>4. InFile(secs[n]) => at - HeaderEnd = secs[n].addr - BaseAddr
        BY <2>2, <3>3, <3>7, <4>3
      <4>5. \A i \in 2 .. 4 : i <= n /\ InFile(secs[i]) => secs'[i].offset - HeaderEnd = secs[i].addr - BaseAddr
        <5>1. \A i \in 2 .. 4 : i <= n => i = n \/ (i <= n - 1 /\ i # n /\ i \in DOMAIN secs)
          BY <1>0, <2>1, <2>5
        <5> QED
          BY <2>2, <3>1, <4>4, <5>1
      <4>6. n = 3 => After(BaseAddr, offset' - HeaderEnd) = secs[4].addr
        <5>0. secs[3].addr \in Nat /\ secs[3].size \in Nat
          BY <2>5
        <5>1. CASE n = 3 /\ InFile(secs[3])
          <6>1. BaseAddr + (offset' - HeaderEnd) = secs[3].addr + secs[3].size
            BY <2>7, <3>2, <4>4, <5>0, <5>1
          <6> QED
            BY <3>3, <6>1 DEF After
        <5>2. CASE n = 3 /\ ~InFile(secs[3])
          <6>1. secs[3].addr % 8 = 0
            <7>1. secs[2].addr \in Nat /\ secs[2].size \in Nat
              BY <2>5
            <7> DEFINE a == secs[2].addr   z == secs[2].size
            <7>2. a \in Nat /\ z \in Nat /\ secs[3].addr = After(a, z)
              BY <3>3, <7>1
            <7> HIDE DEF a, z
            <7>3. After(a, z) % 8 = 0
              BY <7>2, AfterFacts
            <7> QED
              BY <7>2, <7>3
          <6>2. secs[4].addr = secs[3].addr
            BY <3>3, <3>4, <5>0, <5>2, <6>1, AlignedStays DEF After
          <6>3. After(BaseAddr, offset' - HeaderEnd) = secs[3].addr
            BY <2>2, <4>1, <5>2
          <6> QED
            BY <6>2, <6>3
        <5> QED
          BY <5>1, <5>2
      <4> QED
        BY <3>5, <3>7, <4>5, <4>6
    <3>8. CASE n \notin {2, 3, 4}
      <4>1. \A i \in 2 .. 4 : i <= n => i <= n - 1 /\ i # n /\ i \in DOMAIN secs
        <5>1. n \in Nat /\ \A i \in 2 .. 4 : i # n
          BY <2>1, <3>8
        <5>2. \A i \in 2 .. 4 : i <= n => i <= n - 1
          BY <5>1
        <5>3. \A i \in 2 .. 4 : i \in DOMAIN secs
          BY <2>15
        <5> QED
          BY <5>1, <5>2, <5>3
      <4>2. \A i \in 2 .. 4 : i <= n /\ InFile(secs[i]) => secs'[i].offset - HeaderEnd = secs[i].addr - BaseAddr
        BY <2>2, <3>1, <4>1
      <4>3. n \notin 2 .. 3
        BY <3>8
      <4> QED
        BY <3>5, <4>2, <4>3
    <3> QED
      BY <3>6, <3>7, <3>8
  <2>16. n \in 2 .. 3 => secs'[n + 1].addr = secs[n + 1].addr
    BY <2>3, <2>15
  <2>17. object'.is_exec =>
           /\ n <= 1 => offset' = HeaderEnd
           /\ n \in 2 .. 3 => After(BaseAddr, offset' - HeaderEnd) = secs'[n + 1].addr
           /\ \A i \in 2 .. 4 : i <= n /\ InFile(secs'[i]) =>
                secs'[i].offset - HeaderEnd = secs'[i].addr - BaseAddr
    BY <2>1, <2>3, <2>14, <2>15, <2>16
  <2> QED
    BY <2>1, <2>2, <2>3, <2>4, <2>10, <2>11, <2>12, <2>13, <2>17 DEF LayoutInv
<1>5. ASSUME secs' = secs, object' = object, offset' = offset,
             stage \notin {"sections", "symbols"}, stage' \notin {"sections", "symbols", "layout"},
             stage = "layout" => next > Len(secs)
      PROVE  LayoutInv'
  <2>1. PlacedUpTo >= Len(secs) /\ PlacedUpTo' = Len(secs) /\ HeaderEnd' = HeaderEnd /\ PlacedUpTo \in Nat
    BY <1>0, <1>5 DEF PlacedUpTo, HeaderEnd
  <2>2. \A i \in DOMAIN secs : i <= PlacedUpTo /\ i <= PlacedUpTo'
    BY <1>0, <2>1
  <2>3. Len(secs) \in {8, 9}
    BY <1>5, LoadedAre
  <2>4. PlacedUpTo > 5 /\ PlacedUpTo' > 5 /\ \A i \in 2 .. 4 : i <= PlacedUpTo /\ i <= PlacedUpTo'
    <3> DEFINE p == PlacedUpTo   q == PlacedUpTo'   k == Len(secs)
    <3>1. p \in Nat /\ p >= k /\ q = k /\ k \in {8, 9}
      BY <2>1, <2>3
    <3> HIDE DEF p, q, k
    <3>2. p > 5 /\ q > 5 /\ \A i \in 2 .. 4 : i <= p /\ i <= q
      BY <3>1
    <3> QED
      BY <3>2 DEF p, q
  <2>5. \A i \in DOMAIN secs : ~(i > PlacedUpTo) /\ ~(i > PlacedUpTo')
    BY <1>0, <2>1
  <2>6. ~(PlacedUpTo' <= 1) /\ PlacedUpTo' \notin 2 .. 3
    <3> DEFINE q == PlacedUpTo'
    <3>1. q > 5 /\ q \in Nat
      BY <1>0, <2>1, <2>4
    <3> HIDE DEF q
    <3>2. ~(q <= 1) /\ q \notin 2 .. 3
      BY <3>1
    <3> QED
      BY <3>2 DEF q
  <2> QED
    BY <1>5, <2>1, <2>2, <2>4, <2>5, <2>6 DEF LayoutInv
<1>6. CASE WriteHeader \/ WriteSegment \/ WriteSection \/ WriteHeaders
  BY <1>5, <1>6 DEF WriteHeader, WriteSegment, WriteSection, WriteHeaders
<1>7. CASE UNCHANGED elf_vars
  BY <1>7 DEF elf_vars, LayoutInv, PlacedUpTo, HeaderEnd
<1> QED
  BY <1>1, <1>2, <1>3, <1>4, <1>6, <1>7 DEF ElfStep, ElfReturned

-------------------------------------------------------------------------------
(* The file.                                                                 *)

LEMMA EmptyFileEnd == ASSUME file = <<>> PROVE FileEnd = 0
BY DEF FileEnd

LEMMA FileEndIs ==
  ASSUME file \in Seq(FilePiece), Len(file) >= 1
  PROVE  FileEnd = file[Len(file)].at + file[Len(file)].size
<1>1. file # <<>>
  BY EmptySeq
<1> QED
  BY <1>1 DEF FileEnd, Last

LEMMA ContentsDiffer ==
  /\ <<"ehdr">> # <<"phdr">> /\ <<"ehdr">> # <<"shdrs">> /\ <<"phdr">> # <<"shdrs">>
  /\ \A i \in 0 .. 8 : /\ <<"section", i>> # <<"ehdr">> /\ <<"section", i>> # <<"phdr">>
                       /\ <<"section", i>> # <<"shdrs">>
                       /\ \A k \in 0 .. 8 : <<"section", i>> = <<"section", k>> => i = k
OBVIOUS

(* A piece that is not in the file yet.                                      *)
LEMMA PieceAdded ==
  ASSUME file \in Seq(FilePiece), NEW what \in Contents, NEW size \in Nat, NEW from \in Nat,
         WriteFrom(what, size, from), Distinct, Ordered, Fresh(what)
  PROVE  /\ Distinct' /\ Ordered'
         /\ \A j \in DOMAIN file : j \in DOMAIN file' /\ file'[j] = file[j]
         /\ \A j \in DOMAIN file' : file'[j].what = what \/ (j \in DOMAIN file /\ file'[j] = file[j])
         /\ Len(file) + 1 \in DOMAIN file' /\ Len(file') = Len(file) + 1
         /\ FileEnd <= from =>
               /\ file'[Len(file) + 1] = [what |-> what, size |-> size, at |-> from]
               /\ FileEnd' = from + size
         /\ from <= FileEnd =>
               /\ file'[Len(file) + 1] = [what |-> what, size |-> size, at |-> FileEnd]
               /\ FileEnd' = FileEnd + size
<1>1. /\ file' \in Seq(FilePiece) /\ Len(file') = Len(file) + 1 /\ FileEnd \in Nat
      /\ \A i \in 1 .. Len(file) : file'[i] = file[i]
  BY WriteEffect
<1>2. PICK at \in Nat : /\ file'[Len(file) + 1] = [what |-> what, size |-> size, at |-> at]
                        /\ FileEnd <= at
                        /\ FileEnd < from => at = from
                        /\ from <= FileEnd => at = FileEnd
                        /\ FileEnd' = at + size
  BY WriteEffect, ZenonT(60)
<1>3. Len(file) \in Nat /\ DOMAIN file = 1 .. Len(file) /\ DOMAIN file' = 1 .. Len(file) + 1
  BY <1>1, LenProperties
<1>4. file'[Len(file) + 1].what = what /\ file'[Len(file) + 1].at = at
  BY <1>2
<1>5. \A j \in DOMAIN file' : j = Len(file) + 1 \/ j \in DOMAIN file
  BY <1>3
<1>6. \A j, k \in DOMAIN file' : file'[j].what = file'[k].what => j = k
  BY <1>1, <1>3, <1>4, <1>5 DEF Distinct, Fresh
<1>7. \A j \in 1 .. Len(file') - 1 : file'[j].at + file'[j].size <= file'[j + 1].at
  <2> SUFFICES ASSUME NEW j \in 1 .. Len(file)
               PROVE  file'[j].at + file'[j].size <= file'[j + 1].at
    BY <1>1, <1>3
  <2>1. CASE j < Len(file)
    BY <1>1, <1>3, <2>1 DEF Ordered
  <2>2. CASE j = Len(file)
    <3>1. FileEnd = file[j].at + file[j].size
      BY <1>3, <2>2, FileEndIs
    <3>2. file'[j] = file[j] /\ file'[j + 1].at = at
      BY <1>1, <1>4, <2>2
    <3>3. file[j].at + file[j].size <= at
      BY <1>2, <3>1
    <3> QED
      BY <3>2, <3>3
  <2>3. j < Len(file) \/ j = Len(file)
    <3> DEFINE m == Len(file)
    <3>1. m \in Nat /\ j \in 1 .. m
      BY <1>3
    <3> HIDE DEF m
    <3>2. j < m \/ j = m
      BY <3>1
    <3> QED
      BY <3>2 DEF m
  <2> QED
    BY <2>1, <2>2, <2>3
<1>8. Distinct' /\ Ordered'
  BY <1>6, <1>7 DEF Distinct, Ordered
<1> QED
  BY <1>1, <1>2, <1>3, <1>4, <1>5, <1>8

LEMMA FileStep ==
  ASSUME ElfTypeOK, HeadersInv, LayoutInv, FileInv, [ElfStep \/ ElfReturned]_elf_vars
  PROVE  FileInv'
<1>0. /\ file \in Seq(FilePiece) /\ Len(file) \in Nat /\ DOMAIN file = 1 .. Len(file)
      /\ Len(secs) \in Nat /\ DOMAIN secs = 1 .. Len(secs) /\ next \in Nat \ {0} /\ offset \in Nat
      /\ secs \in Seq(SecHeader) /\ object.is_exec \in BOOLEAN /\ header.shoff \in Nat
      /\ \A i \in DOMAIN secs : secs[i].size \in Nat /\ secs[i].offset \in Nat
  <2>1. secs \in Seq(SecHeader) /\ Len(secs) \in Nat /\ DOMAIN secs = 1 .. Len(secs)
    BY LenProperties DEF ElfTypeOK
  <2>2. \A i \in DOMAIN secs : secs[i].size \in Nat /\ secs[i].offset \in Nat
    BY <2>1, ElementOfSeq, SecFields
  <2>3. header.shoff \in Nat
    BY DEF ElfTypeOK
  <2> QED
    BY <2>1, <2>2, <2>3, LenProperties, ObjectFacts DEF ElfTypeOK
<1>d. Distinct /\ Ordered
  BY DEF FileInv
<1>1. CASE PushSections \/ AddSymbol \/ PushTables \/ Place
  <2>1. /\ stage' \in {"sections", "symbols", "layout"} /\ file' = <<>>
    BY <1>1 DEF FileInv, PushSections, AddSymbol, PushTables, Place
  <2>2. DOMAIN file' = {} /\ Len(file') = 0
    BY <2>1
  <2>3. Out' = 0 /\ secs' \in Seq(SecHeader)
    BY <2>1, HeadersStep DEF Out, ElfTypeOK
  <2>4. \A i \in DOMAIN secs' : ~(i <= 0)
    BY <2>3, LenProperties
  <2> QED
    BY <2>1, <2>2, <2>3, <2>4 DEF FileInv, Distinct, Ordered
<1>p. ASSUME stage \notin {"sections", "symbols"}, stage = "layout" => next > Len(secs)
      PROVE  /\ Len(secs) \in {8, 9} /\ HeaderEnd <= offset
             /\ HeaderEnd = (IF object.is_exec THEN 120 ELSE 64)
             /\ \A i \in DOMAIN secs : InFile(secs[i]) =>
                  HeaderEnd <= secs[i].offset /\ secs[i].offset + secs[i].size <= offset
             /\ \A i, j \in DOMAIN secs : i < j /\ InFile(secs[i]) /\ InFile(secs[j]) =>
                  secs[i].offset + secs[i].size <= secs[j].offset
  <2>1. Len(secs) \in {8, 9}
    BY <1>p, LoadedAre
  <2>2. \A i \in DOMAIN secs : i <= PlacedUpTo
    BY <1>0, <1>p DEF PlacedUpTo
  <2> QED
    BY <1>p, <2>1, <2>2 DEF LayoutInv, HeaderEnd, EhdrSize, PhdrSize
<1>2. CASE WriteHeader
  <2>1. /\ stage = "layout" /\ next > Len(secs) /\ secs' = secs /\ object' = object /\ offset' = offset
        /\ next' = 1 /\ WriteFrom(<<"ehdr">>, EhdrSize, 0) /\ file = <<>> /\ FileEnd = 0
        /\ stage' = (IF object.is_exec THEN "segment" ELSE "write")
        /\ header' = [header EXCEPT !.entry = EntryAddr, !.shoff = AlignUp(offset, 8)]
    BY <1>2, EmptyFileEnd DEF WriteHeader, FileInv
  <2>2. header'.shoff = AlignUp(offset, 8)
    BY <2>1 DEF ElfTypeOK
  <2>3. Len(file) = 0 /\ DOMAIN file = {}
    BY <2>1
  <2>4. EhdrSize = 64 /\ EhdrSize \in Nat /\ 0 \in Nat /\ FileEnd <= 0
    BY <2>1 DEF EhdrSize
  <2>5. /\ Distinct' /\ Ordered'
        /\ \A j \in DOMAIN file' : file'[j].what = <<"ehdr">>
        /\ Len(file') = 1
        /\ file'[1] = [what |-> <<"ehdr">>, size |-> EhdrSize, at |-> 0] /\ FileEnd' = 64
    <3> DEFINE e == <<"ehdr">>   z == 0
    <3>1. /\ e \in Contents /\ WriteFrom(e, EhdrSize, z) /\ Fresh(e)
          /\ z \in Nat /\ FileEnd <= z /\ EhdrSize \in Nat
      BY <2>1, <2>3, <2>4, ContentsFacts DEF Fresh
    <3> HIDE DEF e, z
    <3>2. /\ Distinct' /\ Ordered'
          /\ \A j \in DOMAIN file' : file'[j].what = e \/ (j \in DOMAIN file /\ file'[j] = file[j])
          /\ Len(file') = Len(file) + 1
          /\ file'[Len(file) + 1] = [what |-> e, size |-> EhdrSize, at |-> z]
          /\ FileEnd' = z + EhdrSize
      BY <1>0, <1>d, <3>1, PieceAdded
    <3>3. \A j \in DOMAIN file' : file'[j].what = e
      BY <2>3, <3>2
    <3> QED
      BY <2>3, <2>4, <3>2, <3>3 DEF e, z
  <2>6. Out' = 0 /\ \A i \in DOMAIN secs : ~(i <= 0)
    BY <1>0, <2>1 DEF Out
  <2>7. stage' = "write" => /\ FileEnd' <= offset
                            /\ \A i \in DOMAIN secs : InFile(secs[i]) => FileEnd' <= secs[i].offset
    BY <1>p, <2>1, <2>5
  <2>8. Fresh(<<"shdrs">>)' /\ \A i \in 0 .. 8 : Fresh(<<"section", i>>)'
    BY <2>5, ContentsDiffer DEF Fresh
  <2>9. stage' \in {"segment", "write"} /\ (stage' = "segment" <=> object.is_exec)
    BY <1>0, <2>1
  <2>10. stage' = "write" =>
           /\ FileEnd' <= offset'
           /\ \A i \in DOMAIN secs' : i > Out' /\ InFile(secs'[i]) => FileEnd' <= secs'[i].offset
           /\ Fresh(<<"shdrs">>)' /\ \A i \in Out' .. 8 : Fresh(<<"section", i>>)'
    BY <2>1, <2>6, <2>7, <2>8
  <2>11. \A i \in DOMAIN secs' : ~(i <= Out')
    BY <2>1, <2>6
  <2> QED
    BY <2>1, <2>2, <2>5, <2>9, <2>10, <2>11 DEF FileInv
<1>3. CASE WriteSegment
  <2>1. /\ stage = "segment" /\ stage' = "write" /\ secs' = secs /\ object' = object /\ offset' = offset
        /\ next' = next /\ WriteFrom(<<"phdr">>, PhdrSize, 0)
        /\ header' = [header EXCEPT !.segment = SegmentOf]
    BY <1>3 DEF WriteSegment
  <2>2. /\ Len(file) = 1 /\ object.is_exec /\ next = 1 /\ Len(file) >= 1
        /\ file[1] = [what |-> <<"ehdr">>, size |-> EhdrSize, at |-> 0]
        /\ header.shoff = AlignUp(offset, 8)
        /\ \A j \in DOMAIN file : file[j].what = <<"ehdr">>
    BY <2>1 DEF FileInv
  <2>3. FileEnd = 64 /\ EhdrSize = 64 /\ PhdrSize = 56
    BY <1>0, <2>2, FileEndIs DEF EhdrSize, PhdrSize
  <2>4. header'.shoff = header.shoff
    BY <2>1 DEF ElfTypeOK
  <2> DEFINE p == <<"phdr">>   z == 0
  <2>5. /\ p \in Contents /\ WriteFrom(p, PhdrSize, z) /\ Fresh(p)
        /\ z \in Nat /\ z <= FileEnd /\ PhdrSize \in Nat
    BY <2>1, <2>2, <2>3, ContentsFacts, ContentsDiffer DEF Fresh
  <2> HIDE DEF z
  <2>6. /\ Distinct' /\ Ordered'
        /\ \A j \in DOMAIN file : j \in DOMAIN file' /\ file'[j] = file[j]
        /\ \A j \in DOMAIN file' : file'[j].what = p \/ (j \in DOMAIN file /\ file'[j] = file[j])
        /\ Len(file) + 1 \in DOMAIN file' /\ Len(file') = Len(file) + 1
        /\ file'[Len(file) + 1] = [what |-> p, size |-> PhdrSize, at |-> FileEnd]
        /\ FileEnd' = FileEnd + PhdrSize
    <3> HIDE DEF p
    <3> QED
      BY <1>0, <1>d, <2>5, PieceAdded
  <2>7. /\ Len(file') = 2 /\ file'[1] = [what |-> <<"ehdr">>, size |-> EhdrSize, at |-> 0]
        /\ file'[2] = [what |-> <<"phdr">>, size |-> PhdrSize, at |-> EhdrSize] /\ FileEnd' = 120
    BY <1>0, <2>2, <2>3, <2>6
  <2>8. Fresh(<<"shdrs">>)' /\ \A i \in 0 .. 8 : Fresh(<<"section", i>>)'
    <3>1. \A j \in DOMAIN file' : file'[j].what \in {<<"ehdr">>, <<"phdr">>}
      BY <2>2, <2>6
    <3> QED
      BY <3>1, ContentsDiffer DEF Fresh
  <2>9. Out' = 0 /\ \A i \in DOMAIN secs : ~(i <= 0)
    BY <1>0, <2>1, <2>2 DEF Out
  <2>10. /\ FileEnd' <= offset
         /\ \A i \in DOMAIN secs : InFile(secs[i]) => FileEnd' <= secs[i].offset
    BY <1>p, <2>1, <2>2, <2>7
  <2>11. /\ FileEnd' <= offset'
         /\ \A i \in DOMAIN secs' : i > Out' /\ InFile(secs'[i]) => FileEnd' <= secs'[i].offset
         /\ Fresh(<<"shdrs">>)' /\ \A i \in Out' .. 8 : Fresh(<<"section", i>>)'
         /\ \A i \in DOMAIN secs' : ~(i <= Out')
    BY <2>1, <2>8, <2>9, <2>10
  <2> QED
    BY <2>1, <2>2, <2>4, <2>6, <2>7, <2>11 DEF FileInv
<1> DEFINE Has(f, w, n, at) == \E j \in DOMAIN f : f[j] = [what |-> w, size |-> n, at |-> at]
<1>4. CASE WriteSection /\ ~InFile(secs[next])
  <2>1. /\ stage = "write" /\ stage' = "write" /\ next <= Len(secs) /\ next' = next + 1 /\ secs' = secs
        /\ object' = object /\ offset' = offset /\ header' = header /\ file' = file
    BY <1>4 DEF WriteSection
  <2>2. Out = next - 1 /\ Out' = next
    BY <1>0, <2>1 DEF Out
  <2>3. \A i \in DOMAIN secs : i <= next /\ InFile(secs[i]) => i <= next - 1
    BY <1>0, <1>4
  <2>4. \A i \in DOMAIN secs : i <= next /\ InFile(secs[i]) =>
          Has(file, <<"section", i - 1>>, secs[i].size, secs[i].offset)
    BY <2>2, <2>3 DEF FileInv
  <2>5. /\ \A i \in DOMAIN secs : i > next => i > next - 1
        /\ \A i \in next .. 8 : i \in next - 1 .. 8
    BY <1>0
  <2>6. /\ \A i \in DOMAIN secs : i > next /\ InFile(secs[i]) => FileEnd <= secs[i].offset
        /\ \A i \in next .. 8 : Fresh(<<"section", i>>)
        /\ Fresh(<<"shdrs">>) /\ FileEnd <= offset
    BY <2>1, <2>2, <2>5 DEF FileInv
  <2>7. FileEnd' = FileEnd /\ Distinct' /\ Ordered' /\ Fresh(<<"shdrs">>)'
        /\ \A i \in next .. 8 : Fresh(<<"section", i>>)'
    BY <1>d, <2>1, <2>6 DEF FileEnd, Distinct, Ordered, Fresh
  <2> QED
    BY <2>1, <2>2, <2>4, <2>6, <2>7 DEF FileInv
<1>5. CASE WriteSection /\ InFile(secs[next])
  <2> DEFINE w == <<"section", next - 1>>   size == secs[next].size   at == secs[next].offset
  <2>1. /\ stage = "write" /\ stage' = "write" /\ next \in DOMAIN secs /\ next' = next + 1
        /\ secs' = secs /\ object' = object /\ offset' = offset /\ header' = header
        /\ WriteFrom(w, size, at)
    BY <1>0, <1>5 DEF WriteSection
  <2>2. Out = next - 1 /\ Out' = next
    BY <1>0, <2>1 DEF Out
  <2>3. /\ next \in 1 .. 9 /\ next - 1 \in 0 .. 8 /\ next - 1 \in next - 1 .. 8 /\ next > next - 1
        /\ next - 1 \notin next .. 8
    <3> DEFINE k == Len(secs)
    <3>1. k \in {8, 9} /\ next \in 1 .. k
      BY <1>0, <1>p, <2>1
    <3> HIDE DEF k
    <3>2. next \in 1 .. 9
      BY <3>1
    <3> QED
      BY <3>2
  <2>4. w \in Contents /\ Fresh(w) /\ size \in Nat /\ at \in Nat /\ FileEnd <= at
    <3>1. w \in Contents
      BY <2>3, ContentsFacts, Zenon
    <3>2. Fresh(w)
      BY <2>1, <2>2, <2>3 DEF FileInv
    <3>3. FileEnd <= at
      BY <1>5, <2>1, <2>2, <2>3 DEF FileInv
    <3> QED
      BY <1>0, <2>1, <3>1, <3>2, <3>3
  <2>5. /\ Distinct' /\ Ordered'
        /\ \A j \in DOMAIN file : j \in DOMAIN file' /\ file'[j] = file[j]
        /\ \A j \in DOMAIN file' : file'[j].what = w \/ (j \in DOMAIN file /\ file'[j] = file[j])
        /\ Len(file) + 1 \in DOMAIN file' /\ Len(file') = Len(file) + 1
        /\ file'[Len(file) + 1] = [what |-> w, size |-> size, at |-> at]
        /\ FileEnd' = at + size
    <3> HIDE DEF w, size, at
    <3> QED
      BY <1>0, <1>d, <2>1, <2>4, PieceAdded
  <2>6. \A i \in DOMAIN secs : i <= next /\ InFile(secs[i]) =>
          Has(file', <<"section", i - 1>>, secs[i].size, secs[i].offset)
    <3> SUFFICES ASSUME NEW i \in DOMAIN secs, i <= next, InFile(secs[i])
                 PROVE  Has(file', <<"section", i - 1>>, secs[i].size, secs[i].offset)
      OBVIOUS
    <3>1. CASE i = next
      BY <2>5, <3>1
    <3>2. CASE i # next
      <4>1. i <= Out
        BY <1>0, <2>1, <2>2, <3>2
      <4>2. Has(file, <<"section", i - 1>>, secs[i].size, secs[i].offset)
        BY <4>1 DEF FileInv
      <4> QED
        BY <2>5, <4>2
    <3> QED
      BY <3>1, <3>2
  <2>7. FileEnd' <= offset /\ \A i \in DOMAIN secs : i > next /\ InFile(secs[i]) => FileEnd' <= secs[i].offset
    BY <1>p, <1>0, <1>5, <2>1, <2>5
  <2>8. Fresh(<<"shdrs">>)' /\ \A i \in next .. 8 : Fresh(<<"section", i>>)'
    <3>1. Fresh(<<"shdrs">>) /\ \A i \in next - 1 .. 8 : Fresh(<<"section", i>>)
      BY <2>1, <2>2 DEF FileInv
    <3>2. \A i \in next .. 8 : i \in next - 1 .. 8 /\ i \in 0 .. 8 /\ i # next - 1
      BY <2>3
    <3>3. w # <<"shdrs">> /\ \A i \in next .. 8 : w # <<"section", i>>
      BY <2>3, <3>2, ContentsDiffer, Zenon
    <3>4. \A i \in next .. 8 : Fresh(<<"section", i>>)
      BY <3>1, <3>2
    <3> HIDE DEF w
    <3>5. ASSUME NEW x, Fresh(x), w # x
          PROVE  \A j \in DOMAIN file' : file'[j].what # x
      BY <2>5, <3>5 DEF Fresh
    <3> QED
      BY <3>1, <3>3, <3>4, <3>5 DEF Fresh
  <2>9. /\ Len(file') >= 1 /\ file'[1] = [what |-> <<"ehdr">>, size |-> EhdrSize, at |-> 0]
        /\ object.is_exec => Len(file') >= 2 /\ file'[2] = [what |-> <<"phdr">>, size |-> PhdrSize, at |-> EhdrSize]
        /\ header.shoff = AlignUp(offset, 8)
    <3>1. /\ Len(file) >= 1 /\ file[1] = [what |-> <<"ehdr">>, size |-> EhdrSize, at |-> 0]
          /\ object.is_exec => Len(file) >= 2 /\ file[2] = [what |-> <<"phdr">>, size |-> PhdrSize, at |-> EhdrSize]
          /\ header.shoff = AlignUp(offset, 8)
      BY <2>1 DEF FileInv
    <3>2. 1 \in DOMAIN file /\ (Len(file) >= 2 => 2 \in DOMAIN file)
      BY <1>0, <3>1
    <3> QED
      BY <1>0, <2>5, <3>1, <3>2
  <2> HIDE DEF w, size, at
  <2> QED
    BY <2>1, <2>2, <2>5, <2>6, <2>7, <2>8, <2>9 DEF FileInv
<1>6. CASE WriteHeaders
  <2> DEFINE w == <<"shdrs">>   size == 64 * Len(secs)   at == header.shoff
  <2>1. /\ stage = "write" /\ stage' = "done" /\ next > Len(secs)
        /\ secs' = secs /\ object' = object /\ offset' = offset /\ header' = header
        /\ WriteFrom(w, size, at)
    BY <1>6 DEF WriteHeaders
  <2>2. Out = next - 1 /\ Out' = Len(secs)
    BY <1>0, <2>1 DEF Out
  <2>3. /\ Len(file) >= 1 /\ file[1] = [what |-> <<"ehdr">>, size |-> EhdrSize, at |-> 0]
        /\ object.is_exec => Len(file) >= 2 /\ file[2] = [what |-> <<"phdr">>, size |-> PhdrSize, at |-> EhdrSize]
        /\ header.shoff = AlignUp(offset, 8) /\ FileEnd <= offset /\ Fresh(w)
    BY <2>1 DEF FileInv
  <2>4. w \in Contents /\ size \in Nat /\ at \in Nat /\ FileEnd <= at
    <3>1. FileEnd \in Nat
      BY <1>0, FileEndType
    <3>2. AlignUp(offset, 8) \in Nat /\ offset <= AlignUp(offset, 8)
      BY <1>0, AlignUpFacts
    <3> QED
      BY <1>0, <2>3, <3>1, <3>2, ContentsFacts
  <2>5. /\ Distinct' /\ Ordered'
        /\ \A j \in DOMAIN file : j \in DOMAIN file' /\ file'[j] = file[j]
        /\ Len(file) + 1 \in DOMAIN file' /\ Len(file') = Len(file) + 1
        /\ file'[Len(file) + 1] = [what |-> w, size |-> size, at |-> at]
    <3> HIDE DEF w, size, at
    <3> QED
      BY <1>0, <1>d, <2>1, <2>3, <2>4, PieceAdded
  <2>6. \A i \in DOMAIN secs : InFile(secs[i]) =>
          Has(file', <<"section", i - 1>>, secs[i].size, secs[i].offset)
    <3> SUFFICES ASSUME NEW i \in DOMAIN secs, InFile(secs[i])
                 PROVE  Has(file', <<"section", i - 1>>, secs[i].size, secs[i].offset)
      OBVIOUS
    <3>1. i <= Out
      BY <1>0, <2>1, <2>2
    <3>2. Has(file, <<"section", i - 1>>, secs[i].size, secs[i].offset)
      BY <3>1 DEF FileInv
    <3> QED
      BY <2>5, <3>2
  <2>7. 1 \in DOMAIN file /\ (Len(file) >= 2 => 2 \in DOMAIN file)
    BY <1>0, <2>3
  <2>8. /\ Len(file') >= 1 /\ file'[1] = [what |-> <<"ehdr">>, size |-> EhdrSize, at |-> 0]
        /\ object.is_exec => Len(file') >= 2 /\ file'[2] = [what |-> <<"phdr">>, size |-> PhdrSize, at |-> EhdrSize]
    <3>1. file'[1] = file[1] /\ (Len(file) >= 2 => file'[2] = file[2])
      BY <2>5, <2>7
    <3>2. Len(file') >= 1 /\ (Len(file) >= 2 => Len(file') >= 2)
      BY <1>0, <2>5
    <3> QED
      BY <2>3, <3>1, <3>2
  <2>9. Has(file', <<"shdrs">>, 64 * Len(secs), header.shoff)
    BY <2>5
  <2> HIDE DEF w, size, at
  <2> QED
    BY <2>1, <2>2, <2>3, <2>5, <2>6, <2>8, <2>9 DEF FileInv
<1>7. CASE UNCHANGED elf_vars
  BY <1>7 DEF elf_vars, FileInv, Out, Distinct, Ordered, Fresh, FileEnd
<1>8. CASE WriteSection
  BY <1>4, <1>5, <1>8
<1> QED
  BY <1>1, <1>2, <1>3, <1>6, <1>7, <1>8 DEF ElfStep, ElfReturned

LEMMA SegmentStep ==
  ASSUME ElfTypeOK, HeadersInv, SegmentInv, FileInv, [ElfStep \/ ElfReturned]_elf_vars
  PROVE  SegmentInv'
<1>1. ASSUME secs' = secs PROVE SegmentOf' = SegmentOf
  BY <1>1 DEF SegmentOf, Loaded
<1>2. header \in [entry : Nat, shoff : Nat, shstrndx : Nat, segment : SegHeader]
  BY DEF ElfTypeOK
<1>3. CASE WriteSegment
  <2>1. secs' = secs /\ header' = [header EXCEPT !.segment = SegmentOf]
    BY <1>3 DEF WriteSegment
  <2>2. header'.segment = SegmentOf
    BY <1>2, <2>1
  <2> QED
    BY <1>1, <2>1, <2>2 DEF SegmentInv
<1>4. CASE PushSections \/ AddSymbol \/ PushTables \/ Place \/ WriteHeader
  <2>1. stage' = "write" => ~object'.is_exec
    BY <1>4 DEF PushSections, AddSymbol, PushTables, Place, WriteHeader
  <2>2. stage' # "done"
    BY <1>4 DEF PushSections, AddSymbol, PushTables, Place, WriteHeader
  <2> QED
    BY <2>1, <2>2 DEF SegmentInv
<1>5. CASE WriteSection \/ WriteHeaders
  <2>1. secs' = secs /\ header' = header /\ object' = object /\ stage = "write"
    BY <1>5 DEF WriteSection, WriteHeaders
  <2> QED
    BY <1>1, <2>1 DEF SegmentInv
<1>6. CASE UNCHANGED elf_vars
  <2>1. secs' = secs /\ header' = header /\ object' = object /\ stage' = stage
    BY <1>6 DEF elf_vars
  <2> QED
    BY <1>1, <2>1 DEF SegmentInv
<1> QED
  BY <1>3, <1>4, <1>5, <1>6 DEF ElfStep, ElfReturned

(* The invariant of the writer holds at every stage of every run.             *)
THEOREM ElfInductive == WriteElf => []ElfInv
<1>1. ElfInv /\ [ElfStep \/ ElfReturned]_elf_vars => ElfInv'
  BY HeadersStep, SymbolsStep, LayoutStep, FileStep, SegmentStep DEF ElfInv
<1> QED
  BY ElfStart, <1>1, PTL DEF WriteElf

-------------------------------------------------------------------------------
(* The types: what the writer keeps stays of the kinds the file has room for. *)
THEOREM ElfTypeCorrect == WriteElf => []ElfTypeOK
<1>1. ElfInv => ElfTypeOK
  BY DEF ElfInv
<1> QED
  BY ElfInductive, <1>1, PTL

(* When write_elf returns, each section that has bytes, the header, the       *)
(* program header and the table of section headers are in the file once,     *)
(* where the headers say they are, and no two pieces overlap.                *)
THEOREM FileIsExact == WriteElf => []FileIsWhatItSays
<1>1. ElfInv => FileIsWhatItSays
  <2> SUFFICES ASSUME ElfInv, Complete PROVE
        /\ \A n \in 0 .. Len(secs) - 1 :
             InFile(secs[n + 1]) => WrittenAt(<<"section", n>>, secs[n + 1].offset, secs[n + 1].size)
        /\ WrittenAt(<<"ehdr">>, 0, EhdrSize)
        /\ WrittenAt(<<"shdrs">>, header.shoff, 64 * Len(secs))
        /\ object.is_exec => WrittenAt(<<"phdr">>, EhdrSize, PhdrSize)
        /\ \A i \in 1 .. Len(file) - 1 : file[i].at + file[i].size <= file[i + 1].at
    BY DEF FileIsWhatItSays
  <2>1. /\ Len(secs) \in Nat /\ DOMAIN secs = 1 .. Len(secs) /\ Len(file) \in Nat
        /\ DOMAIN file = 1 .. Len(file) /\ stage = "done" /\ Out = Len(secs)
    BY LenProperties DEF ElfInv, ElfTypeOK, Complete, Out
  <2>2. ASSUME NEW w, NEW size, NEW at,
               \E j \in DOMAIN file : file[j] = [what |-> w, size |-> size, at |-> at]
        PROVE  WrittenAt(w, at, size)
    <3>1. PICK j \in DOMAIN file : file[j] = [what |-> w, size |-> size, at |-> at]
      BY <2>2
    <3>2. file[j].what = w /\ file[j] = [what |-> w, at |-> at, size |-> size]
      BY <3>1
    <3>3. \A k \in DOMAIN file : file[k].what = w => k = j
      BY <3>2 DEF ElfInv, FileInv, Distinct
    <3> QED
      BY <2>1, <3>2, <3>3 DEF WrittenAt
  <2>3. \A i \in DOMAIN secs : InFile(secs[i]) =>
          \E j \in DOMAIN file :
            file[j] = [what |-> <<"section", i - 1>>, size |-> secs[i].size, at |-> secs[i].offset]
    BY <2>1 DEF ElfInv, FileInv
  <2>4. \A n \in 0 .. Len(secs) - 1 :
          InFile(secs[n + 1]) => WrittenAt(<<"section", n>>, secs[n + 1].offset, secs[n + 1].size)
    <3> SUFFICES ASSUME NEW n \in 0 .. Len(secs) - 1, InFile(secs[n + 1])
                 PROVE  WrittenAt(<<"section", n>>, secs[n + 1].offset, secs[n + 1].size)
      OBVIOUS
    <3>1. n + 1 \in DOMAIN secs /\ (n + 1) - 1 = n
      BY <2>1
    <3>2. \E j \in DOMAIN file :
            file[j] = [what |-> <<"section", n>>, size |-> secs[n + 1].size, at |-> secs[n + 1].offset]
      BY <2>3, <3>1
    <3> QED
      BY <2>2, <3>2
  <2>5. WrittenAt(<<"ehdr">>, 0, EhdrSize)
    BY <2>1, <2>2, SMTT(30) DEF ElfInv, FileInv
  <2>6. WrittenAt(<<"shdrs">>, header.shoff, 64 * Len(secs))
    BY <2>1, <2>2 DEF ElfInv, FileInv
  <2>7. object.is_exec => WrittenAt(<<"phdr">>, EhdrSize, PhdrSize)
    BY <2>1, <2>2 DEF ElfInv, FileInv
  <2>8. \A i \in 1 .. Len(file) - 1 : file[i].at + file[i].size <= file[i + 1].at
    BY DEF ElfInv, FileInv, Ordered
  <2> QED
    BY <2>4, <2>5, <2>6, <2>7, <2>8
<1> QED
  BY ElfInductive, <1>1, PTL

(* When write_elf returns, .symtab leads to its strings, .rela.text to       *)
(* .symtab and .text, and the header to the names of the sections, whether   *)
(* the object has relocations or not.                                        *)
THEOREM TablesAreLinked == WriteElf => []TablesLinked
<1>1. ElfInv => TablesLinked
  <2> DEFINE Section(n, str) == n \in 0 .. Len(secs) - 1 /\ Names(shstrtab, secs[n + 1].name_off, str)
  <2> SUFFICES ASSUME ElfInv, Complete PROVE
         /\ Section(header.shstrndx, ".shstrtab")
         /\ secs[header.shstrndx + 1].size = EndOf(shstrtab)
         /\ \A n \in 0 .. Len(secs) - 1 :
              /\ secs[n + 1].type = "symtab" =>
                   /\ Section(n, ".symtab") /\ Section(secs[n + 1].link, ".strtab")
                   /\ \A i \in 1 .. Len(syms) : syms[i].global => i > secs[n + 1].info
              /\ secs[n + 1].type = "rela" =>
                   /\ Section(n, ".rela.text") /\ Section(secs[n + 1].link, ".symtab")
                   /\ Section(secs[n + 1].info, ".text")
    BY DEF TablesLinked
  <2> DEFINE m == IF object.relocs > 0 THEN 9 ELSE 8
  <2>1. LoadedBuilt /\ TablesBuilt /\ SymbolsInv
    BY DEF ElfInv, HeadersInv, Complete
  <2>2. /\ Len(secs) = m /\ Len(shstrtab) = m /\ header.shstrndx = m - 1 /\ m \in {8, 9}
        /\ secs[m].size = EndOf(shstrtab) /\ shstrtab[m] = [name |-> ".shstrtab", off |-> secs[m].name_off]
    BY <2>1 DEF TablesBuilt
  <2>3. ASSUME NEW i \in 1 .. m, NEW str, shstrtab[i] = [name |-> str, off |-> secs[i].name_off],
               secs[i].name_off # 0
        PROVE  Section(i - 1, str)
    <3>1. i - 1 \in 0 .. Len(secs) - 1 /\ (i - 1) + 1 = i /\ i \in 1 .. Len(shstrtab)
      BY <2>2
    <3> QED
      BY <2>3, <3>1 DEF Names
  <2>4. /\ 2 \in 1 .. m /\ 6 \in 1 .. m /\ 7 \in 1 .. m /\ m \in 1 .. m
        /\ object.relocs > 0 => 8 \in 1 .. m
        /\ 2 - 1 = 1 /\ 6 - 1 = 5 /\ 7 - 1 = 6 /\ 8 - 1 = 7
    BY <2>2
  <2>5. /\ Section(1, ".text") /\ Section(5, ".symtab") /\ Section(6, ".strtab")
        /\ object.relocs > 0 => Section(7, ".rela.text")
        /\ Section(m - 1, ".shstrtab")
    <3>1. /\ shstrtab[2] = [name |-> ".text", off |-> secs[2].name_off]
          /\ shstrtab[6] = [name |-> ".symtab", off |-> secs[6].name_off]
          /\ shstrtab[7] = [name |-> ".strtab", off |-> secs[7].name_off]
          /\ object.relocs > 0 => shstrtab[8] = [name |-> ".rela.text", off |-> secs[8].name_off]
      BY <2>1 DEF LoadedBuilt, TablesBuilt
    <3>6. /\ secs[2].name_off # 0 /\ \A i \in 6 .. m : secs[i].name_off # 0
          /\ 6 \in 6 .. m /\ 7 \in 6 .. m /\ m \in 6 .. m /\ (object.relocs > 0 => 8 \in 6 .. m)
      BY <2>1 DEF LoadedBuilt, TablesBuilt
    <3> HIDE DEF Section, m
    <3>2. Section(2 - 1, ".text")
      BY <2>3, <2>4, <3>1, <3>6, Zenon
    <3>3. Section(6 - 1, ".symtab") /\ Section(7 - 1, ".strtab")
      BY <2>3, <2>4, <3>1, <3>6, Zenon
    <3>4. object.relocs > 0 => Section(8 - 1, ".rela.text")
      BY <2>3, <2>4, <3>1, <3>6, Zenon
    <3>5. Section(m - 1, ".shstrtab")
      BY <2>2, <2>3, <2>4, <3>6, Zenon
    <3> QED
      BY <2>4, <3>2, <3>3, <3>4, <3>5, Zenon
  <2>6. ASSUME NEW n \in 0 .. Len(secs) - 1
        PROVE  /\ secs[n + 1].type = "symtab" => n = 5
               /\ secs[n + 1].type = "rela" => n = 7 /\ object.relocs > 0
    <3>1. n = 0 \/ n \in 1 .. 3 \/ n = 4 \/ n = 5 \/ n = 6 \/ n = m - 1 \/ (n = 7 /\ object.relocs > 0)
      BY <2>2
    <3>2. n = 0 => secs[n + 1].type = "null"
      BY <2>1 DEF LoadedBuilt
    <3>3. n \in 1 .. 3 => secs[n + 1].type = "progbits"
      <4>1. n \in 1 .. 3 => n + 1 \in 2 .. 4
        OBVIOUS
      <4> QED
        BY <2>1, <4>1 DEF LoadedBuilt
    <3>4. n = 4 => secs[n + 1].type = "nobits"
      BY <2>1 DEF LoadedBuilt
    <3>5. /\ n = 6 => secs[n + 1].type = "strtab"
          /\ n = m - 1 => secs[n + 1].type = "strtab"
          /\ n = 5 => secs[n + 1].type = "symtab"
          /\ n = 7 /\ object.relocs > 0 => secs[n + 1].type = "rela"
      BY <2>1, <2>2 DEF TablesBuilt
    <3> HIDE DEF m
    <3> QED
      BY <3>1, <3>2, <3>3, <3>4, <3>5
  <2>7. /\ secs[6].link = 6 /\ secs[6].info = 1
        /\ object.relocs > 0 => secs[8].link = 5 /\ secs[8].info = 1
    BY <2>1 DEF TablesBuilt
  <2>8. \A i \in 1 .. Len(syms) : syms[i].global => i > 1
    BY <2>1 DEF SymbolsInv, Complete
  <2>9. secs[header.shstrndx + 1].size = EndOf(shstrtab)
    BY <2>2
  <2>10. 5 + 1 = 6 /\ 7 + 1 = 8
    OBVIOUS
  <2> HIDE DEF Section
  <2> QED
    BY <2>2, <2>5, <2>6, <2>7, <2>8, <2>9, <2>10
<1> QED
  BY ElfInductive, <1>1, PTL

(* The loaded sections of a finished executable, by their places.            *)
LEMMA LoadedPlaces ==
  ASSUME ElfInv, Complete, object.is_exec
  PROVE  /\ Loaded = 2 .. 5
         /\ \A i \in 2 .. 5 : secs[i].offset \in Nat /\ secs[i].addr \in Nat /\ secs[i].size \in Nat
         /\ secs[2].addr = BaseAddr /\ secs[5].size = 0
         /\ secs[2].addr + secs[2].size <= secs[3].addr
         /\ secs[3].addr + secs[3].size <= secs[4].addr
         /\ secs[4].addr + secs[4].size <= secs[5].addr
         /\ secs[2].size = 0 => secs[3].addr = secs[2].addr
         /\ secs[3].size = 0 => secs[4].addr = secs[3].addr
         /\ secs[5].addr + 120 < WordSize
         /\ \A i \in 2 .. 5 : IF InFile(secs[i])
                             THEN secs[i].size > 0 /\ i # 5 /\ secs[i].offset - 120 = secs[i].addr - BaseAddr
                             ELSE secs[i].size = 0 /\ secs[i].offset = 0
<1>1. /\ LoadedBuilt /\ LayoutInv /\ stage = "done" /\ object \in Objects
  BY DEF ElfInv, ElfTypeOK, HeadersInv, Complete
<1>2. /\ Loaded = 2 .. 5 /\ Len(secs) \in {8, 9} /\ DOMAIN secs = 1 .. Len(secs)
      /\ \A i \in 2 .. 5 : secs[i].offset \in Nat /\ secs[i].addr \in Nat /\ secs[i].size \in Nat
  BY <1>1, LoadedAre DEF ElfInv
<1>3. /\ secs[2].addr = BaseAddr /\ secs[5].size = 0
      /\ secs[2].size = object.text /\ secs[3].size = object.rodata /\ secs[4].size = object.data
      /\ secs[3].addr = After(secs[2].addr, secs[2].size)
      /\ secs[4].addr = After(secs[3].addr, secs[3].size)
      /\ secs[5].addr = After(secs[4].addr, secs[4].size)
  BY <1>1 DEF LoadedBuilt, Base
<1> DEFINE a2 == secs[2].addr  a3 == secs[3].addr  a4 == secs[4].addr  a5 == secs[5].addr
           s2 == secs[2].size  s3 == secs[3].size  s4 == secs[4].size
<1>4. /\ a2 \in Nat /\ a3 \in Nat /\ a4 \in Nat /\ a5 \in Nat /\ s2 \in Nat /\ s3 \in Nat /\ s4 \in Nat
      /\ a3 = After(a2, s2) /\ a4 = After(a3, s3) /\ a5 = After(a4, s4)
      /\ a2 = BaseAddr /\ a2 % 8 = 0 /\ a2 + 120 + s2 + s3 + s4 + 32 < WordSize
  <2>1. BaseAddr + EhdrSize + PhdrSize + object.text + object.rodata + object.data + 32 < WordSize
    BY <1>1, FitsAssumption
  <2>2. a2 + 120 + s2 + s3 + s4 + 32 < WordSize
    BY <1>2, <1>3, <2>1, SizesAssumption DEF EhdrSize, PhdrSize
  <2>3. /\ a2 \in Nat /\ a3 \in Nat /\ a4 \in Nat /\ a5 \in Nat
        /\ s2 \in Nat /\ s3 \in Nat /\ s4 \in Nat
    <3>1. 2 \in 2 .. 5 /\ 3 \in 2 .. 5 /\ 4 \in 2 .. 5 /\ 5 \in 2 .. 5
      OBVIOUS
    <3> QED
      BY <1>2, <3>1, Zenon
  <2>4. a3 = After(a2, s2) /\ a4 = After(a3, s3) /\ a5 = After(a4, s4) /\ a2 = BaseAddr
    BY <1>3
  <2>5. a2 % 8 = 0
    BY <2>4, SizesAssumption
  <2> QED
    BY <2>2, <2>3, <2>4, <2>5
<1> HIDE DEF a2, a3, a4, a5, s2, s3, s4
<1>5. /\ a2 + s2 <= a3 /\ a3 < a2 + s2 + 8 /\ a3 % 8 = 0
      /\ a3 + s3 <= a4 /\ a4 < a3 + s3 + 8 /\ a4 % 8 = 0
      /\ a4 + s4 <= a5 /\ a5 < a4 + s4 + 8
  BY <1>4, AfterFacts
<1>6. /\ s2 = 0 => a3 = a2
      /\ s3 = 0 => a4 = a3
  <2>1. ASSUME NEW a \in Nat, a % 8 = 0 PROVE After(a, 0) = a
    BY <2>1, AlignedStays DEF After
  <2> QED
    BY <1>4, <1>5, <2>1
<1>7. a5 + 120 < WordSize
  BY <1>4, <1>5, SizesAssumption
<1>8. /\ secs[2].addr + secs[2].size <= secs[3].addr
      /\ secs[3].addr + secs[3].size <= secs[4].addr
      /\ secs[4].addr + secs[4].size <= secs[5].addr
      /\ secs[2].size = 0 => secs[3].addr = secs[2].addr
      /\ secs[3].size = 0 => secs[4].addr = secs[3].addr
  BY <1>5, <1>6 DEF a2, a3, a4, a5, s2, s3, s4
<1>9. \A i \in 2 .. 5 : IF InFile(secs[i])
                       THEN secs[i].size > 0 /\ i # 5 /\ secs[i].offset - 120 = secs[i].addr - BaseAddr
                       ELSE secs[i].size = 0 /\ secs[i].offset = 0
  <2> SUFFICES ASSUME NEW i \in 2 .. 5
               PROVE  IF InFile(secs[i])
                      THEN secs[i].size > 0 /\ i # 5 /\ secs[i].offset - 120 = secs[i].addr - BaseAddr
                      ELSE secs[i].size = 0 /\ secs[i].offset = 0
    OBVIOUS
  <2>1. i \in DOMAIN secs /\ i <= Len(secs) /\ (i = 5 \/ i \in 2 .. 4)
    <3> DEFINE k == Len(secs)
    <3>1. k \in {8, 9} /\ DOMAIN secs = 1 .. k
      BY <1>2
    <3> HIDE DEF k
    <3>2. i \in DOMAIN secs /\ i <= k /\ (i = 5 \/ i \in 2 .. 4)
      BY <3>1
    <3> QED
      BY <3>2 DEF k
  <2>2. CASE InFile(secs[i])
    <3>1. secs[i].size > 0 /\ i # 5
      BY <1>3, <2>2 DEF InFile
    <3>2. HeaderEnd = 120 /\ PlacedUpTo = Len(secs)
      BY <1>1 DEF HeaderEnd, EhdrSize, PhdrSize, PlacedUpTo
    <3>3. secs[i].offset - HeaderEnd = secs[i].addr - BaseAddr
      BY <1>1, <2>1, <2>2, <3>1, <3>2 DEF LayoutInv
    <3> QED
      BY <2>2, <3>1, <3>2, <3>3
  <2>3. CASE ~InFile(secs[i])
    <3>1. secs[i].offset = 0
      BY <1>1, <2>1, <2>3 DEF LayoutInv
    <3>2. secs[i].size = 0
      <4>1. CASE i = 5
        BY <1>3, <4>1
      <4>2. CASE i \in 2 .. 4
        <5>1. secs[i].type = "progbits"
          BY <1>1, <4>2 DEF LoadedBuilt
        <5>2. secs[i].size \in Nat
          BY <1>2
        <5>3. ~(secs[i].size > 0)
          BY <2>3, <5>1 DEF InFile
        <5> QED
          BY <5>2, <5>3
      <4> QED
        BY <2>1, <4>1, <4>2
    <3> QED
      BY <2>3, <3>1, <3>2
  <2> QED
    BY <2>2, <2>3
<1> QED
  BY <1>2, <1>3, <1>7, <1>8, <1>9 DEF a5

(* A finished executable is loaded as it was linked: the one segment takes   *)
(* every loaded section to the address its header gives it, inside the       *)
(* memory the segment asks for, and no two overlap, whichever of them are    *)
(* empty.                                                                    *)
THEOREM LoadedWhereLinked == WriteElf => []LoadsWhereLinked
<1>1. ElfInv => LoadsWhereLinked
  <2> DEFINE seg == header.segment
  <2> SUFFICES ASSUME ElfInv, Complete, object.is_exec, \E i \in Loaded : InFile(secs[i])
               PROVE  /\ seg.filesz <= seg.memsz
                      /\ \A i \in Loaded :
                           /\ secs[i].addr >= seg.vaddr
                           /\ secs[i].addr + secs[i].size <= seg.vaddr + seg.memsz
                           /\ InFile(secs[i]) =>
                                /\ seg.vaddr + (secs[i].offset - seg.offset) = secs[i].addr
                                /\ secs[i].offset + secs[i].size <= seg.offset + seg.filesz
                           /\ \A j \in Loaded : i < j => secs[i].addr + secs[i].size <= secs[j].addr
    BY DEF LoadsWhereLinked
  <2>1. /\ Loaded = 2 .. 5
        /\ \A i \in 2 .. 5 : secs[i].offset \in Nat /\ secs[i].addr \in Nat /\ secs[i].size \in Nat
        /\ secs[2].addr = BaseAddr /\ secs[5].size = 0
        /\ secs[2].addr + secs[2].size <= secs[3].addr
        /\ secs[3].addr + secs[3].size <= secs[4].addr
        /\ secs[4].addr + secs[4].size <= secs[5].addr
        /\ secs[2].size = 0 => secs[3].addr = secs[2].addr
        /\ secs[3].size = 0 => secs[4].addr = secs[3].addr
        /\ secs[5].addr + 120 < WordSize
        /\ \A i \in 2 .. 5 : IF InFile(secs[i])
                            THEN secs[i].size > 0 /\ i # 5 /\ secs[i].offset - 120 = secs[i].addr - BaseAddr
                            ELSE secs[i].size = 0 /\ secs[i].offset = 0
    BY LoadedPlaces
  <2>2. BaseAddr \in Nat /\ WordSize \in Nat /\ BaseAddr < WordSize
    BY SizesAssumption
  <2>3. header.segment = SegmentOf /\ stage = "done"
    BY DEF ElfInv, SegmentInv, Complete
  <2>4. PICK first, last, low, high \in Nat :
           /\ SegmentOf = [offset |-> first, vaddr |-> low, filesz |-> (last - first) % WordSize,
                           memsz |-> (high - low) % WordSize]
           /\ first = WordSize - 1 \/ \E i \in 2 .. 5 : secs[i].offset > 0 /\ first = secs[i].offset
           /\ low = WordSize - 1 \/ \E i \in 2 .. 5 : low = secs[i].addr
           /\ last = 0 \/ \E i \in 2 .. 5 : last = secs[i].offset + secs[i].size
           /\ high = 0 \/ \E i \in 2 .. 5 : high = secs[i].addr + secs[i].size
           /\ \A i \in 2 .. 5 :
                /\ secs[i].offset > 0 => first <= secs[i].offset
                /\ low <= secs[i].addr
                /\ secs[i].offset + secs[i].size <= last
                /\ secs[i].addr + secs[i].size <= high
    <3>1. stage \notin {"sections", "symbols"} /\ ElfTypeOK /\ HeadersInv
      BY <2>3 DEF ElfInv
    <3> QED
      BY <3>1, SegmentBounds
  <2>5. /\ seg.offset = first /\ seg.vaddr = low /\ seg.filesz = (last - first) % WordSize
        /\ seg.memsz = (high - low) % WordSize
    BY <2>3, <2>4
  <2> DEFINE a2 == secs[2].addr     a3 == secs[3].addr     a4 == secs[4].addr     a5 == secs[5].addr
             s2 == secs[2].size     s3 == secs[3].size     s4 == secs[4].size     s5 == secs[5].size
             o2 == secs[2].offset   o3 == secs[3].offset   o4 == secs[4].offset   o5 == secs[5].offset
             i2 == InFile(secs[2])  i3 == InFile(secs[3])  i4 == InFile(secs[4])  i5 == InFile(secs[5])
             b == BaseAddr
  <2>6. \A i \in 2 .. 5 : i = 2 \/ i = 3 \/ i = 4 \/ i = 5
    OBVIOUS
  <2>7. /\ 2 \in 2 .. 5 /\ 3 \in 2 .. 5 /\ 4 \in 2 .. 5 /\ 5 \in 2 .. 5
    OBVIOUS
  <2>8. /\ a2 \in Nat /\ a3 \in Nat /\ a4 \in Nat /\ a5 \in Nat
        /\ s2 \in Nat /\ s3 \in Nat /\ s4 \in Nat /\ s5 \in Nat
        /\ o2 \in Nat /\ o3 \in Nat /\ o4 \in Nat /\ o5 \in Nat
    BY <2>1, <2>7, Zenon
  <2>9. /\ a2 = b /\ s5 = 0 /\ a5 + 120 < WordSize
        /\ a2 + s2 <= a3 /\ a3 + s3 <= a4 /\ a4 + s4 <= a5
        /\ s2 = 0 => a3 = a2
        /\ s3 = 0 => a4 = a3
    BY <2>1
  <2>10. /\ i2 => s2 > 0 /\ o2 - 120 = a2 - b
         /\ i3 => s3 > 0 /\ o3 - 120 = a3 - b
         /\ i4 => s4 > 0 /\ o4 - 120 = a4 - b
         /\ ~i2 => s2 = 0 /\ o2 = 0
         /\ ~i3 => s3 = 0 /\ o3 = 0
         /\ ~i4 => s4 = 0 /\ o4 = 0
         /\ ~i5 /\ o5 = 0
    <3>1. 5 # 5 <=> FALSE
      OBVIOUS
    <3> QED
      BY <2>1, <2>7, <3>1, Zenon
  <2>11. i2 \/ i3 \/ i4
    BY <2>1, <2>6, <2>10
  <2>12. /\ first = WordSize - 1 \/ first = o2 \/ first = o3 \/ first = o4 \/ first = o5
         /\ first = o2 => first = WordSize - 1 \/ first > 0
         /\ first = WordSize - 1 \/ first > 0
         /\ low = WordSize - 1 \/ low = a2 \/ low = a3 \/ low = a4 \/ low = a5
         /\ last = 0 \/ last = o2 + s2 \/ last = o3 + s3 \/ last = o4 + s4 \/ last = o5 + s5
         /\ high = 0 \/ high = a2 + s2 \/ high = a3 + s3 \/ high = a4 + s4 \/ high = a5 + s5
    BY <2>4, <2>6
  <2>13. /\ o2 > 0 => first <= o2
         /\ o3 > 0 => first <= o3
         /\ o4 > 0 => first <= o4
         /\ low <= a2 /\ o2 + s2 <= last /\ o3 + s3 <= last /\ o4 + s4 <= last /\ a5 + s5 <= high
    BY <2>4, <2>7, Zenon
  <2> HIDE DEF a2, a3, a4, a5, s2, s3, s4, s5, o2, o3, o4, o5, i2, i3, i4, i5, b
  <2>14. b \in Nat /\ WordSize \in Nat /\ b < WordSize
    BY <2>2 DEF b
  <2>15. /\ b <= a2 /\ a2 + s2 <= a3 /\ a3 + s3 <= a4 /\ a4 + s4 <= a5
         /\ b <= a3 /\ b <= a4 /\ b <= a5
    BY <2>8, <2>9, <2>14
  <2>16. low = b /\ high = a5
    BY <2>8, <2>9, <2>12, <2>13, <2>14, <2>15
  (* The first section that has bytes is at the base address. *)
  <2>17. (i2 /\ a2 = b) \/ (i3 /\ a3 = b) \/ (i4 /\ a4 = b)
    BY <2>9, <2>10, <2>11
  <2>18. first = 120
    BY <2>8, <2>9, <2>10, <2>12, <2>13, <2>14, <2>15, <2>17
  <2>19. last > 120 /\ last <= 120 + (a5 - b)
    BY <2>8, <2>9, <2>10, <2>11, <2>12, <2>13, <2>14, <2>15
  <2>20. ASSUME NEW d \in Nat, d < WordSize PROVE d % WordSize = d
    BY <2>14, <2>20
  <2>21. seg.memsz = a5 - b
    <3>1. high - low = a5 - b /\ a5 - b \in Nat /\ a5 - b < WordSize
      BY <2>8, <2>9, <2>14, <2>15, <2>16
    <3>2. (a5 - b) % WordSize = a5 - b
      BY <2>20, <3>1
    <3> QED
      BY <2>5, <3>1, <3>2
  <2>22. seg.filesz = last - 120
    <3>1. last - first = last - 120 /\ last - 120 \in Nat /\ last - 120 < WordSize
      BY <2>8, <2>9, <2>14, <2>15, <2>18, <2>19
    <3>2. (last - 120) % WordSize = last - 120
      BY <2>20, <3>1
    <3> QED
      BY <2>5, <3>1, <3>2
  <2>23. seg.filesz <= seg.memsz
    BY <2>8, <2>14, <2>15, <2>19, <2>21, <2>22
  <2> DEFINE Right(a, s, o, in) == /\ a >= seg.vaddr
                                   /\ a + s <= seg.vaddr + seg.memsz
                                   /\ in => /\ seg.vaddr + (o - seg.offset) = a
                                            /\ o + s <= seg.offset + seg.filesz
  <2>24. Right(a2, s2, o2, i2) /\ Right(a3, s3, o3, i3) /\ Right(a4, s4, o4, i4) /\ Right(a5, s5, o5, i5)
    <3>1. seg.vaddr = b /\ seg.offset = 120
      BY <2>5, <2>16, <2>18
    <3>2. seg.vaddr + seg.memsz = a5 /\ seg.offset + seg.filesz = last
      BY <2>8, <2>14, <2>21, <2>22, <3>1
    <3>3. Right(a2, s2, o2, i2)
      BY <2>8, <2>9, <2>10, <2>13, <2>14, <2>15, <3>1, <3>2
    <3>4. Right(a3, s3, o3, i3)
      BY <2>8, <2>9, <2>10, <2>13, <2>14, <2>15, <3>1, <3>2
    <3>5. Right(a4, s4, o4, i4)
      BY <2>8, <2>9, <2>10, <2>13, <2>14, <2>15, <3>1, <3>2
    <3>6. Right(a5, s5, o5, i5)
      BY <2>8, <2>9, <2>10, <2>14, <2>15, <3>1, <3>2
    <3> QED
      BY <3>3, <3>4, <3>5, <3>6
  <2>25. \A i \in 2 .. 5 : Right(secs[i].addr, secs[i].size, secs[i].offset, InFile(secs[i]))
    <3> HIDE DEF Right
    <3>1. /\ Right(secs[2].addr, secs[2].size, secs[2].offset, InFile(secs[2]))
          /\ Right(secs[3].addr, secs[3].size, secs[3].offset, InFile(secs[3]))
          /\ Right(secs[4].addr, secs[4].size, secs[4].offset, InFile(secs[4]))
          /\ Right(secs[5].addr, secs[5].size, secs[5].offset, InFile(secs[5]))
      BY <2>24, Zenon DEF a2, a3, a4, a5, s2, s3, s4, s5, o2, o3, o4, o5, i2, i3, i4, i5
    <3> QED
      BY <2>6, <3>1, Zenon
  <2>26. \A i, j \in 2 .. 5 : i < j => secs[i].addr + secs[i].size <= secs[j].addr
    <3>1. /\ a2 + s2 <= a3 /\ a2 + s2 <= a4 /\ a2 + s2 <= a5
          /\ a3 + s3 <= a4 /\ a3 + s3 <= a5 /\ a4 + s4 <= a5
      BY <2>8, <2>15
    <3>2. ASSUME NEW i \in 2 .. 5, NEW j \in 2 .. 5, i < j
          PROVE  (i = 2 /\ j \in {3, 4, 5}) \/ (i = 3 /\ j \in {4, 5}) \/ (i = 4 /\ j = 5)
      BY <3>2
    <3> QED
      BY <3>1, <3>2 DEF a2, a3, a4, a5, s2, s3, s4
  <2> HIDE DEF seg
  <2> QED
    BY <2>1, <2>23, <2>25, <2>26
<1> QED
  BY ElfInductive, <1>1, PTL

(* When write_elf returns, every symbol of the object is in the table, in an *)
(* executable at the address of its section plus its offset there, and every *)
(* one but the first under a name a reader can look up.                      *)
THEOREM SymbolsAreResolved == WriteElf => []SymbolsResolve
<1>1. ElfInv => SymbolsResolve
  <2> SUFFICES ASSUME ElfInv, Complete, NEW i \in 1 .. Len(object.symbols) PROVE
        /\ i > 1 => Names(strtab, syms[5 + i].st_name, object.symbols[i].name)
        /\ syms[5 + i].value = object.symbols[i].value
                               + IF object.is_exec THEN secs[syms[5 + i].shndx + 1].addr ELSE 0
    BY DEF SymbolsResolve
  <2>1. SymbolsInv /\ Len(strtab) = Len(object.symbols)
    BY DEF ElfInv, SymbolsInv, Complete
  <2> QED
    BY <2>1 DEF SymbolsInv, Names
<1> QED
  BY ElfInductive, <1>1, PTL

-------------------------------------------------------------------------------
(* The assembler.  Where a round of the token loop goes on, and what it makes *)
(* of the offset and of the section, depends on the tokens alone: not on the  *)
(* pass, the labels or the data.                                             *)

SwitchAt(p) == Token(p).type = "DOT" /\ Token(p + 1).type = "IDENT"
               /\ Token(p + 1).text \in SectionDirectives
NamePosAt(p) == CASE Token(p + 1).text # "section" -> p + 1
                  [] Token(p + 1).text = "section" /\ Token(p + 2).type = "DOT" -> p + 3
                  [] OTHER -> p + 2
NameAt(p) == Token(NamePosAt(p)).text
Entering(p) == SwitchAt(p) /\ NameAt(p) \in SectionNames

NextPos(p) ==
  IF Token(p).type = "DOT" /\ Token(p + 1).type = "IDENT" THEN
    IF Token(p + 1).text \in SectionDirectives THEN NextLine(NamePosAt(p) + 1)
    ELSE IF Token(p + 1).text \in KnownDirectives THEN NextLine(p + 3)
    ELSE NextLine(p + 2)
  ELSE IF Token(p).type = "IDENT" /\ Token(p + 1).type # "COLON" THEN
    IF Token(p).text \in Mnemonics THEN EndOfOperands(p + 2) + 1 ELSE NextLine(p + 2)
  ELSE IF Token(p).type \in {"DOT", "IDENT"} THEN p + 2
  ELSE p + 1

Added(p, n) ==
  IF Token(p).type = "DOT" /\ Token(p + 1).type = "IDENT" THEN
    IF Token(p + 1).text \in DOMAIN DataSize /\ Token(p + 2).type = "NUMBER"
    THEN DataSize[Token(p + 1).text]
    ELSE IF Token(p + 1).text \in StringNames /\ Token(p + 2).type = "STRING"
    THEN Token(p + 2).n + IF Token(p + 1).text = "ascii" THEN 0 ELSE 1
    ELSE IF Token(p + 1).text = "align" /\ Token(p + 2).type = "NUMBER" /\ n % Token(p + 2).n # 0
    THEN Token(p + 2).n - (n % Token(p + 2).n)
    ELSE 0
  ELSE IF Token(p).type = "IDENT" /\ Token(p + 1).type # "COLON" /\ Token(p).text \in Mnemonics
  THEN IF Token(p).text \in Escape THEN 8 ELSE 4
  ELSE 0
NextSize(p, n)  == IF Entering(p) THEN 0 ELSE n + Added(p, n)
NextSec(p, sec) == IF Entering(p) THEN NameAt(p) ELSE sec

(* The first pass has been, or is, at a token at that offset and in that      *)
(* section.                                                                   *)
Visited(p, n, sec) ==
  \/ p \in DOMAIN seen /\ seen[p].offset = n /\ seen[p].sec = sec
  \/ pass = 0 /\ pos = p /\ Size(current_data) = n /\ current_sec = sec

IsSequence(s) == s \in Seq({s[i] : i \in DOMAIN s})
Sized(data)   == IsSequence(data) /\ \A i \in DOMAIN data : data[i].size \in Nat

AsmTypes ==
  /\ source \in Sources /\ pass \in 0 .. 2 /\ pos \in Nat \ {0}
  /\ current_sec \in SectionNames /\ Sized(current_data)
  /\ sections = [sec \in SectionNames |-> sections[sec]]
  /\ emitted = [sec \in SectionNames |-> emitted[sec]]
  /\ \A sec \in SectionNames : Sized(emitted[sec])
  /\ DOMAIN seen \subseteq Nat \ {0}
  /\ IsSequence(entered)

(* The positions of the first pass are one run of NextPos from the first      *)
(* token, none of them passed over by another.                                *)
TraceInv ==
  /\ Visited(1, 0, "text")
  /\ \A p \in DOMAIN seen : Token(p).type # "END" =>
       \A n \in {seen[p].offset}, sec \in {seen[p].sec} :
         Visited(NextPos(p), NextSize(p, n), NextSec(p, sec))
  /\ \A p, q \in DOMAIN seen : p < q => NextPos(p) <= q
  /\ pass = 0 => \A p \in DOMAIN seen : Token(p).type # "END" /\ NextPos(p) <= pos

EnteredInv ==
  /\ \A i \in 1 .. Len(entered) : \A p \in {entered[i].at} :
       p \in DOMAIN seen /\ SwitchAt(p) /\ entered[i].name = NameAt(p)
  /\ \A p \in DOMAIN seen : SwitchAt(p) => \E i \in 1 .. Len(entered) : entered[i].at = p

(* In the second pass over a plain source: nothing before its first section;  *)
(* then the section being gathered is the one the first pass was in, it has   *)
(* been entered, and those still to be entered are empty.                     *)
Before == \A sec \in SectionNames : sections[sec] = <<>> /\ emitted[sec] = <<>>
Gathering ==
  /\ seen[pos].sec = current_sec /\ emitted[current_sec] = current_data
  /\ \E p \in DOMAIN seen : p < pos /\ SwitchAt(p) /\ NameAt(p) = current_sec
  /\ \A sec \in SectionNames : sec # current_sec => sections[sec] = emitted[sec]
  /\ \A q \in DOMAIN seen : pos <= q /\ SwitchAt(q) => emitted[NameAt(q)] = <<>>
Gathered == \A sec \in SectionNames : sections[sec] = emitted[sec]
InPlace  == \A sec \in SectionNames : \A i \in 1 .. Len(emitted[sec]) :
              seen[emitted[sec][i].at].sec = sec
GatherInv ==
  /\ pass = 0 => Before
  /\ pass = 1 /\ Plain => IF pos = 1 THEN Before /\ current_data = <<>> ELSE Gathering
  /\ pass = 2 /\ Plain => Gathered
  /\ pass > 0 /\ Plain => InPlace

AsmInv == AsmTypes /\ TraceInv /\ PassesAlign /\ EnteredInv /\ GatherInv

-------------------------------------------------------------------------------
(* Sums of sizes.                                                             *)

LEMMA CountUp ==
  ASSUME NEW n \in Nat, NEW T, 0 \in T, \A k \in 0 .. n - 1 : k \in T => k + 1 \in T
  PROVE  0 .. n \subseteq T
<1> DEFINE Rest == (0 .. n) \ T
<1> SUFFICES ASSUME Rest # {} PROVE FALSE
  OBVIOUS
<1>0. Rest \in SUBSET Nat
  OBVIOUS
<1>1. PICK x \in Rest : \A y \in Rest : x <= y
  <2> HIDE DEF Rest
  <2> QED
    BY <1>0, LeastElement
<1>2. x # 0 /\ x - 1 \in 0 .. n - 1
  BY <1>1
<1>3. x - 1 \notin Rest
  BY <1>1, <1>2
<1>4. x - 1 \in T
  BY <1>2, <1>3
<1>5. (x - 1) + 1 \in T
  BY <1>2, <1>4
<1> QED
  BY <1>2, <1>5

SumsTo(d, s, k) == s = [n \in 0 .. k |-> IF n = 0 THEN 0 ELSE s[n - 1] + d[n].size]

LEMMA SequenceAppend ==
  ASSUME NEW s, IsSequence(s), NEW x
  PROVE  /\ Len(s) \in Nat /\ DOMAIN s = 1 .. Len(s)
         /\ IsSequence(Append(s, x)) /\ DOMAIN Append(s, x) = 1 .. Len(s) + 1
         /\ Len(Append(s, x)) = Len(s) + 1 /\ Append(s, x)[Len(s) + 1] = x
         /\ \A i \in 1 .. Len(s) : Append(s, x)[i] = s[i]
<1> DEFINE S == {s[i] : i \in DOMAIN s} \cup {x}
           e == Append(s, x)
           V == {e[i] : i \in DOMAIN e}
<1>1. s \in Seq(S) /\ x \in S
  BY DEF IsSequence
<1>2. Len(s) \in Nat /\ DOMAIN s = 1 .. Len(s)
  BY <1>1, LenProperties
<1> HIDE DEF S
<1>3. /\ e \in Seq(S) /\ Len(e) = Len(s) + 1 /\ e[Len(s) + 1] = x
      /\ \A i \in 1 .. Len(s) : e[i] = s[i]
  BY <1>1, <1>2
<1>4. DOMAIN e = 1 .. Len(e) /\ Len(e) \in Nat
  BY <1>3, LenProperties
<1> HIDE DEF e
<1>5. e = [i \in 1 .. Len(e) |-> e[i]] /\ \A i \in 1 .. Len(e) : e[i] \in V
  BY <1>3, <1>4
<1> HIDE DEF V
<1>6. e \in [1 .. Len(e) -> V]
  BY <1>5
<1>7. e \in Seq(V)
  BY <1>4, <1>6
<1> QED
  BY <1>2, <1>3, <1>4, <1>7 DEF e, V, IsSequence

LEMMA SizedFacts ==
  ASSUME NEW d, Sized(d)
  PROVE  /\ Len(d) \in Nat /\ DOMAIN d = 1 .. Len(d)
         /\ \A i \in 1 .. Len(d) : d[i].size \in Nat
BY SequenceAppend DEF Sized

LEMMA SumExists ==
  ASSUME NEW d, Sized(d)
  PROVE  \E s : SumsTo(d, s, Len(d))
<1> DEFINE T == {k \in 0 .. Len(d) : \E s : SumsTo(d, s, k)}
<1>0. Len(d) \in Nat
  BY SizedFacts
<1>1. 0 \in T
  <2> DEFINE s == [n \in 0 .. 0 |-> 0]
  <2>1. \A n \in 0 .. 0 : n = 0
    OBVIOUS
  <2>2. s = [n \in 0 .. 0 |-> IF n = 0 THEN 0 ELSE s[n - 1] + d[n].size]
    BY <2>1, Zenon
  <2>3. SumsTo(d, s, 0)
    BY <2>2, Zenon DEF SumsTo
  <2> HIDE DEF s
  <2> QED
    BY <1>0, <2>3
<1>2. ASSUME NEW k \in 0 .. Len(d) - 1, k \in T PROVE k + 1 \in T
  <2>1. PICK s : SumsTo(d, s, k)
    BY <1>2
  <2> DEFINE t == [n \in 0 .. k + 1 |-> IF n = k + 1 THEN s[k] + d[k + 1].size ELSE s[n]]
  <2>2. ASSUME NEW n \in 0 .. k + 1
        PROVE  t[n] = IF n = 0 THEN 0 ELSE t[n - 1] + d[n].size
    <3>1. CASE n = k + 1
      <4>1. n # 0 /\ n - 1 = k /\ k # k + 1 /\ k \in 0 .. k + 1
        BY <1>0, <3>1
      <4>2. t[n] = s[k] + d[k + 1].size /\ t[k] = s[k]
        BY <3>1, <4>1
      <4> QED
        BY <3>1, <4>1, <4>2
    <3>2. CASE n # k + 1
      <4>1. n \in 0 .. k /\ (n # 0 => n - 1 \in 0 .. k + 1 /\ n - 1 # k + 1)
        BY <1>0, <3>2
      <4>2. t[n] = s[n] /\ (n # 0 => t[n - 1] = s[n - 1])
        BY <4>1
      <4>3. s[n] = IF n = 0 THEN 0 ELSE s[n - 1] + d[n].size
        BY <2>1, <4>1, Zenon DEF SumsTo
      <4> QED
        BY <4>2, <4>3
    <3> QED
      BY <3>1, <3>2
  <2>3. t = [n \in 0 .. k + 1 |-> t[n]]
    OBVIOUS
  <2> HIDE DEF t
  <2>4. SumsTo(d, t, k + 1)
    BY <2>2, <2>3 DEF SumsTo
  <2>5. k + 1 \in 0 .. Len(d)
    BY <1>0
  <2> QED
    BY <2>4, <2>5
<1> HIDE DEF T
<1>3. Len(d) \in T
  <2>1. 0 .. Len(d) \subseteq T
    BY <1>0, <1>1, <1>2, CountUp
  <2> QED
    BY <1>0, <2>1
<1> QED
  BY <1>3 DEF T

SumOf(d) == CHOOSE s : SumsTo(d, s, Len(d))

LEMMA SumFacts ==
  ASSUME NEW d, Sized(d)
  PROVE  /\ SumOf(d)[0] = 0
         /\ \A n \in 1 .. Len(d) : SumOf(d)[n] = SumOf(d)[n - 1] + d[n].size
         /\ \A n \in 0 .. Len(d) : SumOf(d)[n] \in Nat
         /\ Size(d) = SumOf(d)[Len(d)]
<1> DEFINE s == SumOf(d)
<1>0. Len(d) \in Nat /\ \A i \in 1 .. Len(d) : d[i].size \in Nat
  BY SizedFacts
<1>1. SumsTo(d, s, Len(d))
  BY SumExists, Zenon DEF SumOf
<1>2. Size(d) = s[Len(d)]
  BY Zenon DEF Size, SumOf, SumsTo
<1> HIDE DEF s
<1>3. \A n \in 0 .. Len(d) : s[n] = IF n = 0 THEN 0 ELSE s[n - 1] + d[n].size
  BY <1>1, Zenon DEF SumsTo
<1>4. s[0] = 0 /\ \A n \in 1 .. Len(d) : s[n] = s[n - 1] + d[n].size
  BY <1>0, <1>3
<1> DEFINE T == {k \in 0 .. Len(d) : s[k] \in Nat}
<1>5. 0 \in T
  BY <1>0, <1>4
<1>6. ASSUME NEW k \in 0 .. Len(d) - 1, k \in T PROVE k + 1 \in T
  <2>1. k + 1 \in 1 .. Len(d) /\ (k + 1) - 1 = k
    BY <1>0
  <2>2. s[k + 1] = s[k] + d[k + 1].size
    BY <1>4, <2>1
  <2>3. d[k + 1].size \in Nat /\ s[k] \in Nat
    BY <1>0, <1>6, <2>1
  <2> QED
    BY <2>1, <2>2, <2>3
<1> HIDE DEF T
<1>7. 0 .. Len(d) \subseteq T
  BY <1>0, <1>5, <1>6, CountUp
<1>8. \A n \in 0 .. Len(d) : s[n] \in Nat
  BY <1>7 DEF T
<1> QED
  BY <1>2, <1>4, <1>8 DEF s

LEMMA SizeType == ASSUME NEW d, Sized(d) PROVE Size(d) \in Nat
BY SumFacts, SizedFacts

LEMMA SizeEmpty == Sized(<<>>) /\ Size(<<>>) = 0
<1>1. Sized(<<>>)
  BY DEF Sized, IsSequence
<1> QED
  BY <1>1, SumFacts

(* A piece more.                                                              *)
LEMMA SizeAppend ==
  ASSUME NEW d, Sized(d), NEW x, x.size \in Nat
  PROVE  /\ Sized(Append(d, x)) /\ Size(Append(d, x)) = Size(d) + x.size
         /\ Len(Append(d, x)) = Len(d) + 1 /\ Last(Append(d, x)) = x
         /\ \A i \in 1 .. Len(d) : Append(d, x)[i] = d[i]
<1> DEFINE e == Append(d, x)
<1>2. Len(d) \in Nat /\ DOMAIN d = 1 .. Len(d) /\ \A i \in 1 .. Len(d) : d[i].size \in Nat
  BY SizedFacts
<1>3. /\ IsSequence(e) /\ DOMAIN e = 1 .. Len(d) + 1 /\ Len(e) = Len(d) + 1 /\ e[Len(d) + 1] = x
      /\ \A i \in 1 .. Len(d) : e[i] = d[i]
  BY SequenceAppend DEF Sized
<1> HIDE DEF e
<1>5. Sized(e)
  <2>1. \A i \in 1 .. Len(d) + 1 : i \in 1 .. Len(d) \/ i = Len(d) + 1
    BY <1>2
  <2>2. \A i \in 1 .. Len(d) + 1 : e[i].size \in Nat
    BY <1>2, <1>3, <2>1
  <2> QED
    BY <1>3, <2>2 DEF Sized
<1> DEFINE T == {k \in 0 .. Len(d) : SumOf(e)[k] = SumOf(d)[k]}
<1>6. SumOf(e)[0] = 0 /\ SumOf(d)[0] = 0
  BY <1>5, SumFacts
<1>7. 0 \in T
  BY <1>2, <1>6
<1>8. ASSUME NEW k \in 0 .. Len(d) - 1, k \in T PROVE k + 1 \in T
  <2>1. k + 1 \in 1 .. Len(d) /\ k + 1 \in 1 .. Len(e) /\ (k + 1) - 1 = k
    BY <1>2, <1>3
  <2>2. SumOf(e)[k + 1] = SumOf(e)[k] + e[k + 1].size
    BY <1>5, <2>1, SumFacts
  <2>3. SumOf(d)[k + 1] = SumOf(d)[k] + d[k + 1].size
    BY <2>1, SumFacts
  <2> QED
    BY <1>3, <1>8, <2>1, <2>2, <2>3
<1> HIDE DEF T
<1>9. Len(d) \in T
  <2>1. 0 .. Len(d) \subseteq T
    BY <1>2, <1>7, <1>8, CountUp
  <2> QED
    BY <1>2, <2>1
<1>10. Size(e) = SumOf(e)[Len(d) + 1] /\ Size(d) = SumOf(d)[Len(d)]
  BY <1>3, <1>5, SumFacts
<1>11. SumOf(e)[Len(d) + 1] = SumOf(e)[Len(d)] + x.size
  <2>1. Len(d) + 1 \in 1 .. Len(e) /\ (Len(d) + 1) - 1 = Len(d)
    BY <1>2, <1>3
  <2> QED
    BY <1>3, <1>5, <2>1, SumFacts
<1>12. Size(e) = Size(d) + x.size
  BY <1>9, <1>10, <1>11 DEF T
<1>13. Last(e) = x
  BY <1>3 DEF Last
<1> QED
  BY <1>3, <1>5, <1>12, <1>13 DEF e

-------------------------------------------------------------------------------
(* The rounds of the token loop.                                              *)

LEMMA TokenType == ASSUME source \in Sources, NEW i \in Nat \ {0} PROVE Token(i).n \in Nat
<1> DEFINE S == [type : STRING, text : STRING, n : Nat]
<1>1. source \in Seq(S)
  BY SourcesAssumption
<1>2. CASE i <= Len(source)
  <2>1. i \in 1 .. Len(source)
    BY <1>1, <1>2, LenProperties
  <2>2. source[i] \in S
    BY <1>1, <2>1, ElementOfSeq
  <2> QED
    BY <1>2, <2>2 DEF Token
<1>3. CASE ~(i <= Len(source))
  BY <1>3 DEF Token
<1> QED
  BY <1>2, <1>3

LEMMA LineEnds ==
  ASSUME source \in Sources, NEW i \in Nat \ {0}
  PROVE  NextLine(i) \in Nat /\ i < NextLine(i)
<1> DEFINE Ends == {j \in i .. Len(source) + i : Token(j).type \in {"NEWLINE", "END"}}
<1>0. Len(source) \in Nat
  BY SourcesAssumption, LenProperties
<1>1. Len(source) + i \in Ends
  <2>1. ~(Len(source) + i <= Len(source)) /\ Len(source) + i \in i .. Len(source) + i
    BY <1>0
  <2> QED
    BY <2>1 DEF Token
<1>2. Ends \in SUBSET Nat
  BY <1>0
<1> HIDE DEF Ends
<1>3. PICK j \in Ends : \A k \in Ends : j <= k
  BY <1>1, <1>2, LeastElement
<1>4. j \in i .. Len(source) + i /\ Token(j).type \in {"NEWLINE", "END"}
  BY <1>3 DEF Ends
<1>5. ASSUME NEW k \in i .. j - 1 PROVE Token(k).type \notin {"NEWLINE", "END"}
  <2>1. k \in i .. Len(source) + i /\ ~(j <= k)
    BY <1>0, <1>4
  <2> QED
    BY <1>3, <2>1 DEF Ends
<1>6. EndOfLine(i) \in i .. Len(source) + i
  BY <1>4, <1>5, Zenon DEF EndOfLine
<1> QED
  BY <1>0, <1>6 DEF NextLine

LEMMA OperandsEnd ==
  ASSUME source \in Sources, NEW i \in Nat \ {0, 1}
  PROVE  EndOfOperands(i) \in Nat /\ i <= EndOfOperands(i)
<1> DEFINE Ends == {j \in i .. Len(source) + i : EndsAt(i, j)}
           last == Len(source) + i
<1>0. Len(source) \in Nat
  BY SourcesAssumption, LenProperties
<1>1. last \in Ends
  <2>1. last \in i .. Len(source) + i /\ last - 1 \in Nat
        /\ ~(last <= Len(source)) /\ ~(last - 1 <= Len(source))
    BY <1>0
  <2>2. Token(last).type = "END" /\ Token(last - 1).type = "END"
    BY <2>1 DEF Token
  <2> DEFINE S == {s \in i .. last - 1 : \A r \in s .. last - 1 : Token(r).type \in {"MINUS", "PLUS"}}
  <2>3. S = {}
    <3>1. ASSUME NEW s \in i .. last - 1 PROVE last - 1 \in s .. last - 1
      BY <1>0, <2>1
    <3>2. Token(last - 1).type \notin {"MINUS", "PLUS"}
      BY <2>2
    <3> QED
      BY <3>1, <3>2, Zenon
  <2>4. Cardinality(S) = 0
    BY <2>3, FS_EmptySet
  <2>5. ~Taken(i, last)
    BY <2>4 DEF Taken
  <2> HIDE DEF last
  <2> QED
    BY <2>1, <2>2, <2>5 DEF EndsAt
<1>2. Ends \in SUBSET Nat
  BY <1>0
<1> HIDE DEF Ends
<1>3. PICK j \in Ends : \A k \in Ends : j <= k
  BY <1>1, <1>2, LeastElement
<1>4. j \in i .. Len(source) + i /\ EndsAt(i, j)
  BY <1>3 DEF Ends
<1>5. ASSUME NEW k \in i .. j - 1 PROVE ~EndsAt(i, k)
  <2>1. k \in i .. Len(source) + i /\ ~(j <= k)
    BY <1>0, <1>4
  <2> QED
    BY <1>3, <2>1 DEF Ends
<1>6. EndOfOperands(i) \in i .. Len(source) + i
  BY <1>4, <1>5, Zenon DEF EndOfOperands
<1> QED
  BY <1>0, <1>6

LEMMA NextPosAfter ==
  ASSUME source \in Sources, NEW p \in Nat \ {0}
  PROVE  NextPos(p) \in Nat \ {0} /\ p < NextPos(p)
<1>1. NamePosAt(p) \in {p + 1, p + 2, p + 3}
  BY DEF NamePosAt
<1>2. \A k \in {p + 2, p + 3, p + 4} : k \in Nat \ {0} /\ p < k
  OBVIOUS
<1>3. \A k \in {p + 2, p + 3, p + 4} : NextLine(k) \in Nat /\ k < NextLine(k)
  BY <1>2, LineEnds
<1>4. \A k \in {p + 2, p + 3, p + 4} : NextLine(k) \in Nat \ {0} /\ p < NextLine(k)
  BY <1>2, <1>3
<1>5. NamePosAt(p) + 1 \in {p + 2, p + 3, p + 4}
  BY <1>1
<1>6. EndOfOperands(p + 2) + 1 \in Nat \ {0} /\ p < EndOfOperands(p + 2) + 1
  <2>1. p + 2 \in Nat \ {0, 1}
    OBVIOUS
  <2>2. EndOfOperands(p + 2) \in Nat /\ p + 2 <= EndOfOperands(p + 2)
    BY <2>1, OperandsEnd
  <2> QED
    BY <2>2
<1> QED
  BY <1>2, <1>4, <1>5, <1>6 DEF NextPos

LEMMA DataSizeFacts ==
  /\ DOMAIN DataSize = {"byte", "word", "short", "quad", "dword"}
  /\ \A name \in DOMAIN DataSize : DataSize[name] \in Nat
BY DEF DataSize

(* What a round that enters no section does.                                  *)
Gathers ==
  /\ Sized(current_data')
  /\ Size(current_data') = Size(current_data) + Added(pos, Size(current_data))
  /\ \/ current_data' = current_data
     \/ \E x : x.at = pos /\ x.size \in Nat /\ current_data' = Append(current_data, x)

LEMMA GathersOne ==
  ASSUME Sized(current_data), NEW k \in Nat, NEW regs, NEW imm,
         Added(pos, Size(current_data)) = k,
         current_data' = Append(current_data, Piece(k, regs, imm))
  PROVE  Gathers
<1> DEFINE x == Piece(k, regs, imm)
<1>1. x.at = pos /\ x.size = k
  BY DEF Piece
<1> HIDE DEF x
<1>2. Sized(Append(current_data, x)) /\ Size(Append(current_data, x)) = Size(current_data) + k
  BY <1>1, SizeAppend
<1>3. current_data' = Append(current_data, x)
  BY DEF x
<1> QED
  BY <1>1, <1>2, <1>3 DEF Gathers

LEMMA GathersNone ==
  ASSUME Sized(current_data), Added(pos, Size(current_data)) = 0, current_data' = current_data
  PROVE  Gathers
<1>1. Size(current_data) \in Nat
  BY SizeType
<1> QED
  BY <1>1 DEF Gathers

SwitchRound ==
  /\ SwitchAt(pos) /\ pos' = NextPos(pos)
  /\ IF NameAt(pos) \in SectionNames
     THEN current_sec' = NameAt(pos) /\ current_data' = <<>>
     ELSE UNCHANGED <<current_sec, current_data>>
  /\ Commit
  /\ UNCHANGED <<source, pass>>

OtherRound ==
  /\ ~SwitchAt(pos) /\ pos' = NextPos(pos) /\ Gathers
  /\ UNCHANGED <<source, pass, current_sec, sections>>

LEMMA SwitchIsRound == ASSUME Switch PROVE SwitchRound
<1>1. NamePos = NamePosAt(pos)
  BY DEF NamePos, NamePosAt
<1>2. SwitchAt(pos)
  BY DEF Switch, Directive, SwitchAt
<1>3. NextPos(pos) = NextLine(NamePosAt(pos) + 1)
  BY <1>2 DEF NextPos, SwitchAt
<1> QED
  BY <1>1, <1>2, <1>3, Zenon DEF Switch, SwitchRound, NameAt

LEMMA DirectiveRound ==
  ASSUME NEW names, Directive(names), names \cap SectionDirectives = {}, names \subseteq KnownDirectives
  PROVE  ~SwitchAt(pos) /\ NextPos(pos) = NextLine(pos + 3)
BY DEF Directive, SwitchAt, NextPos

LEMMA DirectiveNames ==
  /\ {"global", "globl"} \cap SectionDirectives = {} /\ {"global", "globl"} \subseteq KnownDirectives
  /\ DOMAIN DataSize \cap SectionDirectives = {} /\ DOMAIN DataSize \subseteq KnownDirectives
  /\ StringNames \cap SectionDirectives = {} /\ StringNames \subseteq KnownDirectives
  /\ {"align"} \cap SectionDirectives = {} /\ {"align"} \subseteq KnownDirectives
  /\ DOMAIN DataSize \cap (StringNames \cup {"align", "global", "globl"}) = {}
  /\ StringNames \cap {"align", "global", "globl"} = {}
BY DataSizeFacts DEF SectionDirectives, SectionNames, KnownDirectives, StringNames

LEMMA DataRounds ==
  ASSUME source \in Sources, pos \in Nat \ {0}, Sized(current_data), Number \/ String \/ Align \/ Global
  PROVE  OtherRound
<1> DEFINE t == Token(pos + 2)
           name == Token(pos + 1).text
<1>0. Size(current_data) \in Nat /\ t.n \in Nat
  <2>1. pos + 2 \in Nat \ {0}
    OBVIOUS
  <2> QED
    BY <2>1, SizeType, TokenType
<1>1. CASE Global
  <2>1. Directive({"global", "globl"}) /\ pos' = NextLine(pos + 3)
        /\ UNCHANGED <<source, pass, current_sec, current_data, sections>>
    BY <1>1 DEF Global
  <2>2. Added(pos, Size(current_data)) = 0
    BY <2>1, DirectiveNames DEF Added, Directive
  <2>3. Gathers
    BY <2>1, <2>2, GathersNone
  <2> QED
    BY <2>1, <2>3, DirectiveRound, DirectiveNames DEF OtherRound
<1>2. CASE Number
  <2>1. Directive(DOMAIN DataSize) /\ pos' = NextLine(pos + 3)
        /\ UNCHANGED <<source, pass, current_sec, sections>>
    BY <1>2 DEF Number
  <2>2. Gathers
    <3>1. CASE t.type = "NUMBER"
      <4>1. Added(pos, Size(current_data)) = DataSize[name] /\ DataSize[name] \in Nat
        BY <2>1, <3>1, DataSizeFacts DEF Added, Directive
      <4>2. current_data' = Append(current_data, Piece(DataSize[name], <<>>, 0))
        BY <1>2, <3>1 DEF Number, Datum
      <4> QED
        BY <4>1, <4>2, GathersOne
    <3>2. CASE t.type # "NUMBER"
      <4>1. Added(pos, Size(current_data)) = 0
        BY <2>1, <3>2, DirectiveNames DEF Added, Directive
      <4>2. current_data' = current_data
        BY <1>2, <3>2 DEF Number
      <4> QED
        BY <4>1, <4>2, GathersNone
    <3> QED
      BY <3>1, <3>2
  <2> QED
    BY <2>1, <2>2, DirectiveRound, DirectiveNames DEF OtherRound
<1>3. CASE String
  <2>1. Directive(StringNames) /\ pos' = NextLine(pos + 3)
        /\ UNCHANGED <<source, pass, current_sec, sections>>
    BY <1>3 DEF String
  <2>0. name \in StringNames /\ name \notin DOMAIN DataSize /\ name # "align"
    BY <2>1, DirectiveNames DEF Directive
  <2>2. Gathers
    <3>1. CASE t.type = "STRING"
      <4> DEFINE k == t.n + IF name = "ascii" THEN 0 ELSE 1
      <4>1. Added(pos, Size(current_data)) = k
        BY <2>0, <2>1, <3>1 DEF Added, Directive
      <4>2. current_data' = Append(current_data, Piece(k, <<>>, 0))
        BY <1>3, <3>1 DEF String, Datum
      <4>3. k \in Nat
        BY <1>0
      <4> HIDE DEF k
      <4> QED
        BY <4>1, <4>2, <4>3, GathersOne
    <3>2. CASE t.type # "STRING"
      <4>1. Added(pos, Size(current_data)) = 0
        BY <2>0, <2>1, <3>2 DEF Added, Directive
      <4>2. current_data' = current_data
        BY <1>3, <3>2 DEF String
      <4> QED
        BY <4>1, <4>2, GathersNone
    <3> QED
      BY <3>1, <3>2
  <2> QED
    BY <2>1, <2>2, DirectiveRound, DirectiveNames DEF OtherRound
<1>4. CASE Align
  <2>1. Directive({"align"}) /\ pos' = NextLine(pos + 3)
        /\ UNCHANGED <<source, pass, current_sec, sections>>
    BY <1>4 DEF Align
  <2>0. name = "align" /\ name \notin DOMAIN DataSize /\ name \notin StringNames
    BY <2>1, DirectiveNames DEF Directive
  <2> DEFINE mis == Size(current_data) % t.n
  <2>2. Gathers
    <3>1. CASE t.type = "NUMBER" /\ mis # 0
      <4> DEFINE k == t.n - mis
      <4>1. Added(pos, Size(current_data)) = k
        BY <2>0, <2>1, <3>1 DEF Added, Directive
      <4>2. current_data' = Append(current_data, Piece(k, <<>>, 0))
        BY <1>4, <3>1 DEF Align, Datum
      <4>3. t.n > 0
        <5>1. pos + 2 <= Len(source)
          BY <3>1 DEF Token
        <5>2. Len(source) \in Nat
          BY SourcesAssumption, LenProperties
        <5>3. pos + 2 \in 3 .. Len(source) /\ (pos + 2) - 2 = pos /\ (pos + 2) - 1 = pos + 1
              /\ pos <= Len(source) /\ pos + 1 <= Len(source)
          BY <5>1, <5>2
        <5>4. source[pos].type = "DOT" /\ source[pos + 1].text = "align" /\ source[pos + 2].type = "NUMBER"
              /\ t.n = source[pos + 2].n
          BY <2>0, <2>1, <3>1, <5>1, <5>3 DEF Token, Directive
        <5> QED
          BY <5>3, <5>4, SourcesAssumption
      <4>4. k \in Nat
        BY <1>0, <4>3
      <4> HIDE DEF k
      <4> QED
        BY <4>1, <4>2, <4>4, GathersOne
    <3>2. CASE ~(t.type = "NUMBER" /\ mis # 0)
      <4>1. Added(pos, Size(current_data)) = 0
        BY <2>0, <2>1, <3>2 DEF Added, Directive
      <4>2. current_data' = current_data
        BY <1>4, <3>2 DEF Align
      <4> QED
        BY <4>1, <4>2, GathersNone
    <3> QED
      BY <3>1, <3>2
  <2> QED
    BY <2>1, <2>2, DirectiveRound, DirectiveNames DEF OtherRound
<1> QED
  BY <1>1, <1>2, <1>3, <1>4

LEMMA OtherRounds ==
  ASSUME Sized(current_data), Label \/ Instruction \/ SkipLine \/ SkipToken
  PROVE  OtherRound
<1>1. CASE Label
  <2>1. /\ Token(pos).type = "IDENT" /\ Token(pos + 1).type = "COLON" /\ pos' = pos + 2
        /\ UNCHANGED <<source, pass, current_sec, current_data, sections>>
    BY <1>1 DEF Label, AtLabel
  <2>2. Added(pos, Size(current_data)) = 0 /\ NextPos(pos) = pos + 2 /\ ~SwitchAt(pos)
    BY <2>1 DEF Added, NextPos, SwitchAt
  <2> QED
    BY <2>1, <2>2, GathersNone DEF OtherRound
<1>2. CASE Instruction
  <2>1. /\ Token(pos).type = "IDENT" /\ Token(pos + 1).type # "COLON"
        /\ Token(pos).text \in Mnemonics /\ pos' = EndOfOperands(pos + 2) + 1
        /\ UNCHANGED <<source, pass, current_sec, sections>>
    BY <1>2 DEF Instruction, Identifier
  <2> DEFINE k == IF Token(pos).text \in Escape THEN 8 ELSE 4
  <2>2. PICK regs, imm : current_data' = Append(current_data, Piece(k, regs, imm))
    BY <1>2 DEF Instruction
  <2>3. /\ Added(pos, Size(current_data)) = k /\ ~SwitchAt(pos)
        /\ NextPos(pos) = EndOfOperands(pos + 2) + 1
    BY <2>1 DEF Added, NextPos, SwitchAt
  <2>4. k \in Nat
    OBVIOUS
  <2> HIDE DEF k
  <2>5. Gathers
    BY <2>2, <2>3, <2>4, GathersOne
  <2> QED
    BY <2>1, <2>3, <2>5 DEF OtherRound
<1>3. CASE SkipLine
  <2>1. /\ pos' = NextLine(pos + 2)
        /\ UNCHANGED <<source, pass, current_sec, current_data, sections>>
    BY <1>3 DEF SkipLine
  <2>2. \/ /\ Token(pos).type = "DOT" /\ Token(pos + 1).type = "IDENT"
           /\ Token(pos + 1).text \notin KnownDirectives
        \/ /\ Token(pos).type = "IDENT" /\ Token(pos + 1).type # "COLON"
           /\ Token(pos).text \notin Mnemonics
    BY <1>3 DEF SkipLine, Identifier
  <2>3. SectionDirectives \cup DOMAIN DataSize \cup StringNames \cup {"align"} \subseteq KnownDirectives
    BY DirectiveNames DEF KnownDirectives
  <2>4. NextPos(pos) = NextLine(pos + 2) /\ ~SwitchAt(pos) /\ Added(pos, Size(current_data)) = 0
    BY <2>2, <2>3 DEF Added, NextPos, SwitchAt
  <2> QED
    BY <2>1, <2>4, GathersNone DEF OtherRound
<1>4. CASE SkipToken
  <2>1. UNCHANGED <<source, pass, current_sec, current_data, sections>>
    BY <1>4 DEF SkipToken
  <2>2. \/ Token(pos).type \notin {"DOT", "IDENT"} /\ pos' = pos + 1
        \/ Token(pos).type = "DOT" /\ Token(pos + 1).type # "IDENT" /\ pos' = pos + 2
    BY <1>4 DEF SkipToken
  <2>3. NextPos(pos) = pos' /\ ~SwitchAt(pos) /\ Added(pos, Size(current_data)) = 0
    BY <2>2 DEF Added, NextPos, SwitchAt
  <2> QED
    BY <2>1, <2>3, GathersNone DEF OtherRound
<1> QED
  BY <1>1, <1>2, <1>3, <1>4

(* A step of the assembler is a round, or the end of a pass.                  *)
LEMMA Rounds ==
  ASSUME source \in Sources, pos \in Nat \ {0}, Sized(current_data), Step, ~EndOfPass
  PROVE  pass < 2 /\ Token(pos).type # "END" /\ (SwitchRound \/ OtherRound)
<1>1. pass < 2 /\ Token(pos).type # "END"
  BY DEF Step, Switch, Global, Number, String, Align, Label, Instruction, SkipLine, SkipToken,
         Directive, AtLabel, Identifier, Running
<1>2. CASE Switch
  BY <1>1, <1>2, SwitchIsRound
<1>3. CASE Number \/ String \/ Align \/ Global
  BY <1>1, <1>3, DataRounds
<1>4. CASE Label \/ Instruction \/ SkipLine \/ SkipToken
  BY <1>1, <1>4, OtherRounds
<1> QED
  BY <1>2, <1>3, <1>4 DEF Step

-------------------------------------------------------------------------------
(* The invariant.                                                             *)

(* The tokens do not change, nor what they alone determine.                   *)
LEMMA SourceKept ==
  ASSUME source' = source
  PROVE  /\ \A p : Token(p)' = Token(p) /\ SwitchAt(p)' = SwitchAt(p) /\ NameAt(p)' = NameAt(p)
         /\ \A p : NextPos(p)' = NextPos(p)
         /\ \A p, n : NextSize(p, n)' = NextSize(p, n)
         /\ \A p, sec : NextSec(p, sec)' = NextSec(p, sec)
<1>1. ASSUME NEW p PROVE Token(p)' = Token(p)
  BY DEF Token
<1>2. ASSUME NEW p PROVE SwitchAt(p)' = SwitchAt(p) /\ NamePosAt(p)' = NamePosAt(p)
  BY DEF Token, SwitchAt, NamePosAt
<1>3. ASSUME NEW p PROVE NameAt(p)' = NameAt(p) /\ Entering(p)' = Entering(p)
  <2>1. NameAt(p)' = NameAt(p)
    BY DEF Token, NameAt, NamePosAt
  <2> QED
    BY <1>2, <2>1 DEF Entering
<1>4. ASSUME NEW p PROVE NextLine(p)' = NextLine(p)
  BY DEF NextLine, EndOfLine, Token
<1>5. ASSUME NEW p PROVE NextPos(p)' = NextPos(p)
  <2>1. EndOfOperands(p + 2)' = EndOfOperands(p + 2)
    BY DEF EndOfOperands, EndsAt, Taken, Token
  <2> QED
    BY <1>1, <1>2, <1>4, <2>1 DEF NextPos
<1>6. ASSUME NEW p, NEW n PROVE NextSize(p, n)' = NextSize(p, n)
  BY <1>1, <1>3 DEF NextSize, Added
<1>7. ASSUME NEW p, NEW sec PROVE NextSec(p, sec)' = NextSec(p, sec)
  BY <1>3 DEF NextSec
<1> QED
  BY <1>1, <1>2, <1>3, <1>5, <1>6, <1>7

LEMMA AsmStart == AInit => AsmInv
<1> SUFFICES ASSUME AInit PROVE AsmInv
  OBVIOUS
<1>1. /\ source \in Sources /\ pass = 0 /\ pos = 1 /\ current_sec = "text" /\ current_data = <<>>
      /\ sections = [s \in SectionNames |-> <<>>] /\ emitted = [s \in SectionNames |-> <<>>]
      /\ seen = <<>> /\ entered = <<>>
  BY DEF AInit, AsmInit
<1>2. DOMAIN seen = {} /\ Len(entered) = 0 /\ IsSequence(entered)
  BY <1>1 DEF IsSequence
<1>3. AsmTypes
  <2>1. \A sec \in SectionNames : sections[sec] = <<>> /\ emitted[sec] = <<>>
    BY <1>1
  <2>2. sections = [sec \in SectionNames |-> sections[sec]]
        /\ emitted = [sec \in SectionNames |-> emitted[sec]]
    BY <1>1
  <2>3. "text" \in SectionNames
    BY DEF SectionNames
  <2> QED
    BY <1>1, <1>2, <2>1, <2>2, <2>3, SizeEmpty DEF AsmTypes
<1>4. TraceInv
  BY <1>1, <1>2, SizeEmpty DEF TraceInv, Visited
<1>5. EnteredInv
  BY <1>2 DEF EnteredInv
<1>6. PassesAlign /\ GatherInv
  BY <1>1 DEF PassesAlign, GatherInv, Before
<1> QED
  BY <1>3, <1>4, <1>5, <1>6 DEF AsmInv

(* The sections of a plain source, from the tokens the first pass saw.        *)
LEMMA PlainFacts ==
  ASSUME IsSequence(entered), EnteredInv, Plain
  PROVE  /\ 1 \in DOMAIN seen /\ SwitchAt(1)
         /\ \A p \in DOMAIN seen : SwitchAt(p) => NameAt(p) \in SectionNames
         /\ \A p, q \in DOMAIN seen : SwitchAt(p) /\ SwitchAt(q) /\ p # q => NameAt(p) # NameAt(q)
<1>0. Len(entered) \in Nat /\ DOMAIN entered = 1 .. Len(entered)
  BY SequenceAppend
<1>1. Len(entered) # 0
  BY <1>0 DEF Plain, IsSequence
<1>2. 1 \in 1 .. Len(entered) /\ entered[1].at = 1
  BY <1>0, <1>1 DEF Plain
<1>3. 1 \in DOMAIN seen /\ SwitchAt(1)
  BY <1>2 DEF EnteredInv
<1>4. ASSUME NEW p \in DOMAIN seen, SwitchAt(p)
      PROVE  \E i \in 1 .. Len(entered) : entered[i].at = p /\ entered[i].name = NameAt(p)
  BY <1>4 DEF EnteredInv
<1>5. ASSUME NEW p \in DOMAIN seen, SwitchAt(p) PROVE NameAt(p) \in SectionNames
  BY <1>4, <1>5 DEF Plain
<1>6. ASSUME NEW p \in DOMAIN seen, NEW q \in DOMAIN seen, SwitchAt(p), SwitchAt(q), p # q
      PROVE  NameAt(p) # NameAt(q)
  <2>1. PICK i \in 1 .. Len(entered) : entered[i].at = p /\ entered[i].name = NameAt(p)
    BY <1>4, <1>6
  <2>2. PICK j \in 1 .. Len(entered) : entered[j].at = q /\ entered[j].name = NameAt(q)
    BY <1>4, <1>6
  <2>3. i # j
    BY <1>6, <2>1, <2>2
  <2> QED
    BY <2>1, <2>2, <2>3 DEF Plain
<1> QED
  BY <1>3, <1>5, <1>6

LEMMA RoundMoves ==
  ASSUME AsmTypes, SwitchRound \/ OtherRound
  PROVE  /\ source' = source /\ pass' = pass /\ pos' = NextPos(pos) /\ pos < pos' /\ pos' \in Nat \ {0}
         /\ current_sec' = NextSec(pos, current_sec) /\ current_sec' \in SectionNames
         /\ Sized(current_data') /\ Size(current_data') = NextSize(pos, Size(current_data))
         /\ sections' = [sec \in SectionNames |-> sections'[sec]]
<1>0. source \in Sources /\ pos \in Nat \ {0} /\ current_sec \in SectionNames /\ Sized(current_data)
      /\ sections = [sec \in SectionNames |-> sections[sec]]
  BY DEF AsmTypes
<1>1. source' = source /\ pass' = pass /\ pos' = NextPos(pos)
  BY DEF SwitchRound, OtherRound
<1>2. pos < pos' /\ pos' \in Nat \ {0}
  BY <1>0, <1>1, NextPosAfter
<1>3. CASE SwitchRound
  <2>1. SwitchAt(pos) /\ (Entering(pos) <=> NameAt(pos) \in SectionNames)
    BY <1>3 DEF SwitchRound, Entering
  <2>2. sections' = [sec \in SectionNames |-> sections'[sec]]
    BY <1>0, <1>3 DEF SwitchRound, Commit
  <2>3. CASE Entering(pos)
    BY <1>1, <1>2, <1>3, <2>1, <2>2, <2>3, SizeEmpty DEF SwitchRound, NextSize, NextSec
  <2>4. CASE ~Entering(pos)
    <3>1. current_sec' = current_sec /\ current_data' = current_data
      BY <1>3, <2>1, <2>4 DEF SwitchRound
    <3>2. Added(pos, Size(current_data)) = 0
      <4>1. Token(pos).type = "DOT" /\ Token(pos + 1).type = "IDENT"
            /\ Token(pos + 1).text \in SectionDirectives
        BY <2>1 DEF SwitchAt
      <4>2. Token(pos + 1).text \notin DOMAIN DataSize \cup StringNames \cup {"align"}
        BY <4>1, DirectiveNames
      <4> QED
        BY <4>1, <4>2 DEF Added
    <3>3. Size(current_data) \in Nat
      BY <1>0, SizeType
    <3> QED
      BY <1>0, <1>1, <1>2, <2>2, <2>4, <3>1, <3>2, <3>3 DEF NextSize, NextSec
  <2> QED
    BY <2>3, <2>4
<1>4. CASE OtherRound
  <2>1. ~Entering(pos) /\ current_sec' = current_sec /\ sections' = sections /\ Gathers
    BY <1>4 DEF OtherRound, Entering
  <2> QED
    BY <1>0, <1>1, <1>2, <2>1 DEF NextSize, NextSec, Gathers
<1> QED
  BY <1>3, <1>4

LEMMA FollowTypes ==
  ASSUME AsmTypes, Follow, source' \in Sources, pass' \in 0 .. 2, pos' \in Nat \ {0},
         current_sec' \in SectionNames, Sized(current_data'),
         sections' = [sec \in SectionNames |-> sections'[sec]]
  PROVE  AsmTypes'
<1>1. DOMAIN seen' \subseteq Nat \ {0}
  BY DEF AsmTypes, Follow
<1>2. IsSequence(entered')
  BY SequenceAppend DEF AsmTypes, Follow
<1>3. /\ emitted' = [sec \in SectionNames |-> emitted'[sec]]
      /\ \A sec \in SectionNames : Sized(emitted'[sec])
  <2>0. /\ emitted = [sec \in SectionNames |-> emitted[sec]] /\ current_sec \in SectionNames
        /\ \A sec \in SectionNames : Sized(emitted[sec])
    BY DEF AsmTypes
  <2>1. CASE emitted' = emitted
    BY <2>0, <2>1
  <2>2. CASE emitted' # emitted
    <3>1. Len(current_data') > Len(current_data)
          /\ emitted' = [emitted EXCEPT ![current_sec] = Append(@, Last(current_data'))]
      BY <2>2 DEF Follow
    <3> DEFINE x == Last(current_data')
    <3>2. x.size \in Nat
      <4>1. Len(current_data') \in Nat /\ Len(current_data) \in Nat
            /\ \A i \in 1 .. Len(current_data') : current_data'[i].size \in Nat
        BY SizedFacts DEF AsmTypes
      <4>2. Len(current_data') \in 1 .. Len(current_data')
        BY <3>1, <4>1
      <4> QED
        BY <4>1, <4>2 DEF Last
    <3>3. emitted' = [emitted EXCEPT ![current_sec] = Append(emitted[current_sec], x)]
      BY <3>1
    <3> HIDE DEF x
    <3>4. Sized(Append(emitted[current_sec], x))
      BY <2>0, <3>2, SizeAppend
    <3> QED
      BY <2>0, <3>3, <3>4
  <2> QED
    BY <2>1, <2>2
<1> QED
  BY <1>1, <1>2, <1>3 DEF AsmTypes

(* What the first pass notes of a round.                                      *)
LEMMA Noted ==
  ASSUME AsmTypes, TraceInv, pass = 0, Follow
  PROVE  /\ DOMAIN seen' = DOMAIN seen \cup {pos}
         /\ seen'[pos].offset = Size(current_data) /\ seen'[pos].sec = current_sec
         /\ \A p \in DOMAIN seen : p \in Nat \ {0} /\ p # pos /\ seen'[p] = seen[p]
         /\ emitted' = emitted
         /\ entered' = IF Directive(SectionDirectives)
                       THEN Append(entered, [at |-> pos, name |-> NameAt(pos)]) ELSE entered
<1>1. DOMAIN seen' = DOMAIN seen \cup {pos} /\ seen'[pos] = Here
      /\ \A p \in DOMAIN seen : p # pos => seen'[p] = seen[p]
  BY DEF Follow
<1>2. Here.offset = Size(current_data) /\ Here.sec = current_sec
  BY DEF Here
<1>3. ASSUME NEW p \in DOMAIN seen PROVE p \in Nat \ {0} /\ p # pos
  <2>1. p \in Nat \ {0} /\ source \in Sources /\ pos \in Nat
    BY DEF AsmTypes
  <2>2. NextPos(p) <= pos
    BY DEF TraceInv
  <2>3. p < NextPos(p) /\ NextPos(p) \in Nat
    BY <2>1, NextPosAfter
  <2> QED
    BY <2>1, <2>2, <2>3
<1>4. NamePos = NamePosAt(pos)
  BY DEF NamePos, NamePosAt
<1> QED
  BY <1>1, <1>2, <1>3, <1>4 DEF Follow, NameAt

LEMMA FirstRound ==
  ASSUME AsmInv, pass = 0, Token(pos).type # "END", SwitchRound \/ OtherRound, Follow
  PROVE  AsmInv'
<1>0. /\ source' = source /\ pass' = pass /\ pos' = NextPos(pos) /\ pos < pos' /\ pos' \in Nat \ {0}
      /\ current_sec' = NextSec(pos, current_sec) /\ current_sec' \in SectionNames
      /\ Sized(current_data') /\ Size(current_data') = NextSize(pos, Size(current_data))
      /\ sections' = [sec \in SectionNames |-> sections'[sec]]
  BY RoundMoves DEF AsmInv
<1>1. /\ DOMAIN seen' = DOMAIN seen \cup {pos}
      /\ seen'[pos].offset = Size(current_data) /\ seen'[pos].sec = current_sec
      /\ \A p \in DOMAIN seen : p \in Nat \ {0} /\ p # pos /\ seen'[p] = seen[p]
      /\ emitted' = emitted
      /\ entered' = IF Directive(SectionDirectives)
                    THEN Append(entered, [at |-> pos, name |-> NameAt(pos)]) ELSE entered
  BY Noted DEF AsmInv
<1>2. /\ \A p : Token(p)' = Token(p) /\ SwitchAt(p)' = SwitchAt(p) /\ NameAt(p)' = NameAt(p)
      /\ \A p : NextPos(p)' = NextPos(p)
      /\ \A p, n : NextSize(p, n)' = NextSize(p, n)
      /\ \A p, sec : NextSec(p, sec)' = NextSec(p, sec)
  BY <1>0, SourceKept
<1>3. /\ source \in Sources /\ pos \in Nat \ {0} /\ IsSequence(entered) /\ Sized(current_data)
      /\ sections = [sec \in SectionNames |-> sections[sec]] /\ current_sec \in SectionNames
  BY DEF AsmInv, AsmTypes
<1>4. AsmTypes'
  BY <1>0, <1>3, FollowTypes DEF AsmInv
<1>5. ASSUME NEW p, NEW n, NEW sec, Visited(p, n, sec) PROVE Visited(p, n, sec)'
  BY <1>0, <1>1, <1>5 DEF Visited
<1>6. ASSUME NEW p \in DOMAIN seen
      PROVE  p \in Nat /\ p < pos /\ NextPos(p) <= pos /\ NextPos(p) \in Nat /\ Token(p).type # "END"
  <2>1. p \in Nat \ {0}
    BY <1>1
  <2>2. NextPos(p) <= pos /\ Token(p).type # "END"
    BY DEF AsmInv, TraceInv
  <2>3. p < NextPos(p) /\ NextPos(p) \in Nat
    BY <1>3, <2>1, NextPosAfter
  <2> QED
    BY <1>3, <2>1, <2>2, <2>3
<1>7. TraceInv'
  <2>1. Visited(1, 0, "text")'
    BY <1>5 DEF AsmInv, TraceInv
  <2>2. ASSUME NEW p \in DOMAIN seen', NEW n, NEW sec, n = seen'[p].offset, sec = seen'[p].sec
        PROVE  Visited(NextPos(p), NextSize(p, n), NextSec(p, sec))'
    <3>1. CASE p = pos
      <4>1. n = Size(current_data) /\ sec = current_sec
        BY <1>1, <2>2, <3>1
      <4>2. pos' = NextPos(p)' /\ Size(current_data') = NextSize(p, n)' /\ current_sec' = NextSec(p, sec)'
            /\ pass' = 0
        BY <1>0, <1>2, <3>1, <4>1
      <4> QED
        BY <4>2 DEF Visited
    <3>2. CASE p \in DOMAIN seen
      <4>1. n = seen[p].offset /\ sec = seen[p].sec /\ Token(p).type # "END"
        BY <1>1, <1>6, <2>2, <3>2
      <4>2. Visited(NextPos(p), NextSize(p, n), NextSec(p, sec))
        BY <3>2, <4>1 DEF AsmInv, TraceInv
      <4> DEFINE q == NextPos(p)
                 m == NextSize(p, n)
                 s == NextSec(p, sec)
      <4>3. \/ q \in DOMAIN seen' /\ seen'[q].offset = m /\ seen'[q].sec = s
            \/ pass' = 0 /\ pos' = q /\ Size(current_data') = m /\ current_sec' = s
        <5>1. \/ q \in DOMAIN seen /\ seen[q].offset = m /\ seen[q].sec = s
              \/ pos = q /\ Size(current_data) = m /\ current_sec = s
          BY <4>2 DEF Visited
        <5> HIDE DEF q, m, s
        <5> QED
          BY <1>1, <5>1
      <4> QED
        BY <1>2, <4>3 DEF Visited
    <3> QED
      BY <1>1, <3>1, <3>2
  <2>3. ASSUME NEW p \in DOMAIN seen', NEW q \in DOMAIN seen', p < q PROVE NextPos(p) <= q
    <3>1. CASE p \in DOMAIN seen /\ q \in DOMAIN seen
      BY <2>3, <3>1 DEF AsmInv, TraceInv
    <3>2. CASE p \in DOMAIN seen /\ q = pos
      BY <1>6, <3>2
    <3>3. CASE p = pos
      <4>1. q \notin DOMAIN seen
        BY <1>3, <1>6, <2>3, <3>3
      <4>2. q = p
        BY <1>1, <3>3, <4>1
      <4> QED
        BY <1>3, <2>3, <3>3, <4>2
    <3> QED
      BY <1>1, <3>1, <3>2, <3>3
  <2>4. ASSUME NEW p \in DOMAIN seen' PROVE Token(p).type # "END" /\ NextPos(p) <= pos'
    <3>1. CASE p = pos
      BY <1>0, <3>1
    <3>2. CASE p \in DOMAIN seen
      BY <1>0, <1>3, <1>6, <3>2
    <3> QED
      BY <1>1, <3>1, <3>2
  <2> QED
    BY <1>2, <2>1, <2>2, <2>3, <2>4 DEF TraceInv
<1>8. EnteredInv'
  <2>1. SwitchAt(pos) <=> Directive(SectionDirectives)
    <3>1. Running
      BY DEF AsmInv, Running
    <3> QED
      BY <3>1 DEF SwitchAt, Directive
  <2> DEFINE n == Len(entered)
             x == [at |-> pos, name |-> NameAt(pos)]
  <2>2. CASE SwitchAt(pos)
    <3>1. entered' = Append(entered, x) /\ x.at = pos /\ x.name = NameAt(pos)
      BY <1>1, <2>1, <2>2
    <3> HIDE DEF x
    <3>2. /\ n \in Nat /\ Len(entered') = n + 1 /\ entered'[n + 1] = x
          /\ \A i \in 1 .. n : entered'[i] = entered[i]
      BY <1>3, <3>1, SequenceAppend
    <3> HIDE DEF n
    <3>3. \A i \in 1 .. n + 1 : i \in 1 .. n \/ i = n + 1
      BY <3>2
    <3>4. ASSUME NEW i \in 1 .. n
          PROVE  /\ entered'[i].at \in DOMAIN seen' /\ SwitchAt(entered'[i].at)
                 /\ entered'[i].name = NameAt(entered'[i].at)
      BY <1>1, <3>2 DEF AsmInv, EnteredInv, n
    <3>5. \A i \in 1 .. Len(entered') :
             /\ entered'[i].at \in DOMAIN seen' /\ SwitchAt(entered'[i].at)
             /\ entered'[i].name = NameAt(entered'[i].at)
      BY <1>1, <2>2, <3>1, <3>2, <3>3, <3>4
    <3>6. ASSUME NEW p \in DOMAIN seen', SwitchAt(p)
          PROVE  \E i \in 1 .. Len(entered') : entered'[i].at = p
      <4>1. CASE p = pos
        <5>1. n + 1 \in 1 .. Len(entered')
          BY <3>2
        <5> QED
          BY <3>1, <3>2, <4>1, <5>1
      <4>2. CASE p \in DOMAIN seen
        <5>1. PICK i \in 1 .. n : entered[i].at = p
          BY <3>6, <4>2 DEF AsmInv, EnteredInv, n
        <5>2. i \in 1 .. Len(entered') /\ entered'[i] = entered[i]
          BY <3>2
        <5> QED
          BY <5>1, <5>2
      <4> QED
        BY <1>1, <4>1, <4>2
    <3>7. \A i \in 1 .. Len(entered') : \A p : p = entered'[i].at =>
             p \in DOMAIN seen' /\ SwitchAt(p)' /\ entered'[i].name = NameAt(p)'
      BY <1>2, <3>5
    <3> QED
      BY <1>2, <3>6, <3>7 DEF EnteredInv
  <2>3. CASE ~SwitchAt(pos)
    <3>1. entered' = entered
      BY <1>1, <2>1, <2>3
    <3>2. \A i \in 1 .. Len(entered') : \A p : p = entered'[i].at =>
             p \in DOMAIN seen' /\ SwitchAt(p)' /\ entered'[i].name = NameAt(p)'
      BY <1>1, <1>2, <3>1 DEF AsmInv, EnteredInv
    <3>3. \A p \in DOMAIN seen' : SwitchAt(p) => \E i \in 1 .. Len(entered') : entered'[i].at = p
      BY <1>1, <2>3, <3>1 DEF AsmInv, EnteredInv
    <3> QED
      BY <1>2, <3>2, <3>3 DEF EnteredInv
  <2> QED
    BY <2>2, <2>3
<1>9. PassesAlign' /\ GatherInv'
  <2>1. Before
    BY DEF AsmInv, GatherInv
  <2>2. sections' = sections
    <3>1. CASE SwitchRound
      BY <3>1 DEF SwitchRound, Commit
    <3>2. CASE OtherRound
      BY <3>2 DEF OtherRound
    <3> QED
      BY <3>1, <3>2
  <2>3. Before'
    BY <1>1, <2>1, <2>2 DEF Before
  <2> QED
    BY <1>0, <2>3 DEF PassesAlign, GatherInv
<1> QED
  BY <1>4, <1>7, <1>8, <1>9 DEF AsmInv

(* What depends on the first pass alone.                                      *)
LEMMA TraceKept ==
  ASSUME source' = source, pass > 0, pass' > 0, pass \in 0 .. 2, pass' \in 0 .. 2,
         UNCHANGED <<seen, entered>>, TraceInv, EnteredInv
  PROVE  TraceInv' /\ EnteredInv'
<1>1. /\ \A p : Token(p)' = Token(p) /\ SwitchAt(p)' = SwitchAt(p) /\ NameAt(p)' = NameAt(p)
      /\ \A p : NextPos(p)' = NextPos(p)
      /\ \A p, n : NextSize(p, n)' = NextSize(p, n)
      /\ \A p, sec : NextSec(p, sec)' = NextSec(p, sec)
  BY SourceKept
<1>2. pass # 0 /\ pass' # 0
  OBVIOUS
<1>3. ASSUME NEW p, NEW n, NEW sec
      PROVE  Visited(p, n, sec) <=> p \in DOMAIN seen /\ seen[p].offset = n /\ seen[p].sec = sec
  BY <1>2 DEF Visited
<1>4. ASSUME NEW p \in DOMAIN seen, Token(p).type # "END"
      PROVE  \A n \in {seen[p].offset}, sec \in {seen[p].sec} :
               /\ NextPos(p) \in DOMAIN seen
               /\ seen[NextPos(p)].offset = NextSize(p, n) /\ seen[NextPos(p)].sec = NextSec(p, sec)
  BY <1>3, <1>4 DEF TraceInv
<1>5. Visited(1, 0, "text")'
  <2>1. 1 \in DOMAIN seen /\ seen[1].offset = 0 /\ seen[1].sec = "text"
    BY <1>3 DEF TraceInv
  <2> QED
    BY <2>1 DEF Visited
<1>6. \A p \in DOMAIN seen : Token(p).type # "END" =>
        \A n \in {seen[p].offset}, sec \in {seen[p].sec} :
          Visited(NextPos(p), NextSize(p, n), NextSec(p, sec))'
  BY <1>1, <1>4 DEF Visited
<1>7. TraceInv'
  BY <1>1, <1>2, <1>5, <1>6 DEF TraceInv
<1>8. EnteredInv'
  BY <1>1 DEF EnteredInv
<1> QED
  BY <1>7, <1>8

(* In the second pass, from the token the loop is at to the next.             *)
LEMMA Followed ==
  ASSUME AsmInv, pass = 1, Token(pos).type # "END"
  PROVE  /\ pos \in DOMAIN seen /\ NextPos(pos) \in DOMAIN seen
         /\ seen[NextPos(pos)].offset = NextSize(pos, Size(current_data))
         /\ seen[NextPos(pos)].sec = NextSec(pos, seen[pos].sec)
<1>1. pos \in DOMAIN seen /\ seen[pos].offset = Size(current_data)
  BY DEF AsmInv, PassesAlign
<1>2. Visited(NextPos(pos), NextSize(pos, Size(current_data)), NextSec(pos, seen[pos].sec))
  BY <1>1 DEF AsmInv, TraceInv
<1> QED
  BY <1>1, <1>2 DEF Visited

LEMMA SecondRound ==
  ASSUME AsmInv, pass = 1, Token(pos).type # "END", SwitchRound \/ OtherRound, Follow
  PROVE  AsmInv'
<1>0. /\ source' = source /\ pass' = pass /\ pos' = NextPos(pos) /\ pos < pos' /\ pos' \in Nat \ {0}
      /\ current_sec' = NextSec(pos, current_sec) /\ current_sec' \in SectionNames
      /\ Sized(current_data') /\ Size(current_data') = NextSize(pos, Size(current_data))
      /\ sections' = [sec \in SectionNames |-> sections'[sec]]
  BY RoundMoves DEF AsmInv
<1>1. UNCHANGED <<seen, entered>>
  BY DEF Follow
<1>2. /\ source \in Sources /\ pos \in Nat \ {0} /\ IsSequence(entered) /\ Sized(current_data)
      /\ sections = [sec \in SectionNames |-> sections[sec]] /\ current_sec \in SectionNames
      /\ emitted = [sec \in SectionNames |-> emitted[sec]]
      /\ \A sec \in SectionNames : Sized(emitted[sec])
      /\ DOMAIN seen \subseteq Nat \ {0}
  BY DEF AsmInv, AsmTypes
<1>3. AsmTypes'
  BY <1>0, <1>2, FollowTypes DEF AsmInv
<1>4. TraceInv' /\ EnteredInv'
  BY <1>0, <1>1, TraceKept DEF AsmInv, AsmTypes
<1>5. /\ pos \in DOMAIN seen /\ pos' \in DOMAIN seen
      /\ seen[pos'].offset = Size(current_data')
      /\ seen[pos'].sec = NextSec(pos, seen[pos].sec)
  BY <1>0, Followed
<1>6. PassesAlign'
  BY <1>1, <1>5 DEF PassesAlign
<1>7. ASSUME Plain PROVE Gathering' /\ InPlace'
  <2>1. /\ 1 \in DOMAIN seen /\ SwitchAt(1)
        /\ \A p \in DOMAIN seen : SwitchAt(p) => NameAt(p) \in SectionNames
        /\ \A p, q \in DOMAIN seen : SwitchAt(p) /\ SwitchAt(q) /\ p # q => NameAt(p) # NameAt(q)
    BY <1>2, <1>7, PlainFacts DEF AsmInv
  <2>2. InPlace
    BY <1>7 DEF AsmInv, GatherInv
  <2>3. \A q : SwitchAt(q)' = SwitchAt(q) /\ NameAt(q)' = NameAt(q)
    BY <1>0, SourceKept
  <2>4. ASSUME NEW q \in DOMAIN seen, pos' <= q PROVE pos <= q /\ q # pos /\ q # 1 /\ q \in Nat
    BY <1>0, <1>2, <2>4
  <2>5. CASE SwitchAt(pos)
    <3>1. SwitchRound /\ NameAt(pos) \in SectionNames
      BY <1>5, <2>1, <2>5 DEF OtherRound
    <3>2. current_sec' = NameAt(pos) /\ current_data' = <<>>
          /\ sections' = [sections EXCEPT ![current_sec] = current_data]
      BY <3>1 DEF SwitchRound, Commit
    <3>3. emitted' = emitted
      <4>1. Len(current_data') = 0 /\ Len(current_data) \in Nat
        BY <1>2, <3>2, SizedFacts
      <4>2. ~(Len(current_data') > Len(current_data))
        BY <4>1
      <4> QED
        BY <4>2 DEF Follow
    <3>4. seen[pos'].sec = NameAt(pos)
      BY <1>5, <2>5, <3>1 DEF NextSec, Entering
    <3>5. /\ \A sec \in SectionNames : sections'[sec] = emitted[sec]
          /\ emitted[NameAt(pos)] = <<>>
          /\ \A q \in DOMAIN seen : pos <= q /\ SwitchAt(q) => emitted[NameAt(q)] = <<>>
      <4>1. CASE pos = 1
        <5>1. Before /\ current_data = <<>>
          BY <1>7, <4>1 DEF AsmInv, GatherInv
        <5> QED
          BY <1>2, <2>1, <3>1, <3>2, <5>1 DEF Before
      <4>2. CASE pos # 1
        <5>1. Gathering
          BY <1>7, <4>2 DEF AsmInv, GatherInv
        <5>2. /\ emitted[current_sec] = current_data
              /\ \A sec \in SectionNames : sec # current_sec => sections[sec] = emitted[sec]
              /\ \A q \in DOMAIN seen : pos <= q /\ SwitchAt(q) => emitted[NameAt(q)] = <<>>
          BY <5>1 DEF Gathering
        <5>3. emitted[NameAt(pos)] = <<>>
          BY <1>2, <1>5, <2>5, <5>2
        <5> QED
          BY <1>2, <3>2, <5>2, <5>3
      <4> QED
        BY <4>1, <4>2
    <3>6. Gathering'
      <4>1. \A q \in DOMAIN seen : pos' <= q /\ SwitchAt(q) => emitted[NameAt(q)] = <<>>
        BY <2>4, <3>5
      <4>2. \E p \in DOMAIN seen : p < pos' /\ SwitchAt(p) /\ NameAt(p) = current_sec'
        BY <1>0, <1>5, <2>5, <3>2
      <4>3. seen[pos'].sec = current_sec' /\ emitted[current_sec'] = current_data'
        BY <3>2, <3>4, <3>5
      <4> QED
        BY <1>1, <2>3, <3>3, <3>5, <4>1, <4>2, <4>3 DEF Gathering
    <3> QED
      BY <1>1, <2>2, <3>3, <3>6 DEF InPlace
  <2>6. CASE ~SwitchAt(pos)
    <3>1. OtherRound /\ pos # 1
      BY <2>1, <2>6 DEF SwitchRound
    <3>2. Gathering
      BY <1>7, <3>1 DEF AsmInv, GatherInv
    <3>3. /\ seen[pos].sec = current_sec /\ emitted[current_sec] = current_data
          /\ \A sec \in SectionNames : sec # current_sec => sections[sec] = emitted[sec]
          /\ \A q \in DOMAIN seen : pos <= q /\ SwitchAt(q) => emitted[NameAt(q)] = <<>>
      BY <3>2 DEF Gathering
    <3>4. PICK p \in DOMAIN seen : p < pos /\ SwitchAt(p) /\ NameAt(p) = current_sec
      BY <3>2 DEF Gathering
    <3>5. current_sec' = current_sec /\ sections' = sections
      BY <3>1 DEF OtherRound
    <3>6. seen[pos'].sec = current_sec
      BY <1>5, <2>6, <3>3 DEF NextSec, Entering
    <3>7. ASSUME NEW q \in DOMAIN seen, pos' <= q, SwitchAt(q)
          PROVE  emitted[NameAt(q)] = <<>> /\ NameAt(q) # current_sec /\ NameAt(q) \in SectionNames
      <4>1. pos <= q /\ q # p
        BY <1>2, <2>4, <3>4, <3>7
      <4> QED
        BY <2>1, <3>3, <3>4, <3>7, <4>1
    <3>8. /\ emitted'[current_sec] = current_data'
          /\ \A sec \in SectionNames : sec # current_sec => emitted'[sec] = emitted[sec]
          /\ InPlace'
      <4>1. CASE current_data' = current_data
        <5>1. emitted' = emitted
          <6>1. ~(Len(current_data') > Len(current_data))
            BY <1>2, <4>1, SizedFacts
          <6> QED
            BY <6>1 DEF Follow
        <5> QED
          BY <1>1, <2>2, <3>3, <4>1, <5>1 DEF InPlace
      <4>2. CASE current_data' # current_data
        <5>1. PICK x : x.at = pos /\ x.size \in Nat /\ current_data' = Append(current_data, x)
          BY <3>1, <4>2 DEF OtherRound, Gathers
        <5>2. Len(current_data') = Len(current_data) + 1 /\ Last(current_data') = x
          BY <1>2, <5>1, SizeAppend
        <5>3. Len(current_data') > Len(current_data)
          BY <1>2, <5>2, SizedFacts
        <5>4. emitted' = [emitted EXCEPT ![current_sec] = Append(emitted[current_sec], x)]
          BY <5>2, <5>3 DEF Follow
        <5>5. /\ emitted'[current_sec] = Append(current_data, x)
              /\ \A sec \in SectionNames : sec # current_sec => emitted'[sec] = emitted[sec]
          BY <1>2, <3>3, <5>4
        <5>6. /\ Len(current_data) \in Nat /\ Len(Append(current_data, x)) = Len(current_data) + 1
              /\ Append(current_data, x)[Len(current_data) + 1] = x
              /\ \A i \in 1 .. Len(current_data) : Append(current_data, x)[i] = current_data[i]
          BY <1>2, SequenceAppend DEF Sized
        <5>7. ASSUME NEW i \in 1 .. Len(emitted'[current_sec])
              PROVE  seen[emitted'[current_sec][i].at].sec = current_sec
          <6>1. CASE i \in 1 .. Len(current_data)
            <7>1. emitted'[current_sec][i] = emitted[current_sec][i]
              BY <3>3, <5>5, <5>6, <6>1
            <7>2. i \in 1 .. Len(emitted[current_sec])
              BY <3>3, <6>1
            <7> QED
              BY <1>2, <2>2, <7>1, <7>2 DEF InPlace
          <6>2. CASE i = Len(current_data) + 1
            BY <3>3, <5>1, <5>5, <5>6, <6>2
          <6> QED
            BY <5>5, <5>6, <6>1, <6>2
        <5>8. InPlace'
          <6>1. ASSUME NEW sec \in SectionNames, NEW i \in 1 .. Len(emitted'[sec])
                PROVE  seen[emitted'[sec][i].at].sec = sec
            <7>1. CASE sec = current_sec
              BY <5>7, <6>1, <7>1
            <7>2. CASE sec # current_sec
              BY <2>2, <5>5, <6>1, <7>2 DEF InPlace
            <7> QED
              BY <7>1, <7>2
          <6> QED
            BY <1>1, <6>1 DEF InPlace
        <5> QED
          BY <5>1, <5>5, <5>8
      <4> QED
        BY <4>1, <4>2
    <3>9. Gathering'
      <4>1. \A q \in DOMAIN seen : pos' <= q /\ SwitchAt(q) => emitted'[NameAt(q)] = <<>>
        BY <3>7, <3>8
      <4>2. p < pos'
        BY <1>0, <1>2, <3>4
      <4>3. \A sec \in SectionNames : sec # current_sec => sections'[sec] = emitted'[sec]
        BY <3>3, <3>5, <3>8
      <4> QED
        BY <1>1, <2>3, <3>4, <3>5, <3>6, <3>8, <4>1, <4>2, <4>3 DEF Gathering
    <3> QED
      BY <3>8, <3>9
  <2> QED
    BY <2>5, <2>6
<1>8. GatherInv'
  <2>1. Plain' <=> Plain
    BY <1>1 DEF Plain
  <2>2. pass' = 1 /\ pos' # 1
    BY <1>0, <1>2
  <2> QED
    BY <1>7, <2>1, <2>2 DEF GatherInv
<1> QED
  BY <1>3, <1>4, <1>6, <1>8 DEF AsmInv

LEMMA FirstEnds ==
  ASSUME AsmInv, pass = 0, EndOfPass, Follow
  PROVE  AsmInv'
<1>0. /\ Token(pos).type = "END" /\ pass' = 1 /\ pos' = 1 /\ current_data' = <<>>
      /\ sections' = sections
      /\ source' = source /\ current_sec' = current_sec
  BY DEF EndOfPass, Commit
<1>1. /\ DOMAIN seen' = DOMAIN seen \cup {pos}
      /\ seen'[pos].offset = Size(current_data) /\ seen'[pos].sec = current_sec
      /\ \A p \in DOMAIN seen : p \in Nat \ {0} /\ p # pos /\ seen'[p] = seen[p]
      /\ emitted' = emitted
      /\ entered' = entered
  BY <1>0, Noted DEF AsmInv, Directive, Running
<1>2. /\ \A p : Token(p)' = Token(p) /\ SwitchAt(p)' = SwitchAt(p) /\ NameAt(p)' = NameAt(p)
      /\ \A p : NextPos(p)' = NextPos(p)
      /\ \A p, n : NextSize(p, n)' = NextSize(p, n)
      /\ \A p, sec : NextSec(p, sec)' = NextSec(p, sec)
  BY <1>0, SourceKept
<1>3. /\ source \in Sources /\ pos \in Nat \ {0} /\ current_sec \in SectionNames
      /\ sections = [sec \in SectionNames |-> sections[sec]]
  BY DEF AsmInv, AsmTypes
<1>4. AsmTypes'
  BY <1>0, <1>3, SizeEmpty, FollowTypes DEF AsmInv
<1>5. ASSUME NEW p, NEW n, NEW sec, Visited(p, n, sec)
      PROVE  p \in DOMAIN seen' /\ seen'[p].offset = n /\ seen'[p].sec = sec
  BY <1>1, <1>5 DEF Visited
<1>6. 1 \in DOMAIN seen' /\ seen'[1].offset = 0 /\ seen'[1].sec = "text"
  BY <1>5 DEF AsmInv, TraceInv
<1>7. TraceInv'
  <2>1. Visited(1, 0, "text")'
    BY <1>6 DEF Visited
  <2>2. ASSUME NEW p \in DOMAIN seen', Token(p).type # "END",
               NEW n \in {seen'[p].offset}, NEW sec \in {seen'[p].sec}
        PROVE  Visited(NextPos(p), NextSize(p, n), NextSec(p, sec))'
    <3>1. p \in DOMAIN seen
      BY <1>0, <1>1, <2>2
    <3>2. n \in {seen[p].offset} /\ sec \in {seen[p].sec}
      BY <1>1, <3>1
    <3>3. Visited(NextPos(p), NextSize(p, n), NextSec(p, sec))
      BY <2>2, <3>1, <3>2 DEF AsmInv, TraceInv
    <3>4. /\ NextPos(p) \in DOMAIN seen' /\ seen'[NextPos(p)].offset = NextSize(p, n)
          /\ seen'[NextPos(p)].sec = NextSec(p, sec)
      BY <1>5, <3>3
    <3> QED
      BY <1>2, <3>4 DEF Visited
  <2>3. ASSUME NEW p \in DOMAIN seen', NEW q \in DOMAIN seen', p < q PROVE NextPos(p) <= q
    <3>1. \A r \in DOMAIN seen : r \in Nat \ {0} /\ NextPos(r) <= pos
      BY <1>1 DEF AsmInv, TraceInv
    <3>2. \A r \in DOMAIN seen : r < NextPos(r) /\ NextPos(r) \in Nat
      BY <1>3, <3>1, NextPosAfter
    <3>3. p # pos
      <4>1. \A r \in DOMAIN seen : r < pos
        BY <1>3, <3>1, <3>2
      <4> QED
        BY <1>1, <1>3, <2>3, <3>1, <4>1
    <3>4. p \in DOMAIN seen
      BY <1>1, <3>3
    <3>5. CASE q = pos
      BY <3>1, <3>4, <3>5
    <3>6. CASE q \in DOMAIN seen
      BY <2>3, <3>4, <3>6 DEF AsmInv, TraceInv
    <3> QED
      BY <1>1, <3>5, <3>6
  <2>4. \A p \in DOMAIN seen' : Token(p).type # "END" =>
          \A n \in {seen'[p].offset}, sec \in {seen'[p].sec} :
            Visited(NextPos(p), NextSize(p, n), NextSec(p, sec))'
    BY <2>2
  <2> QED
    BY <1>0, <1>2, <2>1, <2>3, <2>4 DEF TraceInv
<1>8. EnteredInv'
  <2>1. ~SwitchAt(pos)
    BY <1>0 DEF SwitchAt
  <2>2. \A i \in 1 .. Len(entered') : \A p \in {entered'[i].at} :
           p \in DOMAIN seen' /\ SwitchAt(p)' /\ entered'[i].name = NameAt(p)'
    BY <1>1, <1>2 DEF AsmInv, EnteredInv
  <2>3. \A p \in DOMAIN seen' : SwitchAt(p) => \E i \in 1 .. Len(entered') : entered'[i].at = p
    BY <1>1, <2>1 DEF AsmInv, EnteredInv
  <2> QED
    BY <1>2, <2>2, <2>3 DEF EnteredInv
<1>9. PassesAlign'
  BY <1>0, <1>6, SizeEmpty DEF PassesAlign
<1>10. GatherInv'
  <2>1. Before
    BY DEF AsmInv, GatherInv
  <2>2. Before' /\ \A sec \in SectionNames : Len(emitted'[sec]) = 0
    BY <1>0, <1>1, <2>1 DEF Before
  <2> QED
    BY <1>0, <2>2 DEF GatherInv, InPlace
<1> QED
  BY <1>4, <1>7, <1>8, <1>9, <1>10 DEF AsmInv

LEMMA SecondEnds ==
  ASSUME AsmInv, pass = 1, EndOfPass, Follow
  PROVE  AsmInv'
<1>0. /\ Token(pos).type = "END" /\ pass' = 2
      /\ sections' = [sections EXCEPT ![current_sec] = current_data]
      /\ UNCHANGED <<source, pos, current_sec, current_data>>
  BY DEF EndOfPass, Commit
<1>1. UNCHANGED <<seen, entered>>
  BY DEF Follow
<1>2. /\ source \in Sources /\ pos \in Nat \ {0} /\ current_sec \in SectionNames
      /\ sections = [sec \in SectionNames |-> sections[sec]]
      /\ Sized(current_data) /\ IsSequence(entered)
  BY DEF AsmInv, AsmTypes
<1>3. AsmTypes'
  <2>1. sections' = [sec \in SectionNames |-> sections'[sec]]
    BY <1>0, <1>2
  <2> QED
    BY <1>0, <1>2, <2>1, FollowTypes DEF AsmInv
<1>4. TraceInv' /\ EnteredInv'
  BY <1>0, <1>1, TraceKept DEF AsmInv
<1>5. emitted' = emitted
  <2>1. ~(Len(current_data') > Len(current_data))
    BY <1>0, <1>2, SizedFacts
  <2> QED
    BY <2>1 DEF Follow
<1>6. ASSUME Plain PROVE Gathered' /\ InPlace'
  <2>1. SwitchAt(1)
    BY <1>2, <1>6, PlainFacts DEF AsmInv
  <2>2. pos # 1
    BY <1>0, <2>1 DEF SwitchAt
  <2>3. Gathering /\ InPlace
    BY <1>6, <2>2 DEF AsmInv, GatherInv
  <2>4. Gathered'
    BY <1>0, <1>2, <1>5, <2>3 DEF Gathering, Gathered
  <2> QED
    BY <1>1, <1>5, <2>3, <2>4 DEF InPlace
<1>7. GatherInv' /\ PassesAlign'
  <2>1. Plain' <=> Plain
    BY <1>1 DEF Plain
  <2> QED
    BY <1>0, <1>6, <2>1 DEF GatherInv, PassesAlign
<1> QED
  BY <1>3, <1>4, <1>7 DEF AsmInv

LEMMA AsmStutter == ASSUME AsmInv, UNCHANGED avars PROVE AsmInv'
<1>1. /\ UNCHANGED <<source, pass, pos, current_sec, current_data, sections>>
      /\ UNCHANGED <<seen, entered, emitted>>
  BY DEF avars, asm_vars
<1>2. /\ \A p : Token(p)' = Token(p) /\ SwitchAt(p)' = SwitchAt(p) /\ NameAt(p)' = NameAt(p)
      /\ \A p : NextPos(p)' = NextPos(p)
      /\ \A p, n : NextSize(p, n)' = NextSize(p, n)
      /\ \A p, sec : NextSec(p, sec)' = NextSec(p, sec)
  BY <1>1, SourceKept
<1>3. AsmTypes'
  BY <1>1 DEF AsmInv, AsmTypes
<1>4. \A p, n, sec : Visited(p, n, sec) => Visited(p, n, sec)'
  BY <1>1 DEF Visited
<1>5. TraceInv'
  <2>1. ASSUME NEW p \in DOMAIN seen, Token(p).type # "END",
               NEW n \in {seen[p].offset}, NEW sec \in {seen[p].sec}
        PROVE  Visited(NextPos(p), NextSize(p, n), NextSec(p, sec))'
    <3>1. Visited(NextPos(p), NextSize(p, n), NextSec(p, sec))
      BY <2>1 DEF AsmInv, TraceInv
    <3> QED
      BY <1>1, <1>2, <3>1 DEF Visited
  <2>2. \A p \in DOMAIN seen : Token(p).type # "END" =>
          \A n \in {seen[p].offset}, sec \in {seen[p].sec} :
            Visited(NextPos(p), NextSize(p, n), NextSec(p, sec))'
    BY <2>1
  <2>3. Visited(1, 0, "text")'
    BY <1>4 DEF AsmInv, TraceInv
  <2> QED
    BY <1>1, <1>2, <2>2, <2>3 DEF AsmInv, TraceInv
<1>6. EnteredInv'
  BY <1>1, <1>2 DEF AsmInv, EnteredInv
<1>7. PassesAlign' /\ GatherInv'
  <2>1. (Plain' <=> Plain) /\ (Before' <=> Before) /\ (Gathered' <=> Gathered) /\ (InPlace' <=> InPlace)
    BY <1>1 DEF Plain, Before, Gathered, InPlace
  <2>2. Gathering => Gathering'
    BY <1>1, <1>2 DEF Gathering
  <2> QED
    BY <1>1, <2>1, <2>2 DEF AsmInv, PassesAlign, GatherInv
<1> QED
  BY <1>3, <1>5, <1>6, <1>7 DEF AsmInv

LEMMA AsmSteps ==
  AsmInv /\ [(Step /\ Follow) \/ (Returned /\ UNCHANGED <<seen, entered, emitted>>)]_avars => AsmInv'
<1> SUFFICES ASSUME AsmInv,
                    [(Step /\ Follow) \/ (Returned /\ UNCHANGED <<seen, entered, emitted>>)]_avars
             PROVE  AsmInv'
  OBVIOUS
<1>0. source \in Sources /\ pass \in 0 .. 2 /\ pos \in Nat \ {0} /\ Sized(current_data)
  BY DEF AsmInv, AsmTypes
<1>1. CASE Step /\ Follow /\ ~EndOfPass
  <2>1. pass < 2 /\ Token(pos).type # "END" /\ (SwitchRound \/ OtherRound)
    BY <1>0, <1>1, Rounds
  <2>2. pass = 0 \/ pass = 1
    BY <1>0, <2>1
  <2> QED
    BY <1>1, <2>1, <2>2, FirstRound, SecondRound
<1>2. CASE EndOfPass /\ Follow
  <2>1. pass = 0 \/ pass = 1
    BY <1>0, <1>2 DEF EndOfPass
  <2> QED
    BY <1>2, <2>1, FirstEnds, SecondEnds
<1>3. CASE (Returned /\ UNCHANGED <<seen, entered, emitted>>) \/ UNCHANGED avars
  <2>1. UNCHANGED avars
    BY <1>3 DEF Returned, avars
  <2> QED
    BY <2>1, AsmStutter
<1> QED
  BY <1>1, <1>2, <1>3

(* The two passes are at the same tokens at the same offsets, whatever the    *)
(* source: what the first pass noted for a label is where the second one      *)
(* assembles the label's instruction.                                         *)
THEOREM OffsetsAgree == ASpec => []PassesAlign
<1>1. AsmInv => PassesAlign
  BY DEF AsmInv
<1> QED
  BY <1>1, AsmStart, AsmSteps, PTL DEF ASpec

(* A source that opens with a section and enters none twice is assembled      *)
(* whole: each section holds what was assembled in it, in its order, and the  *)
(* first pass, whose offsets the labels have, was in the same section.        *)
THEOREM PlainIsWhole == ASpec => []PlainIsComplete
<1>1. AsmInv => PlainIsComplete
  BY DEF AsmInv, GatherInv, Gathered, InPlace, PlainIsComplete
<1> QED
  BY <1>1, AsmStart, AsmSteps, PTL DEF ASpec

================================================================================
