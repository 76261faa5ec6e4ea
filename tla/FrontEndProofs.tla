----------------------------- MODULE FrontEndProofs ----------------------------
(***************************************************************************)
(* Proofs about the preprocessor, for every set of files, whatever they    *)
(* hold and however they include each other.  Nothing is known of what a   *)
(* line's words are, so a sequence is only known to be one, not of what    *)
(* (IsSequence); everything else follows from the shape of the stack of    *)
(* frames and, for the macros and the text, from the conditional groups    *)
(* that C would have open in each frame.                                   *)
(*                                                                         *)
(* Then about the C lexer, for every source: it reads the lexemes of C.    *)
(* Its functions that skip blanks and read strings call themselves at a    *)
(* later position of the source (Onward), and what they return is shown    *)
(* from the end of the source towards its beginning (CountDown).           *)
(***************************************************************************)
EXTENDS PreprocessorC, Lexer, SequenceTheorems, FiniteSetTheorems, WellFoundedInduction,
        TLAPS

-------------------------------------------------------------------------------
(* Sequences of anything.                                                    *)

IsSequence(s) == s \in Seq({s[i] : i \in DOMAIN s})

LEMMA AnySequence ==
  ASSUME NEW S, NEW s \in Seq(S)
  PROVE  IsSequence(s)
<1>1. DOMAIN s = 1 .. Len(s) /\ Len(s) \in Nat
  OBVIOUS
<1>2. s \in [1 .. Len(s) -> {s[i] : i \in DOMAIN s}]
  BY <1>1
<1> QED
  BY <1>1, <1>2, SeqDef DEF IsSequence

LEMMA SequenceFacts ==
  ASSUME NEW s, IsSequence(s)
  PROVE  Len(s) \in Nat /\ DOMAIN s = 1 .. Len(s)
  BY LenProperties DEF IsSequence

LEMMA PushFacts ==
  ASSUME NEW s, IsSequence(s), NEW e
  PROVE  /\ IsSequence(Append(s, e)) /\ Len(Append(s, e)) = Len(s) + 1
         /\ Append(s, e)[Len(s) + 1] = e
         /\ \A i \in 1 .. Len(s) : Append(s, e)[i] = s[i]
<1> DEFINE S == {s[i] : i \in DOMAIN s} \cup {e}
<1>1. s \in Seq(S)
  BY SeqMonotonic DEF IsSequence
<1>2. Append(s, e) \in Seq(S)
  BY <1>1, AppendProperties
<1> HIDE DEF S
<1>3. IsSequence(Append(s, e))
  BY <1>2, AnySequence
<1>4. e \in S
  BY DEF S
<1> QED
  BY <1>1, <1>3, <1>4, AppendProperties

LEMMA PrefixFacts ==
  ASSUME NEW s, IsSequence(s), NEW n \in 0 .. Len(s)
  PROVE  /\ IsSequence(SubSeq(s, 1, n)) /\ Len(SubSeq(s, 1, n)) = n
         /\ \A i \in 1 .. n : SubSeq(s, 1, n)[i] = s[i]
<1> DEFINE S == {s[j] : j \in DOMAIN s}
<1>1. s \in Seq(S) /\ Len(s) \in Nat
  BY SequenceFacts DEF IsSequence
<1>2. n \in Int /\ 1 \in Int /\ \A i \in 1 .. n : s[i] \in S
  BY <1>1, SequenceFacts
<1> HIDE DEF S
<1>3. /\ SubSeq(s, 1, n) \in Seq(S) /\ Len(SubSeq(s, 1, n)) = n
      /\ \A i \in 1 .. n : SubSeq(s, 1, n)[i] = s[i]
  BY <1>1, <1>2
<1>4. IsSequence(SubSeq(s, 1, n))
  BY <1>3, AnySequence
<1> QED
  BY <1>1, <1>3, <1>4

-------------------------------------------------------------------------------
(* The stack of frames.                                                      *)

Fields == {"file", "at", "output", "include_stack", "defines", "in_conditional",
           "conditional_active"}

IsFrame(f) == /\ DOMAIN f = Fields
              /\ f.at \in Nat /\ IsSequence(f.include_stack)
              /\ f.in_conditional \in BOOLEAN /\ f.conditional_active \in BOOLEAN

FramesOK == /\ IsSequence(frames) /\ Len(frames) >= 1
            /\ \A k \in 1 .. Len(frames) : IsFrame(frames[k])

(* What process_line may make of the state of a file: only the place in the   *)
(* file, the output, the macros and the conditional change.                   *)
SameFile(f, g) == /\ IsFrame(g) /\ g.file = f.file /\ g.include_stack = f.include_stack
                  /\ g.at = f.at

LEMMA TopFacts ==
  ASSUME FramesOK
  PROVE  /\ Len(frames) \in Nat /\ Len(frames) \in 1 .. Len(frames)
         /\ Top = frames[Len(frames)] /\ IsFrame(Top)
  BY SequenceFacts DEF FramesOK, Top, Last

LEMMA GotoEffect ==
  ASSUME FramesOK, NEW g, SameFile(Top, g), Goto(g)
  PROVE  /\ FramesOK' /\ Len(frames') = Len(frames)
         /\ frames'[Len(frames)] = [g EXCEPT !.at = @ + 1]
         /\ \A k \in 1 .. Len(frames) : k # Len(frames) => frames'[k] = frames[k]
         /\ frames' # frames
<1> DEFINE n == Len(frames)
           h == [g EXCEPT !.at = @ + 1]
<1>1. n \in Nat /\ n \in 1 .. Len(frames) /\ frames' = [frames EXCEPT ![n] = h]
        /\ IsSequence(frames)
  BY TopFacts DEF Goto, FramesOK
<1> HIDE DEF h
<1>2. /\ IsSequence(frames') /\ Len(frames') = n /\ frames'[n] = h
      /\ \A k \in 1 .. n : k # n => frames'[k] = frames[k]
  <2> DEFINE S == {frames[k] : k \in DOMAIN frames} \cup {h}
  <2>1. frames \in Seq(S) /\ h \in S
    BY <1>1, SeqMonotonic DEF IsSequence
  <2> HIDE DEF S
  <2>2. frames' \in Seq(S)
    BY <1>1, <2>1
  <2>3. IsSequence(frames')
    BY <2>2, AnySequence
  <2> QED
    BY <1>1, <2>1, <2>3
<1>3. IsFrame(h) /\ h.at = g.at + 1
  BY DEF SameFile, IsFrame, Fields, h
<1>4. FramesOK'
  BY <1>1, <1>2, <1>3 DEF FramesOK
<1>5. h.at # Top.at
  BY <1>3 DEF SameFile, IsFrame
<1> QED
  BY <1>1, <1>2, <1>4, <1>5, TopFacts DEF h

LEMMA WriteSameFile ==
  ASSUME NEW f, IsFrame(f), NEW t
  PROVE  SameFile(f, Write(f, t)) /\ SameFile(f, f)
  BY DEF SameFile, IsFrame, Fields, Write

(* The actions that read a line and stay in the file.                        *)
LineStep == Define \/ Undef \/ If \/ Else \/ Elif \/ Endif \/ Pragma \/ Text \/ Unknown

LEMMA LineSteps ==
  ASSUME FramesOK, LineStep
  PROVE  \E g : SameFile(Top, g) /\ Goto(g)
<1>1. IsFrame(Top)
  BY TopFacts
<1> USE DEF SameFile, IsFrame, Fields
<1>2. CASE Define
  BY <1>1, <1>2 DEF Define
<1>3. CASE Undef
  BY <1>1, <1>3 DEF Undef
<1>4. CASE If
  BY <1>1, <1>4 DEF If
<1>5. CASE Else
  BY <1>1, <1>5 DEF Else
<1>6. CASE Elif
  BY <1>1, <1>6 DEF Elif
<1>7. CASE Endif
  BY <1>1, <1>7 DEF Endif
<1>8. CASE Pragma
  BY <1>1, <1>8 DEF Pragma
<1>9. CASE Text
  BY <1>1, <1>9, WriteSameFile DEF Text
<1>10. CASE Unknown
  BY <1>1, <1>10, WriteSameFile DEF Unknown
<1> QED
  BY <1>2, <1>3, <1>4, <1>5, <1>6, <1>7, <1>8, <1>9, <1>10 DEF LineStep

LEMMA IncludeEffect ==
  ASSUME FramesOK, Include, frames' # frames
  PROVE  LET n == Len(frames)
         IN  /\ FramesOK' /\ Len(frames') = n + 1
             /\ \A k \in 1 .. n : frames'[k] = frames[k]
             /\ ~Contains(Top.include_stack, Line.name)
             /\ frames'[n + 1] = Frame(Line.name, Append(Top.include_stack, Line.name), Top.defines,
                                       Top.in_conditional, Top.conditional_active)
<1> DEFINE n == Len(frames)
           g == Frame(Line.name, Append(Top.include_stack, Line.name), Top.defines,
                      Top.in_conditional, Top.conditional_active)
<1>1. ~Contains(Top.include_stack, Line.name) /\ frames' = Append(frames, g)
  BY DEF Include, Fail
<1>2. IsFrame(g)
  <2>1. IsSequence(Append(Top.include_stack, Line.name))
    BY TopFacts, PushFacts DEF IsFrame
  <2> QED
    BY <2>1, TopFacts DEF IsFrame, Frame, Fields
<1> HIDE DEF g
<1>3. /\ IsSequence(frames') /\ Len(frames') = n + 1 /\ frames'[n + 1] = g
      /\ \A k \in 1 .. n : frames'[k] = frames[k]
  BY <1>1, PushFacts DEF FramesOK
<1>4. FramesOK'
  BY <1>2, <1>3, TopFacts DEF FramesOK
<1> QED
  BY <1>1, <1>3, <1>4 DEF g

LEMMA EndOfIncludeEffect ==
  ASSUME FramesOK, EndOfInclude
  PROVE  LET n == Len(frames)
             outer == [frames[n - 1] EXCEPT !.defines = Top.defines, !.at = @ + 1]
         IN  /\ FramesOK' /\ n > 1 /\ Len(frames') = n - 1
             /\ \A k \in 1 .. n - 2 : frames'[k] = frames[k]
             /\ frames'[n - 1] = Write(outer, Append(Top.output, Newline))
             /\ SameFile(outer, frames'[n - 1]) /\ frames'[n - 1].file = frames[n - 1].file
             /\ frames'[n - 1].include_stack = frames[n - 1].include_stack
<1> DEFINE n == Len(frames)
           outer == [frames[n - 1] EXCEPT !.defines = Top.defines, !.at = @ + 1]
           g == Write(outer, Append(Top.output, Newline))
           p == SubSeq(frames, 1, n - 2)
<1>1. n \in Nat /\ n > 1 /\ frames' = Append(p, g)
  BY TopFacts DEF EndOfInclude
<1>2. IsFrame(outer) /\ outer.file = frames[n - 1].file
      /\ outer.include_stack = frames[n - 1].include_stack
  <2>1. IsFrame(frames[n - 1])
    BY <1>1 DEF FramesOK
  <2>2. DOMAIN outer = Fields /\ outer.at = frames[n - 1].at + 1
    BY <2>1 DEF IsFrame, Fields
  <2> QED
    BY <2>1, <2>2 DEF IsFrame, Fields
<1> HIDE DEF outer
<1>3. SameFile(outer, g)
  BY <1>2, WriteSameFile
<1> HIDE DEF g
<1>4. IsSequence(p) /\ Len(p) = n - 2 /\ \A i \in 1 .. n - 2 : p[i] = frames[i]
  <2>1. n - 2 \in 0 .. n
    BY <1>1
  <2> QED
    BY <2>1, PrefixFacts DEF FramesOK
<1> HIDE DEF p
<1>5. /\ IsSequence(frames') /\ Len(frames') = n - 2 + 1 /\ frames'[n - 2 + 1] = g
      /\ \A i \in 1 .. n - 2 : frames'[i] = frames[i]
  BY <1>1, <1>4, PushFacts
<1>6. n - 2 + 1 = n - 1
  BY <1>1
<1>7. FramesOK'
  BY <1>1, <1>3, <1>5, <1>6 DEF FramesOK, SameFile
<1>8. g.file = outer.file /\ g.include_stack = outer.include_stack
  BY <1>3 DEF SameFile
<1>9. frames'[n - 1] = g /\ Len(frames') = n - 1
  BY <1>5, <1>6
<1> QED
  BY <1>1, <1>2, <1>3, <1>5, <1>7, <1>8, <1>9 DEF g, outer

-------------------------------------------------------------------------------
(* How deep the files are open.                                              *)

(* The include stack of a frame lists the files of the frames above the       *)
(* root's, its own the last.                                                  *)
StacksOK == \A k \in 1 .. Len(frames) :
              /\ Len(frames[k].include_stack) = k - 1
              /\ \A j \in 1 .. k - 1 : frames[k].include_stack[j] = frames[j + 1].file

NestInv == FramesOK /\ StacksOK /\ NestingBounded

CNext == (Step /\ Follow) \/ (Returned /\ UNCHANGED history)

(* What any step does to the stack of frames.                                *)
LEMMA StepKinds ==
  ASSUME FramesOK, [CNext]_cvars
  PROVE  \/ frames' = frames
         \/ LineStep
         \/ Include /\ frames' # frames
         \/ EndOfInclude
<1>1. CASE UNCHANGED cvars
  BY <1>1 DEF cvars, vars
<1>2. CASE Returned
  BY <1>2 DEF Returned, vars
<1>3. CASE Step
  <2>1. CASE EndOfRoot \/ Error
    BY <2>1 DEF EndOfRoot, Error, Fail
  <2> QED
    BY <1>3, <2>1 DEF Step, LineStep
<1> QED
  BY <1>1, <1>2, <1>3 DEF CNext

LEMMA NestStep == NestInv /\ [CNext]_cvars => NestInv'
<1> SUFFICES ASSUME NestInv, [CNext]_cvars
             PROVE  NestInv'
  OBVIOUS
<1> DEFINE n == Len(frames)
<1>0. FramesOK /\ n \in Nat /\ n \in 1 .. n /\ IsFrame(Top) /\ Top = frames[n]
  BY TopFacts DEF NestInv
<1>1. CASE frames' = frames
  BY <1>1 DEF NestInv, FramesOK, StacksOK, NestingBounded, IsFrame
<1>2. CASE LineStep
  <2>1. PICK g : SameFile(Top, g) /\ Goto(g)
    BY <1>0, <1>2, LineSteps
  <2>2. /\ FramesOK' /\ Len(frames') = n /\ frames'[n] = [g EXCEPT !.at = @ + 1]
        /\ \A k \in 1 .. n : k # n => frames'[k] = frames[k]
    BY <1>0, <2>1, GotoEffect
  <2>3. frames'[n].file = frames[n].file /\ frames'[n].include_stack = frames[n].include_stack
    BY <1>0, <2>1, <2>2 DEF SameFile, IsFrame, Fields
  <2>4. \A k \in 1 .. n : /\ frames'[k].file = frames[k].file
                          /\ frames'[k].include_stack = frames[k].include_stack
    BY <2>2, <2>3
  <2>5. StacksOK'
    BY <1>0, <2>2, <2>4 DEF NestInv, StacksOK
  <2>6. NestingBounded'
    BY <1>0, <2>2, <2>4 DEF NestInv, NestingBounded
  <2> QED
    BY <2>2, <2>5, <2>6 DEF NestInv
<1>3. CASE Include /\ frames' # frames
  <2> DEFINE g == Frame(Line.name, Append(Top.include_stack, Line.name), Top.defines,
                        Top.in_conditional, Top.conditional_active)
  <2>1. /\ FramesOK' /\ Len(frames') = n + 1 /\ frames'[n + 1] = g
        /\ \A k \in 1 .. n : frames'[k] = frames[k]
        /\ ~Contains(Top.include_stack, Line.name)
    BY <1>0, <1>3, IncludeEffect
  <2>2. g.file = Line.name /\ g.include_stack = Append(Top.include_stack, Line.name)
    BY DEF Frame
  <2> HIDE DEF g
  <2>3. /\ Len(Top.include_stack) = n - 1
        /\ \A j \in 1 .. n - 1 : Top.include_stack[j] = frames[j + 1].file
        /\ IsSequence(Top.include_stack)
    BY <1>0 DEF NestInv, StacksOK, IsFrame
  <2>4. /\ Len(g.include_stack) = n /\ g.include_stack[n] = g.file
        /\ \A j \in 1 .. n - 1 : g.include_stack[j] = frames[j + 1].file
    BY <1>0, <2>2, <2>3, PushFacts
  <2>5. \A j \in 2 .. n : frames[j].file # g.file
    <3> TAKE j \in 2 .. n
    <3>1. j - 1 \in 1 .. n - 1 /\ frames[(j - 1) + 1].file = Top.include_stack[j - 1]
      BY <1>0, <2>3
    <3>2. Top.include_stack[j - 1] # Line.name
      BY <2>1, <2>3, <3>1 DEF Contains
    <3> QED
      BY <1>0, <2>2, <3>1, <3>2
  <2>6. StacksOK'
    <3> SUFFICES ASSUME NEW k \in 1 .. n + 1
                 PROVE  /\ Len(frames'[k].include_stack) = k - 1
                        /\ \A j \in 1 .. k - 1 :
                             frames'[k].include_stack[j] = frames'[j + 1].file
      BY <2>1 DEF StacksOK
    <3>1. CASE k = n + 1
      <4>1. \A j \in 1 .. n - 1 : frames'[j + 1] = frames[j + 1]
        BY <1>0, <2>1
      <4>2. \A j \in 1 .. n : g.include_stack[j] = frames'[j + 1].file
        <5> TAKE j \in 1 .. n
        <5>1. CASE j = n
          BY <2>1, <2>4, <5>1
        <5>2. CASE j \in 1 .. n - 1
          BY <2>4, <4>1, <5>2
        <5> QED
          BY <1>0, <5>1, <5>2
      <4>3. frames'[k].include_stack = g.include_stack /\ k - 1 = n
        BY <1>0, <2>1, <3>1
      <4> QED
        BY <2>4, <4>2, <4>3
    <3>2. CASE k \in 1 .. n
      <4>1. frames'[k] = frames[k] /\ \A j \in 1 .. k - 1 : frames'[j + 1] = frames[j + 1]
        BY <1>0, <2>1, <3>2
      <4> QED
        BY <3>2, <4>1 DEF NestInv, StacksOK
    <3> QED
      BY <1>0, <3>1, <3>2
  <2>7. NestingBounded'
    BY <1>0, <2>1, <2>5 DEF NestInv, NestingBounded
  <2> QED
    BY <2>1, <2>6, <2>7 DEF NestInv
<1>4. CASE EndOfInclude
  <2>1. /\ FramesOK' /\ n > 1 /\ Len(frames') = n - 1
        /\ \A k \in 1 .. n - 2 : frames'[k] = frames[k]
        /\ frames'[n - 1].file = frames[n - 1].file
        /\ frames'[n - 1].include_stack = frames[n - 1].include_stack
    BY <1>0, <1>4, EndOfIncludeEffect
  <2>2. \A k \in 1 .. n - 1 : /\ frames'[k].file = frames[k].file
                              /\ frames'[k].include_stack = frames[k].include_stack
    BY <1>0, <2>1
  <2>3. StacksOK'
    <3> SUFFICES ASSUME NEW k \in 1 .. n - 1
                 PROVE  /\ Len(frames'[k].include_stack) = k - 1
                        /\ \A j \in 1 .. k - 1 :
                             frames'[k].include_stack[j] = frames'[j + 1].file
      BY <2>1 DEF StacksOK
    <3>1. k \in 1 .. n /\ \A j \in 1 .. k - 1 : j + 1 \in 1 .. n - 1
      BY <1>0
    <3> QED
      BY <2>2, <3>1 DEF NestInv, StacksOK
  <2>4. NestingBounded'
    BY <1>0, <2>1, <2>2 DEF NestInv, NestingBounded
  <2> QED
    BY <2>1, <2>3, <2>4 DEF NestInv
<1> QED
  BY <1>0, <1>1, <1>2, <1>3, <1>4, StepKinds

LEMMA RootFrame ==
  ASSUME CInit
  PROVE  /\ FramesOK /\ Len(frames) = 1
         /\ frames[1] = Frame(Root, <<>>, <<>>, FALSE, TRUE)
<1> DEFINE f == Frame(Root, <<>>, <<>>, FALSE, TRUE)
<1>1. frames = <<f>>
  BY DEF CInit, Init
<1>2. IsSequence(<<>>)
  BY DEF IsSequence
<1>3. IsFrame(f)
  BY <1>2 DEF IsFrame, Frame, Fields
<1> HIDE DEF f
<1>4. <<f>> \in Seq({f}) /\ Len(<<f>>) = 1
  OBVIOUS
<1>5. IsSequence(frames)
  BY <1>1, <1>4, AnySequence
<1>6. FramesOK /\ Len(frames) = 1 /\ frames[1] = f
  BY <1>1, <1>3, <1>5 DEF FramesOK
<1> QED
  BY <1>6 DEF f

(* Whatever the files hold and however they include each other, no file is    *)
(* open twice above the root.                                                 *)
THEOREM NoEndlessInclude == CSpec => []NestingBounded
<1>1. CInit => NestInv
  <2> SUFFICES ASSUME CInit PROVE NestInv
    OBVIOUS
  <2>1. frames[1].include_stack = <<>> /\ Len(frames) = 1 /\ FramesOK
    BY RootFrame DEF Frame
  <2>2. StacksOK /\ NestingBounded
    BY <2>1 DEF StacksOK, NestingBounded
  <2> QED
    BY <2>1, <2>2 DEF NestInv
<1>2. NestInv => NestingBounded
  BY DEF NestInv
<1> QED
  BY <1>1, <1>2, NestStep, PTL DEF CSpec, CNext

-------------------------------------------------------------------------------
(* The macros, and the conditional groups that decide which lines count.      *)

Group == [on : BOOLEAN, taken : BOOLEAN]

GroupsOK == groups \in Seq(Seq(Group)) /\ Len(groups) = Len(frames)

On(k) == groups[k] # <<>> => groups[k][1].on

(* On the plain part of the language at most one group is open in all frames  *)
(* together, the frames above one with an open group were entered from its    *)
(* selected part, and the two flags of a frame say just that.                 *)
FlagsOK ==
  plain =>
    /\ \A j, k \in 1 .. Len(frames) : groups[j] # <<>> /\ groups[k] # <<>> => j = k
    /\ \A k \in 1 .. Len(frames) :
         /\ Len(groups[k]) <= 1
         /\ k < Len(frames) => On(k)
         /\ frames[k].in_conditional <=> \E j \in 1 .. k : groups[j] # <<>>
         /\ frames[k].conditional_active <=> On(k)

MacroInv == FramesOK /\ GroupsOK /\ FlagsOK /\ MacrosFollowC

LEMMA GroupFacts ==
  ASSUME FramesOK, GroupsOK
  PROVE  /\ Len(groups) = Len(frames) /\ Len(frames) \in 1 .. Len(frames) /\ Len(frames) \in Nat
         /\ Open = groups[Len(frames)] /\ Open \in Seq(Group)
         /\ \A k \in 1 .. Len(frames) : groups[k] \in Seq(Group)
  BY TopFacts DEF GroupsOK, Open, Last

(* On the plain part the flag of the top frame says whether C selects a line. *)
LEMMA ActiveIsSelected ==
  ASSUME FramesOK, GroupsOK, FlagsOK, plain
  PROVE  /\ Selected <=> On(Len(frames))
         /\ Top.conditional_active <=> Selected
<1> DEFINE n == Len(frames)
<1>1. n \in 1 .. n /\ n \in Nat /\ Len(groups) = n /\ Top = frames[n]
  BY GroupFacts, TopFacts
<1>2. \A k \in 1 .. n : groups[k] \in Seq(Group) /\ Len(groups[k]) <= 1 /\ (k < n => On(k))
  BY GroupFacts DEF FlagsOK
<1>3. \A k \in 1 .. n : On(k) <=> \A g \in 1 .. Len(groups[k]) : groups[k][g].on
  <2> TAKE k \in 1 .. n
  <2>1. CASE groups[k] = <<>>
    BY <2>1 DEF On
  <2>2. CASE groups[k] # <<>>
    <3>1. Len(groups[k]) = 1
      <4>1. groups[k] \in Seq(Group) /\ Len(groups[k]) <= 1
        BY <1>2
      <4>2. Len(groups[k]) \in Nat /\ Len(groups[k]) # 0
        BY <2>2, <4>1, EmptySeq
      <4>3. \A x \in Nat : x <= 1 /\ x # 0 => x = 1
        OBVIOUS
      <4> QED
        BY <4>1, <4>2, <4>3
    <3> QED
      BY <2>2, <3>1 DEF On
  <2> QED
    BY <2>1, <2>2
<1>4. Selected <=> On(n)
  BY <1>1, <1>2, <1>3 DEF Selected
<1> QED
  BY <1>1, <1>4 DEF FlagsOK

LEMMA FollowLine ==
  ASSUME FramesOK, LineStep, Follow
  PROVE  /\ groups' = [groups EXCEPT ![Len(groups)] = OpenAfter]
         /\ plain' = (plain /\ Ordinary)
         /\ macros' = MacrosAfter /\ text' = TextAfter
<1>1. PICK g : SameFile(Top, g) /\ Goto(g)
  BY LineSteps
<1>2. Len(frames') = Len(frames) /\ frames' # frames /\ Len(frames) \in Nat
  BY <1>1, GotoEffect, TopFacts
<1> QED
  BY <1>2 DEF Follow

LEMMA ConditionFacts ==
  Line.kind \in Conditionals \cup {"elif"} => CCondition \in BOOLEAN /\ Condition \in BOOLEAN
<1>1. CASE Line.kind \in {"if", "elif"}
  <2>1. CCondition = (CValue(Line.name) \in NonZero)
    BY <1>1 DEF CCondition
  <2>2. Condition = Evaluate(Line.name, Top.defines)
    BY <1>1 DEF Condition
  <2>3. Evaluate(Line.name, Top.defines) \in BOOLEAN
    <3>1. CASE Line.name \in DOMAIN Top.defines
      <4>1. Evaluate(Line.name, Top.defines) = (Top.defines[Line.name] # "")
        BY <3>1 DEF Evaluate
      <4>2. (Top.defines[Line.name] # "") \in BOOLEAN
        OBVIOUS
      <4> QED
        BY <4>1, <4>2
    <3>2. CASE Line.name \notin DOMAIN Top.defines
      <4>1. Evaluate(Line.name, Top.defines) = (Line.name \in NonZero)
        BY <3>2 DEF Evaluate
      <4> QED
        BY <4>1
    <3> QED
      BY <3>1, <3>2
  <2> QED
    BY <2>1, <2>2, <2>3
<1>2. CASE Line.kind = "ifdef"
  BY <1>2 DEF CCondition, Condition
<1>3. CASE Line.kind = "ifndef"
  BY <1>3 DEF CCondition, Condition
<1>4. Line.kind \in Conditionals \cup {"elif"} =>
         Line.kind \in {"if", "elif"} \/ Line.kind = "ifdef" \/ Line.kind = "ifndef"
  BY DEF Conditionals
<1> QED
  BY <1>1, <1>2, <1>3, <1>4, Zenon

LEMMA OpenAfterType ==
  ASSUME FramesOK, GroupsOK
  PROVE  OpenAfter \in Seq(Group)
<1>1. Open \in Seq(Group)
  BY GroupFacts
<1>2. ASSUME Open # <<>>
      PROVE  Front(Open) \in Seq(Group) /\ Last(Open) \in Group
  BY <1>1, <1>2 DEF Front, Last
<1>3. ASSUME NEW c \in BOOLEAN, NEW d \in BOOLEAN, NEW s \in Seq(Group)
      PROVE  Append(s, [on |-> c, taken |-> d]) \in Seq(Group)
  BY DEF Group
<1>4. CASE Line.kind \in Conditionals
  <2>1. OpenAfter = Append(Open, [on |-> CCondition, taken |-> CCondition])
    BY <1>4 DEF OpenAfter, Conditionals
  <2>2. CCondition \in BOOLEAN
    BY <1>4, ConditionFacts
  <2> QED
    BY <1>1, <1>3, <2>1, <2>2
<1>5. CASE Line.kind = "elif" /\ Open # <<>>
  <2>1. OpenAfter = Append(Front(Open), [on |-> ~Last(Open).taken /\ CCondition,
                                         taken |-> Last(Open).taken \/ CCondition])
    BY <1>5 DEF OpenAfter, Conditionals
  <2>2. (~Last(Open).taken /\ CCondition) \in BOOLEAN /\ (Last(Open).taken \/ CCondition) \in BOOLEAN
    OBVIOUS
  <2> QED
    BY <1>2, <1>3, <1>5, <2>1, <2>2
<1>6. CASE Line.kind = "else" /\ Open # <<>>
  <2>1. OpenAfter = Append(Front(Open), [on |-> ~Last(Open).taken, taken |-> TRUE])
    BY <1>6 DEF OpenAfter, Conditionals
  <2> QED
    BY <1>2, <1>3, <1>6, <2>1
<1>7. CASE Line.kind = "endif" /\ Open # <<>>
  BY <1>2, <1>7 DEF OpenAfter, Conditionals
<1>8. CASE /\ Line.kind \notin Conditionals
           /\ Line.kind \notin {"elif", "else", "endif"} \/ Open = <<>>
  BY <1>1, <1>8 DEF OpenAfter
<1> QED
  BY <1>4, <1>5, <1>6, <1>7, <1>8

(* What is left to show of a line that stays plain, action by action.        *)
LEMMA LineKeepsMacroInv ==
  ASSUME MacroInv, LineStep, Follow, NEW g, SameFile(Top, g), Goto(g),
         plain' =>
           /\ Len(OpenAfter) <= 1
           /\ OpenAfter # <<>> => \A j \in 1 .. Len(frames) - 1 : groups[j] = <<>>
           /\ g.in_conditional <=> \/ OpenAfter # <<>>
                                   \/ \E j \in 1 .. Len(frames) - 1 : groups[j] # <<>>
           /\ g.conditional_active <=> (OpenAfter # <<>> => OpenAfter[1].on)
           /\ g.defines = MacrosAfter
  PROVE  MacroInv'
<1> DEFINE n == Len(frames)
           h == [g EXCEPT !.at = @ + 1]
<1>1. /\ n \in Nat /\ n \in 1 .. n /\ Len(groups) = n /\ groups \in Seq(Seq(Group))
      /\ OpenAfter \in Seq(Group)
  BY GroupFacts, OpenAfterType DEF MacroInv, GroupsOK
<1>2. /\ FramesOK' /\ Len(frames') = n /\ frames'[n] = h
      /\ \A k \in 1 .. n : k # n => frames'[k] = frames[k]
  BY GotoEffect DEF MacroInv
<1>3. /\ h.in_conditional = g.in_conditional /\ h.conditional_active = g.conditional_active
      /\ h.defines = g.defines
  BY DEF SameFile, IsFrame, Fields
<1> HIDE DEF h
<1>4. /\ groups' = [groups EXCEPT ![n] = OpenAfter] /\ macros' = MacrosAfter
      /\ plain' = (plain /\ Ordinary)
  BY <1>1, FollowLine DEF MacroInv
<1>5. /\ groups' \in Seq(Seq(Group)) /\ Len(groups') = n /\ groups'[n] = OpenAfter
      /\ \A k \in 1 .. n : k # n => groups'[k] = groups[k]
  BY <1>1, <1>4
<1>6. GroupsOK'
  BY <1>2, <1>5 DEF GroupsOK
<1>7. MacrosFollowC'
  <2>1. Top' = h
    BY <1>2 DEF Top, Last
  <2> QED
    BY <1>3, <1>4, <2>1 DEF MacrosFollowC
<1>8. ASSUME plain' PROVE FlagsOK'
  <2>0. /\ Len(OpenAfter) <= 1
        /\ OpenAfter # <<>> => \A j \in 1 .. n - 1 : groups[j] = <<>>
        /\ g.in_conditional <=> (OpenAfter # <<>> \/ \E j \in 1 .. n - 1 : groups[j] # <<>>)
        /\ g.conditional_active <=> (OpenAfter # <<>> => OpenAfter[1].on)
    BY <1>8
  <2>1. plain /\ FlagsOK
    BY <1>4, <1>8, Zenon DEF MacroInv
  <2>2. \A j, k \in 1 .. n : groups'[j] # <<>> /\ groups'[k] # <<>> => j = k
    <3> TAKE j, k \in 1 .. n
    <3>1. \A i \in 1 .. n : i # n => i \in 1 .. n - 1 /\ groups'[i] = groups[i]
      BY <1>1, <1>5
    <3>2. groups[j] # <<>> /\ groups[k] # <<>> => j = k
      BY <2>1 DEF FlagsOK
    <3> QED
      BY <1>5, <2>0, <3>1, <3>2
  <2>3. ASSUME NEW k \in 1 .. n, k # n
        PROVE  /\ Len(groups'[k]) <= 1 /\ On(k)'
               /\ frames'[k].in_conditional <=> \E j \in 1 .. k : groups'[j] # <<>>
               /\ frames'[k].conditional_active <=> On(k)'
    <3>1. \A j \in 1 .. k : j \in 1 .. n /\ groups'[j] = groups[j]
      BY <1>1, <1>5, <2>3
    <3>2. k < n /\ k \in 1 .. k /\ frames'[k] = frames[k]
      BY <1>1, <1>2, <2>3
    <3> QED
      BY <2>1, <3>1, <3>2 DEF FlagsOK, On
  <2>4. /\ Len(groups'[n]) <= 1
        /\ frames'[n].in_conditional <=> \E j \in 1 .. n : groups'[j] # <<>>
        /\ frames'[n].conditional_active <=> On(n)'
    <3>1. (\E j \in 1 .. n : groups'[j] # <<>>)
          <=> (OpenAfter # <<>> \/ \E j \in 1 .. n - 1 : groups[j] # <<>>)
      <4>1. \A j \in 1 .. n : j = n \/ (j # n /\ j \in 1 .. n - 1)
        BY <1>1
      <4>2. \A j \in 1 .. n - 1 : j \in 1 .. n /\ j # n
        BY <1>1
      <4> QED
        BY <1>1, <1>5, <4>1, <4>2
    <3>2. On(n)' <=> (OpenAfter # <<>> => OpenAfter[1].on)
      BY <1>2, <1>5 DEF On
    <3> QED
      BY <1>2, <1>3, <1>5, <2>0, <3>1, <3>2
  <2> QED
    BY <1>1, <1>2, <2>2, <2>3, <2>4 DEF FlagsOK
<1>9. FlagsOK'
  BY <1>8 DEF FlagsOK
<1> QED
  BY <1>2, <1>6, <1>7, <1>9 DEF MacroInv

(* A line that leaves the open groups alone: the frame may write or change    *)
(* its macros, as C's table changes.                                          *)
LEMMA QuietLine ==
  ASSUME MacroInv, LineStep, Follow, NEW g, SameFile(Top, g), Goto(g),
         Line.kind \notin Conditionals \cup {"elif", "else", "endif"},
         g.in_conditional = Top.in_conditional, g.conditional_active = Top.conditional_active,
         plain' => g.defines = MacrosAfter
  PROVE  MacroInv'
<1> DEFINE n == Len(frames)
<1>1. /\ n \in Nat /\ n \in 1 .. n /\ Top = frames[n] /\ Open = groups[n] /\ FlagsOK
      /\ \A j \in 1 .. n : j \in 1 .. n - 1 \/ j = n
      /\ \A j \in 1 .. n - 1 : j \in 1 .. n /\ j # n
  BY GroupFacts, TopFacts DEF MacroInv
<1>2. OpenAfter = Open
  BY DEF OpenAfter
<1>3. ASSUME plain'
      PROVE  /\ Len(OpenAfter) <= 1
             /\ OpenAfter # <<>> => \A j \in 1 .. n - 1 : groups[j] = <<>>
             /\ g.in_conditional <=> (OpenAfter # <<>> \/ \E j \in 1 .. n - 1 : groups[j] # <<>>)
             /\ g.conditional_active <=> (OpenAfter # <<>> => OpenAfter[1].on)
  <2>1. plain
    BY <1>3, FollowLine, Zenon DEF MacroInv
  <2>2. /\ Len(groups[n]) <= 1
        /\ groups[n] # <<>> => \A j \in 1 .. n - 1 : groups[j] = <<>>
        /\ Top.in_conditional <=> (groups[n] # <<>> \/ \E j \in 1 .. n - 1 : groups[j] # <<>>)
        /\ Top.conditional_active <=> (groups[n] # <<>> => groups[n][1].on)
    BY <1>1, <2>1 DEF FlagsOK, On
  <2> QED
    BY <1>1, <1>2, <2>2
<1> QED
  BY <1>3, LineKeepsMacroInv

LEMMA LineMacroInv == MacroInv /\ LineStep /\ Follow => MacroInv'
<1> SUFFICES ASSUME MacroInv, LineStep, Follow
             PROVE  MacroInv'
  OBVIOUS
<1> DEFINE n == Len(frames)
<1>0. /\ n \in Nat /\ n \in 1 .. n /\ IsFrame(Top) /\ Top = frames[n] /\ Open = groups[n]
      /\ FramesOK /\ GroupsOK /\ FlagsOK /\ MacrosFollowC /\ Open \in Seq(Group)
      /\ \A j \in 1 .. n : j \in 1 .. n - 1 \/ j = n
      /\ \A j \in 1 .. n - 1 : j \in 1 .. n /\ j # n
  BY GroupFacts, TopFacts DEF MacroInv
<1>1. plain' => plain /\ Ordinary /\ Top.defines = macros
  BY <1>0, FollowLine, Zenon DEF MacrosFollowC
<1> USE DEF Conditionals
<1>2. CASE Define
  <2> DEFINE d == [x \in DOMAIN Top.defines \cup {Line.name} |->
                     IF x = Line.name THEN Line.value ELSE Top.defines[x]]
             g == [Top EXCEPT !.defines = d]
  <2>1. Line.kind = "define" /\ Goto(g) /\ SameFile(Top, g)
        /\ g.in_conditional = Top.in_conditional /\ g.conditional_active = Top.conditional_active
        /\ g.defines = d
    BY <1>0, <1>2 DEF Define, Reads, SameFile, IsFrame, Fields
  <2>2. ASSUME plain' PROVE d = MacrosAfter
    <3>1. Selected /\ Top.defines = macros
      BY <1>1, <2>1, <2>2 DEF Ordinary
    <3> QED
      BY <2>1, <3>1 DEF MacrosAfter
  <2> HIDE DEF d, g
  <2> QED
    BY <2>1, <2>2, QuietLine
<1>3. CASE Undef
  <2> DEFINE d == [x \in DOMAIN Top.defines \ {Line.name} |-> Top.defines[x]]
             g == [Top EXCEPT !.defines = d]
  <2>1. Line.kind = "undef" /\ Goto(g) /\ SameFile(Top, g)
        /\ g.in_conditional = Top.in_conditional /\ g.conditional_active = Top.conditional_active
        /\ g.defines = d
    BY <1>0, <1>3 DEF Undef, Reads, SameFile, IsFrame, Fields
  <2>2. ASSUME plain' PROVE d = MacrosAfter
    <3>1. Selected /\ Top.defines = macros
      BY <1>1, <2>1, <2>2 DEF Ordinary
    <3> QED
      BY <2>1, <3>1 DEF MacrosAfter
  <2> HIDE DEF d, g
  <2> QED
    BY <2>1, <2>2, QuietLine
<1>4. CASE Pragma \/ Text \/ Unknown
  <2>1. Line.kind \in {"pragma", "text", "unknown"}
    BY <1>4 DEF Pragma, Text, Unknown, Reads
  <2>2. \E t : Goto(Top) \/ Goto(Write(Top, t))
    BY <1>4 DEF Pragma, Text, Unknown
  <2>3. PICK t : Goto(Top) \/ Goto(Write(Top, t))
    BY <2>2
  <2>4. MacrosAfter = macros
    BY <2>1 DEF MacrosAfter
  <2>5. \A g \in {Top, Write(Top, t)} :
          /\ SameFile(Top, g) /\ g.in_conditional = Top.in_conditional
          /\ g.conditional_active = Top.conditional_active /\ g.defines = Top.defines
    <3>1. SameFile(Top, Top) /\ SameFile(Top, Write(Top, t))
      BY <1>0, WriteSameFile
    <3>2. /\ Write(Top, t).in_conditional = Top.in_conditional
          /\ Write(Top, t).conditional_active = Top.conditional_active
          /\ Write(Top, t).defines = Top.defines
      BY <1>0 DEF Write, IsFrame, Fields
    <3> QED
      BY <3>1, <3>2
  <2> QED
    BY <1>1, <2>1, <2>3, <2>4, <2>5, QuietLine
<1>5. CASE If
  <2> DEFINE c == (Top.conditional_active /\ Condition)
             g == [Top EXCEPT !.in_conditional = TRUE, !.conditional_active = c]
  <2>1. /\ Line.kind \in Conditionals /\ c \in BOOLEAN
        /\ Condition \in BOOLEAN /\ CCondition \in BOOLEAN
    BY <1>5, ConditionFacts DEF If, Reads
  <2>2. Goto(g) /\ SameFile(Top, g) /\ g.in_conditional = TRUE /\ g.conditional_active = c
        /\ g.defines = Top.defines
    BY <1>0, <1>5 DEF If, SameFile, IsFrame, Fields
  <2>3. ASSUME plain'
        PROVE  /\ Open = <<>> /\ (\A j \in 1 .. n : groups[j] = <<>>)
               /\ Top.conditional_active /\ (CCondition <=> Condition)
               /\ Top.defines = macros
    <3>1. plain /\ Ordinary /\ Top.defines = macros
      BY <1>1, <2>3
    <3>2. /\ \A k \in 1 .. Len(groups) : groups[k] = <<>>
          /\ Line.kind = "if" => (CCondition <=> Condition)
      BY <2>1, <3>1 DEF Ordinary
    <3>3. \A j \in 1 .. n : groups[j] = <<>>
      BY <1>0, <3>2 DEF GroupsOK
    <3>4. Top.conditional_active
      BY <1>0, <3>1, <3>3 DEF FlagsOK, On
    <3>5. CASE Line.kind = "if"
      BY <1>0, <3>1, <3>2, <3>3, <3>4, <3>5
    <3>6. CASE Line.kind = "ifdef"
      BY <1>0, <3>1, <3>3, <3>4, <3>6 DEF CCondition, Condition
    <3>7. CASE Line.kind = "ifndef"
      BY <1>0, <3>1, <3>3, <3>4, <3>7 DEF CCondition, Condition
    <3> QED
      BY <2>1, <3>5, <3>6, <3>7
  <2>4. ASSUME plain'
        PROVE  Len(OpenAfter) = 1 /\ OpenAfter # <<>> /\ (OpenAfter[1].on <=> CCondition)
    <3> DEFINE e == [on |-> CCondition, taken |-> CCondition]
    <3>1. OpenAfter = Append(<<>>, e) /\ (e.on <=> CCondition)
      BY <2>1, <2>3, <2>4 DEF OpenAfter
    <3> HIDE DEF e
    <3>2. Append(<<>>, e) = <<e>>
      OBVIOUS
    <3> QED
      BY <3>1, <3>2
  <2>5. MacrosAfter = macros
    BY <2>1 DEF MacrosAfter
  <2> HIDE DEF g
  <2>6. ASSUME plain'
        PROVE  /\ Len(OpenAfter) <= 1
               /\ OpenAfter # <<>> => \A j \in 1 .. n - 1 : groups[j] = <<>>
               /\ g.in_conditional <=> (OpenAfter # <<>> \/ \E j \in 1 .. n - 1 : groups[j] # <<>>)
               /\ g.conditional_active <=> (OpenAfter # <<>> => OpenAfter[1].on)
               /\ g.defines = MacrosAfter
    <3>0. Len(OpenAfter) = 1 /\ OpenAfter # <<>> /\ g.in_conditional = TRUE
      BY <2>2, <2>4, <2>6, Zenon
    <3>1. Len(OpenAfter) <= 1
      BY <3>0
    <3>2. \A j \in 1 .. n - 1 : groups[j] = <<>>
      BY <1>0, <2>3, <2>6
    <3>3. g.conditional_active <=> OpenAfter[1].on
      BY <2>1, <2>2, <2>3, <2>4, <2>6
    <3>4. g.defines = MacrosAfter
      BY <2>2, <2>3, <2>5, <2>6
    <3> QED
      BY <3>0, <3>1, <3>2, <3>3, <3>4
  <2> QED
    BY <2>2, <2>6, LineKeepsMacroInv
<1>6. CASE Else
  <2>1. Line.kind = "else"
    BY <1>6 DEF Else, Reads
  <2>2. PICK g : /\ Goto(g) /\ SameFile(Top, g) /\ g.defines = Top.defines
                 /\ g.in_conditional = Top.in_conditional
                 /\ Top.in_conditional => (g.conditional_active <=> ~Top.conditional_active)
    <3>1. CASE Top.in_conditional
      <4> DEFINE g == [Top EXCEPT !.conditional_active = ~Top.conditional_active]
      <4>1. Goto(g)
        BY <1>6, <3>1 DEF Else
      <4>2. /\ SameFile(Top, g) /\ g.defines = Top.defines
            /\ g.in_conditional = Top.in_conditional
            /\ g.conditional_active = ~Top.conditional_active
        BY <1>0 DEF SameFile, IsFrame, Fields
      <4> QED
        BY <4>1, <4>2
    <3>2. CASE ~Top.in_conditional
      BY <1>0, <1>6, <3>2 DEF Else, SameFile
    <3> QED
      BY <3>1, <3>2
  <2>3. ASSUME plain'
        PROVE  /\ plain /\ Open # <<>> /\ (Open[1].taken <=> Open[1].on) /\ Len(Open) = 1
               /\ Front(Open) = <<>> /\ Last(Open) = Open[1] /\ Open[1] \in Group
               /\ \A j \in 1 .. n - 1 : groups[j] = <<>>
               /\ Top.in_conditional /\ (Top.conditional_active <=> Open[1].on)
    <3>1. plain /\ Open # <<>> /\ (Last(Open).taken <=> Last(Open).on)
      BY <1>1, <2>1, <2>3 DEF Ordinary
    <3>2. Len(Open) <= 1
      BY <1>0, <3>1 DEF FlagsOK
    <3>3. Len(Open) = 1
      <4>1. Len(Open) \in Nat /\ Len(Open) # 0
        BY <1>0, <3>1, EmptySeq
      <4>2. \A x \in Nat : x <= 1 /\ x # 0 => x = 1
        OBVIOUS
      <4> QED
        BY <3>2, <4>1, <4>2
    <3>4. Front(Open) = <<>> /\ Last(Open) = Open[1] /\ Open[1] \in Group
      BY <1>0, <3>3 DEF Front, Last
    <3>5. \A j \in 1 .. n - 1 : groups[j] = <<>>
      BY <1>0, <3>1 DEF FlagsOK
    <3>6. Top.in_conditional /\ (Top.conditional_active <=> Open[1].on)
      BY <1>0, <3>1 DEF FlagsOK, On
    <3> QED
      BY <3>1, <3>3, <3>4, <3>5, <3>6
  <2>4. ASSUME plain'
        PROVE  Len(OpenAfter) = 1 /\ OpenAfter # <<>> /\ (OpenAfter[1].on <=> ~Open[1].taken)
    <3> DEFINE e == [on |-> ~Last(Open).taken, taken |-> TRUE]
    <3>1. OpenAfter = Append(Front(Open), e) /\ (e.on <=> ~Last(Open).taken)
      BY <2>1, <2>3, <2>4 DEF OpenAfter
    <3> HIDE DEF e
    <3>2. Append(<<>>, e) = <<e>>
      OBVIOUS
    <3> QED
      BY <2>3, <2>4, <3>1, <3>2
  <2>5. MacrosAfter = macros
    BY <2>1 DEF MacrosAfter
  <2>6. ASSUME plain'
        PROVE  /\ Len(OpenAfter) <= 1
               /\ OpenAfter # <<>> => \A j \in 1 .. n - 1 : groups[j] = <<>>
               /\ g.in_conditional <=> (OpenAfter # <<>> \/ \E j \in 1 .. n - 1 : groups[j] # <<>>)
               /\ g.conditional_active <=> (OpenAfter # <<>> => OpenAfter[1].on)
               /\ g.defines = MacrosAfter
    <3>0. Len(OpenAfter) = 1 /\ OpenAfter # <<>> /\ g.in_conditional
      BY <2>2, <2>3, <2>4, <2>6, Zenon
    <3>1. Len(OpenAfter) <= 1
      BY <3>0
    <3>2. \A j \in 1 .. n - 1 : groups[j] = <<>>
      BY <2>3, <2>6
    <3>3. g.conditional_active <=> OpenAfter[1].on
      BY <2>2, <2>3, <2>4, <2>6, Zenon
    <3>4. g.defines = MacrosAfter
      BY <1>1, <2>2, <2>5, <2>6
    <3> QED
      BY <3>0, <3>1, <3>2, <3>3, <3>4
  <2> QED
    BY <2>2, <2>6, LineKeepsMacroInv
<1>7. CASE Elif
  <2>1. Line.kind = "elif"
    BY <1>7 DEF Elif, Reads
  <2>2. ~plain'
    BY <1>1, <2>1 DEF Ordinary
  <2>3. PICK g : SameFile(Top, g) /\ Goto(g)
    BY <1>0, LineSteps
  <2> QED
    BY <2>2, <2>3, LineKeepsMacroInv
<1>8. CASE Endif
  <2> DEFINE g == [Top EXCEPT !.in_conditional = FALSE, !.conditional_active = TRUE]
  <2>1. Line.kind = "endif"
    BY <1>8 DEF Endif, Reads
  <2>2. Goto(g) /\ SameFile(Top, g) /\ g.in_conditional = FALSE /\ g.conditional_active = TRUE
        /\ g.defines = Top.defines
    BY <1>0, <1>8 DEF Endif, SameFile, IsFrame, Fields
  <2> HIDE DEF g
  <2>3. ASSUME plain'
        PROVE  OpenAfter = <<>> /\ \A j \in 1 .. n - 1 : groups[j] = <<>>
    <3>1. plain /\ Open # <<>>
      BY <1>1, <2>1, <2>3 DEF Ordinary
    <3>2. OpenAfter = Front(Open)
      BY <2>1, <3>1 DEF OpenAfter
    <3>3. Len(Open) <= 1
      BY <1>0, <3>1 DEF FlagsOK
    <3>4. Front(Open) = <<>>
      BY <1>0, <3>3 DEF Front
    <3>5. \A j \in 1 .. n - 1 : groups[j] = <<>>
      BY <1>0, <3>1 DEF FlagsOK
    <3> QED
      BY <3>2, <3>4, <3>5
  <2>4. MacrosAfter = macros
    BY <2>1 DEF MacrosAfter
  <2>5. ASSUME plain'
        PROVE  /\ Len(OpenAfter) <= 1
               /\ OpenAfter # <<>> => \A j \in 1 .. n - 1 : groups[j] = <<>>
               /\ g.in_conditional <=> (OpenAfter # <<>> \/ \E j \in 1 .. n - 1 : groups[j] # <<>>)
               /\ g.conditional_active <=> (OpenAfter # <<>> => OpenAfter[1].on)
               /\ g.defines = MacrosAfter
    BY <1>1, <2>2, <2>3, <2>4, <2>5
  <2> QED
    BY <2>2, <2>5, LineKeepsMacroInv
<1> QED
  BY <1>2, <1>3, <1>4, <1>5, <1>6, <1>7, <1>8 DEF LineStep

LEMMA IncludeMacroInv ==
  ASSUME MacroInv, Include, frames' # frames, Follow
  PROVE  MacroInv'
<1> DEFINE n == Len(frames)
           g == Frame(Line.name, Append(Top.include_stack, Line.name), Top.defines,
                      Top.in_conditional, Top.conditional_active)
<1>1. /\ n \in Nat /\ n \in 1 .. n /\ Top = frames[n] /\ FramesOK /\ GroupsOK /\ FlagsOK
      /\ MacrosFollowC /\ Len(groups) = n
  BY GroupFacts, TopFacts DEF MacroInv
<1>2. /\ FramesOK' /\ Len(frames') = n + 1 /\ frames'[n + 1] = g
      /\ \A k \in 1 .. n : frames'[k] = frames[k]
  BY <1>1, IncludeEffect
<1>3. /\ g.in_conditional = Top.in_conditional /\ g.defines = Top.defines
      /\ g.conditional_active = Top.conditional_active
  BY DEF Frame
<1> HIDE DEF g
<1>4. groups' = Append(groups, <<>>) /\ plain' = (plain /\ Selected) /\ UNCHANGED macros
  BY <1>1, <1>2 DEF Follow
<1>5. /\ groups' \in Seq(Seq(Group)) /\ Len(groups') = n + 1 /\ groups'[n + 1] = <<>>
      /\ \A k \in 1 .. n : groups'[k] = groups[k]
  BY <1>1, <1>4 DEF GroupsOK
<1>6. GroupsOK'
  BY <1>2, <1>5 DEF GroupsOK
<1>7. plain' => plain /\ Selected
  BY <1>4
<1>8. MacrosFollowC'
  <2>1. Top' = g
    BY <1>2 DEF Top, Last
  <2> QED
    BY <1>1, <1>3, <1>4, <1>7, <2>1 DEF MacrosFollowC
<1>9. ASSUME plain' PROVE FlagsOK'
  <2>1. plain /\ On(n)
    BY <1>1, <1>7, <1>9, ActiveIsSelected
  <2>2. \A j \in 1 .. n + 1 : j \in 1 .. n \/ j = n + 1
    BY <1>1
  <2>3. \A j, k \in 1 .. n + 1 : groups'[j] # <<>> /\ groups'[k] # <<>> => j = k
    BY <1>1, <1>5, <2>1, <2>2 DEF FlagsOK
  <2>4. ASSUME NEW k \in 1 .. n
        PROVE  /\ Len(groups'[k]) <= 1 /\ On(k)'
               /\ frames'[k].in_conditional <=> \E j \in 1 .. k : groups'[j] # <<>>
               /\ frames'[k].conditional_active <=> On(k)'
    <3>1. \A j \in 1 .. k : j \in 1 .. n /\ groups'[j] = groups[j]
      BY <1>1, <1>5
    <3>2. k \in 1 .. k /\ (k < n \/ k = n) /\ frames'[k] = frames[k]
      BY <1>1, <1>2
    <3> QED
      BY <2>1, <3>1, <3>2, <1>1 DEF FlagsOK, On
  <2>5. /\ Len(groups'[n + 1]) <= 1
        /\ frames'[n + 1].in_conditional <=> \E j \in 1 .. n + 1 : groups'[j] # <<>>
        /\ frames'[n + 1].conditional_active
        /\ groups'[n + 1] = <<>>
    <3>1. (\E j \in 1 .. n + 1 : groups'[j] # <<>>) <=> \E j \in 1 .. n : groups[j] # <<>>
      <4>1. \A j \in 1 .. n : j \in 1 .. n + 1
        BY <1>1
      <4> QED
        BY <1>5, <2>2, <4>1
    <3>2. Top.in_conditional <=> \E j \in 1 .. n : groups[j] # <<>>
      BY <1>1, <2>1 DEF FlagsOK
    <3>3. Top.conditional_active
      BY <1>1, <2>1 DEF FlagsOK
    <3>4. groups'[n + 1] = <<>> /\ Len(<<>>) = 0
      BY <1>5
    <3> QED
      BY <1>2, <1>3, <1>5, <3>1, <3>2, <3>3, <3>4 DEF On
  <2> QED
    <3>1. \A k \in 1 .. n + 1 : On(k)' <=> (groups'[k] # <<>> => groups'[k][1].on)
      BY DEF On
    <3>2. \A k \in 1 .. n + 1 :
            /\ Len(groups'[k]) <= 1 /\ On(k)'
            /\ frames'[k].in_conditional <=> \E j \in 1 .. k : groups'[j] # <<>>
            /\ frames'[k].conditional_active <=> On(k)'
      BY <2>2, <2>4, <2>5, <3>1
    <3> QED
      BY <1>2, <2>3, <3>2 DEF FlagsOK
<1>10. FlagsOK'
  BY <1>9 DEF FlagsOK
<1> QED
  BY <1>2, <1>6, <1>8, <1>10 DEF MacroInv

LEMMA EndOfIncludeMacroInv ==
  ASSUME MacroInv, EndOfInclude, Follow
  PROVE  MacroInv'
<1> DEFINE n == Len(frames)
           outer == [frames[n - 1] EXCEPT !.defines = Top.defines, !.at = @ + 1]
           g == Write(outer, Append(Top.output, Newline))
<1>1. /\ n \in Nat /\ n \in 1 .. n /\ Top = frames[n] /\ FramesOK /\ GroupsOK /\ FlagsOK
      /\ MacrosFollowC /\ Len(groups) = n /\ Open = groups[n]
  BY GroupFacts, TopFacts DEF MacroInv
<1>2. /\ FramesOK' /\ n > 1 /\ Len(frames') = n - 1
      /\ \A k \in 1 .. n - 2 : frames'[k] = frames[k]
      /\ frames'[n - 1] = g
  BY <1>1, EndOfIncludeEffect
<1>3. /\ g.in_conditional = frames[n - 1].in_conditional /\ g.defines = Top.defines
      /\ g.conditional_active = frames[n - 1].conditional_active
  <2>1. IsFrame(frames[n - 1])
    BY <1>1, <1>2 DEF FramesOK
  <2>2. /\ outer.in_conditional = frames[n - 1].in_conditional /\ outer.defines = Top.defines
        /\ outer.conditional_active = frames[n - 1].conditional_active /\ DOMAIN outer = Fields
    BY <2>1 DEF IsFrame, Fields
  <2> HIDE DEF outer
  <2> QED
    BY <2>2 DEF Write, Fields
<1> HIDE DEF g
<1>4. groups' = Front(groups) /\ plain' = (plain /\ Open = <<>>) /\ UNCHANGED macros
  BY <1>1, <1>2 DEF Follow
<1>5. /\ groups' \in Seq(Seq(Group)) /\ Len(groups') = n - 1
      /\ \A k \in 1 .. n - 1 : groups'[k] = groups[k]
  BY <1>1, <1>2, <1>4 DEF GroupsOK, Front
<1>6. GroupsOK'
  BY <1>2, <1>5 DEF GroupsOK
<1>7. plain' => plain
  BY <1>4
<1>8. MacrosFollowC'
  <2>1. Top' = g
    BY <1>2 DEF Top, Last
  <2> QED
    BY <1>1, <1>3, <1>4, <1>7, <2>1 DEF MacrosFollowC
<1>9. ASSUME plain' PROVE FlagsOK'
  <2>1. plain
    BY <1>7, <1>9
  <2>2. \A k \in 1 .. n - 1 :
          /\ frames'[k].in_conditional = frames[k].in_conditional
          /\ frames'[k].conditional_active = frames[k].conditional_active
    <3>1. \A k \in 1 .. n - 1 : k \in 1 .. n - 2 \/ k = n - 1
      BY <1>1
    <3> QED
      BY <1>2, <1>3, <3>1
  <2>3. \A j, k \in 1 .. n - 1 : groups'[j] # <<>> /\ groups'[k] # <<>> => j = k
    <3>1. \A k \in 1 .. n - 1 : k \in 1 .. n
      BY <1>1
    <3> QED
      BY <1>1, <1>5, <2>1, <3>1 DEF FlagsOK
  <2>4. ASSUME NEW k \in 1 .. n - 1
        PROVE  /\ Len(groups'[k]) <= 1 /\ On(k)'
               /\ frames'[k].in_conditional <=> \E j \in 1 .. k : groups'[j] # <<>>
               /\ frames'[k].conditional_active <=> On(k)'
    <3>1. \A j \in 1 .. k : j \in 1 .. n /\ groups'[j] = groups[j]
      BY <1>1, <1>5
    <3>2. k \in 1 .. k /\ k < n /\ k \in 1 .. n
      BY <1>1
    <3> QED
      BY <1>1, <2>1, <2>2, <3>1, <3>2, SMTT(30) DEF FlagsOK, On
  <2> QED
    BY <1>1, <1>2, <2>3, <2>4 DEF FlagsOK
<1>10. FlagsOK'
  BY <1>9 DEF FlagsOK
<1> QED
  BY <1>2, <1>6, <1>8, <1>10 DEF MacroInv

LEMMA MacroStep == MacroInv /\ [CNext]_cvars => MacroInv'
<1> SUFFICES ASSUME MacroInv, [CNext]_cvars
             PROVE  MacroInv'
  OBVIOUS
<1>1. ASSUME frames' = frames, UNCHANGED history
      PROVE  MacroInv'
  BY <1>1 DEF MacroInv, FramesOK, GroupsOK, FlagsOK, On, MacrosFollowC, Top, history
<1>2. CASE (Returned /\ UNCHANGED history) \/ UNCHANGED cvars
  BY <1>1, <1>2 DEF Returned, cvars, vars
<1>3. CASE Step /\ Follow
  <2>1. CASE frames' = frames
    <3>1. UNCHANGED history
      <4>1. Len(frames) \in Nat
        BY TopFacts DEF MacroInv
      <4> QED
        BY <1>3, <2>1, <4>1 DEF Follow
    <3> QED
      BY <1>1, <2>1, <3>1
  <2>2. CASE frames' # frames
    <3>1. \/ LineStep
          \/ Include /\ frames' # frames
          \/ EndOfInclude
      BY <2>2, StepKinds DEF MacroInv
    <3> QED
      BY <1>3, <3>1, LineMacroInv, IncludeMacroInv, EndOfIncludeMacroInv
  <2> QED
    BY <2>1, <2>2
<1> QED
  BY <1>2, <1>3 DEF CNext

LEMMA MacroInit == CInit => MacroInv
<1> SUFFICES ASSUME CInit PROVE MacroInv
  OBVIOUS
<1>1. FramesOK /\ Len(frames) = 1 /\ frames[1] = Frame(Root, <<>>, <<>>, FALSE, TRUE)
  BY RootFrame
<1>2. /\ frames[1].defines = <<>> /\ frames[1].in_conditional = FALSE
      /\ frames[1].conditional_active = TRUE
  BY <1>1 DEF Frame
<1>3. groups = << <<>> >> /\ macros = <<>>
  BY DEF CInit
<1>4. groups \in Seq(Seq(Group)) /\ Len(groups) = 1 /\ groups[1] = <<>>
  BY <1>3
<1>5. GroupsOK
  BY <1>1, <1>4 DEF GroupsOK
<1>6. FlagsOK
  <2>1. Len(<<>>) = 0 /\ 1 .. 1 = {1}
    OBVIOUS
  <2>2. \A k \in 1 .. 1 : /\ k = 1 /\ Len(groups[k]) <= 1 /\ On(k)
                          /\ ~frames[k].in_conditional /\ frames[k].conditional_active
    BY <1>2, <1>4, <2>1 DEF On
  <2>3. \A k \in 1 .. 1 : \A j \in 1 .. k : groups[j] = <<>>
    BY <1>4, <2>1
  <2> QED
    BY <1>1, <2>2, <2>3 DEF FlagsOK
<1>7. MacrosFollowC
  BY <1>1, <1>2, <1>3 DEF MacrosFollowC, Top, Last
<1> QED
  BY <1>1, <1>5, <1>6, <1>7 DEF MacroInv

(* On the plain part of the language the macros of the top frame are the ones  *)
(* C has, whatever the files hold and however deep they include each other:    *)
(* through the copies each included file starts from and gives back, and       *)
(* through conditionals that the macros of other files decide.                 *)
THEOREM MacrosAreCs == CSpec => []MacrosFollowC
<1>1. CInit => MacroInv
  BY MacroInit
<1>2. MacroInv => MacrosFollowC
  BY DEF MacroInv
<1> QED
  BY <1>1, <1>2, MacroStep, PTL DEF CSpec, CNext

-------------------------------------------------------------------------------
(* Induction up to a bound, through the least number that is left out.       *)

LEMMA LeastElement ==
  ASSUME NEW T \in SUBSET Nat, T # {}
  PROVE  \E x \in T : \A y \in T : x <= y
<1> DEFINE R == OpToRel(<, Nat)
<1>1. IsWellFoundedOn(R, Nat)
  BY NatLessThanWellFounded
<1>2. \A x, y \in Nat : <<y, x>> \in R <=> y < x
  BY DEF OpToRel
<1> HIDE DEF R
<1>3. PICK x \in T : \A y \in T : ~(<<y, x>> \in R)
  BY <1>1, WFMin
<1>4. ASSUME NEW y \in T PROVE x <= y
  <2>1. y \in Nat /\ x \in Nat
    OBVIOUS
  <2>2. ~(<<y, x>> \in R)
    BY <1>3
  <2>3. ~(y < x)
    BY <1>2, <2>1, <2>2, Zenon
  <2> QED
    BY <2>1, <2>3
<1> QED
  BY <1>4

LEMMA CountUp ==
  ASSUME NEW n \in Nat, NEW T, 0 \in T, \A k \in 0 .. n - 1 : k \in T => k + 1 \in T
  PROVE  0 .. n \subseteq T
<1> DEFINE Rest == (0 .. n) \ T
<1> SUFFICES ASSUME Rest # {} PROVE FALSE
  OBVIOUS
<1>0. Rest \in SUBSET Nat
  OBVIOUS
<1>1. PICK x \in Rest : \A y \in Rest : x <= y
  <2> HIDE DEF Rest
  <2> QED
    BY <1>0, LeastElement
<1>2. x # 0 /\ x - 1 \in 0 .. n - 1
  BY <1>1
<1>3. x - 1 \notin Rest
  BY <1>1, <1>2
<1>4. x - 1 \in T
  BY <1>2, <1>3
<1>5. (x - 1) + 1 \in T
  BY <1>2, <1>4
<1> QED
  BY <1>2, <1>5

-------------------------------------------------------------------------------
(* Concatenation of sequences of anything.                                   *)

(* \o under a name of its own, for the provers to take as it stands.         *)
Join(s, t) == s \o t

LEMMA ConcatFacts ==
  ASSUME NEW s, IsSequence(s), NEW t, IsSequence(t)
  PROVE  IsSequence(Join(s, t)) /\ Join(s, <<>>) = s
<1> DEFINE S == {s[i] : i \in DOMAIN s} \cup {t[i] : i \in DOMAIN t}
<1>1. s \in Seq(S) /\ t \in Seq(S)
  BY SeqMonotonic DEF IsSequence
<1> HIDE DEF S
<1>2. s \o t \in Seq(S) /\ s \o <<>> = s
  BY <1>1, ConcatProperties, ConcatEmptySeq
<1>3. IsSequence(s \o t)
  BY <1>2, AnySequence
<1> QED
  BY <1>2, <1>3 DEF Join

LEMMA AppendIsJoin ==
  ASSUME NEW s, IsSequence(s), NEW e
  PROVE  IsSequence(<<e>>) /\ Append(s, e) = Join(s, <<e>>)
<1> DEFINE S == {s[i] : i \in DOMAIN s} \cup {e}
<1>1. s \in Seq(S) /\ e \in S
  BY SeqMonotonic DEF IsSequence
<1> HIDE DEF S
<1>2. <<e>> \in Seq(S)
  BY <1>1
<1>3. Append(s, e) = s \o <<e>>
  BY <1>1, AppendIsConcat
<1> QED
  BY <1>2, <1>3, AnySequence DEF Join

LEMMA ConcatThree ==
  ASSUME NEW s, IsSequence(s), NEW t, IsSequence(t), NEW u, IsSequence(u)
  PROVE  Join(Join(s, t), u) = Join(s, Join(t, u))
<1> DEFINE S == {s[i] : i \in DOMAIN s} \cup {t[i] : i \in DOMAIN t} \cup {u[i] : i \in DOMAIN u}
<1>1. s \in Seq(S) /\ t \in Seq(S) /\ u \in Seq(S)
  BY SeqMonotonic DEF IsSequence
<1> HIDE DEF S
<1> QED
  BY <1>1, ConcatAssociative DEF Join

-------------------------------------------------------------------------------
(* FlattenSeq, which puts the outputs of the frames together, one after the   *)
(* other.                                                                     *)

FlattensTo(s, f, k) == f = [i \in 1 .. k |-> IF i = 1 THEN s[i] ELSE Join(f[i - 1], s[i])]

LEMMA FlattenExists ==
  ASSUME NEW s, NEW n \in Nat
  PROVE  \E f : FlattensTo(s, f, n)
<1> DEFINE T == {k \in 0 .. n : \E f : FlattensTo(s, f, k)}
<1>1. 0 \in T
  <2> DEFINE f == [i \in 1 .. 0 |-> 0]
  <2>1. \A i \in 1 .. 0 : FALSE
    OBVIOUS
  <2>2. f = [i \in 1 .. 0 |-> IF i = 1 THEN s[i] ELSE Join(f[i - 1], s[i])]
    BY <2>1, Zenon
  <2>3. FlattensTo(s, f, 0)
    BY <2>2, Zenon DEF FlattensTo
  <2> HIDE DEF f
  <2> QED
    BY <2>3
<1>2. ASSUME NEW k \in 0 .. n - 1, k \in T PROVE k + 1 \in T
  <2>1. PICK f : FlattensTo(s, f, k)
    BY <1>2
  <2> DEFINE last == IF k = 0 THEN s[k + 1] ELSE Join(f[k], s[k + 1])
             g == [i \in 1 .. k + 1 |-> IF i = k + 1 THEN last ELSE f[i]]
  <2>2. ASSUME NEW i \in 1 .. k + 1
        PROVE  g[i] = IF i = 1 THEN s[i] ELSE Join(g[i - 1], s[i])
    <3>1. CASE i = k + 1
      <4>1. (i = 1 <=> k = 0) /\ (k # 0 => k \in 1 .. k + 1 /\ k # k + 1) /\ i - 1 = k
        BY <3>1
      <4>2. g[i] = last /\ (k # 0 => g[k] = f[k])
        BY <3>1, <4>1
      <4> QED
        BY <3>1, <4>1, <4>2
    <3>2. CASE i # k + 1
      <4>1. i \in 1 .. k /\ (i # 1 => i - 1 \in 1 .. k + 1 /\ i - 1 # k + 1)
        BY <3>2
      <4>2. g[i] = f[i] /\ (i # 1 => g[i - 1] = f[i - 1])
        BY <4>1
      <4>3. f[i] = IF i = 1 THEN s[i] ELSE Join(f[i - 1], s[i])
        BY <2>1, <4>1, Zenon DEF FlattensTo
      <4> QED
        BY <4>2, <4>3
    <3> QED
      BY <3>1, <3>2
  <2>3. g = [i \in 1 .. k + 1 |-> g[i]]
    OBVIOUS
  <2> HIDE DEF g
  <2>4. FlattensTo(s, g, k + 1)
    BY <2>2, <2>3 DEF FlattensTo
  <2>5. k + 1 \in 0 .. n
    OBVIOUS
  <2> QED
    BY <2>4, <2>5
<1> HIDE DEF T
<1>3. n \in T
  <2>1. 0 .. n \subseteq T
    BY <1>1, <1>2, CountUp
  <2> QED
    BY <2>1
<1> QED
  BY <1>3 DEF T

Flat(s) == CHOOSE f : FlattensTo(s, f, Len(s))

LEMMA FlatFacts ==
  ASSUME NEW s, Len(s) \in Nat, Len(s) >= 1
  PROVE  /\ Flat(s)[1] = s[1]
         /\ \A i \in 2 .. Len(s) : Flat(s)[i] = Join(Flat(s)[i - 1], s[i])
         /\ FlattenSeq(s) = Flat(s)[Len(s)]
<1> DEFINE f == Flat(s)
<1>1. FlattensTo(s, f, Len(s))
  BY FlattenExists, Zenon DEF Flat
<1>2. Len(s) # 0
  OBVIOUS
<1>3. FlattenSeq(s) = f[Len(s)]
  BY <1>2, Zenon DEF FlattenSeq, Flat, FlattensTo, Join
<1> HIDE DEF f
<1>4. \A i \in 1 .. Len(s) : f[i] = IF i = 1 THEN s[i] ELSE Join(f[i - 1], s[i])
  BY <1>1, Zenon DEF FlattensTo
<1>5. f[1] = s[1] /\ \A i \in 2 .. Len(s) : f[i] = Join(f[i - 1], s[i])
  BY <1>4
<1> QED
  BY <1>3, <1>5 DEF f

(* Sequences of sequences that begin alike flatten alike.                     *)
LEMMA FlatAgree ==
  ASSUME NEW s, Len(s) \in Nat, NEW t, Len(t) \in Nat, NEW n \in Nat,
         n <= Len(s), n <= Len(t), \A i \in 1 .. n : s[i] = t[i]
  PROVE  \A i \in 1 .. n : Flat(s)[i] = Flat(t)[i]
<1> DEFINE T == {i \in 0 .. n : i # 0 => Flat(s)[i] = Flat(t)[i]}
<1>1. 0 \in T
  OBVIOUS
<1>2. ASSUME NEW k \in 0 .. n - 1, k \in T PROVE k + 1 \in T
  <2>1. Len(s) >= 1 /\ Len(t) >= 1 /\ k + 1 \in 1 .. n /\ s[k + 1] = t[k + 1] /\ k + 1 \in 0 .. n
    OBVIOUS
  <2>2. CASE k = 0
    BY <2>1, <2>2, FlatFacts
  <2>3. CASE k # 0
    <3>1. k + 1 \in 2 .. Len(s) /\ k + 1 \in 2 .. Len(t) /\ (k + 1) - 1 = k
      BY <2>3
    <3>2. Flat(s)[k] = Flat(t)[k]
      BY <1>2, <2>3
    <3>3. Flat(s)[k + 1] = Join(Flat(s)[k], s[k + 1]) /\ Flat(t)[k + 1] = Join(Flat(t)[k], t[k + 1])
      <4>1. Flat(s)[k + 1] = Join(Flat(s)[(k + 1) - 1], s[k + 1])
        BY <2>1, <3>1, FlatFacts
      <4>2. Flat(t)[k + 1] = Join(Flat(t)[(k + 1) - 1], t[k + 1])
        BY <2>1, <3>1, FlatFacts
      <4> QED
        BY <3>1, <4>1, <4>2
    <3> QED
      BY <2>1, <3>2, <3>3
  <2> QED
    BY <2>2, <2>3
<1> HIDE DEF T
<1>3. 0 .. n \subseteq T
  BY <1>1, <1>2, CountUp
<1>4. \A i \in 1 .. n : i \in T /\ i # 0
  BY <1>3
<1> QED
  BY <1>4 DEF T

LEMMA FlatIsSequence ==
  ASSUME NEW s, Len(s) \in Nat, Len(s) >= 1, \A i \in 1 .. Len(s) : IsSequence(s[i])
  PROVE  \A i \in 1 .. Len(s) : IsSequence(Flat(s)[i])
<1> DEFINE n == Len(s)
           T == {i \in 0 .. n : i # 0 => IsSequence(Flat(s)[i])}
<1>1. 0 \in T
  OBVIOUS
<1>2. ASSUME NEW k \in 0 .. n - 1, k \in T PROVE k + 1 \in T
  <2>1. k + 1 \in 1 .. n /\ k + 1 \in 0 .. n /\ IsSequence(s[k + 1])
    OBVIOUS
  <2>2. CASE k = 0
    BY <2>1, <2>2, FlatFacts
  <2>3. CASE k # 0
    <3>1. k + 1 \in 2 .. n /\ (k + 1) - 1 = k /\ IsSequence(Flat(s)[k])
      BY <1>2, <2>3
    <3>2. Flat(s)[k + 1] = Join(Flat(s)[(k + 1) - 1], s[k + 1])
      BY <3>1, FlatFacts
    <3>3. IsSequence(Join(Flat(s)[k], s[k + 1]))
      BY <2>1, <3>1, ConcatFacts
    <3> QED
      BY <2>1, <3>1, <3>2, <3>3
  <2> QED
    BY <2>2, <2>3
<1> HIDE DEF T
<1>3. 0 .. n \subseteq T
  BY <1>1, <1>2, CountUp
<1>4. \A i \in 1 .. n : i \in T /\ i # 0
  BY <1>3
<1> QED
  BY <1>4 DEF T

(* What is added to the last sequence is added to the whole.                  *)
LEMMA FlattenWrite ==
  ASSUME NEW p, Len(p) \in Nat, Len(p) >= 1, \A i \in 1 .. Len(p) : IsSequence(p[i]),
         NEW q, Len(q) = Len(p), \A i \in 1 .. Len(p) - 1 : q[i] = p[i],
         NEW u, IsSequence(u), q[Len(p)] = Join(p[Len(p)], u)
  PROVE  IsSequence(FlattenSeq(p)) /\ FlattenSeq(q) = Join(FlattenSeq(p), u)
<1> DEFINE n == Len(p)
<1>1. /\ FlattenSeq(p) = Flat(p)[n] /\ Flat(p)[1] = p[1]
      /\ \A i \in 2 .. n : Flat(p)[i] = Join(Flat(p)[i - 1], p[i])
  BY FlatFacts
<1>2. /\ FlattenSeq(q) = Flat(q)[n] /\ Flat(q)[1] = q[1]
      /\ \A i \in 2 .. n : Flat(q)[i] = Join(Flat(q)[i - 1], q[i])
  BY FlatFacts
<1>3. \A i \in 1 .. n : IsSequence(Flat(p)[i])
  BY FlatIsSequence
<1>4. CASE n = 1
  BY <1>1, <1>2, <1>3, <1>4
<1>5. CASE n # 1
  <2>1. n - 1 \in Nat /\ n - 1 \in 1 .. n - 1 /\ n \in 2 .. n /\ n - 1 <= n /\ n - 1 \in 1 .. n
    BY <1>5
  <2>2. \A i \in 1 .. n - 1 : Flat(q)[i] = Flat(p)[i]
    BY <2>1, FlatAgree
  <2>3. Flat(q)[n] = Join(Flat(p)[n - 1], Join(p[n], u))
    BY <1>2, <2>1, <2>2
  <2>4. IsSequence(Flat(p)[n - 1]) /\ IsSequence(p[n]) /\ IsSequence(Flat(p)[n])
    BY <1>3, <2>1
  <2>5. Join(Join(Flat(p)[n - 1], p[n]), u) = Join(Flat(p)[n - 1], Join(p[n], u))
    BY <2>4, ConcatThree
  <2>6. Flat(p)[n] = Join(Flat(p)[n - 1], p[n])
    BY <1>1, <2>1
  <2> QED
    BY <1>1, <1>2, <2>3, <2>4, <2>5, <2>6
<1> QED
  BY <1>4, <1>5

LEMMA FlattenPush ==
  ASSUME NEW p, Len(p) \in Nat, Len(p) >= 1, \A i \in 1 .. Len(p) : IsSequence(p[i]),
         NEW q, Len(q) = Len(p) + 1, \A i \in 1 .. Len(p) : q[i] = p[i],
         q[Len(p) + 1] = <<>>
  PROVE  FlattenSeq(q) = FlattenSeq(p)
<1> DEFINE n == Len(p)
<1>1. n + 1 \in 2 .. n + 1 /\ n \in 1 .. n /\ (n + 1) - 1 = n /\ n <= n /\ n <= n + 1
  OBVIOUS
<1>2. Flat(q)[n] = Flat(p)[n]
  BY <1>1, FlatAgree, SMTT(30)
<1>3. FlattenSeq(p) = Flat(p)[n]
  BY FlatFacts
<1>4. FlattenSeq(q) = Flat(q)[n + 1] /\ Flat(q)[n + 1] = Join(Flat(q)[(n + 1) - 1], q[n + 1])
  BY <1>1, FlatFacts
<1>5. IsSequence(Flat(p)[n])
  BY <1>1, FlatIsSequence
<1>6. Join(Flat(p)[n], <<>>) = Flat(p)[n]
  BY <1>5, ConcatFacts
<1> QED
  BY <1>1, <1>2, <1>3, <1>4, <1>6

(* The last sequence may be put at the end of the one before it.              *)
LEMMA FlattenPop ==
  ASSUME NEW p, Len(p) \in Nat, Len(p) >= 2, \A i \in 1 .. Len(p) : IsSequence(p[i]),
         NEW q, Len(q) = Len(p) - 1, \A i \in 1 .. Len(p) - 2 : q[i] = p[i],
         NEW u, IsSequence(u), q[Len(p) - 1] = Join(p[Len(p) - 1], Join(p[Len(p)], u))
  PROVE  FlattenSeq(q) = Join(FlattenSeq(p), u)
<1> DEFINE n == Len(p)
           m == n - 1
<1>1. /\ m \in Nat /\ m >= 1 /\ m \in 1 .. n /\ n \in 2 .. n /\ n \in 1 .. n
      /\ n - 2 = m - 1 /\ m <= n
  OBVIOUS
<1>2. FlattenSeq(p) = Flat(p)[n] /\ Flat(p)[n] = Join(Flat(p)[m], p[n])
  BY <1>1, FlatFacts
<1>3. IsSequence(Flat(p)[m]) /\ IsSequence(p[n]) /\ IsSequence(p[m]) /\ Flat(p)[1] = p[1]
  BY <1>1, FlatIsSequence, FlatFacts
<1>4. /\ FlattenSeq(q) = Flat(q)[m] /\ Flat(q)[1] = q[1]
      /\ \A i \in 2 .. m : Flat(q)[i] = Join(Flat(q)[i - 1], q[i])
  BY <1>1, FlatFacts
<1>5. IsSequence(Join(p[n], u))
  BY <1>3, ConcatFacts
<1>6. Flat(q)[m] = Join(Flat(p)[m], Join(p[n], u))
  <2>1. CASE m = 1
    BY <1>3, <1>4, <2>1
  <2>2. CASE m # 1
    <3>1. /\ m - 1 \in Nat /\ m - 1 \in 1 .. m - 1 /\ m \in 2 .. m /\ m \in 2 .. n
          /\ m - 1 <= m /\ m - 1 <= n /\ m - 1 \in 1 .. n
      BY <1>1, <2>2
    <3>2. \A i \in 1 .. m - 1 : q[i] = p[i]
      BY <1>1
    <3>3. Flat(q)[m - 1] = Flat(p)[m - 1]
      BY <1>1, <3>1, <3>2, FlatAgree
    <3>4. Flat(p)[m] = Join(Flat(p)[m - 1], p[m])
      BY <1>1, <3>1, FlatFacts, SMTT(30)
    <3>5. IsSequence(Flat(p)[m - 1])
      <4>1. \A i \in 1 .. n : IsSequence(Flat(p)[i])
        BY <1>1, FlatIsSequence
      <4> QED
        BY <3>1, <4>1
    <3>6. Join(Join(Flat(p)[m - 1], p[m]), Join(p[n], u))
           = Join(Flat(p)[m - 1], Join(p[m], Join(p[n], u)))
      BY <1>3, <1>5, <3>5, ConcatThree
    <3>7. Flat(q)[m] = Join(Flat(q)[m - 1], q[m])
      BY <1>4, <3>1
    <3> QED
      BY <3>3, <3>4, <3>6, <3>7
  <2> QED
    BY <2>1, <2>2
<1>7. Join(Join(Flat(p)[m], p[n]), u) = Join(Flat(p)[m], Join(p[n], u))
  BY <1>3, ConcatThree
<1> QED
  BY <1>2, <1>4, <1>6, <1>7

-------------------------------------------------------------------------------
(* expand_macro.                                                             *)

ExpandsTo(token, defs, order, a, k) ==
  a = [i \in 0 .. k |-> IF i = 0 THEN token
                        ELSE IF a[i - 1] = order[i] THEN defs[order[i]] ELSE a[i - 1]]

LEMMA ExpandExists ==
  ASSUME NEW token, NEW defs, NEW order, NEW n \in Nat
  PROVE  \E a : ExpandsTo(token, defs, order, a, n)
<1> DEFINE T == {k \in 0 .. n : \E a : ExpandsTo(token, defs, order, a, k)}
<1>1. 0 \in T
  <2> DEFINE a == [i \in 0 .. 0 |-> token]
  <2>1. \A i \in 0 .. 0 : i = 0
    OBVIOUS
  <2>2. a = [i \in 0 .. 0 |-> IF i = 0 THEN token
                             ELSE IF a[i - 1] = order[i] THEN defs[order[i]] ELSE a[i - 1]]
    BY <2>1, Zenon
  <2>3. ExpandsTo(token, defs, order, a, 0)
    BY <2>2, Zenon DEF ExpandsTo
  <2> HIDE DEF a
  <2> QED
    BY <2>3
<1>2. ASSUME NEW k \in 0 .. n - 1, k \in T PROVE k + 1 \in T
  <2>1. PICK a : ExpandsTo(token, defs, order, a, k)
    BY <1>2
  <2> DEFINE last == IF a[k] = order[k + 1] THEN defs[order[k + 1]] ELSE a[k]
             b == [i \in 0 .. k + 1 |-> IF i = k + 1 THEN last ELSE a[i]]
  <2>2. ASSUME NEW i \in 0 .. k + 1
        PROVE  b[i] = IF i = 0 THEN token
                      ELSE IF b[i - 1] = order[i] THEN defs[order[i]] ELSE b[i - 1]
    <3>1. CASE i = k + 1
      <4>1. i # 0 /\ k \in 0 .. k + 1 /\ k # k + 1 /\ i - 1 = k
        BY <3>1
      <4>2. b[i] = last /\ b[k] = a[k]
        BY <3>1, <4>1
      <4> QED
        BY <3>1, <4>1, <4>2
    <3>2. CASE i # k + 1
      <4>1. i \in 0 .. k /\ (i # 0 => i - 1 \in 0 .. k + 1 /\ i - 1 # k + 1)
        BY <3>2
      <4>2. b[i] = a[i] /\ (i # 0 => b[i - 1] = a[i - 1])
        BY <4>1
      <4>3. a[i] = IF i = 0 THEN token
                   ELSE IF a[i - 1] = order[i] THEN defs[order[i]] ELSE a[i - 1]
        BY <2>1, <4>1, Zenon DEF ExpandsTo
      <4> QED
        BY <4>2, <4>3
    <3> QED
      BY <3>1, <3>2
  <2>3. b = [i \in 0 .. k + 1 |-> b[i]]
    OBVIOUS
  <2> HIDE DEF b
  <2>4. ExpandsTo(token, defs, order, b, k + 1)
    BY <2>2, <2>3 DEF ExpandsTo
  <2>5. k + 1 \in 0 .. n
    OBVIOUS
  <2> QED
    BY <2>4, <2>5
<1> HIDE DEF T
<1>3. n \in T
  <2>1. 0 .. n \subseteq T
    BY <1>1, <1>2, CountUp
  <2> QED
    BY <2>1
<1> QED
  BY <1>3 DEF T

(* A token whose value is no macro is replaced by it exactly once, in         *)
(* whatever order the macros are tried; any other token stays.                *)
LEMMA ExpandsAsC ==
  ASSUME NEW token, NEW defs, IsFiniteSet(DOMAIN defs),
         token \in DOMAIN defs => defs[token] \notin DOMAIN defs,
         NEW t \in Expansions(token, defs)
  PROVE  t = IF token \in DOMAIN defs THEN defs[token] ELSE token
<1> DEFINE D == DOMAIN defs
           n == Cardinality(D)
           V == defs[token]
<1>1. n \in Nat
  BY FS_CardinalityType
<1>2. PICK order \in SetToSeqs(D) : t = Expand(token, defs, order)
  BY DEF Expansions
<1>3. order \in [1 .. n -> D] /\ \A i, j \in 1 .. n : i # j => order[i] # order[j]
  BY <1>2 DEF SetToSeqs
<1>4. Len(order) = n
  BY <1>1, <1>3
<1>5. \A x \in D : \E i \in 1 .. n : order[i] = x
  <2>1. order \in Injection(1 .. n, D)
    BY <1>3 DEF Injection, IsInjective
  <2>2. Cardinality(1 .. n) = n
    BY <1>1, FS_Interval
  <2> HIDE DEF D
  <2>3. IsFiniteSet(D)
    BY DEF D
  <2>4. order \in Surjection(1 .. n, D)
    BY <2>1, <2>2, <2>3, FS_Injection
  <2> QED
    BY <2>4 DEF Surjection
<1> DEFINE a == CHOOSE a : ExpandsTo(token, defs, order, a, Len(order))
<1>6. ExpandsTo(token, defs, order, a, n)
  <2>1. ExpandsTo(token, defs, order, a, Len(order))
    BY <1>1, <1>4, ExpandExists, Zenon
  <2> QED
    BY <1>4, <2>1, Zenon
<1>7. t = a[n]
  <2>1. t = a[Len(order)]
    BY <1>2, Zenon DEF Expand, ExpandsTo
  <2> QED
    BY <1>4, <2>1, Zenon
<1> HIDE DEF a, D
<1>8. \A i \in 0 .. n : a[i] = IF i = 0 THEN token
                               ELSE IF a[i - 1] = order[i] THEN defs[order[i]] ELSE a[i - 1]
  BY <1>6, Zenon DEF ExpandsTo
<1> DEFINE Seen(i) == \E j \in 1 .. i : order[j] = token
           T == {i \in 0 .. n : a[i] = IF token \in D /\ Seen(i) THEN V ELSE token}
<1>9. 0 \in T
  BY <1>1, <1>8
<1>10. ASSUME NEW k \in 0 .. n - 1, k \in T PROVE k + 1 \in T
  <2>1. /\ k + 1 \in 0 .. n /\ k + 1 \in 1 .. n /\ k + 1 # 0 /\ (k + 1) - 1 = k
        /\ \A j \in 1 .. k + 1 : j \in 1 .. k \/ j = k + 1
        /\ \A j \in 1 .. k : j \in 1 .. k + 1
    BY <1>1
  <2>2. a[k + 1] = IF a[k] = order[k + 1] THEN defs[order[k + 1]] ELSE a[k]
    BY <1>8, <2>1
  <2>3. order[k + 1] \in D /\ (token \in D => V \notin D)
    BY <1>3, <2>1 DEF D
  <2>4. a[k] = IF token \in D /\ Seen(k) THEN V ELSE token
    BY <1>10
  <2>5. Seen(k + 1) <=> Seen(k) \/ order[k + 1] = token
    BY <2>1
  <2> HIDE DEF Seen
  <2>6. a[k + 1] = IF token \in D /\ Seen(k + 1) THEN V ELSE token
    BY <2>2, <2>3, <2>4, <2>5
  <2> QED
    BY <2>1, <2>6
<1> HIDE DEF T
<1>11. 0 .. n \subseteq T
  BY <1>1, <1>9, <1>10, CountUp
<1>12. n \in T
  BY <1>1, <1>11
<1>13. t = IF token \in D /\ Seen(n) THEN V ELSE token
  BY <1>7, <1>12 DEF T
<1> QED
  BY <1>5, <1>13 DEF D

-------------------------------------------------------------------------------
(* The text.                                                                 *)

OutputsOK == \A k \in 1 .. Len(frames) : IsSequence(frames[k].output)

(* C's text is a sequence of lines, and a line a sequence of words.           *)
LinesOK == /\ IsSequence(text)
           /\ \A i \in 1 .. Len(text) : IsSequence(Unended(text[i]))

(* The text of the open files, outermost first, is C's lines run together;    *)
(* the macros of the innermost are finitely many, so that every order of them *)
(* tries each.                                                                *)
TextInv == /\ MacroInv /\ OutputsOK /\ LinesOK
           /\ IsFiniteSet(DOMAIN Top.defines) /\ PlainFollowsC

OutputsOf(stack) == [k \in 1 .. Len(stack) |-> stack[k].output]

LEMMA OutputsFacts ==
  ASSUME NEW stack, IsSequence(stack)
  PROVE  /\ Len(OutputsOf(stack)) = Len(stack)
         /\ \A k \in 1 .. Len(stack) : OutputsOf(stack)[k] = stack[k].output
<1> DEFINE p == OutputsOf(stack)
           S == {stack[k].output : k \in 1 .. Len(stack)}
<1>1. Len(stack) \in Nat
  BY SequenceFacts
<1>2. p \in [1 .. Len(stack) -> S] /\ \A k \in 1 .. Len(stack) : p[k] = stack[k].output
  BY DEF OutputsOf
<1> HIDE DEF p, S
<1>3. p \in Seq(S) /\ DOMAIN p = 1 .. Len(stack)
  BY <1>1, <1>2, SeqDef
<1>4. Len(p) = Len(stack)
  BY <1>1, <1>3, LenProperties
<1> QED
  BY <1>2, <1>4 DEF p

LEMMA WrittenFacts ==
  ASSUME FramesOK, OutputsOK
  PROVE  /\ IsSequence(WrittenSoFar) /\ Join(WrittenSoFar, <<>>) = WrittenSoFar
         /\ \A t : Append(WrittenSoFar, t) = Join(WrittenSoFar, <<t>>)
<1>2. IsSequence(WrittenSoFar)
  <2> DEFINE p == OutputsOf(frames)
  <2>1. /\ Len(p) = Len(frames) /\ Len(frames) \in Nat /\ Len(frames) >= 1
        /\ \A k \in 1 .. Len(frames) : p[k] = frames[k].output
    BY TopFacts, OutputsFacts DEF FramesOK
  <2>2. WrittenSoFar = FlattenSeq(p)
    BY Zenon DEF WrittenSoFar, OutputsOf
  <2> HIDE DEF p
  <2>3. Len(p) \in 1 .. Len(p) /\ \A i \in 1 .. Len(p) : IsSequence(p[i])
    BY <2>1 DEF OutputsOK
  <2>4. FlattenSeq(p) = Flat(p)[Len(p)] /\ IsSequence(Flat(p)[Len(p)])
    BY <2>1, <2>3, FlatFacts, FlatIsSequence
  <2> QED
    BY <2>2, <2>4
<1>3. IsSequence(<<>>)
  BY DEF IsSequence
<1> QED
  BY <1>2, <1>3, ConcatFacts, AppendIsJoin

UnendedOf(lines) == [i \in 1 .. Len(lines) |-> Unended(lines[i])]

LEMMA UnendedFacts ==
  ASSUME NEW lines, IsSequence(lines)
  PROVE  /\ Len(UnendedOf(lines)) = Len(lines)
         /\ \A i \in 1 .. Len(lines) : UnendedOf(lines)[i] = Unended(lines[i])
<1> DEFINE p == UnendedOf(lines)
           S == {Unended(lines[i]) : i \in 1 .. Len(lines)}
<1>1. Len(lines) \in Nat
  BY SequenceFacts
<1>2. p \in [1 .. Len(lines) -> S] /\ \A i \in 1 .. Len(lines) : p[i] = Unended(lines[i])
  BY DEF UnendedOf
<1> HIDE DEF p, S
<1>3. p \in Seq(S) /\ DOMAIN p = 1 .. Len(lines)
  BY <1>1, <1>2, SeqDef
<1>4. Len(p) = Len(lines)
  BY <1>1, <1>3, LenProperties
<1> QED
  BY <1>2, <1>4 DEF p

(* A line more is its words more.                                            *)
LEMMA RunOn ==
  ASSUME LinesOK, NEW r, IsSequence(Unended(r)), text' = Append(text, r)
  PROVE  LinesOK' /\ RunTogether(text') = Join(RunTogether(text), Unended(r))
<1> DEFINE n == Len(text)
           u == Unended(r)
<1>1. /\ n \in Nat /\ IsSequence(text') /\ Len(text') = n + 1 /\ text'[n + 1] = r
      /\ \A i \in 1 .. n : text'[i] = text[i] /\ IsSequence(Unended(text[i]))
  BY SequenceFacts, PushFacts DEF LinesOK
<1>2. LinesOK'
  <2>1. \A i \in 1 .. n + 1 : i \in 1 .. n \/ i = n + 1
    BY <1>1
  <2>2. \A i \in 1 .. n + 1 : IsSequence(Unended(text'[i]))
    BY <1>1, <2>1
  <2> QED
    BY <1>1, <2>2 DEF LinesOK, Unended
<1> DEFINE p == UnendedOf(text)
           q == UnendedOf(text')
<1>3. Len(p) = n /\ \A i \in 1 .. n : p[i] = Unended(text[i])
  BY UnendedFacts DEF LinesOK
<1>4. Len(q) = n + 1 /\ \A i \in 1 .. n + 1 : q[i] = Unended(text'[i])
  BY <1>1, UnendedFacts
<1>5. RunTogether(text) = FlattenSeq(p) /\ RunTogether(text') = FlattenSeq(q)
  BY Zenon DEF RunTogether, UnendedOf
<1>6. q[n + 1] = u /\ IsSequence(u)
  BY <1>1, <1>4
<1>7. CASE n = 0
  <2>1. FlattenSeq(p) = <<>>
    <3>1. p = <<>>
      BY <1>7 DEF UnendedOf
    <3>2. Len(<<>>) = 0
      OBVIOUS
    <3> QED
      BY <3>1, <3>2, Zenon DEF FlattenSeq
  <2>2. FlattenSeq(q) = u
    <3>1. Len(q) = 1 /\ q[1] = u
      BY <1>4, <1>6, <1>7
    <3> HIDE DEF q, u
    <3>2. Len(q) \in Nat /\ Len(q) >= 1
      BY <3>1
    <3>3. Flat(q)[1] = q[1] /\ FlattenSeq(q) = Flat(q)[Len(q)]
      BY <3>2, FlatFacts, Zenon
    <3> QED
      BY <3>1, <3>3, Zenon
  <2>3. Join(<<>>, u) = u
    <3>1. u \in Seq({u[i] : i \in DOMAIN u})
      BY <1>6 DEF IsSequence
    <3> QED
      BY <3>1, ConcatEmptySeq, Zenon DEF Join
  <2> HIDE DEF p, q, u
  <2>4. RunTogether(text') = Join(RunTogether(text), u)
    BY <1>5, <2>1, <2>2, <2>3, Zenon
  <2> QED
    BY <1>2, <2>4, Zenon DEF u
<1>8. CASE n # 0
  <2> HIDE DEF p, q, u
  <2>1. /\ n >= 1 /\ n \in 1 .. n /\ n + 1 \in 2 .. n + 1 /\ (n + 1) - 1 = n
        /\ \A i \in 1 .. n : i \in 1 .. n + 1
    BY <1>1, <1>8
  <2>2. \A i \in 1 .. n : q[i] = p[i]
    BY <1>1, <1>3, <1>4, <2>1
  <2>0. /\ Len(q) \in Nat /\ n <= Len(q) /\ Len(q) >= 1
        /\ Len(p) \in Nat /\ n <= Len(p) /\ Len(p) >= 1
    BY <1>1, <1>3, <1>4, <2>1
  <2>3. Flat(q)[n] = Flat(p)[n]
    <3>1. \A i \in 1 .. n : Flat(q)[i] = Flat(p)[i]
      BY <1>1, <2>2, <2>0, FlatAgree, Zenon
    <3> QED
      BY <2>1, <3>1, Zenon
  <2>4. FlattenSeq(p) = Flat(p)[n]
    BY <1>3, <2>0, FlatFacts, Zenon
  <2>5. FlattenSeq(q) = Flat(q)[n + 1] /\ Flat(q)[n + 1] = Join(Flat(q)[(n + 1) - 1], q[n + 1])
    BY <1>4, <2>1, <2>0, FlatFacts, Zenon
  <2>6. Flat(q)[n + 1] = Join(Flat(q)[n], u)
    BY <1>6, <2>1, <2>5, Zenon
  <2>7. RunTogether(text') = Join(RunTogether(text), u)
    BY <1>5, <2>3, <2>4, <2>5, <2>6, Zenon
  <2> QED
    BY <1>2, <2>7, Zenon DEF u
<1> QED
  BY <1>7, <1>8

(* What a step does to C's text keeps it a sequence of lines.                *)
LEMMA LineEnds ==
  /\ \A w : IsSequence(w) => Unended(TextLine(w)) = w
  /\ Unended(IncludeLine) = <<Newline>>
  /\ IsSequence(<<>>) /\ \A w : IsSequence(<<w>>)
<1>1. IsSequence(<<>>)
  BY DEF IsSequence
<1>2. ASSUME NEW w PROVE IsSequence(<<w>>)
  BY <1>1, AppendIsJoin
<1>3. Append(<<>>, Newline) = <<Newline>>
  OBVIOUS
<1> QED
  BY <1>1, <1>2, <1>3 DEF Unended, TextLine, IncludeLine

LEMMA LinesKept ==
  ASSUME LinesOK, text' = text
  PROVE  LinesOK' /\ RunTogether(text') = RunTogether(text)
  BY DEF LinesOK, Unended, RunTogether

(* A line that writes u, in the file and in C.                               *)
LEMMA LineWrites ==
  ASSUME TextInv, LineStep, Follow, NEW g, SameFile(Top, g), Goto(g),
         NEW u, IsSequence(u), g.output = Join(Top.output, u),
         IsFiniteSet(DOMAIN g.defines), plain' => RunTogether(text') = Join(WrittenSoFar, u)
  PROVE  OutputsOK' /\ IsFiniteSet(DOMAIN Top'.defines) /\ PlainFollowsC'
<1> DEFINE n == Len(frames)
           h == [g EXCEPT !.at = @ + 1]
<1>1. /\ n \in Nat /\ n \in 1 .. n /\ n >= 1 /\ Top = frames[n] /\ FramesOK
      /\ \A k \in 1 .. n : IsSequence(frames[k].output)
  BY TopFacts DEF TextInv, MacroInv, OutputsOK
<1>2. /\ FramesOK' /\ Len(frames') = n /\ frames'[n] = h
      /\ \A k \in 1 .. n : k # n => frames'[k] = frames[k]
  BY <1>1, GotoEffect
<1>3. h.output = g.output /\ h.defines = g.defines
  BY DEF SameFile, IsFrame, Fields
<1> HIDE DEF h
<1>4. IsSequence(g.output)
  BY <1>1, ConcatFacts
<1>5. OutputsOK'
  BY <1>1, <1>2, <1>3, <1>4 DEF OutputsOK
<1>6. Top' = h
  BY <1>2 DEF Top, Last
<1>7. WrittenSoFar' = Join(WrittenSoFar, u)
  <2> DEFINE p == OutputsOf(frames)
             q == OutputsOf(frames')
  <2>1. Len(p) = n /\ \A k \in 1 .. n : p[k] = frames[k].output
    BY <1>1, OutputsFacts DEF FramesOK
  <2>2. Len(q) = n /\ \A k \in 1 .. n : q[k] = frames'[k].output
    BY <1>2, OutputsFacts DEF FramesOK
  <2>0. WrittenSoFar = FlattenSeq(p) /\ WrittenSoFar' = FlattenSeq(q)
    BY Zenon DEF WrittenSoFar, OutputsOf
  <2> HIDE DEF p, q
  <2>3. \A k \in 1 .. n - 1 : q[k] = p[k]
    BY <1>1, <1>2, <2>1, <2>2
  <2>4. q[n] = Join(p[n], u)
    BY <1>1, <1>2, <1>3, <2>1, <2>2
  <2>5. \A k \in 1 .. n : IsSequence(p[k])
    BY <1>1, <2>1
  <2>6. FlattenSeq(q) = Join(FlattenSeq(p), u)
    <3>1. /\ Len(p) \in Nat /\ Len(p) >= 1 /\ \A i \in 1 .. Len(p) : IsSequence(p[i])
          /\ Len(q) = Len(p) /\ \A i \in 1 .. Len(p) - 1 : q[i] = p[i]
          /\ q[Len(p)] = Join(p[Len(p)], u)
      BY <1>1, <2>1, <2>2, <2>3, <2>4, <2>5
    <3> QED
      BY <3>1, FlattenWrite
  <2> QED
    BY <2>0, <2>6
<1>8. PlainFollowsC'
  BY <1>7 DEF PlainFollowsC
<1> QED
  BY <1>3, <1>5, <1>6, <1>8

(* The lines that write nothing.                                             *)
LEMMA QuietText ==
  ASSUME TextInv, LineStep, Follow, Line.kind \notin {"text", "unknown"},
         NEW g, SameFile(Top, g), Goto(g), g.output = Top.output, IsFiniteSet(DOMAIN g.defines)
  PROVE  OutputsOK' /\ IsFiniteSet(DOMAIN Top'.defines) /\ PlainFollowsC'
<1>1. FramesOK /\ OutputsOK /\ IsSequence(Top.output)
  BY TopFacts DEF TextInv, MacroInv, OutputsOK
<1>2. IsSequence(<<>>)
  BY DEF IsSequence
<1>3. Join(Top.output, <<>>) = Top.output
  BY <1>1, <1>2, ConcatFacts
<1>4. plain' => plain /\ text' = text
  BY <1>1, FollowLine, Zenon DEF TextAfter
<1>5. plain' => RunTogether(text') = Join(WrittenSoFar, <<>>)
  BY <1>1, <1>4, WrittenFacts DEF TextInv, PlainFollowsC
<1> QED
  BY <1>2, <1>3, <1>5, LineWrites

LEMMA LineText ==
  ASSUME TextInv, LineStep, Follow
  PROVE  OutputsOK' /\ IsFiniteSet(DOMAIN Top'.defines) /\ PlainFollowsC'
<1>0. /\ IsFrame(Top) /\ FramesOK /\ GroupsOK /\ FlagsOK /\ OutputsOK
      /\ IsFiniteSet(DOMAIN Top.defines) /\ MacrosFollowC /\ PlainFollowsC /\ LinesOK
      /\ IsSequence(Top.output) /\ Top = frames[Len(frames)]
  BY TopFacts DEF TextInv, MacroInv, OutputsOK
<1>1. plain' => /\ plain /\ Ordinary /\ Top.defines = macros
                /\ RunTogether(text) = WrittenSoFar
                /\ (Top.conditional_active <=> Selected) /\ text' = TextAfter
  BY <1>0, FollowLine, ActiveIsSelected, Zenon DEF MacrosFollowC, PlainFollowsC
<1>2. CASE Define
  <2> DEFINE d == [x \in DOMAIN Top.defines \cup {Line.name} |->
                     IF x = Line.name THEN Line.value ELSE Top.defines[x]]
             g == [Top EXCEPT !.defines = d]
  <2>1. /\ Line.kind = "define" /\ Goto(g) /\ SameFile(Top, g) /\ g.output = Top.output
        /\ g.defines = d
    BY <1>0, <1>2 DEF Define, Reads, SameFile, IsFrame, Fields
  <2>2. IsFiniteSet(DOMAIN d)
    BY <1>0, FS_AddElement
  <2> HIDE DEF d, g
  <2> QED
    BY <2>1, <2>2, QuietText
<1>3. CASE Undef
  <2> DEFINE d == [x \in DOMAIN Top.defines \ {Line.name} |-> Top.defines[x]]
             g == [Top EXCEPT !.defines = d]
  <2>1. /\ Line.kind = "undef" /\ Goto(g) /\ SameFile(Top, g) /\ g.output = Top.output
        /\ g.defines = d
    BY <1>0, <1>3 DEF Undef, Reads, SameFile, IsFrame, Fields
  <2>2. IsFiniteSet(DOMAIN d)
    BY <1>0, FS_RemoveElement
  <2> HIDE DEF d, g
  <2> QED
    BY <2>1, <2>2, QuietText
<1>4. CASE If \/ Else \/ Elif \/ Endif \/ Pragma
  <2>1. Line.kind \in {"if", "ifdef", "ifndef", "else", "elif", "endif", "pragma"}
    BY <1>4 DEF If, Else, Elif, Endif, Pragma, Reads, Conditionals
  <2>2. \E g : /\ Goto(g) /\ SameFile(Top, g) /\ g.output = Top.output
               /\ g.defines = Top.defines
    <3>1. CASE If
      <4> DEFINE g == [Top EXCEPT !.in_conditional = TRUE, !.conditional_active = @ /\ Condition]
      <4>1. Goto(g)
        BY <3>1 DEF If
      <4>2. SameFile(Top, g) /\ g.output = Top.output /\ g.defines = Top.defines
        BY <1>0 DEF SameFile, IsFrame, Fields
      <4> HIDE DEF g
      <4> QED
        BY <4>1, <4>2
    <3>2. CASE Else
      <4> DEFINE g == IF Top.in_conditional THEN [Top EXCEPT !.conditional_active = ~@] ELSE Top
      <4>1. Goto(g)
        BY <3>2 DEF Else
      <4>2. SameFile(Top, g) /\ g.output = Top.output /\ g.defines = Top.defines
        BY <1>0 DEF SameFile, IsFrame, Fields
      <4> HIDE DEF g
      <4> QED
        BY <4>1, <4>2
    <3>3. CASE Elif
      <4> DEFINE g == IF Top.in_conditional
                  THEN [Top EXCEPT !.conditional_active = ~@ /\ Condition] ELSE Top
      <4>1. Goto(g)
        BY <3>3 DEF Elif
      <4>2. SameFile(Top, g) /\ g.output = Top.output /\ g.defines = Top.defines
        BY <1>0 DEF SameFile, IsFrame, Fields
      <4> HIDE DEF g
      <4> QED
        BY <4>1, <4>2
    <3>4. CASE Endif
      <4> DEFINE g == [Top EXCEPT !.in_conditional = FALSE, !.conditional_active = TRUE]
      <4>1. Goto(g)
        BY <3>4 DEF Endif
      <4>2. SameFile(Top, g) /\ g.output = Top.output /\ g.defines = Top.defines
        BY <1>0 DEF SameFile, IsFrame, Fields
      <4> HIDE DEF g
      <4> QED
        BY <4>1, <4>2
    <3>5. CASE Pragma
      BY <1>0, <3>5, WriteSameFile DEF Pragma
    <3> QED
      BY <1>4, <3>1, <3>2, <3>3, <3>4, <3>5
  <2>3. PICK g : /\ Goto(g) /\ SameFile(Top, g) /\ g.output = Top.output
                 /\ g.defines = Top.defines
    BY <2>2
  <2> QED
    BY <1>0, <2>1, <2>3, QuietText
<1>5. CASE Unknown
  <2> DEFINE t == Line.name
  <2>1. Line.kind = "unknown" /\ Goto(Write(Top, <<t>>))
    BY <1>5 DEF Unknown, Reads
  <2> HIDE DEF t
  <2> DEFINE g == Write(Top, <<t>>)
             muted == Top.in_conditional /\ ~Top.conditional_active
  <2>2. SameFile(Top, g) /\ g.defines = Top.defines
    BY <1>0, WriteSameFile DEF Write, IsFrame, Fields
  <2>3. CASE muted
    <3>1. g = Top /\ ~plain'
      BY <1>1, <2>1, <2>3 DEF Write, Ordinary, Conditionals
    <3>2. IsSequence(<<>>)
      BY DEF IsSequence
    <3>3. g.output = Join(Top.output, <<>>)
      BY <1>0, <3>1, <3>2, ConcatFacts
    <3> HIDE DEF g
    <3> QED
      BY <1>0, <2>1, <2>2, <3>1, <3>2, <3>3, LineWrites DEF g
  <2>4. CASE ~muted
    <3>1. g.output = Join(Top.output, <<t>>)
      BY <1>0, <2>4, Zenon DEF Write, Join, IsFrame, Fields
    <3>2. IsSequence(<<t>>)
      BY <1>0, AppendIsJoin
    <3>3. ASSUME plain' PROVE RunTogether(text') = Join(WrittenSoFar, <<t>>)
      <4>1. Selected
        BY <1>1, <2>1, <3>3 DEF Ordinary, Conditionals
      <4>2. text' = Append(text, TextLine(<<t>>))
        BY <1>1, <2>1, <3>3, <4>1 DEF TextAfter, t
      <4>3. RunTogether(text') = Join(RunTogether(text), <<t>>)
        BY <1>0, <4>2, LineEnds, RunOn
      <4> QED
        BY <1>1, <3>3, <4>3
    <3> HIDE DEF g
    <3> QED
      BY <1>0, <2>1, <2>2, <3>1, <3>2, <3>3, LineWrites DEF g
  <2> QED
    BY <2>3, <2>4
<1>6. CASE Text
  <2>1. Line.kind = "text"
    BY <1>6 DEF Text, Reads
  <2>2. IsSequence(<<>>)
    BY DEF IsSequence
  <2>3. SameFile(Top, Top) /\ Top.output = Join(Top.output, <<>>)
    BY <1>0, <2>2, ConcatFacts, WriteSameFile
  <2>4. CASE ~Top.conditional_active
    <3>1. Goto(Top)
      BY <1>6, <2>4 DEF Text
    <3>2. ASSUME plain' PROVE RunTogether(text') = Join(WrittenSoFar, <<>>)
      <4>1. ~Selected
        BY <1>1, <2>4, <3>2
      <4>2. text' = text
        BY <1>1, <2>1, <3>2, <4>1 DEF TextAfter
      <4> QED
        BY <1>0, <1>1, <3>2, <4>2, WrittenFacts DEF RunTogether
    <3> QED
      BY <1>0, <2>2, <2>3, <3>1, <3>2, LineWrites
  <2>5. CASE Top.conditional_active
    <3>1. PICK t \in Expansions(Line.name, Top.defines) :
                 Goto(IF t = "" THEN Top ELSE Write(Top, <<t>>))
      BY <1>6, <2>5 DEF Text
    <3>2. ASSUME plain'
          PROVE  /\ t = CValue(Line.name)
                 /\ text' = Append(text, TextLine(IF t = "" THEN <<>> ELSE <<t>>))
      <4>1. Line.name \in DOMAIN macros => macros[Line.name] \notin DOMAIN macros
        BY <1>1, <2>1, <3>2 DEF Ordinary, Conditionals
      <4>2. t = CValue(Line.name)
        <5> DEFINE D == Top.defines
                   w == Line.name
        <5>1. /\ D = macros /\ IsFiniteSet(DOMAIN D) /\ t \in Expansions(w, D)
              /\ (w \in DOMAIN D => D[w] \notin DOMAIN D)
          BY <1>0, <1>1, <3>1, <3>2, <4>1
        <5> HIDE DEF D, w
        <5>2. t = IF w \in DOMAIN D THEN D[w] ELSE w
          BY <5>1, ExpandsAsC
        <5> QED
          BY <5>1, <5>2 DEF CValue, w
      <4>3. Selected /\ text' = TextAfter
        BY <1>1, <2>5, <3>2
      <4> QED
        BY <2>1, <4>2, <4>3 DEF TextAfter
    <3> DEFINE u == IF t = "" THEN <<>> ELSE <<t>>
    <3>5. plain' => RunTogether(text') = Join(WrittenSoFar, u)
      <4>1. IsSequence(u)
        BY LineEnds
      <4>2. plain' => text' = Append(text, TextLine(u))
        BY <3>2
      <4> HIDE DEF u
      <4>3. plain' => RunTogether(text') = Join(RunTogether(text), u)
        BY <1>0, <4>1, <4>2, LineEnds, RunOn
      <4> QED
        BY <1>1, <4>3
    <3>3. CASE t = ""
      <4>1. Goto(Top)
        BY <3>1, <3>3
      <4>2. plain' => RunTogether(text') = Join(WrittenSoFar, <<>>)
        BY <3>3, <3>5
      <4> QED
        BY <1>0, <2>2, <2>3, <4>1, <4>2, LineWrites
    <3>4. CASE t # ""
      <4> DEFINE g == Write(Top, <<t>>)
      <4>1. Goto(g) /\ SameFile(Top, g) /\ g.defines = Top.defines
        BY <1>0, <3>1, <3>4, WriteSameFile DEF Write, IsFrame, Fields
      <4>2. g.output = Join(Top.output, <<t>>)
        BY <1>0, <2>5, Zenon DEF Write, Join, IsFrame, Fields
      <4>3. IsSequence(<<t>>)
        BY <1>0, AppendIsJoin
      <4> HIDE DEF g
      <4>4. plain' => RunTogether(text') = Join(WrittenSoFar, <<t>>)
        BY <3>4, <3>5
      <4> QED
        BY <1>0, <4>1, <4>2, <4>3, <4>4, LineWrites
    <3> QED
      BY <3>3, <3>4
  <2> QED
    BY <2>4, <2>5
<1> QED
  BY <1>2, <1>3, <1>4, <1>5, <1>6 DEF LineStep

LEMMA IncludeText ==
  ASSUME TextInv, Include, frames' # frames, Follow
  PROVE  OutputsOK' /\ IsFiniteSet(DOMAIN Top'.defines) /\ PlainFollowsC'
<1> DEFINE n == Len(frames)
           g == Frame(Line.name, Append(Top.include_stack, Line.name), Top.defines,
                      Top.in_conditional, Top.conditional_active)
<1>1. /\ n \in Nat /\ n \in 1 .. n /\ n >= 1 /\ Top = frames[n] /\ FramesOK
      /\ \A k \in 1 .. n : IsSequence(frames[k].output)
  BY TopFacts DEF TextInv, MacroInv, OutputsOK
<1>2. /\ FramesOK' /\ Len(frames') = n + 1 /\ frames'[n + 1] = g
      /\ \A k \in 1 .. n : frames'[k] = frames[k]
  BY <1>1, IncludeEffect
<1>3. g.output = <<>> /\ g.defines = Top.defines
  BY DEF Frame
<1> HIDE DEF g
<1>4. IsSequence(<<>>) /\ \A k \in 1 .. n + 1 : k \in 1 .. n \/ k = n + 1
  BY <1>1 DEF IsSequence
<1>5. OutputsOK'
  BY <1>1, <1>2, <1>3, <1>4 DEF OutputsOK
<1>6. IsFiniteSet(DOMAIN Top'.defines)
  <2>1. Top' = g
    BY <1>2 DEF Top, Last
  <2> QED
    BY <1>3, <2>1 DEF TextInv
<1>7. WrittenSoFar' = WrittenSoFar
  <2> DEFINE p == OutputsOf(frames)
             q == OutputsOf(frames')
  <2>1. Len(p) = n /\ \A k \in 1 .. n : p[k] = frames[k].output
    BY <1>1, OutputsFacts DEF FramesOK
  <2>2. Len(q) = n + 1 /\ \A k \in 1 .. n + 1 : q[k] = frames'[k].output
    BY <1>2, OutputsFacts DEF FramesOK
  <2>3. WrittenSoFar = FlattenSeq(p) /\ WrittenSoFar' = FlattenSeq(q)
    BY Zenon DEF WrittenSoFar, OutputsOf
  <2> HIDE DEF p, q
  <2>4. \A k \in 1 .. n : k \in 1 .. n + 1 /\ q[k] = p[k] /\ IsSequence(p[k])
    BY <1>1, <1>2, <2>1, <2>2
  <2>5. q[n + 1] = <<>>
    BY <1>1, <1>2, <1>3, <2>2
  <2>6. /\ Len(p) \in Nat /\ Len(p) >= 1 /\ \A i \in 1 .. Len(p) : IsSequence(p[i])
        /\ Len(q) = Len(p) + 1 /\ \A i \in 1 .. Len(p) : q[i] = p[i]
        /\ q[Len(p) + 1] = <<>>
    BY <1>1, <2>1, <2>2, <2>4, <2>5
  <2>7. FlattenSeq(q) = FlattenSeq(p)
    BY <2>6, FlattenPush
  <2> QED
    BY <2>3, <2>7
<1>8. (plain' => plain) /\ text' = text
  <2>1. plain' = (plain /\ Selected) /\ UNCHANGED <<macros, text>>
    BY <1>1, <1>2 DEF Follow
  <2> QED
    BY <2>1, Zenon
<1>9. PlainFollowsC'
  BY <1>7, <1>8 DEF TextInv, PlainFollowsC, RunTogether
<1> QED
  BY <1>5, <1>6, <1>9

LEMMA EndOfIncludeText ==
  ASSUME TextInv, EndOfInclude, Follow
  PROVE  OutputsOK' /\ IsFiniteSet(DOMAIN Top'.defines) /\ PlainFollowsC'
<1> DEFINE n == Len(frames)
           outer == [frames[n - 1] EXCEPT !.defines = Top.defines, !.at = @ + 1]
           g == Write(outer, Append(Top.output, Newline))
<1>1. /\ n \in Nat /\ n \in 1 .. n /\ Top = frames[n] /\ FramesOK /\ GroupsOK /\ FlagsOK
      /\ \A k \in 1 .. n : IsSequence(frames[k].output)
      /\ OutputsOK /\ LinesOK /\ PlainFollowsC /\ IsFiniteSet(DOMAIN Top.defines)
  BY TopFacts DEF TextInv, MacroInv, OutputsOK
<1>2. /\ FramesOK' /\ n > 1 /\ Len(frames') = n - 1
      /\ \A k \in 1 .. n - 2 : frames'[k] = frames[k]
      /\ frames'[n - 1] = g
  BY <1>1, EndOfIncludeEffect
<1> DEFINE o == frames[n - 1].output
           u == <<Newline>>
           muted == frames[n - 1].in_conditional /\ ~frames[n - 1].conditional_active
<1>3. /\ n - 1 \in 1 .. n /\ n - 1 < n /\ n - 2 \in Nat
      /\ \A k \in 1 .. n - 1 : k \in 1 .. n - 2 \/ k = n - 1
      /\ \A k \in 1 .. n - 2 : k \in 1 .. n - 1 /\ k \in 1 .. n
      /\ n - 1 \in 1 .. n - 1
  BY <1>1, <1>2
<1>4. IsSequence(o) /\ IsSequence(Top.output) /\ IsSequence(u)
      /\ Append(Top.output, Newline) = Join(Top.output, u)
  <2>1. IsSequence(frames[n - 1].output) /\ IsSequence(Top.output)
    BY <1>1, <1>3
  <2> QED
    BY <2>1, AppendIsJoin
<1>5. g.defines = Top.defines /\ g.output = IF muted THEN o ELSE Join(o, Join(Top.output, u))
  <2>1. IsFrame(frames[n - 1])
    BY <1>1, <1>3 DEF FramesOK
  <2>2. /\ outer.in_conditional = frames[n - 1].in_conditional /\ outer.defines = Top.defines
        /\ outer.conditional_active = frames[n - 1].conditional_active
        /\ outer.output = o /\ DOMAIN outer = Fields
    BY <2>1 DEF IsFrame, Fields
  <2> HIDE DEF outer, u
  <2>3. g = IF muted THEN outer ELSE [outer EXCEPT !.output = Join(@, Join(Top.output, u))]
    BY <1>4, <2>2, Zenon DEF Write, Join
  <2> HIDE DEF g, o, muted
  <2> QED
    BY <2>2, <2>3 DEF Fields
<1> HIDE DEF g, o, u, muted
<1>6. IsSequence(g.output)
  <2>1. IsSequence(Join(Top.output, u))
    BY <1>4, ConcatFacts
  <2>2. IsSequence(Join(o, Join(Top.output, u)))
    BY <1>4, <2>1, ConcatFacts
  <2> QED
    BY <1>4, <1>5, <2>2
<1>7. OutputsOK'
  BY <1>1, <1>2, <1>3, <1>6 DEF OutputsOK
<1>8. IsFiniteSet(DOMAIN Top'.defines)
  <2>1. Top' = g
    BY <1>2 DEF Top, Last
  <2> QED
    BY <1>1, <1>5, <2>1
<1>9. ASSUME plain' PROVE WrittenSoFar' = RunTogether(text')
  <2>1. plain /\ text' = Append(text, IncludeLine)
    <3>1. plain' = (plain /\ Open = <<>>) /\ text' = Append(text, IncludeLine)
      BY <1>1, <1>2 DEF Follow
    <3> QED
      BY <1>9, <3>1, Zenon
  <2>2. ~muted
    BY <1>1, <1>3, <2>1 DEF FlagsOK, muted
  <2> DEFINE p == OutputsOf(frames)
             q == OutputsOf(frames')
  <2>3. Len(p) = n /\ \A k \in 1 .. n : p[k] = frames[k].output
    BY <1>1, OutputsFacts DEF FramesOK
  <2>4. Len(q) = n - 1 /\ \A k \in 1 .. n - 1 : q[k] = frames'[k].output
    BY <1>2, OutputsFacts DEF FramesOK
  <2>5. WrittenSoFar = FlattenSeq(p) /\ WrittenSoFar' = FlattenSeq(q)
    BY Zenon DEF WrittenSoFar, OutputsOf
  <2> HIDE DEF p, q
  <2>6. \A k \in 1 .. n - 2 : q[k] = p[k]
    BY <1>1, <1>2, <1>3, <2>3, <2>4
  <2>7. q[n - 1] = Join(p[n - 1], Join(p[n], u))
    <3>1. q[n - 1] = g.output /\ p[n - 1] = o /\ p[n] = Top.output
      BY <1>1, <1>2, <1>3, <2>3, <2>4 DEF o
    <3> QED
      BY <1>5, <2>2, <3>1
  <2>8. /\ Len(p) \in Nat /\ Len(p) >= 2 /\ \A i \in 1 .. Len(p) : IsSequence(p[i])
        /\ Len(q) = Len(p) - 1 /\ \A i \in 1 .. Len(p) - 2 : q[i] = p[i]
        /\ q[Len(p) - 1] = Join(p[Len(p) - 1], Join(p[Len(p)], u))
    BY <1>1, <1>2, <2>3, <2>4, <2>6, <2>7
  <2>9. FlattenSeq(q) = Join(FlattenSeq(p), u)
    BY <1>4, <2>8, FlattenPop
  <2>10. RunTogether(text) = WrittenSoFar /\ RunTogether(text') = Join(RunTogether(text), u)
    BY <1>1, <1>4, <2>1, LineEnds, RunOn DEF PlainFollowsC, u
  <2> QED
    BY <2>1, <2>5, <2>9, <2>10
<1>10. PlainFollowsC'
  BY <1>9 DEF PlainFollowsC
<1> QED
  BY <1>7, <1>8, <1>10

LEMMA LinesStep ==
  ASSUME LinesOK, Follow
  PROVE  LinesOK'
<1>1. \/ text' = text \/ text' = Append(text, IncludeLine) \/ text' = TextAfter
  BY Zenon DEF Follow, history
<1>2. ASSUME text' = TextAfter
      PROVE  text' = text \/ \E w : text' = Append(text, TextLine(w)) /\ IsSequence(w)
  <2> DEFINE value == CValue(Line.name)
             w == IF value = "" THEN <<>> ELSE <<value>>
  <2>1. \/ text' = text \/ text' = Append(text, TextLine(w))
        \/ text' = Append(text, TextLine(<<Line.name>>))
    BY <1>2, Zenon DEF TextAfter
  <2>2. IsSequence(w) /\ IsSequence(<<Line.name>>)
    BY LineEnds
  <2> QED
    BY <2>1, <2>2, Zenon
<1>3. CASE text' = text
  BY <1>3, LinesKept
<1>4. CASE text' = Append(text, IncludeLine)
  <2>1. IsSequence(Unended(IncludeLine))
    BY LineEnds
  <2> QED
    BY <1>4, <2>1, RunOn
<1>5. CASE \E w : text' = Append(text, TextLine(w)) /\ IsSequence(w)
  <2>1. PICK w : text' = Append(text, TextLine(w)) /\ IsSequence(w)
    BY <1>5
  <2>2. IsSequence(Unended(TextLine(w)))
    BY <2>1, LineEnds
  <2> QED
    BY <2>1, <2>2, RunOn
<1> QED
  BY <1>1, <1>2, <1>3, <1>4, <1>5

LEMMA TextStep == TextInv /\ [CNext]_cvars => TextInv'
<1> SUFFICES ASSUME TextInv, [CNext]_cvars
             PROVE  TextInv'
  OBVIOUS
<1>0. MacroInv /\ FramesOK
  BY DEF TextInv, MacroInv
<1>1. MacroInv'
  BY <1>0, MacroStep
<1>2. ASSUME frames' = frames, UNCHANGED history
      PROVE  OutputsOK' /\ IsFiniteSet(DOMAIN Top'.defines) /\ PlainFollowsC' /\ LinesOK'
  <2>1. LinesOK' /\ RunTogether(text') = RunTogether(text)
    BY <1>2, LinesKept DEF TextInv, history
  <2> QED
    BY <1>2, <2>1 DEF TextInv, OutputsOK, PlainFollowsC, WrittenSoFar, Top, history
<1>3. CASE (Returned /\ UNCHANGED history) \/ UNCHANGED cvars
  BY <1>1, <1>2, <1>3 DEF Returned, cvars, vars, TextInv
<1>4. CASE Step /\ Follow
  <2>1. CASE frames' = frames
    <3>1. UNCHANGED history
      <4>1. Len(frames) \in Nat
        BY <1>0, TopFacts
      <4> QED
        BY <1>4, <2>1, <4>1 DEF Follow
    <3> QED
      BY <1>1, <1>2, <2>1, <3>1 DEF TextInv
  <2>2. CASE frames' # frames
    <3>1. \/ LineStep
          \/ Include /\ frames' # frames
          \/ EndOfInclude
      BY <1>0, <2>2, StepKinds
    <3>2. OutputsOK' /\ IsFiniteSet(DOMAIN Top'.defines) /\ PlainFollowsC'
      BY <1>4, <3>1, LineText, IncludeText, EndOfIncludeText
    <3>3. LinesOK'
      BY <1>4, LinesStep DEF TextInv
    <3> QED
      BY <1>1, <3>2, <3>3 DEF TextInv
  <2> QED
    BY <2>1, <2>2
<1> QED
  BY <1>3, <1>4 DEF CNext

(* On the plain part of the language the text that the open files have written *)
(* is the lines C selects, in order and run together without the ends of       *)
(* C's lines: no line lost or doubled where a file hands its output to the one *)
(* that included it, none from a group C skips, and every macro replaced by    *)
(* its value, whatever the order in which the unordered_map tries them.        *)
THEOREM PlainIsC == CSpec => []PlainFollowsC
<1>1. CInit => TextInv
  <2> SUFFICES ASSUME CInit PROVE TextInv
    OBVIOUS
  <2>1. FramesOK /\ Len(frames) = 1 /\ frames[1] = Frame(Root, <<>>, <<>>, FALSE, TRUE)
    BY RootFrame
  <2>2. frames[1].output = <<>> /\ frames[1].defines = <<>> /\ IsSequence(<<>>)
    BY <2>1 DEF Frame, IsSequence
  <2>3. OutputsOK
    <3>1. \A k \in 1 .. 1 : IsSequence(frames[k].output)
      BY <2>2
    <3> QED
      BY <2>1, <3>1, Zenon DEF OutputsOK
  <2>4. IsFiniteSet(DOMAIN Top.defines)
    <3>1. Top = frames[1]
      BY <2>1 DEF Top, Last
    <3>2. DOMAIN <<>> = {}
      OBVIOUS
    <3> QED
      BY <2>2, <3>1, <3>2, FS_EmptySet
  <2>5. PlainFollowsC
    <3> DEFINE p == OutputsOf(frames)
    <3>1. Len(p) = 1 /\ p[1] = <<>>
      <4>1. Len(p) = Len(frames) /\ \A k \in 1 .. Len(frames) : p[k] = frames[k].output
        BY <2>1, OutputsFacts DEF FramesOK
      <4> HIDE DEF p
      <4>2. 1 \in 1 .. Len(frames)
        BY <2>1
      <4> QED
        BY <2>1, <2>2, <4>1, <4>2
    <3>2. WrittenSoFar = FlattenSeq(p)
      BY Zenon DEF WrittenSoFar, OutputsOf
    <3> HIDE DEF p
    <3>3. FlattenSeq(p) = Flat(p)[Len(p)] /\ Flat(p)[1] = p[1]
      BY <3>1, FlatFacts
    <3>4. RunTogether(text) = <<>>
      <4>1. UnendedOf(<<>>) = <<>> /\ Len(<<>>) = 0
        BY DEF UnendedOf
      <4>2. FlattenSeq(<<>>) = <<>>
        BY <4>1, Zenon DEF FlattenSeq
      <4>3. text = <<>> /\ RunTogether(<<>>) = FlattenSeq(UnendedOf(<<>>))
        BY Zenon DEF CInit, RunTogether, UnendedOf
      <4> QED
        BY <4>1, <4>2, <4>3
    <3> QED
      BY <3>1, <3>2, <3>3, <3>4 DEF PlainFollowsC
  <2>6. LinesOK
    BY LineEnds DEF CInit, LinesOK
  <2> QED
    BY <2>3, <2>4, <2>5, <2>6, MacroInit DEF TextInv
<1>2. TextInv => PlainFollowsC
  BY DEF TextInv
<1> QED
  BY <1>1, <1>2, TextStep, PTL DEF CSpec, CNext

-------------------------------------------------------------------------------
(* Positions: induction from the end of a text, and recursion towards it.      *)
LEMMA CountDown ==
  ASSUME NEW n \in Nat, NEW T,
         \A p \in 1 .. n + 1 : (\A r \in p + 1 .. n + 1 : r \in T) => p \in T
  PROVE  1 .. n + 1 \subseteq T
<1> DEFINE S == {k \in 0 .. n : \A r \in n + 1 - k .. n + 1 : r \in T}
<1>1. 0 \in S
  <2>1. n + 1 \in T
    OBVIOUS
  <2> QED
    BY <2>1
<1>2. ASSUME NEW k \in 0 .. n - 1, k \in S PROVE k + 1 \in S
  <2>1. n - k \in 1 .. n + 1 /\ \A r \in (n - k) + 1 .. n + 1 : r \in T
    BY <1>2
  <2>2. n - k \in T
    BY <2>1
  <2>3. \A r \in n + 1 - (k + 1) .. n + 1 : r \in T
    BY <2>1, <2>2
  <2> QED
    BY <2>3
<1> HIDE DEF S
<1>3. n \in S
  BY <1>1, <1>2, CountUp
<1> QED
  BY <1>3 DEF S

(* A function that ends at the positions of Ends and elsewhere depends on its  *)
(* value at a later one.                                                       *)
Follows(f, Ends, nx, v, G) ==
  f = [p \in Nat |-> IF p \in Ends THEN v[p] ELSE G[<<p, f[nx[p]]>>]]

LEMMA Onward ==
  ASSUME NEW n \in Nat, NEW V, NEW Ends \in SUBSET Nat, \A p \in Nat : p > n => p \in Ends,
         NEW nx \in [Nat -> Nat], \A p \in Nat \ Ends : nx[p] > p,
         NEW v \in [Nat -> V], NEW G \in [Nat \X V -> V]
  PROVE  \E f \in [Nat -> V] : Follows(f, Ends, nx, v, G)
<1> DEFINE Solves(f, p) == f[p] = IF p \in Ends THEN v[p] ELSE G[<<p, f[nx[p]]>>]
           T == {k \in 0 .. n + 1 : \E f \in [Nat -> V] :
                   \A p \in Nat : p >= n + 1 - k => Solves(f, p)}
<1>1. 0 \in T
  <2>1. \A p \in Nat : p >= n + 1 - 0 => Solves(v, p)
    OBVIOUS
  <2> QED
    BY <2>1
<1>2. ASSUME NEW k \in 0 .. (n + 1) - 1, k \in T PROVE k + 1 \in T
  <2>1. PICK f \in [Nat -> V] : \A p \in Nat : p >= n + 1 - k => Solves(f, p)
    BY <1>2
  <2> DEFINE q == n - k
             x == IF q \in Ends THEN v[q] ELSE G[<<q, f[nx[q]]>>]
             g == [f EXCEPT ![q] = x]
  <2>2. q \in Nat /\ x \in V
    OBVIOUS
  <2>3. g \in [Nat -> V] /\ g[q] = x /\ \A p \in Nat : p # q => g[p] = f[p]
    BY <2>2
  <2>4. ASSUME NEW p \in Nat, p >= n + 1 - (k + 1) PROVE Solves(g, p)
    <3>1. p \notin Ends => nx[p] \in Nat /\ g[nx[p]] = f[nx[p]]
      <4>1. p \notin Ends => nx[p] \in Nat /\ nx[p] # q
        BY <2>4
      <4> QED
        BY <2>3, <4>1
    <3>2. CASE p = q
      BY <2>3, <3>1, <3>2
    <3>3. CASE p # q
      <4>1. Solves(f, p)
        BY <2>1, <2>4, <3>3
      <4> QED
        BY <2>3, <3>1, <3>3, <4>1
    <3> QED
      BY <3>2, <3>3
  <2> HIDE DEF Solves, g
  <2> QED
    BY <2>3, <2>4
<1> HIDE DEF T
<1>3. n + 1 \in T
  <2>1. n + 1 \in Nat /\ n + 1 \in 0 .. n + 1
    OBVIOUS
  <2>2. 0 .. n + 1 \subseteq T
    BY <1>1, <1>2, <2>1, CountUp, Zenon
  <2> QED
    BY <2>1, <2>2
<1>4. PICK f \in [Nat -> V] : \A p \in Nat : p >= n + 1 - (n + 1) => Solves(f, p)
  BY <1>3 DEF T
<1>5. \A p \in Nat : Solves(f, p)
  BY <1>4
<1> QED
  BY <1>5 DEF Follows

-------------------------------------------------------------------------------
(* The symbols of a text.                                                      *)
LEMMA SymFacts ==
  ASSUME source \in Seq(Symbols)
  PROVE  /\ Len(source) \in Nat /\ DOMAIN source = 1 .. Len(source)
         /\ \A p \in 1 .. Len(source) : Sym(p) = source[p] /\ Sym(p) # "end"
         /\ \A p \in Int : p \notin 1 .. Len(source) => Sym(p) = "end"
         /\ \A p \in Int : Letter(source, p) = Sym(p)
<1>1. Len(source) \in Nat /\ DOMAIN source = 1 .. Len(source)
  OBVIOUS
<1>2. \A p \in 1 .. Len(source) : source[p] \in Symbols
  OBVIOUS
<1> QED
  BY <1>1, <1>2 DEF Sym, Letter, Symbols

(* The first position of a set, or the end.                                    *)
LEMMA FirstExists ==
  ASSUME NEW n \in Nat, NEW p \in 1 .. n + 1, NEW S
  PROVE  \E q \in p .. n + 1 : (q > n \/ q \in S) /\ \A r \in p .. q - 1 : r \notin S
<1> DEFINE T == {q \in p .. n + 1 : q > n \/ q \in S}
<1>1. T \in SUBSET Nat /\ n + 1 \in T
  OBVIOUS
<1> HIDE DEF T
<1>2. PICK q \in T : \A r \in T : q <= r
  BY <1>1, LeastElement
<1>3. q \in p .. n + 1 /\ (q > n \/ q \in S)
  BY <1>2 DEF T
<1>4. ASSUME NEW r \in p .. q - 1 PROVE r \notin S
  <2>1. r \in p .. n + 1 /\ r \in Int /\ q \in Int /\ ~(q <= r)
    BY <1>3
  <2>2. r \notin T
    BY <1>2, <2>1
  <2> QED
    BY <2>1, <2>2 DEF T
<1> QED
  BY <1>3, <1>4

(* The scans of the lexer stop at the first position of a set, or at the end.  *)
Reaches(p, q, S) ==
  /\ q \in p .. Len(source) + 1 /\ (q > Len(source) \/ q \in S)
  /\ \A r \in p .. q - 1 : r \notin S

LEMMA ToNewline ==
  ASSUME source \in Seq(Symbols), NEW p \in 1 .. Len(source) + 1
  PROVE  Reaches(p, FirstFrom(p, LAMBDA r : Sym(r) = "\n"), {r \in Int : Sym(r) = "\n"})
<1>1. Len(source) \in Nat
  BY SymFacts
<1>2. \E q \in p .. Len(source) + 1 :
       /\ q > Len(source) \/ q \in {r \in Int : Sym(r) = "\n"}
       /\ \A r \in p .. q - 1 : r \notin {s \in Int : Sym(s) = "\n"}
  BY <1>1, FirstExists, Zenon
<1>3. \E q \in p .. Len(source) + 1 : /\ q > Len(source) \/ Sym(q) = "\n"
                                      /\ \A r \in p .. q - 1 : ~(Sym(r) = "\n")
  BY <1>1, <1>2
<1> DEFINE f == FirstFrom(p, LAMBDA r : Sym(r) = "\n")
<1>4. /\ f \in p .. Len(source) + 1 /\ (f > Len(source) \/ Sym(f) = "\n")
      /\ \A r \in p .. f - 1 : ~(Sym(r) = "\n")
  BY <1>3, Zenon DEF FirstFrom
<1> HIDE DEF f
<1>5. Reaches(p, f, {r \in Int : Sym(r) = "\n"})
  BY <1>1, <1>4 DEF Reaches
<1> QED
  BY <1>5 DEF f

LEMMA ToClose ==
  ASSUME source \in Seq(Symbols), NEW p \in 1 .. Len(source) + 1
  PROVE  Reaches(p, FirstFrom(p, LAMBDA r : Sym(r) = "*" /\ Sym(r + 1) = "/"),
                 {r \in Int : Sym(r) = "*" /\ Sym(r + 1) = "/"})
<1>1. Len(source) \in Nat
  BY SymFacts
<1>2. \E q \in p .. Len(source) + 1 :
       /\ q > Len(source) \/ q \in {r \in Int : Sym(r) = "*" /\ Sym(r + 1) = "/"}
       /\ \A r \in p .. q - 1 : r \notin {s \in Int : Sym(s) = "*" /\ Sym(s + 1) = "/"}
  BY <1>1, FirstExists, Zenon
<1>3. \E q \in p .. Len(source) + 1 : /\ q > Len(source) \/ (Sym(q) = "*" /\ Sym(q + 1) = "/")
                                      /\ \A r \in p .. q - 1 : ~(Sym(r) = "*" /\ Sym(r + 1) = "/")
  BY <1>1, <1>2
<1> DEFINE f == FirstFrom(p, LAMBDA r : Sym(r) = "*" /\ Sym(r + 1) = "/")
<1>4. /\ f \in p .. Len(source) + 1 /\ (f > Len(source) \/ (Sym(f) = "*" /\ Sym(f + 1) = "/"))
      /\ \A r \in p .. f - 1 : ~(Sym(r) = "*" /\ Sym(r + 1) = "/")
  BY <1>3, Zenon DEF FirstFrom
<1> HIDE DEF f
<1>5. Reaches(p, f, {r \in Int : Sym(r) = "*" /\ Sym(r + 1) = "/"})
  BY <1>1, <1>4 DEF Reaches
<1> QED
  BY <1>5 DEF f

LEMMA ToWordEnd ==
  ASSUME source \in Seq(Symbols), NEW p \in 1 .. Len(source) + 1
  PROVE  Reaches(p, FirstFrom(p, LAMBDA r : ~IsAlnum(Sym(r))), {r \in Int : ~IsAlnum(Sym(r))})
<1>1. Len(source) \in Nat
  BY SymFacts
<1>2. \E q \in p .. Len(source) + 1 :
       /\ q > Len(source) \/ q \in {r \in Int : ~IsAlnum(Sym(r))}
       /\ \A r \in p .. q - 1 : r \notin {s \in Int : ~IsAlnum(Sym(s))}
  BY <1>1, FirstExists, Zenon
<1>3. \E q \in p .. Len(source) + 1 : /\ q > Len(source) \/ ~IsAlnum(Sym(q))
                                      /\ \A r \in p .. q - 1 : ~(~IsAlnum(Sym(r)))
  BY <1>1, <1>2
<1> DEFINE f == FirstFrom(p, LAMBDA r : ~IsAlnum(Sym(r)))
<1>4. /\ f \in p .. Len(source) + 1 /\ (f > Len(source) \/ ~IsAlnum(Sym(f)))
      /\ \A r \in p .. f - 1 : ~(~IsAlnum(Sym(r)))
  BY <1>3, Zenon DEF FirstFrom
<1> HIDE DEF f
<1>5. Reaches(p, f, {r \in Int : ~IsAlnum(Sym(r))})
  BY <1>1, <1>4 DEF Reaches
<1> QED
  BY <1>5 DEF f

LEMMA ToHexEnd ==
  ASSUME source \in Seq(Symbols), NEW p \in 1 .. Len(source) + 1
  PROVE  Reaches(p, FirstFrom(p, LAMBDA r : Sym(r) \notin DOMAIN Digit),
                 {r \in Int : Sym(r) \notin DOMAIN Digit})
<1>1. Len(source) \in Nat
  BY SymFacts
<1>2. \E q \in p .. Len(source) + 1 :
       /\ q > Len(source) \/ q \in {r \in Int : Sym(r) \notin DOMAIN Digit}
       /\ \A r \in p .. q - 1 : r \notin {s \in Int : Sym(s) \notin DOMAIN Digit}
  BY <1>1, FirstExists, Zenon
<1>3. \E q \in p .. Len(source) + 1 : /\ q > Len(source) \/ Sym(q) \notin DOMAIN Digit
                                      /\ \A r \in p .. q - 1 : ~(Sym(r) \notin DOMAIN Digit)
  BY <1>1, <1>2
<1> DEFINE f == FirstFrom(p, LAMBDA r : Sym(r) \notin DOMAIN Digit)
<1>4. /\ f \in p .. Len(source) + 1 /\ (f > Len(source) \/ Sym(f) \notin DOMAIN Digit)
      /\ \A r \in p .. f - 1 : ~(Sym(r) \notin DOMAIN Digit)
  BY <1>3, Zenon DEF FirstFrom
<1> HIDE DEF f
<1>5. Reaches(p, f, {r \in Int : Sym(r) \notin DOMAIN Digit})
  BY <1>1, <1>4 DEF Reaches
<1> QED
  BY <1>5 DEF f

LEMMA ToNumberEnd ==
  ASSUME source \in Seq(Symbols), NEW p \in 1 .. Len(source) + 1
  PROVE  Reaches(p, FirstFrom(p, LAMBDA r : ~IsDigit(Sym(r))), {r \in Int : ~IsDigit(Sym(r))})
<1>1. Len(source) \in Nat
  BY SymFacts
<1>2. \E q \in p .. Len(source) + 1 :
       /\ q > Len(source) \/ q \in {r \in Int : ~IsDigit(Sym(r))}
       /\ \A r \in p .. q - 1 : r \notin {s \in Int : ~IsDigit(Sym(s))}
  BY <1>1, FirstExists, Zenon
<1>3. \E q \in p .. Len(source) + 1 : /\ q > Len(source) \/ ~IsDigit(Sym(q))
                                      /\ \A r \in p .. q - 1 : ~(~IsDigit(Sym(r)))
  BY <1>1, <1>2
<1> DEFINE f == FirstFrom(p, LAMBDA r : ~IsDigit(Sym(r)))
<1>4. /\ f \in p .. Len(source) + 1 /\ (f > Len(source) \/ ~IsDigit(Sym(f)))
      /\ \A r \in p .. f - 1 : ~(~IsDigit(Sym(r)))
  BY <1>3, Zenon DEF FirstFrom
<1> HIDE DEF f
<1>5. Reaches(p, f, {r \in Int : ~IsDigit(Sym(r))})
  BY <1>1, <1>4 DEF Reaches
<1> QED
  BY <1>5 DEF f

LEMMA PartTwo ==
  ASSUME source \in Seq(Symbols), NEW p \in Nat, NEW a, NEW b
  PROVE  Part(source, p, p + 2) = <<a, b>> <=> Sym(p) = a /\ Sym(p + 1) = b
<1>1. Letter(source, p) = Sym(p) /\ Letter(source, p + 1) = Sym(p + 1)
  BY SymFacts
<1>2. 1 .. (p + 2) - p = {1, 2} /\ p + 1 - 1 = p /\ p + 2 - 1 = p + 1
  OBVIOUS
<1>3. /\ DOMAIN Part(source, p, p + 2) = {1, 2}
      /\ Part(source, p, p + 2)[1] = Sym(p) /\ Part(source, p, p + 2)[2] = Sym(p + 1)
  BY <1>1, <1>2 DEF Part
<1>4. Part(source, p, p + 2) = [i \in {1, 2} |-> Letter(source, p + i - 1)]
  BY <1>2, Zenon DEF Part
<1>5. DOMAIN <<a, b>> = {1, 2} /\ <<a, b>>[1] = a /\ <<a, b>>[2] = b
  OBVIOUS
<1>6. Sym(p) = a /\ Sym(p + 1) = b => Part(source, p, p + 2) = <<a, b>>
  <2> SUFFICES ASSUME Sym(p) = a, Sym(p + 1) = b PROVE Part(source, p, p + 2) = <<a, b>>
    OBVIOUS
  <2>1. Part(source, p, p + 2) \in [1 .. 2 -> {a, b}]
    BY <1>1, <1>2, <1>4
  <2> DEFINE s == Part(source, p, p + 2)
  <2> HIDE DEF s
  <2>3. s \in Seq({a, b})
    <3>1. s \in UNION {[1 .. n -> {a, b}] : n \in Nat}
      BY <2>1 DEF s
    <3> QED
      BY <3>1, SeqDef, Zenon
  <2>4. Len(s) = 2
    <3>1. Len(s) \in Nat /\ 1 .. Len(s) = 1 .. 2
      BY <2>1, <2>3, LenProperties DEF s
    <3> DEFINE n == Len(s)
    <3> HIDE DEF n
    <3>2. n \in Nat /\ 2 \in 1 .. n /\ 3 \notin 1 .. n
      BY <3>1 DEF n
    <3>3. n = 2
      BY <3>2
    <3> QED
      BY <3>3 DEF n
  <2>2. <<a, b>> \in Seq({a, b}) /\ Len(<<a, b>>) = 2
    OBVIOUS
  <2> QED
    BY <1>3, <1>5, <2>2, <2>3, <2>4, SeqEqual DEF s
<1> QED
  BY <1>3, <1>5, <1>6

(* Comments.                                                                   *)
Unclosed(p) ==
  /\ Part(source, p, p + 2) = <<"/", "*">>
  /\ ~\E q \in p + 2 .. Len(source) : Part(source, q, q + 2) = <<"*", "/">>

LEMMA CommentFacts ==
  ASSUME source \in Seq(Symbols), NEW p \in 1 .. Len(source) + 1, CommentAt(p)
  PROVE  /\ CommentEnd(p) \in p + 1 .. Len(source) + 1
         /\ Comment(source, p, CommentEnd(p)) \/ Unclosed(p)
<1>1. /\ Len(source) \in Nat /\ p \in Nat /\ p + 1 \in Int
      /\ Sym(p) = "/" /\ Sym(p + 1) \in {"/", "*"} /\ p + 1 <= Len(source)
  BY SymFacts DEF CommentAt
<1>2. CASE Sym(p + 1) = "/"
  <2> DEFINE q == FirstFrom(p, LAMBDA r : Sym(r) = "\n")
  <2>1. Reaches(p, q, {r \in Int : Sym(r) = "\n"})
    BY ToNewline
  <2>2. CommentEnd(p) = q
    BY <1>2 DEF CommentEnd
  <2> HIDE DEF q
  <2>3. /\ q \in p .. Len(source) + 1 /\ (q > Len(source) \/ Sym(q) = "\n")
        /\ \A r \in p .. q - 1 : Sym(r) # "\n"
    BY <1>1, <2>1 DEF Reaches
  <2>4. q # p /\ q # p + 1
    BY <1>1, <1>2, <2>3
  <2>5. q - p >= 2 /\ q \in Int
    BY <1>1, <2>3, <2>4
  <2>6. Part(source, p, p + 2) = <<"/", "/">>
    BY <1>1, <1>2, PartTwo
  <2>7. ASSUME NEW r \in p .. q - 1 PROVE source[r] # "\n"
    <3>1. r \in 1 .. Len(source)
      BY <1>1, <2>3
    <3> QED
      BY <2>3, <3>1, SymFacts
  <2>8. Letter(source, q) \in {"\n", "end"}
    BY <1>1, <2>3, SymFacts
  <2>9. Comment(source, p, q)
    BY <2>5, <2>6, <2>7, <2>8 DEF Comment
  <2> QED
    BY <1>1, <2>2, <2>3, <2>4, <2>9
<1>3. CASE Sym(p + 1) = "*"
  <2> DEFINE c == FirstFrom(p + 2, LAMBDA r : Sym(r) = "*" /\ Sym(r + 1) = "/")
  <2>0. p + 2 \in 1 .. Len(source) + 1
    BY <1>1
  <2>1. Reaches(p + 2, c, {r \in Int : Sym(r) = "*" /\ Sym(r + 1) = "/"})
    BY <2>0, ToClose
  <2>2. CommentEnd(p) = IF c < Len(source) THEN c + 2
                        ELSE IF p + 2 > Len(source) THEN p + 2 ELSE Len(source)
    BY <1>3 DEF CommentEnd
  <2> HIDE DEF c
  <2>3. /\ c \in p + 2 .. Len(source) + 1
        /\ c > Len(source) \/ (Sym(c) = "*" /\ Sym(c + 1) = "/")
        /\ \A r \in p + 2 .. c - 1 : ~(Sym(r) = "*" /\ Sym(r + 1) = "/")
    BY <1>1, <2>1 DEF Reaches
  <2>4. Part(source, p, p + 2) = <<"/", "*">>
    BY <1>1, <1>3, PartTwo
  <2>5. \A r \in Nat : Part(source, r, r + 2) = <<"*", "/">> <=> Sym(r) = "*" /\ Sym(r + 1) = "/"
    BY PartTwo
  <2>6. CASE c < Len(source)
    <3> DEFINE q == c + 2
    <3>1. /\ q - p >= 4 /\ q - 2 = c /\ q - 3 = c - 1 /\ (q - 2) + 2 = q /\ c \in Nat
      BY <1>1, <2>3
    <3>2. Part(source, c, c + 2) = <<"*", "/">>
      BY <2>3, <2>5, <2>6, <3>1
    <3>3. \A r \in p + 2 .. c - 1 : Part(source, r, r + 2) # <<"*", "/">>
      BY <1>1, <2>3, <2>5
    <3>4. Comment(source, p, q)
      BY <2>4, <3>1, <3>2, <3>3 DEF Comment
    <3> QED
      BY <1>1, <2>2, <2>3, <2>6, <3>4
  <2>7. CASE ~(c < Len(source))
    <3>1. ASSUME NEW q \in p + 2 .. Len(source) PROVE Part(source, q, q + 2) # <<"*", "/">>
      <4>1. q \in Nat /\ (q \in p + 2 .. c - 1 \/ q = Len(source))
        BY <1>1, <2>3, <2>7
      <4>2. Sym(Len(source) + 1) = "end"
        BY <1>1, SymFacts
      <4> QED
        BY <2>3, <2>5, <4>1, <4>2
    <3>2. Unclosed(p)
      BY <2>4, <3>1, Zenon DEF Unclosed
    <3> QED
      BY <1>1, <2>0, <2>2, <2>7, <3>2
  <2> QED
    BY <1>1, <2>3, <2>6, <2>7
<1> QED
  BY <1>1, <1>2, <1>3

-------------------------------------------------------------------------------
(* What lies between tokens.                                                   *)
LEMMA SpaceHere ==
  ASSUME NEW t, NEW p \in Nat
  PROVE  Space(t, p, p)
<1>1. {p} \in SUBSET (p .. p) /\ \A r \in {p} \ {p} : FALSE
  OBVIOUS
<1> QED
  BY <1>1 DEF Space

LEMMA SpaceAppend ==
  ASSUME NEW t, NEW p \in Nat, NEW q \in Nat, NEW s \in Nat, s > q,
         Space(t, p, q), Comment(t, q, s) \/ Blank(t, q, s)
  PROVE  Space(t, p, s)
<1>1. PICK S \in SUBSET (p .. q) :
        /\ p \in S /\ q \in S
        /\ \A r \in S \ {q} : \E u \in S : u > r /\ (Comment(t, r, u) \/ Blank(t, r, u))
  BY DEF Space
<1> DEFINE T == S \cup {s}
<1>2. T \in SUBSET (p .. s) /\ p \in T /\ s \in T
  BY <1>1
<1>3. ASSUME NEW r \in T \ {s} PROVE \E u \in T : u > r /\ (Comment(t, r, u) \/ Blank(t, r, u))
  <2>1. r \in S
    OBVIOUS
  <2>2. CASE r = q
    BY <2>2
  <2>3. CASE r # q
    BY <1>1, <2>1, <2>3
  <2> QED
    BY <2>2, <2>3
<1> HIDE DEF T
<1> QED
  BY <1>2, <1>3 DEF Space

LEMMA SpaceJoin ==
  ASSUME NEW t, NEW p \in Nat, NEW q \in Nat, NEW s \in Nat, Space(t, p, q), Space(t, q, s)
  PROVE  Space(t, p, s)
<1>1. PICK S \in SUBSET (p .. q) :
        /\ p \in S /\ q \in S
        /\ \A r \in S \ {q} : \E u \in S : u > r /\ (Comment(t, r, u) \/ Blank(t, r, u))
  BY DEF Space
<1>2. PICK R \in SUBSET (q .. s) :
        /\ q \in R /\ s \in R
        /\ \A r \in R \ {s} : \E u \in R : u > r /\ (Comment(t, r, u) \/ Blank(t, r, u))
  BY DEF Space
<1> DEFINE T == S \cup R
<1>3. T \in SUBSET (p .. s) /\ p \in T /\ s \in T
  BY <1>1, <1>2
<1>4. ASSUME NEW r \in T \ {s} PROVE \E u \in T : u > r /\ (Comment(t, r, u) \/ Blank(t, r, u))
  <2>1. CASE r \in S \ {q}
    BY <1>1, <2>1
  <2>2. CASE r \in R \ {s}
    BY <1>2, <2>2
  <2>3. r \in S \ {q} \/ r \in R \ {s}
    BY <1>2
  <2> QED
    BY <2>1, <2>2, <2>3
<1> HIDE DEF T
<1> QED
  BY <1>3, <1>4 DEF Space

(* Nothing but space from p to q, or space up to a comment that is not closed. *)
Runaway(p, q) == \E r \in p .. q - 1 : Space(source, p, r) /\ Unclosed(r)
Gap(p, q)     == Space(source, p, q) \/ Runaway(p, q)

LEMMA GapJoin ==
  ASSUME NEW p \in Nat, NEW q \in Nat, NEW s \in Nat, p <= q, q <= s, Gap(p, q), Gap(q, s)
  PROVE  Gap(p, s)
<1>1. CASE Runaway(p, q)
  BY <1>1 DEF Gap, Runaway
<1>2. CASE Space(source, p, q) /\ Space(source, q, s)
  BY <1>2, SpaceJoin DEF Gap
<1>3. CASE Space(source, p, q) /\ Runaway(q, s)
  <2>1. PICK r \in q .. s - 1 : Space(source, q, r) /\ Unclosed(r)
    BY <1>3 DEF Runaway
  <2>2. r \in Nat /\ r \in p .. s - 1
    OBVIOUS
  <2>3. Space(source, p, r)
    BY <1>3, <2>1, <2>2, SpaceJoin
  <2> QED
    BY <2>1, <2>2, <2>3 DEF Gap, Runaway
<1> QED
  BY <1>1, <1>2, <1>3 DEF Gap

(* skip_whitespace_and_comments.                                               *)
LEMMA SkipSolves ==
  ASSUME source \in Seq(Symbols)
  PROVE  Skip = [p \in Nat |-> IF Sym(p) = " " THEN Skip[p + 1]
                               ELSE IF CommentAt(p) THEN Skip[CommentEnd(p)] ELSE p]
<1> DEFINE n    == Len(source)
           Ends == {p \in Nat : Sym(p) # " " /\ ~CommentAt(p)}
           nx   == [p \in Nat |-> IF p \in Ends THEN p
                                  ELSE IF Sym(p) = " " THEN p + 1 ELSE CommentEnd(p)]
           v    == [p \in Nat |-> p]
           G    == [x \in Nat \X Nat |-> x[2]]
<1>1. n \in Nat /\ \A p \in Nat : p \notin 1 .. n => Sym(p) = "end"
  BY SymFacts
<1>2. \A p \in Nat : p \in Ends <=> Sym(p) # " " /\ ~CommentAt(p)
  OBVIOUS
<1>3. \A p \in Nat : p \notin Ends => nx[p] = IF Sym(p) = " " THEN p + 1 ELSE CommentEnd(p)
  OBVIOUS
<1>4. \A p \in Nat : p \in Ends => nx[p] = p
  OBVIOUS
<1>5. /\ Ends \in SUBSET Nat /\ v \in [Nat -> Nat] /\ G \in [Nat \X Nat -> Nat]
      /\ \A p \in Nat : v[p] = p
      /\ \A p, x \in Nat : G[<<p, x>>] = x
      /\ nx = [p \in Nat |-> nx[p]]
  OBVIOUS
<1>6. \A p \in 1 .. n + 1 : CommentAt(p) => CommentEnd(p) \in p + 1 .. n + 1
  BY CommentFacts
<1> HIDE DEF n, Ends, nx, v, G
<1>7. \A p \in Nat : p \notin 1 .. n => p \in Ends
  BY <1>1, <1>2 DEF CommentAt
<1>8. ASSUME NEW p \in Nat \ Ends PROVE nx[p] \in Nat /\ nx[p] > p
  <2>1. p \in 1 .. n
    BY <1>7
  <2>2. p \in 1 .. n + 1
    BY <1>1, <2>1
  <2>3. CASE Sym(p) = " "
    <3>1. nx[p] = p + 1
      BY <1>3, <2>3
    <3> QED
      BY <1>1, <3>1
  <2>4. CASE Sym(p) # " "
    <3>1. nx[p] = CommentEnd(p) /\ CommentAt(p)
      BY <1>2, <1>3, <2>4, Zenon
    <3>2. CommentEnd(p) \in p + 1 .. n + 1
      BY <1>6, <2>2, <3>1, Zenon
    <3> QED
      BY <1>1, <3>1, <3>2
  <2> QED
    BY <2>3, <2>4
<1>9. nx \in [Nat -> Nat]
  <2>1. \A p \in Nat : nx[p] \in Nat
    BY <1>4, <1>8
  <2> QED
    BY <1>5, <2>1
<1>13. \A p \in Nat : p > n => p \in Ends
  BY <1>1, <1>7
<1>10. PICK f \in [Nat -> Nat] : Follows(f, Ends, nx, v, G)
  <2>1. Ends \in SUBSET Nat /\ v \in [Nat -> Nat] /\ G \in [Nat \X Nat -> Nat]
    BY <1>5
  <2>2. n \in Nat /\ \A p \in Nat \ Ends : nx[p] > p
    BY <1>1, <1>8
  <2> QED
    BY <1>9, <1>13, <2>1, <2>2, Onward, Zenon
<1>11. ASSUME NEW p \in Nat
       PROVE  f[p] = IF Sym(p) = " " THEN f[p + 1]
                     ELSE IF CommentAt(p) THEN f[CommentEnd(p)] ELSE p
  <2>1. f[p] = IF p \in Ends THEN v[p] ELSE G[<<p, f[nx[p]]>>]
    BY <1>10, Zenon DEF Follows
  <2>2. p \notin Ends => G[<<p, f[nx[p]]>>] = f[nx[p]]
    BY <1>5, <1>9
  <2> QED
    BY <1>2, <1>3, <1>5, <2>1, <2>2
<1>12. f = [p \in Nat |-> IF Sym(p) = " " THEN f[p + 1]
                          ELSE IF CommentAt(p) THEN f[CommentEnd(p)] ELSE p]
  BY <1>11
<1> QED
  BY <1>12, Zenon DEF Skip

(* q is where the next token begins, or the end, if it is looked for from p.   *)
Begins(p, q) ==
  q \in p .. Len(source) + 1 /\ Gap(p, q) /\ Sym(q) # " " /\ ~CommentAt(q)

LEMMA BeginsLater ==
  ASSUME source \in Seq(Symbols), NEW p \in 1 .. Len(source) + 1,
         NEW q \in p .. Len(source) + 1, NEW s, Gap(p, q), Begins(q, s)
  PROVE  Begins(p, s)
<1>1. Len(source) \in Nat
  BY SymFacts
<1>2. Gap(q, s) /\ Sym(s) # " " /\ ~CommentAt(s)
  BY Zenon DEF Begins
<1>3. s \in p .. Len(source) + 1 /\ p \in Nat /\ q \in Nat /\ s \in Nat /\ p <= q /\ q <= s
  <2>1. s \in q .. Len(source) + 1
    BY Zenon DEF Begins
  <2> QED
    BY <1>1, <2>1
<1>4. Gap(p, s)
  BY <1>2, <1>3, GapJoin
<1> QED
  BY <1>2, <1>3, <1>4, Zenon DEF Begins

LEMMA SkipFacts ==
  ASSUME source \in Seq(Symbols), NEW p \in 1 .. Len(source) + 1
  PROVE  Begins(p, Skip[p])
<1> DEFINE n == Len(source)
           T == {q \in 1 .. n + 1 : Begins(q, Skip[q])}
<1>1. n \in Nat /\ Sym(n + 1) = "end"
  BY SymFacts
<1>2. ASSUME NEW q \in 1 .. n + 1, \A r \in q + 1 .. n + 1 : r \in T PROVE Begins(q, Skip[q])
  <2>0. \A q1 \in Nat : Skip[q1] = IF Sym(q1) = " " THEN Skip[q1 + 1]
                                   ELSE IF CommentAt(q1) THEN Skip[CommentEnd(q1)] ELSE q1
    BY SkipSolves
  <2>1. Skip[q] = IF Sym(q) = " " THEN Skip[q + 1]
                  ELSE IF CommentAt(q) THEN Skip[CommentEnd(q)] ELSE q
    <3>1. q \in Nat
      BY <1>1
    <3> QED
      BY <2>0, <3>1, Zenon
  <2>2. ASSUME NEW r \in q + 1 .. n + 1, Skip[q] = Skip[r], Gap(q, r) PROVE Begins(q, Skip[q])
    <3>1. Begins(r, Skip[r])
      BY <1>2
    <3>2. r \in q .. n + 1
      BY <1>1
    <3>3. Begins(q, Skip[r])
      BY <2>2, <3>1, <3>2, BeginsLater, Zenon
    <3> QED
      BY <2>2, <3>3, Zenon
  <2>3. CASE Sym(q) = " "
    <3>0. q # n + 1
      BY <1>1, <2>3, Zenon
    <3>1. q + 1 \in q + 1 .. n + 1 /\ q \in 1 .. n /\ q \in Nat /\ q + 1 \in Nat /\ q + 1 > q
      BY <1>1, <3>0
    <3>2. source[q] = " "
      BY <2>3, <3>1, SymFacts, Zenon
    <3>3. Blank(source, q, q + 1)
      BY <3>2, Zenon DEF Blank
    <3>4. Space(source, q, q)
      BY <3>1, SpaceHere, Zenon
    <3>5. Space(source, q, q + 1)
      BY <3>1, <3>3, <3>4, SpaceAppend, Zenon
    <3>6. Gap(q, q + 1)
      BY <3>5, Zenon DEF Gap
    <3>7. Skip[q] = Skip[q + 1]
      BY <2>1, <2>3, Zenon
    <3> QED
      BY <2>2, <3>1, <3>6, <3>7, Zenon
  <2>4. CASE Sym(q) # " " /\ CommentAt(q)
    <3> DEFINE e == CommentEnd(q)
    <3>1. e \in q + 1 .. n + 1 /\ (Comment(source, q, e) \/ Unclosed(q))
      BY <2>4, CommentFacts, Zenon
    <3>2. Skip[q] = Skip[e]
      BY <2>1, <2>4, Zenon
    <3> HIDE DEF e
    <3>3. q \in Nat /\ e \in Nat /\ e > q /\ q \in q .. e - 1
      BY <1>1, <3>1
    <3>4. Space(source, q, q)
      BY <3>3, SpaceHere, Zenon
    <3>5. Comment(source, q, e) => Space(source, q, e)
      BY <3>3, <3>4, SpaceAppend, Zenon
    <3>6. Unclosed(q) => Runaway(q, e)
      BY <3>3, <3>4, Zenon DEF Runaway
    <3>7. Gap(q, e)
      BY <3>1, <3>5, <3>6, Zenon DEF Gap
    <3> QED
      BY <2>2, <3>1, <3>2, <3>7, Zenon
  <2>5. CASE Sym(q) # " " /\ ~CommentAt(q)
    <3>1. Skip[q] = q
      BY <2>1, <2>5, Zenon
    <3>2. q \in Nat /\ q \in q .. n + 1
      BY <1>1
    <3>3. Gap(q, q)
      BY <3>2, SpaceHere, Zenon DEF Gap
    <3>4. Begins(q, q)
      BY <2>5, <3>2, <3>3, Zenon DEF Begins
    <3> QED
      BY <3>1, <3>4, Zenon
  <2> QED
    BY <2>3, <2>4, <2>5
<1>3. \A q \in 1 .. n + 1 : (\A r \in q + 1 .. n + 1 : r \in T) => q \in T
  BY <1>2, Zenon
<1> HIDE DEF T, n
<1>4. 1 .. n + 1 \subseteq T
  BY <1>1, <1>3, CountDown, Zenon
<1> QED
  BY <1>4, Zenon DEF T, n

-------------------------------------------------------------------------------
(* Lines.                                                                      *)
LEMMA NewlinesSplit ==
  ASSUME NEW p \in Nat, NEW q \in Nat, NEW s \in Nat, p <= q, q <= s
  PROVE  /\ Newlines(p, q) \in Nat /\ Newlines(q, s) \in Nat
         /\ Newlines(p, s) = Newlines(p, q) + Newlines(q, s)
<1> DEFINE A == {r \in p .. q - 1 : Sym(r) = "\n"}
           B == {r \in q .. s - 1 : Sym(r) = "\n"}
           C == {r \in p .. s - 1 : Sym(r) = "\n"}
<1>1. C = A \cup B /\ A \cap B = {}
  OBVIOUS
<1>2. A \subseteq p .. q - 1 /\ B \subseteq q .. s - 1 /\ q - 1 \in Int /\ s - 1 \in Int
  OBVIOUS
<1>3. Newlines(p, q) = Cardinality(A) /\ Newlines(q, s) = Cardinality(B)
      /\ Newlines(p, s) = Cardinality(C)
  BY Zenon DEF Newlines
<1> HIDE DEF A, B, C
<1>4. IsFiniteSet(A) /\ IsFiniteSet(B)
  <2>1. IsFiniteSet(p .. q - 1) /\ IsFiniteSet(q .. s - 1)
    BY <1>2, FS_Interval
  <2> QED
    BY <1>2, <2>1, FS_Subset
<1>5. Cardinality(A) \in Nat /\ Cardinality(B) \in Nat /\ Cardinality(A \cap B) = 0
  BY <1>1, <1>4, FS_CardinalityType, FS_EmptySet
<1>6. Cardinality(A \cup B) = Cardinality(A) + Cardinality(B) - Cardinality(A \cap B)
  BY <1>4, FS_Union
<1> QED
  BY <1>1, <1>3, <1>5, <1>6

LEMMA NewlinesOne ==
  ASSUME NEW p \in Nat
  PROVE  Newlines(p, p + 1) = IF Sym(p) = "\n" THEN 1 ELSE 0
<1> DEFINE A == {r \in p .. (p + 1) - 1 : Sym(r) = "\n"}
<1>1. Newlines(p, p + 1) = Cardinality(A)
  BY Zenon DEF Newlines
<1>2. p .. (p + 1) - 1 = {p}
  OBVIOUS
<1>3. A = IF Sym(p) = "\n" THEN {p} ELSE {}
  BY <1>2
<1> HIDE DEF A
<1> QED
  BY <1>1, <1>3, FS_EmptySet, FS_Singleton

LEMMA NewlinesNone ==
  ASSUME NEW p \in Nat, NEW q \in Nat, \A r \in p .. q - 1 : Sym(r) # "\n"
  PROVE  Newlines(p, q) = 0
<1>1. {r \in p .. q - 1 : Sym(r) = "\n"} = {}
  OBVIOUS
<1> QED
  BY <1>1, FS_EmptySet DEF Newlines

-------------------------------------------------------------------------------
(* Backslashes.                                                                *)
Backslashes(s, q) == {r \in s .. q - 1 : All(source, r, q, {"\\"})}

LEMMA BareHere ==
  ASSUME NEW s \in Nat
  PROVE  /\ Bare(source, s, s)
         /\ source[s] = "\\" => ~Bare(source, s, s + 1)
<1>1. Backslashes(s, s) = {}
  BY DEF Backslashes
<1>2. Bare(source, s, s)
  BY <1>1, FS_EmptySet DEF Bare, Backslashes
<1>3. ASSUME source[s] = "\\" PROVE ~Bare(source, s, s + 1)
  <2>1. s .. (s + 1) - 1 = {s}
    OBVIOUS
  <2>2. All(source, s, s + 1, {"\\"})
    BY <1>3, <2>1 DEF All
  <2>3. Backslashes(s, s + 1) = {s}
    BY <2>1, <2>2 DEF Backslashes
  <2>4. Cardinality({s}) = 1
    BY FS_Singleton
  <2>5. Bare(source, s, s + 1) <=> Cardinality({s}) % 2 = 0
    BY <2>3, Zenon DEF Bare, Backslashes
  <2> QED
    BY <2>4, <2>5
<1> QED
  BY <1>2, <1>3

LEMMA BareLater ==
  ASSUME NEW s \in Nat, NEW q \in Nat
  PROVE  /\ source[s] # "\\" /\ s < q => (Bare(source, s, q) <=> Bare(source, s + 1, q))
         /\ source[s] = "\\" /\ s + 1 < q => (Bare(source, s, q) <=> Bare(source, s + 2, q))
<1>0. \A u \in Nat : Bare(source, u, q) <=> Cardinality(Backslashes(u, q)) % 2 = 0
  BY Zenon DEF Bare, Backslashes
<1>1. ASSUME source[s] # "\\", s < q PROVE Bare(source, s, q) <=> Bare(source, s + 1, q)
  <2>1. s \in s .. q - 1 /\ s .. q - 1 = {s} \cup (s + 1 .. q - 1)
    BY <1>1
  <2>2. ~All(source, s, q, {"\\"})
    BY <1>1, <2>1 DEF All
  <2>3. Backslashes(s, q) = Backslashes(s + 1, q)
    BY <2>1, <2>2 DEF Backslashes
  <2> QED
    BY <1>0, <2>3
<1>2. ASSUME source[s] = "\\", s + 1 < q PROVE Bare(source, s, q) <=> Bare(source, s + 2, q)
  <2> DEFINE X == Backslashes(s + 2, q)
  <2>1. /\ s .. q - 1 = {s, s + 1} \cup (s + 2 .. q - 1)
        /\ s .. q - 1 = {s} \cup (s + 1 .. q - 1)
    BY <1>2
  <2>2. All(source, s, q, {"\\"}) <=> All(source, s + 1, q, {"\\"})
    BY <1>2, <2>1 DEF All
  <2>3. Backslashes(s, q) = IF All(source, s, q, {"\\"}) THEN X \cup {s, s + 1} ELSE X
    BY <2>1, <2>2 DEF Backslashes
  <2>4. X \subseteq s + 2 .. q - 1
    BY DEF Backslashes
  <2>5. IsFiniteSet(X)
    <3> HIDE DEF X
    <3>1. q - 1 \in Int /\ s + 2 \in Int
      OBVIOUS
    <3>2. IsFiniteSet(s + 2 .. q - 1)
      BY <3>1, FS_Interval
    <3> QED
      BY <2>4, <3>2, FS_Subset
  <2>6. s \notin X /\ s + 1 \notin X \cup {s}
    BY <2>4
  <2> HIDE DEF X
  <2>7. /\ Cardinality(X) \in Nat
        /\ IsFiniteSet(X \cup {s}) /\ Cardinality(X \cup {s}) = Cardinality(X) + 1
    BY <2>5, <2>6, FS_CardinalityType, FS_AddElement
  <2>8. Cardinality((X \cup {s}) \cup {s + 1}) = Cardinality(X \cup {s}) + 1
    BY <2>6, <2>7, FS_AddElement
  <2>9. (X \cup {s}) \cup {s + 1} = X \cup {s, s + 1}
    OBVIOUS
  <2>10. Cardinality(Backslashes(s, q)) \in {Cardinality(X), Cardinality(X) + 2}
    BY <2>3, <2>7, <2>8, <2>9
  <2>11. Cardinality(Backslashes(s, q)) % 2 = Cardinality(X) % 2
    <3> DEFINE c == Cardinality(X)
               d == Cardinality(Backslashes(s, q))
    <3>1. c \in Nat /\ d \in {c, c + 2}
      BY <2>7, <2>10
    <3> HIDE DEF c, d
    <3>2. d % 2 = c % 2
      BY <3>1
    <3> QED
      BY <3>2 DEF c, d
  <2> QED
    BY <1>0, <2>11 DEF X
<1> QED
  BY <1>1, <1>2

-------------------------------------------------------------------------------
(* Strings.                                                                    *)
Escape(p) == Sym(p) = "\\" /\ Sym(p + 1) # "end"
InString(p, rest) ==
  [text     |-> <<IF Escape(p) THEN Escaped(Sym(p + 1)) ELSE Sym(p)>> \o rest.text,
   close    |-> rest.close,
   newlines |-> rest.newlines + IF Sym(p) = "\n" THEN 1 ELSE 0]

LEMMA StringSolves ==
  ASSUME source \in Seq(Symbols), NEW p \in Nat
  PROVE  StringFrom[p] = IF Sym(p) \in {"\"", "end"}
                         THEN [text |-> <<>>, close |-> p, newlines |-> 0]
                         ELSE InString(p, StringFrom[IF Escape(p) THEN p + 2 ELSE p + 1])
<1> DEFINE n    == Len(source)
           Chars == {Sym(q) : q \in Nat} \cup {Escaped(Sym(q)) : q \in Nat}
           V    == [text : Seq(Chars), close : Nat, newlines : Nat]
           Ends == {q \in Nat : Sym(q) \in {"\"", "end"}}
           nx   == [q \in Nat |-> IF Escape(q) THEN q + 2 ELSE q + 1]
           v    == [q \in Nat |-> [text |-> <<>>, close |-> q, newlines |-> 0]]
           G    == [x \in Nat \X V |-> InString(x[1], x[2])]
<1>1. n \in Nat /\ \A q \in Nat : q > n => Sym(q) = "end"
  BY SymFacts
<1>2. \A q \in Nat : (IF Escape(q) THEN Escaped(Sym(q + 1)) ELSE Sym(q)) \in Chars
  <2>1. \A q \in Nat : Sym(q) \in Chars /\ Escaped(Sym(q)) \in Chars
    OBVIOUS
  <2> HIDE DEF Chars
  <2> QED
    BY <2>1
<1>4. ASSUME NEW q \in Nat, NEW x \in V PROVE InString(q, x) \in V
  <2> DEFINE c == IF Escape(q) THEN Escaped(Sym(q + 1)) ELSE Sym(q)
  <2>1. c \in Chars
    BY <1>2
  <2> HIDE DEF c, Chars
  <2>2. x.text \in Seq(Chars) /\ x.close \in Nat /\ x.newlines \in Nat
    BY <1>4
  <2>3. <<c>> \o x.text \in Seq(Chars)
    BY <2>1, <2>2
  <2>4. InString(q, x) = [text |-> <<c>> \o x.text, close |-> x.close,
                          newlines |-> x.newlines + IF Sym(q) = "\n" THEN 1 ELSE 0]
    BY DEF InString, c
  <2>5. x.newlines + (IF Sym(q) = "\n" THEN 1 ELSE 0) \in Nat
    BY <2>2
  <2> QED
    BY <2>2, <2>3, <2>4, <2>5
<1>5. v \in [Nat -> V] /\ \A q \in Nat : v[q] = [text |-> <<>>, close |-> q, newlines |-> 0]
  OBVIOUS
<1>6. G \in [Nat \X V -> V] /\ \A q \in Nat, x \in V : G[<<q, x>>] = InString(q, x)
  <2> HIDE DEF V
  <2> QED
    BY <1>4
<1>7. nx \in [Nat -> Nat] /\ \A q \in Nat : nx[q] > q
  OBVIOUS
<1>8. \A q \in Nat : nx[q] = IF Escape(q) THEN q + 2 ELSE q + 1
  OBVIOUS
<1>9. Ends \in SUBSET Nat /\ \A q \in Nat : q \in Ends <=> Sym(q) \in {"\"", "end"}
  OBVIOUS
<1> HIDE DEF n, Chars, V, Ends, nx, v, G
<1>10. \A q \in Nat : q > n => q \in Ends
  BY <1>1, <1>9
<1>11. PICK f \in [Nat -> V] : Follows(f, Ends, nx, v, G)
  <2>1. \A q \in Nat \ Ends : nx[q] > q
    BY <1>7
  <2> QED
    BY <1>1, <1>5, <1>6, <1>7, <1>9, <1>10, <2>1, Onward, Zenon
<1>12. ASSUME NEW q \in Nat
       PROVE  f[q] = IF Sym(q) \in {"\"", "end"}
                     THEN [text |-> <<>>, close |-> q, newlines |-> 0]
                     ELSE InString(q, f[IF Escape(q) THEN q + 2 ELSE q + 1])
  <2>1. f[q] = IF q \in Ends THEN v[q] ELSE G[<<q, f[nx[q]]>>]
    BY <1>11, Zenon DEF Follows
  <2>2. nx[q] \in Nat
    BY <1>7
  <2>3. f[nx[q]] \in V
    BY <2>2
  <2>4. G[<<q, f[nx[q]]>>] = InString(q, f[nx[q]])
    BY <1>6, <2>3, Zenon
  <2> QED
    BY <1>5, <1>8, <1>9, <2>1, <2>4, Zenon
<1>13. f = [q \in Nat |->
              IF Sym(q) \in {"\"", "end"} THEN [text |-> <<>>, close |-> q, newlines |-> 0]
              ELSE InString(q, f[IF Escape(q) THEN q + 2 ELSE q + 1])]
  <2>1. f = [q \in Nat |-> f[q]]
    OBVIOUS
  <2> QED
    BY <1>12, <2>1, Zenon
<1>14. f = [q \in Nat |->
              IF Sym(q) \in {"\"", "end"} THEN [text |-> <<>>, close |-> q, newlines |-> 0]
              ELSE LET escape == Sym(q) = "\\" /\ Sym(q + 1) # "end"
                       rest   == f[IF escape THEN q + 2 ELSE q + 1]
                   IN [text     |-> <<IF escape THEN Escaped(Sym(q + 1)) ELSE Sym(q)>> \o rest.text,
                       close    |-> rest.close,
                       newlines |-> rest.newlines + IF Sym(q) = "\n" THEN 1 ELSE 0]]
  BY <1>13, Zenon DEF InString, Escape
<1>15. StringFrom = [q \in Nat |->
              IF Sym(q) \in {"\"", "end"} THEN [text |-> <<>>, close |-> q, newlines |-> 0]
              ELSE LET escape == Sym(q) = "\\" /\ Sym(q + 1) # "end"
                       rest   == StringFrom[IF escape THEN q + 2 ELSE q + 1]
                   IN [text     |-> <<IF escape THEN Escaped(Sym(q + 1)) ELSE Sym(q)>> \o rest.text,
                       close    |-> rest.close,
                       newlines |-> rest.newlines + IF Sym(q) = "\n" THEN 1 ELSE 0]]
  BY <1>14, Zenon DEF StringFrom
<1> QED
  BY <1>15, Zenon DEF InString, Escape

(* Where a string ends, and the newlines in it.                                *)
QuoteMark == "\""
EscapedLine == \E p \in 1 .. Len(source) - 1 : Part(source, p, p + 2) = <<"\\", "\n">>
Ending(p, q) ==
  /\ q \in p .. Len(source) + 1
  /\ q <= Len(source) => Sym(q) = QuoteMark /\ Bare(source, p, q)
  /\ \A r \in p .. q - 1 : ~(Sym(r) = QuoteMark /\ Bare(source, p, r))

LEMMA EndingLater ==
  ASSUME source \in Seq(Symbols), NEW p \in 1 .. Len(source), Sym(p) # QuoteMark,
         NEW s \in Nat, s = IF Escape(p) THEN p + 2 ELSE p + 1,
         NEW q, Ending(s, q)
  PROVE  Ending(p, q)
<1>1. Len(source) \in Nat /\ p \in Nat /\ Sym(p) = source[p]
  <2>1. Len(source) \in Nat /\ Sym(p) = source[p]
    BY SymFacts, Zenon
  <2> QED
    BY <2>1
<1>0. s \in {p + 1, p + 2}
  BY <1>1
<1>2. /\ q \in s .. Len(source) + 1
      /\ q <= Len(source) => Sym(q) = QuoteMark /\ Bare(source, s, q)
      /\ \A r \in s .. q - 1 : ~(Sym(r) = QuoteMark /\ Bare(source, s, r))
  BY Zenon DEF Ending
<1>3. q \in p .. Len(source) + 1 /\ q \in Nat /\ s \in Nat /\ p < s
  <2>1. q \in s .. Len(source) + 1
    BY <1>2
  <2> QED
    BY <1>0, <1>1, <2>1
<1>4. \A r \in Nat : r \in s .. Len(source) => (Bare(source, p, r) <=> Bare(source, s, r))
  <2> SUFFICES ASSUME NEW r \in Nat, r \in s .. Len(source)
               PROVE  Bare(source, p, r) <=> Bare(source, s, r)
    BY Zenon
  <2>1. CASE Escape(p)
    <3>1. s = p + 2 /\ p + 1 < r
      <4>1. s = p + 2
        BY <2>1, Zenon
      <4> QED
        BY <1>1, <4>1
    <3>2. source[p] = "\\"
      <4>1. Sym(p) = "\\"
        BY <2>1, Zenon DEF Escape
      <4> QED
        BY <1>1, <4>1, Zenon
    <3>3. Bare(source, p, r) <=> Bare(source, p + 2, r)
      BY <1>1, <3>1, <3>2, BareLater, Zenon
    <3> QED
      BY <3>1, <3>3, Zenon
  <2>2. CASE ~Escape(p)
    <3>1. s = p + 1 /\ p < r
      <4>1. s = p + 1
        BY <2>2, Zenon
      <4> QED
        BY <1>1, <4>1
    <3>2. source[p] # "\\"
      <4>1. Sym(p + 1) # "end"
        <5>1. p + 1 \in 1 .. Len(source)
          BY <1>1, <3>1
        <5> QED
          BY <5>1, SymFacts
      <4> QED
        BY <1>1, <2>2, <4>1 DEF Escape
    <3> QED
      BY <1>1, <3>1, <3>2, BareLater, Zenon
  <2> QED
    BY <2>1, <2>2
<1>5. ASSUME NEW r \in p .. q - 1 PROVE ~(Sym(r) = QuoteMark /\ Bare(source, p, r))
  <2>1. CASE r \in s .. q - 1
    <3>1. r \in Nat /\ r \in s .. Len(source)
      BY <1>1, <1>3, <2>1
    <3> QED
      BY <1>2, <1>4, <2>1, <3>1, Zenon
  <2>2. CASE r = p
    BY <2>2
  <2>3. CASE r = p + 1 /\ Escape(p)
    BY <1>1, <2>3, BareHere DEF Escape
  <2> QED
    BY <1>1, <1>3, <2>1, <2>2, <2>3
<1>6. q <= Len(source) => q \in s .. Len(source)
  BY <1>1, <1>2
<1> QED
  BY <1>2, <1>3, <1>4, <1>5, <1>6, Zenon DEF Ending

StringRead(p) ==
  /\ Ending(p, StringFrom[p].close)
  /\ EscapedLine \/ StringFrom[p].newlines = Newlines(p, StringFrom[p].close)

LEMMA StringFacts ==
  ASSUME source \in Seq(Symbols), NEW p \in 1 .. Len(source) + 1
  PROVE  StringRead(p)
<1> DEFINE T == {q \in 1 .. Len(source) + 1 : StringRead(q)}
<1>1. Len(source) \in Nat /\ \A q \in 1 .. Len(source) : Sym(q) # "end" /\ Sym(q) = source[q]
  BY SymFacts, Zenon
<1>2. ASSUME NEW q \in 1 .. Len(source) + 1, \A r \in q + 1 .. Len(source) + 1 : r \in T
      PROVE  StringRead(q)
  <2> DEFINE s == IF Escape(q) THEN q + 2 ELSE q + 1
             z == StringFrom[s]
  <2>1. q \in Nat
    BY <1>1
  <2>2. StringFrom[q] = IF Sym(q) \in {QuoteMark, "end"}
                        THEN [text |-> <<>>, close |-> q, newlines |-> 0]
                        ELSE InString(q, z)
    BY <2>1, StringSolves, Zenon DEF QuoteMark
  <2>3. CASE Sym(q) \in {QuoteMark, "end"}
    <3>1. StringFrom[q].close = q /\ StringFrom[q].newlines = 0
      BY <2>2, <2>3
    <3>2. Newlines(q, q) = 0
      BY <2>1, NewlinesNone
    <3>3. Bare(source, q, q)
      BY <2>1, BareHere
    <3>4. q <= Len(source) => Sym(q) = QuoteMark
      <4>1. q <= Len(source) => q \in 1 .. Len(source)
        BY <1>1
      <4> QED
        BY <1>1, <2>3, <4>1, Zenon
    <3>5. q \in q .. Len(source) + 1 /\ q .. q - 1 = {}
      BY <1>1
    <3>6. Ending(q, q)
      BY <3>3, <3>4, <3>5, Zenon DEF Ending
    <3> QED
      BY <3>1, <3>2, <3>6, Zenon DEF StringRead
  <2>4. CASE Sym(q) \notin {QuoteMark, "end"}
    <3>1. q \in 1 .. Len(source)
      <4>1. q # Len(source) + 1
        <5>1. Len(source) + 1 \in Int /\ Len(source) + 1 \notin 1 .. Len(source)
          BY <1>1
        <5>2. Sym(Len(source) + 1) = "end"
          BY <5>1, SymFacts, Zenon
        <5> QED
          BY <2>4, <5>2, Zenon
      <4> QED
        BY <1>1, <4>1
    <3>2. Escape(q) => q + 1 \in 1 .. Len(source)
      <4>1. q + 1 \notin 1 .. Len(source) => Sym(q + 1) = "end"
        BY <2>1, SymFacts
      <4> QED
        BY <4>1, Zenon DEF Escape
    <3>3. s \in q + 1 .. Len(source) + 1 /\ s \in Nat /\ q <= s
      BY <1>1, <3>1, <3>2
    <3>4. StringRead(s)
      <4>1. s \in T
        BY <1>2, <3>3, Zenon
      <4> HIDE DEF s
      <4> QED
        BY <4>1
    <3>5. InString(q, z).close = z.close
          /\ InString(q, z).newlines = z.newlines + IF Sym(q) = "\n" THEN 1 ELSE 0
      BY DEF InString
    <3>6. s = IF Escape(q) THEN q + 2 ELSE q + 1
      OBVIOUS
    <3>7. StringFrom[q] = InString(q, z) /\ z = StringFrom[s]
      BY <2>2, <2>4, Zenon
    <3> HIDE DEF s, z
    <3> DEFINE c == z.close
    <3>8. Ending(s, c) /\ (EscapedLine \/ z.newlines = Newlines(s, c))
      BY <3>4, <3>7, Zenon DEF StringRead
    <3>9. c \in s .. Len(source) + 1
      BY <3>8, Zenon DEF Ending
    <3> HIDE DEF c
    <3>10. c \in Nat /\ s <= c
      BY <1>1, <3>3, <3>9
    <3>11. Ending(q, c)
      BY <2>4, <3>1, <3>3, <3>6, <3>8, EndingLater, Zenon
    <3>12. EscapedLine \/ Newlines(q, s) = IF Sym(q) = "\n" THEN 1 ELSE 0
      <4>1. CASE ~Escape(q)
        BY <2>1, <3>6, <4>1, NewlinesOne, Zenon
      <4>2. CASE Escape(q) /\ Sym(q + 1) # "\n"
        <5>1. s = q + 2
          BY <3>6, <4>2
        <5>2. \A r \in q .. s - 1 : r = q \/ r = q + 1
          BY <2>1, <5>1
        <5>3. Sym(q) # "\n"
          BY <4>2 DEF Escape
        <5>4. Newlines(q, s) = 0
          BY <2>1, <3>3, <4>2, <5>2, <5>3, NewlinesNone, Zenon
        <5> QED
          BY <5>3, <5>4
      <4>3. CASE Escape(q) /\ Sym(q + 1) = "\n"
        <5>1. q \in 1 .. Len(source) - 1
          BY <1>1, <3>1, <3>2, <4>3
        <5>2. Part(source, q, q + 2) = <<"\\", "\n">>
          BY <2>1, <4>3, PartTwo DEF Escape
        <5> QED
          BY <5>1, <5>2, Zenon DEF EscapedLine
      <4> QED
        BY <4>1, <4>2, <4>3
    <3>13. /\ Newlines(q, s) \in Nat /\ Newlines(s, c) \in Nat
           /\ Newlines(q, c) = Newlines(q, s) + Newlines(s, c)
      BY <2>1, <3>3, <3>10, NewlinesSplit, Zenon
    <3>14. /\ StringFrom[q].close = c
           /\ StringFrom[q].newlines = z.newlines + IF Sym(q) = "\n" THEN 1 ELSE 0
      BY <3>5, <3>7, Zenon DEF c
    <3>15. EscapedLine \/ StringFrom[q].newlines = Newlines(q, c)
      BY <3>8, <3>12, <3>13, <3>14
    <3> QED
      BY <3>11, <3>14, <3>15, Zenon DEF StringRead
  <2> QED
    BY <2>3, <2>4
<1>3. \A q \in 1 .. Len(source) + 1 : (\A r \in q + 1 .. Len(source) + 1 : r \in T) => q \in T
  BY <1>2, Zenon
<1> HIDE DEF T
<1>4. 1 .. Len(source) + 1 \subseteq T
  BY <1>1, <1>3, CountDown, Zenon
<1> QED
  BY <1>4, Zenon DEF T

-------------------------------------------------------------------------------
(* The tables of the operators, and what their kinds are spelled.             *)
Single(a) == Alone[a] \in DOMAIN Spelled /\ Spelled[Alone[a]] = <<a>>
Equal(a)  == WithEq[a] \in DOMAIN Spelled /\ Spelled[WithEq[a]] = <<a, "=">>
Double(a) == Doubled[a] \in DOMAIN Spelled /\ Spelled[Doubled[a]] = <<a, a>>
Shift(a)  == Shifts[a] \in DOMAIN Spelled /\ Spelled[Shifts[a]] = <<a, a, "=">>

LEMMA Singles == \A a \in DOMAIN Alone : Single(a)
<1>1. Single("=")
  BY Zenon DEF Single, Alone, Spelled
<1>2. Single("!")
  BY Zenon DEF Single, Alone, Spelled
<1>3. Single("<")
  BY Zenon DEF Single, Alone, Spelled
<1>4. Single(">")
  BY Zenon DEF Single, Alone, Spelled
<1>5. Single("&")
  BY Zenon DEF Single, Alone, Spelled
<1>6. Single("|")
  BY Zenon DEF Single, Alone, Spelled
<1>7. Single("+")
  BY Zenon DEF Single, Alone, Spelled
<1>8. Single("-")
  BY Zenon DEF Single, Alone, Spelled
<1>9. Single("*")
  BY Zenon DEF Single, Alone, Spelled
<1>10. Single("/")
  BY Zenon DEF Single, Alone, Spelled
<1>11. Single("%")
  BY Zenon DEF Single, Alone, Spelled
<1>12. Single("^")
  BY Zenon DEF Single, Alone, Spelled
<1>13. Single("(")
  BY Zenon DEF Single, Alone, Spelled
<1>14. Single(")")
  BY Zenon DEF Single, Alone, Spelled
<1>15. Single("{")
  BY Zenon DEF Single, Alone, Spelled
<1>16. Single("}")
  BY Zenon DEF Single, Alone, Spelled
<1>17. Single("[")
  BY Zenon DEF Single, Alone, Spelled
<1>18. Single("]")
  BY Zenon DEF Single, Alone, Spelled
<1>19. Single(";")
  BY Zenon DEF Single, Alone, Spelled
<1>20. Single(",")
  BY Zenon DEF Single, Alone, Spelled
<1>21. Single(".")
  BY Zenon DEF Single, Alone, Spelled
<1>22. Single("~")
  BY Zenon DEF Single, Alone, Spelled
<1>23. Single("?")
  BY Zenon DEF Single, Alone, Spelled
<1>24. Single(":")
  BY Zenon DEF Single, Alone, Spelled
<1>25. DOMAIN Alone = {"=", "!", "<", ">", "&", "|", "+", "-", "*", "/", "%", "^",
                      "(", ")", "{", "}", "[", "]", ";", ",", ".", "~", "?", ":"}
  BY Zenon DEF Alone
<1>26. \A a \in {"=", "!", "<", ">", "&", "|"} : Single(a)
  BY <1>1, <1>2, <1>3, <1>4, <1>5, <1>6, Zenon
<1>27. \A a \in {"+", "-", "*", "/", "%", "^"} : Single(a)
  BY <1>7, <1>8, <1>9, <1>10, <1>11, <1>12, Zenon
<1>28. \A a \in {"(", ")", "{", "}", "[", "]"} : Single(a)
  BY <1>13, <1>14, <1>15, <1>16, <1>17, <1>18, Zenon
<1>29. \A a \in {";", ",", ".", "~", "?", ":"} : Single(a)
  BY <1>19, <1>20, <1>21, <1>22, <1>23, <1>24, Zenon
<1> QED
  BY <1>25, <1>26, <1>27, <1>28, <1>29, Zenon

LEMMA Equals == \A a \in DOMAIN WithEq : Equal(a)
<1>1. Equal("=")
  BY Zenon DEF Equal, WithEq, Spelled
<1>2. Equal("!")
  BY Zenon DEF Equal, WithEq, Spelled
<1>3. Equal("<")
  BY Zenon DEF Equal, WithEq, Spelled
<1>4. Equal(">")
  BY Zenon DEF Equal, WithEq, Spelled
<1>5. Equal("&")
  BY Zenon DEF Equal, WithEq, Spelled
<1>6. Equal("|")
  BY Zenon DEF Equal, WithEq, Spelled
<1>7. Equal("+")
  BY Zenon DEF Equal, WithEq, Spelled
<1>8. Equal("-")
  BY Zenon DEF Equal, WithEq, Spelled
<1>9. Equal("*")
  BY Zenon DEF Equal, WithEq, Spelled
<1>10. Equal("/")
  BY Zenon DEF Equal, WithEq, Spelled
<1>11. Equal("%")
  BY Zenon DEF Equal, WithEq, Spelled
<1>12. Equal("^")
  BY Zenon DEF Equal, WithEq, Spelled
<1>13. DOMAIN WithEq = {"=", "!", "<", ">", "&", "|", "+", "-", "*", "/", "%", "^"}
  BY Zenon DEF WithEq
<1>14. \A a \in {"=", "!", "<", ">", "&", "|"} : Equal(a)
  BY <1>1, <1>2, <1>3, <1>4, <1>5, <1>6, Zenon
<1>15. \A a \in {"+", "-", "*", "/", "%", "^"} : Equal(a)
  BY <1>7, <1>8, <1>9, <1>10, <1>11, <1>12, Zenon
<1> QED
  BY <1>13, <1>14, <1>15, Zenon

LEMMA Doubles == \A a \in DOMAIN Doubled : Double(a)
<1>1. Double("&")
  BY Zenon DEF Double, Doubled, Spelled
<1>2. Double("|")
  BY Zenon DEF Double, Doubled, Spelled
<1>3. Double("+")
  BY Zenon DEF Double, Doubled, Spelled
<1>4. Double("-")
  BY Zenon DEF Double, Doubled, Spelled
<1>5. Double("<")
  BY Zenon DEF Double, Doubled, Spelled
<1>6. Double(">")
  BY Zenon DEF Double, Doubled, Spelled
<1>7. DOMAIN Doubled = {"&", "|", "+", "-", "<", ">"}
  BY Zenon DEF Doubled
<1> QED
  BY <1>7, <1>1, <1>2, <1>3, <1>4, <1>5, <1>6, Zenon

LEMMA ShiftsSpelled == \A a \in DOMAIN Shifts : Shift(a)
<1>1. Shift("<")
  BY Zenon DEF Shift, Shifts, Spelled
<1>2. Shift(">")
  BY Zenon DEF Shift, Shifts, Spelled
<1>3. DOMAIN Shifts = {"<", ">"}
  BY Zenon DEF Shifts
<1> QED
  BY <1>3, <1>1, <1>2, Zenon

(* What an operator is: of one, two or three symbols.                         *)
Pair(a, b)      == \/ b = "=" /\ a \in DOMAIN WithEq
                   \/ b = a /\ a \in DOMAIN Doubled
                   \/ a = "-" /\ b = ">"
Triple(a, b, c) == b = a /\ a \in DOMAIN Shifts /\ c = "="
Form(x) == \/ \E a \in DOMAIN Alone : x = <<a>>
           \/ \E a, b : x = <<a, b>> /\ Pair(a, b)
           \/ \E a, b, c : x = <<a, b, c>> /\ Triple(a, b, c)
FormOf(k) == Form(Spelled[k])

LEMMA Forms == \A k \in DOMAIN Spelled : Form(Spelled[k])
<1>1. /\ Form(<<"|">>)
       /\ Form(<<"^">>)
       /\ Form(<<"&">>)
       /\ Form(<<"<">>)
  BY Zenon DEF Form, Alone
<1>2. /\ FormOf("PIPE")
       /\ FormOf("CARET")
       /\ FormOf("AMPER")
       /\ FormOf("LT")
  BY <1>1, Zenon DEF FormOf, Spelled
<1>3. /\ Form(<<">">>)
       /\ Form(<<"+">>)
       /\ Form(<<"-">>)
       /\ Form(<<"*">>)
  BY Zenon DEF Form, Alone
<1>4. /\ FormOf("GT")
       /\ FormOf("PLUS")
       /\ FormOf("MINUS")
       /\ FormOf("STAR")
  BY <1>3, Zenon DEF FormOf, Spelled
<1>5. /\ Form(<<"/">>)
       /\ Form(<<"%">>)
       /\ Form(<<"!">>)
       /\ Form(<<"~">>)
  BY Zenon DEF Form, Alone
<1>6. /\ FormOf("SLASH")
       /\ FormOf("PERCENT")
       /\ FormOf("EXCLAM")
       /\ FormOf("TILDE")
  BY <1>5, Zenon DEF FormOf, Spelled
<1>7. /\ Form(<<"=">>)
       /\ Form(<<".">>)
       /\ Form(<<",">>)
       /\ Form(<<";">>)
  BY Zenon DEF Form, Alone
<1>8. /\ FormOf("EQ")
       /\ FormOf("DOT")
       /\ FormOf("COMMA")
       /\ FormOf("SEMICOLON")
  BY <1>7, Zenon DEF FormOf, Spelled
<1>9. /\ Form(<<"(">>)
       /\ Form(<<")">>)
       /\ Form(<<"[">>)
       /\ Form(<<"]">>)
  BY Zenon DEF Form, Alone
<1>10. /\ FormOf("LPAREN")
       /\ FormOf("RPAREN")
       /\ FormOf("LBRACKET")
       /\ FormOf("RBRACKET")
  BY <1>9, Zenon DEF FormOf, Spelled
<1>11. /\ Form(<<"{">>)
       /\ Form(<<"}">>)
       /\ Form(<<"?">>)
       /\ Form(<<":">>)
  BY Zenon DEF Form, Alone
<1>12. /\ FormOf("LBRACE")
       /\ FormOf("RBRACE")
       /\ FormOf("QUESTION")
       /\ FormOf("COLON")
  BY <1>11, Zenon DEF FormOf, Spelled
<1>13. /\ Form(<<"|", "|">>)
       /\ Form(<<"&", "&">>)
       /\ Form(<<"=", "=">>)
       /\ Form(<<"!", "=">>)
  BY Zenon DEF Form, Pair, WithEq, Doubled
<1>14. /\ FormOf("OROR")
       /\ FormOf("ANDAND")
       /\ FormOf("EQEQ")
       /\ FormOf("NEQ")
  BY <1>13, Zenon DEF FormOf, Spelled
<1>15. /\ Form(<<"<", "=">>)
       /\ Form(<<">", "=">>)
       /\ Form(<<"<", "<">>)
       /\ Form(<<">", ">">>)
  BY Zenon DEF Form, Pair, WithEq, Doubled
<1>16. /\ FormOf("LE")
       /\ FormOf("GE")
       /\ FormOf("LSHIFT")
       /\ FormOf("RSHIFT")
  BY <1>15, Zenon DEF FormOf, Spelled
<1>17. /\ Form(<<"+", "+">>)
       /\ Form(<<"-", "-">>)
       /\ Form(<<"+", "=">>)
       /\ Form(<<"-", "=">>)
  BY Zenon DEF Form, Pair, WithEq, Doubled
<1>18. /\ FormOf("PLUSPLUS")
       /\ FormOf("MINUSMINUS")
       /\ FormOf("PLUS_EQ")
       /\ FormOf("MINUS_EQ")
  BY <1>17, Zenon DEF FormOf, Spelled
<1>19. /\ Form(<<"*", "=">>)
       /\ Form(<<"/", "=">>)
       /\ Form(<<"%", "=">>)
       /\ Form(<<"&", "=">>)
  BY Zenon DEF Form, Pair, WithEq, Doubled
<1>20. /\ FormOf("STAR_EQ")
       /\ FormOf("SLASH_EQ")
       /\ FormOf("PERCENT_EQ")
       /\ FormOf("AMPER_EQ")
  BY <1>19, Zenon DEF FormOf, Spelled
<1>21. /\ Form(<<"|", "=">>)
       /\ Form(<<"^", "=">>)
       /\ Form(<<"-", ">">>)
  BY Zenon DEF Form, Pair, WithEq, Doubled
<1>22. /\ FormOf("PIPE_EQ")
       /\ FormOf("CARET_EQ")
       /\ FormOf("ARROW")
  BY <1>21, Zenon DEF FormOf, Spelled
<1>23. /\ Form(<<"<", "<", "=">>)
       /\ Form(<<">", ">", "=">>)
  BY Zenon DEF Form, Triple, Shifts
<1>24. /\ FormOf("LSHIFT_EQ")
       /\ FormOf("RSHIFT_EQ")
  BY <1>23, Zenon DEF FormOf, Spelled
<1> DEFINE N == {"OROR", "ANDAND", "PIPE", "CARET", "AMPER", "EQEQ", "NEQ", "LT", "GT",
                 "LE", "GE", "LSHIFT", "RSHIFT", "PLUS", "MINUS", "STAR", "SLASH",
                 "PERCENT", "EXCLAM", "TILDE", "PLUSPLUS", "MINUSMINUS", "EQ", "PLUS_EQ",
                 "MINUS_EQ", "STAR_EQ", "SLASH_EQ", "PERCENT_EQ", "AMPER_EQ", "PIPE_EQ",
                 "CARET_EQ", "LSHIFT_EQ", "RSHIFT_EQ", "ARROW", "DOT", "COMMA",
                 "SEMICOLON", "LPAREN", "RPAREN", "LBRACKET", "RBRACKET", "LBRACE",
                 "RBRACE", "QUESTION", "COLON"}
<1>25. DOMAIN Spelled = N
  BY Zenon DEF Spelled
<1>26. \A k \in N : FormOf(k)
  BY <1>2, <1>4, <1>6, <1>8, <1>10, <1>12, <1>14, <1>16, <1>18, <1>20, <1>22, <1>24, SMT
<1> HIDE DEF N
<1> QED
  BY <1>25, <1>26, Zenon DEF FormOf

LEMMA FormBegins ==
  ASSUME NEW x, Form(x)
  PROVE  x[1] \in DOMAIN Alone
<1>1. CASE \E a \in DOMAIN Alone : x = <<a>>
  BY <1>1
<1>2. CASE \E a, b : x = <<a, b>> /\ Pair(a, b)
  <2>1. PICK a, b : x = <<a, b>> /\ Pair(a, b)
    BY <1>2
  <2>2. a \in DOMAIN Alone
    BY <2>1, Zenon DEF Pair, Alone, WithEq, Doubled
  <2> QED
    BY <2>1, <2>2
<1>3. CASE \E a, b, c : x = <<a, b, c>> /\ Triple(a, b, c)
  <2>1. PICK a, b, c : x = <<a, b, c>> /\ Triple(a, b, c)
    BY <1>3
  <2>2. a \in DOMAIN Alone
    BY <2>1, Zenon DEF Triple, Alone, Shifts
  <2> QED
    BY <2>1, <2>2
<1> QED
  BY <1>1, <1>2, <1>3, Zenon DEF Form

LEMMA SingleText ==
  ASSUME NEW a
  PROVE  <<a>> \in OperatorTexts <=> a \in DOMAIN Alone
<1>1. ASSUME <<a>> \in OperatorTexts PROVE a \in DOMAIN Alone
  <2>1. PICK k \in DOMAIN Spelled : <<a>> = Spelled[k]
    BY <1>1, Zenon DEF OperatorTexts
  <2>2. Form(<<a>>)
    BY <2>1, Forms, Zenon
  <2>3. \A b, c : <<a>> # <<b, c>>
    OBVIOUS
  <2>4. \A b, c, d : <<a>> # <<b, c, d>>
    OBVIOUS
  <2>5. \A b : <<a>> = <<b>> => a = b
    OBVIOUS
  <2> QED
    BY <2>2, <2>3, <2>4, <2>5, Zenon DEF Form
<1>2. ASSUME a \in DOMAIN Alone PROVE <<a>> \in OperatorTexts
  BY <1>2, Singles, Zenon DEF Single, OperatorTexts
<1> QED
  BY <1>1, <1>2

LEMMA PairText ==
  ASSUME NEW a, NEW b
  PROVE  <<a, b>> \in OperatorTexts <=> Pair(a, b)
<1>1. ASSUME <<a, b>> \in OperatorTexts PROVE Pair(a, b)
  <2>1. PICK k \in DOMAIN Spelled : <<a, b>> = Spelled[k]
    BY <1>1, Zenon DEF OperatorTexts
  <2>2. Form(<<a, b>>)
    BY <2>1, Forms, Zenon
  <2>3. \A c : <<a, b>> # <<c>>
    OBVIOUS
  <2>4. \A c, d, e : <<a, b>> # <<c, d, e>>
    OBVIOUS
  <2>5. \A c, d : <<a, b>> = <<c, d>> => a = c /\ b = d
    OBVIOUS
  <2> QED
    BY <2>2, <2>3, <2>4, <2>5, Zenon DEF Form
<1>2. ASSUME Pair(a, b) PROVE <<a, b>> \in OperatorTexts
  <2>1. CASE b = "=" /\ a \in DOMAIN WithEq
    BY <2>1, Equals, Zenon DEF Equal, OperatorTexts
  <2>2. CASE b = a /\ a \in DOMAIN Doubled
    BY <2>2, Doubles, Zenon DEF Double, OperatorTexts
  <2>3. CASE a = "-" /\ b = ">"
    <3>1. "ARROW" \in DOMAIN Spelled /\ Spelled["ARROW"] = <<"-", ">">>
      BY Zenon DEF Spelled
    <3> QED
      BY <2>3, <3>1, Zenon DEF OperatorTexts
  <2> QED
    BY <1>2, <2>1, <2>2, <2>3, Zenon DEF Pair
<1> QED
  BY <1>1, <1>2

LEMMA TripleText ==
  ASSUME NEW a, NEW b, NEW c
  PROVE  <<a, b, c>> \in OperatorTexts <=> Triple(a, b, c)
<1>1. ASSUME <<a, b, c>> \in OperatorTexts PROVE Triple(a, b, c)
  <2>1. PICK k \in DOMAIN Spelled : <<a, b, c>> = Spelled[k]
    BY <1>1, Zenon DEF OperatorTexts
  <2>2. Form(<<a, b, c>>)
    BY <2>1, Forms, Zenon
  <2>3. \A d : <<a, b, c>> # <<d>>
    OBVIOUS
  <2>4. \A d, e : <<a, b, c>> # <<d, e>>
    OBVIOUS
  <2>5. \A d, e, f : <<a, b, c>> = <<d, e, f>> => a = d /\ b = e /\ c = f
    OBVIOUS
  <2> QED
    BY <2>2, <2>3, <2>4, <2>5, Zenon DEF Form
<1>2. ASSUME Triple(a, b, c) PROVE <<a, b, c>> \in OperatorTexts
  BY <1>2, ShiftsSpelled, Zenon DEF Shift, Triple, OperatorTexts
<1> QED
  BY <1>1, <1>2

-------------------------------------------------------------------------------
(* Parts of one and of three symbols.                                         *)
LEMMA PartOne ==
  ASSUME source \in Seq(Symbols), NEW p \in Nat
  PROVE  Part(source, p, p + 1) = <<Sym(p)>>
<1>1. Letter(source, p) = Sym(p)
  BY SymFacts
<1>2. 1 .. (p + 1) - p = 1 .. 1 /\ p + 1 - 1 = p
  OBVIOUS
<1>3. Part(source, p, p + 1) = [i \in 1 .. 1 |-> Letter(source, p + i - 1)]
  BY <1>2, Zenon DEF Part
<1>4. [i \in 1 .. 1 |-> Letter(source, p + i - 1)] = <<Letter(source, p)>>
  <2> DEFINE f == [i \in 1 .. 1 |-> Letter(source, p + i - 1)]
  <2>1. f[1] = Letter(source, p + 1 - 1) /\ f = [i \in 1 .. 1 |-> f[i]]
    OBVIOUS
  <2> QED
    BY <1>2, <2>1
<1> QED
  BY <1>1, <1>3, <1>4

LEMMA PartThree ==
  ASSUME source \in Seq(Symbols), NEW p \in Nat
  PROVE  Part(source, p, p + 3) = <<Sym(p), Sym(p + 1), Sym(p + 2)>>
<1>1. Letter(source, p) = Sym(p) /\ Letter(source, p + 1) = Sym(p + 1)
      /\ Letter(source, p + 2) = Sym(p + 2)
  BY SymFacts
<1>2. 1 .. (p + 3) - p = 1 .. 3 /\ p + 1 - 1 = p /\ p + 2 - 1 = p + 1 /\ p + 3 - 1 = p + 2
  OBVIOUS
<1> DEFINE f == [i \in 1 .. 3 |-> Letter(source, p + i - 1)]
<1>3. Part(source, p, p + 3) = f
  BY <1>2, Zenon DEF Part
<1>4. f[1] = Sym(p) /\ f[2] = Sym(p + 1) /\ f[3] = Sym(p + 2)
  BY <1>1, <1>2
<1>5. f = <<f[1], f[2], f[3]>>
  OBVIOUS
<1> HIDE DEF f
<1> QED
  BY <1>3, <1>4, <1>5

LEMMA OperatorBegins ==
  ASSUME source \in Seq(Symbols), NEW p \in 1 .. Len(source) + 1,
         NEW q \in p + 1 .. Len(source) + 1,
         Part(source, p, q) \in OperatorTexts
  PROVE  Sym(p) \in DOMAIN Alone
<1>1. Letter(source, p) = Sym(p)
  BY SymFacts
<1>2. Part(source, p, q)[1] = Letter(source, p + 1 - 1)
  BY SymFacts DEF Part
<1>3. p + 1 - 1 = p
  BY SymFacts
<1>4. PICK k \in DOMAIN Spelled : Part(source, p, q) = Spelled[k]
  BY Zenon DEF OperatorTexts
<1>5. Form(Part(source, p, q))
  BY <1>4, Forms, Zenon
<1> QED
  BY <1>1, <1>2, <1>3, <1>5, FormBegins, Zenon

(* The lexemes of a text, by the symbol they begin with.                      *)
Hex(p, q)     == source[p] = "0" /\ source[p + 1] \in Exes /\ All(source, p + 2, q, HexDigits)
Apostrophe    == "'"
LexemesFrom(p) == {q \in p + 1 .. Len(source) + 1 : Lexeme(source, p, q)}

LEMMA SymbolClasses ==
  ASSUME NEW s
  PROVE  /\ IsAlnum(s) <=> s \in Words \cup Decimal
         /\ IsDigit(s) <=> s \in Decimal
         /\ s \in Words <=> s \in Letters
         /\ s \in Decimal => s \in DOMAIN Digit /\ s \notin Letters
         /\ s \in Letters \/ s \in DOMAIN Digit => s \notin DOMAIN Alone /\ s # QuoteMark
                                                 /\ s # Apostrophe /\ s # "\n" /\ s # "end"
         /\ "0" \in Decimal /\ (s \in Exes => s \in Letters /\ s \notin DOMAIN Digit)
  BY AlphabetAssumption, Zenon DEF IsAlnum, IsDigit, Others, QuoteMark, Apostrophe

LEMMA MarkClasses ==
  /\ QuoteMark \notin DOMAIN Alone /\ Apostrophe \notin DOMAIN Alone /\ QuoteMark # Apostrophe
  /\ QuoteMark # "\n" /\ Apostrophe # "\n" /\ "\n" \notin DOMAIN Alone
  BY Zenon DEF QuoteMark, Apostrophe, Alone

LEMMA LexemeClass ==
  ASSUME source \in Seq(Symbols), NEW p \in 1 .. Len(source) + 1, NEW q \in LexemesFrom(p)
  PROVE  /\ q \in p + 1 .. Len(source) + 1
         /\ \/ Sym(p) \in DOMAIN Alone /\ q - p <= 3 /\ Part(source, p, q) \in OperatorTexts
            \/ Sym(p) \in Letters /\ All(source, p, q, Words \cup Decimal)
            \/ Sym(p) \in Decimal /\ All(source, p, q, Decimal)
            \/ Sym(p) \in Decimal /\ q - p >= 2 /\ Hex(p, q)
            \/ Sym(p) = QuoteMark /\ Quoted(source, p, q)
            \/ Sym(p) = Apostrophe /\ Character(source, p, q)
<1>1. q \in p + 1 .. Len(source) + 1 /\ Lexeme(source, p, q)
  BY Zenon DEF LexemesFrom
<1>2. p \in 1 .. Len(source) /\ Sym(p) = source[p]
  BY <1>1, SymFacts
<1>3. All(source, p, q, Decimal) => source[p] \in Decimal
  BY <1>1, <1>2, SymFacts DEF All
<1>4. Part(source, p, q) \in OperatorTexts => Sym(p) \in DOMAIN Alone
  BY <1>1, OperatorBegins, Zenon
<1>5. source[p] \in Words => source[p] \in Letters
  BY SymbolClasses, Zenon
<1>6. source[p] = "0" => source[p] \in Decimal
  BY SymbolClasses, Zenon
<1> QED
  BY <1>1, <1>2, <1>3, <1>4, <1>5, <1>6, Zenon DEF Lexeme, Hex, Quoted, Character, QuoteMark, Apostrophe

LEMMA LongestRun ==
  ASSUME source \in Seq(Symbols), NEW p \in 1 .. Len(source) + 1, NEW S, NEW e,
         e \in p .. Len(source) + 1, e > Len(source) \/ Sym(e) \notin S,
         \A r \in p .. e - 1 : Sym(r) \in S
  PROVE  /\ All(source, p, e, S)
         /\ \A q \in p .. Len(source) + 1 : All(source, p, q, S) => q <= e
  BY SymFacts DEF All

(* What next() returns, as a lexeme.                                          *)
TakesLexeme(kind, from, next) ==
  /\ kind = "END" <=> from = Len(source) + 1
  /\ LexemesFrom(from) # {} /\ kind # "INLINE_ASM" =>
       /\ kind # "BAD"
       /\ next \in LexemesFrom(from) /\ \A q \in LexemesFrom(from) : q <= next
       /\ Part(source, from, next) \in OperatorTexts => Spelled[kind] = Part(source, from, next)

LEMMA ReadsOne ==
  ASSUME source \in Seq(Symbols), NEW kind, NEW from \in 1 .. Len(source), NEW next,
         kind \notin {"END", "BAD"}, Sym(from) \notin DOMAIN Alone,
         LexemesFrom(from) # {} => next \in LexemesFrom(from)
                                   /\ \A q \in LexemesFrom(from) : q <= next
  PROVE  TakesLexeme(kind, from, next)
<1>1. from \in 1 .. Len(source) + 1 /\ from # Len(source) + 1
  BY SymFacts
<1>2. ASSUME next \in LexemesFrom(from) PROVE Part(source, from, next) \notin OperatorTexts
  <2>1. next \in from + 1 .. Len(source) + 1
    BY <1>2, Zenon DEF LexemesFrom
  <2> QED
    BY <1>1, <2>1, OperatorBegins, Zenon
<1> QED
  BY <1>1, <1>2, Zenon DEF TakesLexeme

Proper(k) == Keywords[k] \notin {"END", "BAD"}

LEMMA KeywordKinds == \A k \in DOMAIN Keywords : Keywords[k] \notin {"END", "BAD"}
<1>1. Proper("if") /\ Proper("else") /\ Proper("while") /\ Proper("for")
  BY Zenon DEF Proper, Keywords
<1>2. Proper("do") /\ Proper("switch") /\ Proper("case") /\ Proper("default")
  BY Zenon DEF Proper, Keywords
<1>3. Proper("break") /\ Proper("continue") /\ Proper("return") /\ Proper("goto")
  BY Zenon DEF Proper, Keywords
<1>4. Proper("int") /\ Proper("char") /\ Proper("short") /\ Proper("long")
  BY Zenon DEF Proper, Keywords
<1>5. Proper("unsigned") /\ Proper("signed") /\ Proper("void") /\ Proper("static")
  BY Zenon DEF Proper, Keywords
<1>6. Proper("extern") /\ Proper("const") /\ Proper("volatile") /\ Proper("typedef")
  BY Zenon DEF Proper, Keywords
<1>7. Proper("struct") /\ Proper("sizeof")
  BY Zenon DEF Proper, Keywords
<1>8. DOMAIN Keywords =
       {"if", "else", "while", "for", "do", "switch", "case",
        "default", "break", "continue", "return", "goto", "int", "char",
        "short", "long", "unsigned", "signed", "void", "static", "extern",
        "const", "volatile", "typedef", "struct", "sizeof"}
  BY Zenon DEF Keywords
<1>9. \A k \in DOMAIN Keywords : Proper(k)
  BY <1>1, <1>2, <1>3, <1>4, <1>5, <1>6, <1>7, <1>8, Zenon
<1> QED
  BY <1>9, Zenon DEF Proper

LEMMA WordReads ==
  ASSUME source \in Seq(Symbols), NEW p \in 1 .. Len(source) + 1, Sym(p) \in Letters,
         NEW kind, kind \notin {"END", "BAD"},
         NEW e, e = FirstFrom(p, LAMBDA r : ~IsAlnum(Sym(r)))
  PROVE  e \in p + 1 .. Len(source) + 1 /\ TakesLexeme(kind, p, e) /\ Newlines(p, e) = 0
<1> DEFINE S == Words \cup Decimal
<1>1. p \in 1 .. Len(source) /\ source[p] = Sym(p)
  <2>1. Sym(p) # "end"
    BY SymbolClasses, Zenon
  <2> QED
    BY <2>1, SymFacts
<1>2. Reaches(p, e, {r \in Int : ~IsAlnum(Sym(r))})
  BY ToWordEnd, Zenon
<1>3. e \in p .. Len(source) + 1 /\ (e > Len(source) \/ ~IsAlnum(Sym(e)))
      /\ \A r \in p .. e - 1 : IsAlnum(Sym(r))
  <2>1. /\ e \in p .. Len(source) + 1 /\ (e > Len(source) \/ e \in {r \in Int : ~IsAlnum(Sym(r))})
        /\ \A r \in p .. e - 1 : r \notin {q \in Int : ~IsAlnum(Sym(q))}
    BY <1>2, Zenon DEF Reaches
  <2>2. \A r \in p .. e - 1 : r \in Int
    BY SymFacts
  <2> QED
    BY <2>1, <2>2, Zenon
<1>4. IsAlnum(Sym(p)) /\ Sym(p) \notin DOMAIN Alone
  BY SymbolClasses, Zenon DEF IsAlnum
<1>5. e \in p + 1 .. Len(source) + 1
  BY <1>1, <1>3, <1>4, SymFacts
<1>6. (e > Len(source) \/ Sym(e) \notin S) /\ \A r \in p .. e - 1 : Sym(r) \in S
  BY <1>3, SymbolClasses, Zenon
<1>7. All(source, p, e, S) /\ \A q \in p .. Len(source) + 1 : All(source, p, q, S) => q <= e
  BY <1>3, <1>6, LongestRun, Zenon
<1>8. source[p] \in Words
  BY <1>1, SymbolClasses, Zenon
<1>9. e \in LexemesFrom(p)
  BY <1>5, <1>7, <1>8, Zenon DEF LexemesFrom, Lexeme
<1>10. ASSUME NEW q \in LexemesFrom(p) PROVE q <= e
  <2>1. q \in p .. Len(source) + 1
    BY <1>1, SymFacts DEF LexemesFrom
  <2>2. All(source, p, q, S)
    BY LexemeClass, SymbolClasses, Zenon
  <2> QED
    BY <1>7, <2>1, <2>2, Zenon
<1>11. TakesLexeme(kind, p, e)
  BY <1>1, <1>4, <1>9, <1>10, ReadsOne, Zenon
<1>12. \A r \in p .. e - 1 : Sym(r) # "\n"
  BY <1>6, SymbolClasses, Zenon
<1>13. p \in Nat /\ e \in Nat
  BY <1>1, <1>3, SymFacts
<1>14. Newlines(p, e) = 0
  BY <1>12, <1>13, NewlinesNone, Zenon
<1> QED
  BY <1>5, <1>11, <1>14

LEMMA HexReads ==
  ASSUME source \in Seq(Symbols), NEW p \in 1 .. Len(source) + 1,
         Sym(p) = "0", Sym(p + 1) \in Exes,
         NEW e, e = FirstFrom(p + 2, LAMBDA r : Sym(r) \notin DOMAIN Digit)
  PROVE  e \in p + 1 .. Len(source) + 1 /\ TakesLexeme("NUMBER", p, e) /\ Newlines(p, e) = 0
<1>1. p \in 1 .. Len(source) - 1 /\ source[p] = Sym(p) /\ source[p + 1] = Sym(p + 1)
  <2>1. "0" # "end" /\ Sym(p + 1) # "end"
    BY SymbolClasses, Zenon
  <2> QED
    BY <2>1, SymFacts
<1>2. p + 2 \in 1 .. Len(source) + 1
  BY <1>1, SymFacts
<1>3. Reaches(p + 2, e, {r \in Int : Sym(r) \notin DOMAIN Digit})
  BY <1>2, ToHexEnd, Zenon
<1>4. /\ e \in p + 2 .. Len(source) + 1 /\ (e > Len(source) \/ Sym(e) \notin DOMAIN Digit)
      /\ \A r \in p + 2 .. e - 1 : Sym(r) \in DOMAIN Digit
  <2>1. /\ e \in p + 2 .. Len(source) + 1
        /\ e > Len(source) \/ e \in {r \in Int : Sym(r) \notin DOMAIN Digit}
        /\ \A r \in p + 2 .. e - 1 : r \notin {q \in Int : Sym(q) \notin DOMAIN Digit}
    BY <1>3, Zenon DEF Reaches
  <2>2. \A r \in p + 2 .. e - 1 : r \in Int
    BY SymFacts
  <2> QED
    BY <2>1, <2>2, Zenon
<1>5. e \in p + 1 .. Len(source) + 1 /\ e - p >= 2
  BY <1>1, <1>4, SymFacts
<1>6. /\ All(source, p + 2, e, DOMAIN Digit)
      /\ \A q \in p + 2 .. Len(source) + 1 : All(source, p + 2, q, DOMAIN Digit) => q <= e
  BY <1>2, <1>4, LongestRun, Zenon
<1>7. HexDigits = DOMAIN Digit
  BY AlphabetAssumption
<1>8. e \in LexemesFrom(p)
  BY <1>1, <1>5, <1>6, <1>7, Zenon DEF LexemesFrom, Lexeme
<1>9. Sym(p) \in Decimal /\ Sym(p) \notin Letters /\ Sym(p) \notin DOMAIN Alone
      /\ Sym(p) # QuoteMark /\ Sym(p) # Apostrophe /\ Sym(p + 1) \notin Decimal
  BY SymbolClasses, Zenon
<1>10. ASSUME NEW q \in LexemesFrom(p) PROVE q <= e
  <2>1. q \in p + 1 .. Len(source) + 1
    BY LexemeClass, Zenon
  <2>2. All(source, p, q, Decimal) \/ (q - p >= 2 /\ Hex(p, q))
    BY <1>9, LexemeClass, Zenon
  <2>3. CASE All(source, p, q, Decimal)
    <3>1. q <= p + 1
      BY <1>1, <1>9, <2>1, <2>3, SymFacts DEF All
    <3> QED
      BY <1>1, <1>5, <2>1, <3>1, SymFacts
  <2>4. CASE q - p >= 2 /\ Hex(p, q)
    <3>1. q \in p + 2 .. Len(source) + 1
      BY <1>1, <2>1, <2>4, SymFacts
    <3> QED
      BY <1>6, <1>7, <2>4, <3>1, Zenon DEF Hex
  <2> QED
    BY <2>2, <2>3, <2>4
<1>11. TakesLexeme("NUMBER", p, e)
  <2>1. p \in 1 .. Len(source)
    BY <1>1, SymFacts
  <2> QED
    BY <2>1, <1>8, <1>9, <1>10, ReadsOne, Zenon
<1>12. Sym(p) # "\n" /\ Sym(p + 1) # "\n" /\ \A r \in p + 2 .. e - 1 : Sym(r) # "\n"
  BY <1>4, SymbolClasses, Zenon
<1>13. p \in Nat /\ e \in Nat
  BY <1>1, <1>4, SymFacts
<1>14. \A r \in p .. e - 1 : Sym(r) # "\n"
  <2>1. \A r \in p .. e - 1 : r = p \/ r = p + 1 \/ r \in p + 2 .. e - 1
    BY <1>13
  <2> QED
    BY <2>1, <1>12, Zenon
<1>15. Newlines(p, e) = 0
  BY <1>13, <1>14, NewlinesNone, Zenon
<1> QED
  BY <1>5, <1>11, <1>15

LEMMA DecimalReads ==
  ASSUME source \in Seq(Symbols), NEW p \in 1 .. Len(source) + 1,
         IsDigit(Sym(p)), ~(Sym(p) = "0" /\ Sym(p + 1) \in Exes),
         NEW e, e = FirstFrom(p, LAMBDA r : ~IsDigit(Sym(r)))
  PROVE  e \in p + 1 .. Len(source) + 1 /\ TakesLexeme("NUMBER", p, e) /\ Newlines(p, e) = 0
<1>1. p \in 1 .. Len(source) /\ source[p] = Sym(p)
  <2>1. Sym(p) # "end"
    BY SymbolClasses, Zenon
  <2> QED
    BY <2>1, SymFacts
<1>2. Reaches(p, e, {r \in Int : ~IsDigit(Sym(r))})
  BY ToNumberEnd, Zenon
<1>3. e \in p .. Len(source) + 1 /\ (e > Len(source) \/ ~IsDigit(Sym(e)))
      /\ \A r \in p .. e - 1 : IsDigit(Sym(r))
  <2>1. /\ e \in p .. Len(source) + 1 /\ (e > Len(source) \/ e \in {r \in Int : ~IsDigit(Sym(r))})
        /\ \A r \in p .. e - 1 : r \notin {q \in Int : ~IsDigit(Sym(q))}
    BY <1>2, Zenon DEF Reaches
  <2>2. \A r \in p .. e - 1 : r \in Int
    BY SymFacts
  <2> QED
    BY <2>1, <2>2, Zenon
<1>4. e \in p + 1 .. Len(source) + 1
  BY <1>1, <1>3, SymFacts
<1>5. (e > Len(source) \/ Sym(e) \notin Decimal) /\ \A r \in p .. e - 1 : Sym(r) \in Decimal
  BY <1>3, SymbolClasses, Zenon
<1>6. /\ All(source, p, e, Decimal)
      /\ \A q \in p .. Len(source) + 1 : All(source, p, q, Decimal) => q <= e
  BY <1>3, <1>5, LongestRun, Zenon
<1>7. e \in LexemesFrom(p)
  BY <1>4, <1>6, Zenon DEF LexemesFrom, Lexeme
<1>8. Sym(p) \notin Letters /\ Sym(p) \notin DOMAIN Alone /\ Sym(p) # QuoteMark
      /\ Sym(p) # Apostrophe
  BY SymbolClasses, Zenon
<1>9. ASSUME NEW q \in LexemesFrom(p) PROVE q <= e
  <2>1. q \in p + 1 .. Len(source) + 1
    BY LexemeClass, Zenon
  <2>2. All(source, p, q, Decimal) \/ (q - p >= 2 /\ Hex(p, q))
    BY <1>8, LexemeClass, Zenon
  <2>3. ~(q - p >= 2 /\ Hex(p, q))
    <3>1. ASSUME q - p >= 2, Hex(p, q) PROVE Sym(p + 1) \in Exes /\ Sym(p) = "0"
      <4>1. Sym(p + 1) = source[p + 1]
        BY <1>1, <2>1, <3>1, SymFacts
      <4> QED
        BY <1>1, <4>1, <3>1, Zenon DEF Hex
    <3> QED
      BY <3>1, Zenon
  <2>4. q \in p .. Len(source) + 1
    BY <2>1, <1>1, SymFacts
  <2> QED
    BY <1>6, <2>2, <2>3, <2>4, Zenon
<1>10. TakesLexeme("NUMBER", p, e)
  BY <1>1, <1>7, <1>8, <1>9, ReadsOne, Zenon
<1>11. \A r \in p .. e - 1 : Sym(r) # "\n"
  BY <1>5, SymbolClasses, Zenon
<1>12. p \in Nat /\ e \in Nat
  BY <1>1, <1>3, SymFacts
<1>13. Newlines(p, e) = 0
  BY <1>11, <1>12, NewlinesNone, Zenon
<1> QED
  BY <1>4, <1>10, <1>13

LEMMA QuotedIs ==
  ASSUME NEW p, NEW q
  PROVE  Quoted(source, p, q) <=>
           /\ q - p >= 2 /\ source[p] = QuoteMark /\ source[q - 1] = QuoteMark
           /\ Bare(source, p + 1, q - 1)
           /\ ~\E r \in p + 1 .. q - 2 : source[r] = QuoteMark /\ Bare(source, p + 1, r)
  BY Zenon DEF Quoted, QuoteMark

LEMMA NewlinesSum ==
  \A p, q, s \in Nat : p <= q /\ q <= s => Newlines(p, s) = Newlines(p, q) + Newlines(q, s)
  BY NewlinesSplit, Zenon

LEMMA NewlinesBetween ==
  ASSUME NEW p \in Nat, NEW c \in Nat, NEW e \in Nat, p + 1 <= c, c <= e,
         Newlines(p, p + 1) = 0, Newlines(c, e) = 0
  PROVE  Newlines(p, e) = Newlines(p + 1, c)
<1>1. p + 1 \in Nat /\ p <= p + 1 /\ p <= c
  OBVIOUS
<1>2. Newlines(p, e) = Newlines(p, c) + Newlines(c, e)
  BY <1>1, NewlinesSum, Zenon
<1>3. Newlines(p, c) = Newlines(p, p + 1) + Newlines(p + 1, c)
  BY <1>1, NewlinesSum, Zenon
<1>4. Newlines(p + 1, c) \in Nat
  BY <1>1, NewlinesSplit, Zenon
<1> QED
  BY <1>2, <1>3, <1>4

LEMMA StringReads ==
  ASSUME source \in Seq(Symbols), NEW p \in 1 .. Len(source) + 1, Sym(p) = QuoteMark,
         NEW close, Ending(p + 1, close),
         NEW e, e = IF close > Len(source) THEN close ELSE close + 1
  PROVE  /\ e \in p + 1 .. Len(source) + 1 /\ TakesLexeme("STRING", p, e)
         /\ Newlines(p, e) = Newlines(p + 1, close)
<1>1. p \in 1 .. Len(source) /\ source[p] = Sym(p)
  <2>1. QuoteMark # "end"
    BY Zenon DEF QuoteMark
  <2> QED
    BY <2>1, SymFacts
<1>2. /\ close \in p + 1 .. Len(source) + 1
      /\ close <= Len(source) => Sym(close) = QuoteMark /\ Bare(source, p + 1, close)
      /\ \A r \in p + 1 .. close - 1 : ~(Sym(r) = QuoteMark /\ Bare(source, p + 1, r))
  BY Zenon DEF Ending
<1>3. e \in p + 1 .. Len(source) + 1
  BY <1>1, <1>2, SymFacts
<1>4. \A r \in p + 1 .. Len(source) : source[r] = Sym(r)
  BY <1>1, SymFacts
<1>5. ASSUME close <= Len(source) PROVE e \in LexemesFrom(p)
  <2>1. e - 1 = close /\ e - 2 = close - 1 /\ e - p >= 2 /\ close \in p + 1 .. Len(source)
    BY <1>1, <1>2, <1>5, SymFacts
  <2>2. \A r \in p + 1 .. e - 2 : r \in p + 1 .. Len(source) /\ r \in p + 1 .. close - 1
    BY <1>1, <1>2, <1>5, <2>1, SymFacts
  <2>3. ~\E r \in p + 1 .. e - 2 : source[r] = QuoteMark /\ Bare(source, p + 1, r)
    BY <1>2, <1>4, <2>2, Zenon
  <2>4. source[p] = QuoteMark /\ source[e - 1] = QuoteMark /\ Bare(source, p + 1, e - 1)
    BY <1>1, <1>2, <1>4, <1>5, <2>1, Zenon
  <2>5. Quoted(source, p, e)
    BY <2>1, <2>3, <2>4, QuotedIs, Zenon
  <2> QED
    BY <1>3, <2>5, Zenon DEF LexemesFrom, Lexeme
<1>6. Sym(p) \notin DOMAIN Alone /\ Sym(p) \notin Letters /\ Sym(p) \notin Decimal
      /\ Sym(p) # Apostrophe
  BY SymbolClasses, MarkClasses, Zenon
<1>7. ASSUME NEW q \in LexemesFrom(p) PROVE close <= Len(source) /\ q = e
  <2>1. q \in p + 1 .. Len(source) + 1 /\ Quoted(source, p, q)
    BY <1>6, LexemeClass, Zenon
  <2> DEFINE c == q - 1
  <2>2. q - p >= 2 /\ source[c] = QuoteMark /\ Bare(source, p + 1, c)
        /\ ~\E r \in p + 1 .. q - 2 : source[r] = QuoteMark /\ Bare(source, p + 1, r)
    BY <2>1, QuotedIs, Zenon
  <2>3. c \in p + 1 .. Len(source) /\ c + 1 = q
    BY <1>1, <2>1, <2>2, SymFacts
  <2>4. c \notin p + 1 .. close - 1
    BY <1>2, <1>4, <2>2, <2>3, Zenon
  <2>5. close \in p + 1 .. Len(source)
    BY <1>1, <1>2, <2>3, <2>4, SymFacts
  <2>6. close \notin p + 1 .. q - 2
    BY <1>2, <1>4, <2>2, <2>5, SymFacts
  <2> HIDE DEF c
  <2>7. c = close
    <3>1. q - 2 = c - 1
      BY <1>1, <2>1, <2>3, SymFacts
    <3> QED
      BY <1>1, <1>2, <2>3, <2>4, <2>5, <2>6, <3>1, SymFacts
  <2> QED
    BY <1>1, <2>3, <2>5, <2>7, SymFacts
<1>8. LexemesFrom(p) # {} => e \in LexemesFrom(p) /\ \A q \in LexemesFrom(p) : q <= e
  <2>1. e <= e
    BY <1>3, SymFacts
  <2> QED
    BY <1>5, <1>7, <2>1, Zenon
<1>9. TakesLexeme("STRING", p, e)
  BY <1>1, <1>6, <1>8, ReadsOne, Zenon
<1>10. p \in Nat /\ p + 1 \in Nat /\ close \in Nat /\ e \in Nat /\ p <= p + 1 /\ p + 1 <= close
       /\ close <= e
  BY <1>1, <1>2, SymFacts
<1>12. Newlines(p, p + 1) = 0
  <2>1. Sym(p) # "\n"
    BY MarkClasses, Zenon
  <2>2. Newlines(p, p + 1) = IF Sym(p) = "\n" THEN 1 ELSE 0
    BY <1>10, NewlinesOne, Zenon
  <2> QED
    BY <2>1, <2>2, Zenon
<1>13. Newlines(close, e) = 0
  <2>1. CASE close > Len(source)
    <3>1. \A r \in close .. e - 1 : Sym(r) # "\n"
      BY <1>10, <2>1
    <3> QED
      BY <1>10, <3>1, NewlinesNone, Zenon
  <2>2. CASE ~(close > Len(source))
    <3>1. close <= Len(source) /\ e = close + 1
      BY <1>2, <2>2, SymFacts
    <3>2. Sym(close) # "\n"
      BY <1>2, <3>1, MarkClasses, Zenon
    <3> QED
      BY <1>10, <3>1, <3>2, NewlinesOne, Zenon
  <2> QED
    BY <2>1, <2>2
<1>14. Newlines(p, e) = Newlines(p + 1, close)
  BY <1>10, <1>12, <1>13, NewlinesBetween
<1> QED
  BY <1>3, <1>9, <1>14

LEMMA CharReads ==
  ASSUME source \in Seq(Symbols), NEW p \in 1 .. Len(source) + 1, Sym(p) = Apostrophe,
         NEW escape \in BOOLEAN, escape <=> Sym(p + 1) = "\\",
         NEW at, at = IF escape THEN p + 2 ELSE p + 1,
         NEW after, after = IF at > Len(source) THEN at ELSE at + 1,
         NEW e, e = IF Sym(after) = Apostrophe THEN after + 1 ELSE after
  PROVE  e \in p + 1 .. Len(source) + 1 /\ TakesLexeme("CHAR_LIT", p, e)
<1>1. p \in 1 .. Len(source) /\ source[p] = Sym(p) /\ Apostrophe # "end"
  <2>1. Apostrophe # "end"
    BY Zenon DEF Apostrophe
  <2> QED
    BY <2>1, SymFacts
<1>2. escape => p + 1 <= Len(source)
  <2>1. "\\" # "end"
    BY Zenon
  <2> QED
    BY <1>1, <2>1, SymFacts
<1>3. at \in p + 1 .. Len(source) + 1 /\ after \in p + 1 .. Len(source) + 1
  BY <1>1, <1>2, SymFacts
<1>4. e \in p + 1 .. Len(source) + 1
  BY <1>1, <1>3, SymFacts
<1>5. Sym(p) \notin DOMAIN Alone /\ Sym(p) \notin Letters /\ Sym(p) \notin Decimal
      /\ Sym(p) # QuoteMark
  BY SymbolClasses, MarkClasses, Zenon
<1>6. ASSUME NEW q \in LexemesFrom(p) PROVE q = e
  <2>1. q \in p + 1 .. Len(source) + 1 /\ Character(source, p, q)
    BY <1>5, LexemeClass, Zenon
  <2>2. /\ source[q - 1] = Apostrophe
        /\ \/ q - p = 3 /\ source[p + 1] # "\\"
           \/ q - p = 4 /\ source[p + 1] = "\\"
    BY <2>1, Zenon DEF Character, Apostrophe
  <2>3. CASE q - p = 3 /\ source[p + 1] # "\\"
    <3>1. q = p + 3 /\ q - 1 = p + 2 /\ p + 2 <= Len(source)
      BY <1>1, <2>1, <2>3, SymFacts
    <3>2. Sym(p + 1) = source[p + 1] /\ Sym(p + 2) = source[p + 2]
      BY <1>1, <3>1, SymFacts
    <3>3. ~escape
      BY <2>3, <3>2, Zenon
    <3>4. at = p + 1 /\ after = p + 2
      BY <1>1, <3>1, <3>3, SymFacts
    <3>5. Sym(after) = Apostrophe
      BY <2>2, <3>1, <3>2, <3>4, Zenon
    <3> QED
      BY <1>1, <3>1, <3>4, <3>5
  <2>4. CASE q - p = 4 /\ source[p + 1] = "\\"
    <3>1. q = p + 4 /\ q - 1 = p + 3 /\ p + 3 <= Len(source)
      BY <1>1, <2>1, <2>4, SymFacts
    <3>2. Sym(p + 1) = source[p + 1] /\ Sym(p + 3) = source[p + 3]
      BY <1>1, <3>1, SymFacts
    <3>3. escape
      BY <2>4, <3>2, Zenon
    <3>4. at = p + 2 /\ after = p + 3
      BY <1>1, <3>1, <3>3, SymFacts
    <3>5. Sym(after) = Apostrophe
      BY <2>2, <3>1, <3>2, <3>4, Zenon
    <3> QED
      BY <1>1, <3>1, <3>4, <3>5
  <2> QED
    BY <2>2, <2>3, <2>4
<1>7. LexemesFrom(p) # {} => e \in LexemesFrom(p) /\ \A q \in LexemesFrom(p) : q <= e
  <2>1. e <= e
    BY <1>4, SymFacts
  <2> QED
    BY <1>6, <2>1, Zenon
<1> QED
  BY <1>1, <1>4, <1>5, <1>7, ReadsOne, Zenon

LEMMA PairsAlone ==
  ASSUME NEW a, NEW b, NEW c
  PROVE  /\ Pair(a, b) => a \in DOMAIN Alone /\ b \in DOMAIN Alone
         /\ Triple(a, b, c) => a \in DOMAIN Alone /\ c \in DOMAIN Alone
                               /\ Pair(a, b)
         /\ b = "=" /\ a \in DOMAIN WithEq => b # a \/ a \notin DOMAIN Doubled
         /\ a = "-" /\ b = ">" => b # "=" /\ b # a
<1>1. "=" \in DOMAIN Alone /\ ">" \in DOMAIN Alone /\ "-" \in DOMAIN Alone
  BY Zenon DEF Alone
<1>2. a \in DOMAIN WithEq => a \in DOMAIN Alone
  BY Zenon DEF Alone, WithEq
<1>3. a \in DOMAIN Doubled => a \in DOMAIN Alone /\ a # "="
  BY Zenon DEF Alone, Doubled
<1>4. a \in DOMAIN Shifts => a \in DOMAIN Alone /\ a \in DOMAIN Doubled
  BY Zenon DEF Alone, Doubled, Shifts
<1>5. ">" # "=" /\ ">" # "-"
  BY Zenon
<1> QED
  BY <1>1, <1>2, <1>3, <1>4, <1>5, Zenon DEF Pair, Triple

LEMMA AloneFacts ==
  /\ \A a \in DOMAIN Alone : /\ a # "\n" /\ a # "end" /\ a # QuoteMark /\ a # Apostrophe
                             /\ a \notin Letters /\ a \notin Decimal
  /\ {"END", "BAD", "INLINE_ASM"} \cap DOMAIN Spelled = {}
<1>1. "\n" \notin DOMAIN Alone /\ "end" \notin DOMAIN Alone
  BY Zenon DEF Alone
<1>2. "END" \notin DOMAIN Spelled
  BY Zenon DEF Spelled
<1>3. "BAD" \notin DOMAIN Spelled
  BY Zenon DEF Spelled
<1>4. "INLINE_ASM" \notin DOMAIN Spelled
  BY Zenon DEF Spelled
<1>5. {"END", "BAD", "INLINE_ASM"} \cap DOMAIN Spelled = {}
  BY <1>2, <1>3, <1>4, Zenon
<1>6. \A a \in DOMAIN Alone : a # "\n" /\ a # "end" /\ a # QuoteMark /\ a # Apostrophe
  BY <1>1, MarkClasses, Zenon
<1>7. \A a \in DOMAIN Alone : a \notin Letters /\ a \notin Decimal
  BY SymbolClasses, Zenon
<1> QED
  BY <1>5, <1>6, <1>7, Zenon

LEMMA OperatorLexemes ==
  ASSUME source \in Seq(Symbols), NEW p \in 1 .. Len(source) + 1, Sym(p) \in DOMAIN Alone
  PROVE  /\ p \in 1 .. Len(source)
         /\ p + 1 \in LexemesFrom(p)
         /\ Pair(Sym(p), Sym(p + 1)) => p + 2 \in LexemesFrom(p)
         /\ Triple(Sym(p), Sym(p + 1), Sym(p + 2)) => p + 3 \in LexemesFrom(p)
         /\ \A q \in LexemesFrom(p) :
              \/ q = p + 1
              \/ q = p + 2 /\ Pair(Sym(p), Sym(p + 1))
              \/ q = p + 3 /\ Triple(Sym(p), Sym(p + 1), Sym(p + 2))
<1> DEFINE a == Sym(p)
           b == Sym(p + 1)
           c == Sym(p + 2)
<1>1. p \in 1 .. Len(source)
  <2>1. Sym(p) # "end"
    BY AloneFacts, Zenon
  <2> QED
    BY <2>1, SymFacts
<1>2. p \in Nat
  BY <1>1, SymFacts
<1>3. /\ Part(source, p, p + 1) = <<a>>
      /\ Part(source, p, p + 2) = <<a, b>>
      /\ Part(source, p, p + 3) = <<a, b, c>>
  BY <1>2, PartOne, PartTwo, PartThree, Zenon
<1>4. Pair(a, b) => b # "end"
  BY AloneFacts, PairsAlone, Zenon
<1>5. Triple(a, b, c) => b # "end" /\ c # "end"
  BY AloneFacts, PairsAlone, Zenon
<1>6. p + 1 \in p + 1 .. Len(source) + 1 /\ (p + 1) - p <= 3
  BY <1>1, SymFacts
<1>7. Pair(a, b) => p + 2 \in p + 1 .. Len(source) + 1 /\ (p + 2) - p <= 3
  BY <1>1, <1>4, SymFacts
<1>8. Triple(a, b, c) => p + 3 \in p + 1 .. Len(source) + 1 /\ (p + 3) - p <= 3
  BY <1>1, <1>5, SymFacts
<1>9. p + 1 \in LexemesFrom(p)
  BY <1>3, <1>6, SingleText, Zenon DEF LexemesFrom, Lexeme
<1>10. Pair(a, b) => p + 2 \in LexemesFrom(p)
  BY <1>3, <1>7, PairText, Zenon DEF LexemesFrom, Lexeme
<1>11. Triple(a, b, c) => p + 3 \in LexemesFrom(p)
  BY <1>3, <1>8, TripleText, Zenon DEF LexemesFrom, Lexeme
<1>12. ASSUME NEW q \in LexemesFrom(p)
       PROVE  \/ q = p + 1
              \/ q = p + 2 /\ Pair(a, b)
              \/ q = p + 3 /\ Triple(a, b, c)
  <2>1. q \in p + 1 .. Len(source) + 1 /\ q - p <= 3 /\ Part(source, p, q) \in OperatorTexts
    BY AloneFacts, LexemeClass, Zenon
  <2>2. q = p + 1 \/ q = p + 2 \/ q = p + 3
    BY <1>1, <2>1, SymFacts
  <2> QED
    BY <1>3, <2>1, <2>2, PairText, TripleText, Zenon
<1> QED
  BY <1>1, <1>9, <1>10, <1>11, <1>12

LEMMA ReadsOperator ==
  ASSUME source \in Seq(Symbols), NEW p \in 1 .. Len(source), NEW next \in LexemesFrom(p),
         NEW kind \in DOMAIN Spelled, Spelled[kind] = Part(source, p, next),
         \A q \in LexemesFrom(p) : q <= next
  PROVE  TakesLexeme(kind, p, next)
<1>1. p # Len(source) + 1
  BY SymFacts
<1> QED
  BY <1>1, AloneFacts, Zenon DEF TakesLexeme

LEMMA OperatorReads ==
  ASSUME source \in Seq(Symbols), NEW p \in 1 .. Len(source) + 1, Sym(p) \in DOMAIN Alone
  PROVE  /\ Triple(Sym(p), Sym(p + 1), Sym(p + 2)) =>
              /\ p + 3 \in LexemesFrom(p) /\ Newlines(p, p + 3) = 0
              /\ TakesLexeme(Shifts[Sym(p)], p, p + 3)
         /\ ~Triple(Sym(p), Sym(p + 1), Sym(p + 2)) /\ Pair(Sym(p), Sym(p + 1)) =>
              /\ p + 2 \in LexemesFrom(p) /\ Newlines(p, p + 2) = 0
              /\ Sym(p + 1) = "=" /\ Sym(p) \in DOMAIN WithEq =>
                   TakesLexeme(WithEq[Sym(p)], p, p + 2)
              /\ Sym(p + 1) = Sym(p) /\ Sym(p) \in DOMAIN Doubled =>
                   TakesLexeme(Doubled[Sym(p)], p, p + 2)
              /\ Sym(p) = "-" /\ Sym(p + 1) = ">" => TakesLexeme("ARROW", p, p + 2)
         /\ ~Pair(Sym(p), Sym(p + 1)) =>
              /\ p + 1 \in LexemesFrom(p) /\ Newlines(p, p + 1) = 0
              /\ TakesLexeme(Alone[Sym(p)], p, p + 1)
<1> DEFINE a == Sym(p)
           b == Sym(p + 1)
           c == Sym(p + 2)
<1>1. p \in Nat /\ p \in 1 .. Len(source) /\ p + 1 \in Nat /\ p + 2 \in Nat /\ p + 3 \in Nat
  BY OperatorLexemes, SymFacts
<1>2. /\ Part(source, p, p + 1) = <<a>>
      /\ Part(source, p, p + 2) = <<a, b>>
      /\ Part(source, p, p + 3) = <<a, b, c>>
  BY <1>1, PartOne, PartTwo, PartThree, Zenon
<1>3. p + 1 <= p + 1 /\ p + 1 <= p + 2 /\ p + 2 <= p + 2 /\ p + 1 <= p + 3 /\ p + 2 <= p + 3
      /\ p + 3 <= p + 3
  BY <1>1
<1>4. a # "\n" /\ (Pair(a, b) => b # "\n") /\ (Triple(a, b, c) => Pair(a, b) /\ c # "\n")
  BY AloneFacts, PairsAlone, Zenon
<1>5. /\ \A r \in p .. (p + 1) - 1 : r = p
      /\ \A r \in p .. (p + 2) - 1 : r = p \/ r = p + 1
      /\ \A r \in p .. (p + 3) - 1 : r = p \/ r = p + 1 \/ r = p + 2
  BY <1>1
<1>6. Newlines(p, p + 1) = 0
  BY <1>1, <1>4, <1>5, NewlinesNone, Zenon
<1>7. Pair(a, b) => Newlines(p, p + 2) = 0
  BY <1>1, <1>4, <1>5, NewlinesNone, Zenon
<1>8. Triple(a, b, c) => Newlines(p, p + 3) = 0
  BY <1>1, <1>4, <1>5, NewlinesNone, Zenon
<1>9. ASSUME Triple(a, b, c) PROVE p + 3 \in LexemesFrom(p) /\ TakesLexeme(Shifts[a], p, p + 3)
  <2>1. Shifts[a] \in DOMAIN Spelled /\ Spelled[Shifts[a]] = <<a, a, "=">>
    BY <1>9, ShiftsSpelled, Zenon DEF Shift, Triple
  <2>2. Spelled[Shifts[a]] = Part(source, p, p + 3)
    BY <1>2, <1>9, <2>1, Zenon DEF Triple
  <2>3. p + 3 \in LexemesFrom(p) /\ \A q \in LexemesFrom(p) : q <= p + 3
    BY <1>3, <1>9, OperatorLexemes, Zenon
  <2> QED
    BY <1>1, <2>1, <2>2, <2>3, ReadsOperator, Zenon
<1>10. ASSUME ~Triple(a, b, c), Pair(a, b)
       PROVE  /\ p + 2 \in LexemesFrom(p)
              /\ b = "=" /\ a \in DOMAIN WithEq => TakesLexeme(WithEq[a], p, p + 2)
              /\ b = a /\ a \in DOMAIN Doubled => TakesLexeme(Doubled[a], p, p + 2)
              /\ a = "-" /\ b = ">" => TakesLexeme("ARROW", p, p + 2)
  <2>1. p + 2 \in LexemesFrom(p) /\ \A q \in LexemesFrom(p) : q <= p + 2
    BY <1>3, <1>10, OperatorLexemes, Zenon
  <2>2. ASSUME b = "=", a \in DOMAIN WithEq PROVE TakesLexeme(WithEq[a], p, p + 2)
    <3>1. WithEq[a] \in DOMAIN Spelled /\ Spelled[WithEq[a]] = Part(source, p, p + 2)
      BY <1>2, <2>2, Equals, Zenon DEF Equal
    <3> QED
      BY <1>1, <2>1, <3>1, ReadsOperator, Zenon
  <2>3. ASSUME b = a, a \in DOMAIN Doubled PROVE TakesLexeme(Doubled[a], p, p + 2)
    <3>1. Doubled[a] \in DOMAIN Spelled /\ Spelled[Doubled[a]] = Part(source, p, p + 2)
      BY <1>2, <2>3, Doubles, Zenon DEF Double
    <3> QED
      BY <1>1, <2>1, <3>1, ReadsOperator, Zenon
  <2>4. ASSUME a = "-", b = ">" PROVE TakesLexeme("ARROW", p, p + 2)
    <3>1. "ARROW" \in DOMAIN Spelled /\ Spelled["ARROW"] = <<"-", ">">>
      BY Zenon DEF Spelled
    <3> QED
      BY <1>1, <1>2, <2>1, <2>4, <3>1, ReadsOperator, Zenon
  <2> QED
    BY <2>1, <2>2, <2>3, <2>4
<1>11. ASSUME ~Pair(a, b) PROVE p + 1 \in LexemesFrom(p) /\ TakesLexeme(Alone[a], p, p + 1)
  <2>1. Alone[a] \in DOMAIN Spelled /\ Spelled[Alone[a]] = Part(source, p, p + 1)
    BY <1>2, Singles, Zenon DEF Single
  <2>2. p + 1 \in LexemesFrom(p) /\ \A q \in LexemesFrom(p) : q <= p + 1
    BY <1>3, <1>4, <1>11, OperatorLexemes, Zenon
  <2> QED
    BY <1>1, <2>1, <2>2, ReadsOperator, Zenon
<1> QED
  BY <1>4, <1>6, <1>7, <1>8, <1>9, <1>10, <1>11, Zenon

LEMMA BadReads ==
  ASSUME source \in Seq(Symbols), NEW p \in 1 .. Len(source),
         Sym(p) \notin Letters \cup DOMAIN Alone, ~IsDigit(Sym(p)),
         Sym(p) # QuoteMark, Sym(p) # Apostrophe
  PROVE  TakesLexeme("BAD", p, p + 1)
<1>1. p \in 1 .. Len(source) + 1 /\ p # Len(source) + 1
  BY SymFacts
<1>2. Sym(p) \notin Decimal
  BY SymbolClasses, Zenon
<1>3. LexemesFrom(p) = {}
  BY <1>1, <1>2, LexemeClass, Zenon
<1> QED
  BY <1>1, <1>3, Zenon DEF TakesLexeme

LEMMA EndReads ==
  ASSUME source \in Seq(Symbols)
  PROVE  TakesLexeme("END", Len(source) + 1, Len(source) + 1)
<1>1. LexemesFrom(Len(source) + 1) = {}
  BY SymFacts DEF LexemesFrom
<1> QED
  BY <1>1, Zenon DEF TakesLexeme

-------------------------------------------------------------------------------
(* The invariant.                                                              *)
Previous == IF tokens = <<>> THEN 1 ELSE tokens[Len(tokens)].next
LexInv ==
  /\ source \in Seq(Symbols) /\ \E S : tokens \in Seq(S)
  /\ Previous \in 1 .. Len(source) + 1 /\ pos \in Previous .. Len(source) + 1
  /\ Gap(Previous, pos)
  /\ EscapedLine \/ line = 1 + Newlines(1, pos)
  /\ ReadsLexemes

LEMMA NoComment ==
  ASSUME source \in Seq(Symbols), NEW p \in Nat, NEW q \in Nat, Comment(source, p, q)
  PROVE  CommentAt(p)
<1>1. Part(source, p, p + 2) = <<"/", "*">> \/ Part(source, p, p + 2) = <<"/", "/">>
  BY Zenon DEF Comment
<1>2. Sym(p) = "/" /\ (Sym(p + 1) = "*" \/ Sym(p + 1) = "/")
  BY <1>1, PartTwo, Zenon
<1> QED
  BY <1>2, Zenon DEF CommentAt

LEMMA AtFacts ==
  ASSUME LexInv
  PROVE  /\ At \in pos .. Len(source) + 1 /\ At \in 1 .. Len(source) + 1 /\ Begins(Previous, At)
         /\ ~CommentAt(At) /\ Gap(Previous, At)
         /\ Sym(At) = "end" <=> At = Len(source) + 1
         /\ Newlines(1, At) = Newlines(1, pos) + Newlines(pos, At)
         /\ \A q \in At .. Len(source) + 1 : Newlines(1, q) = Newlines(1, At) + Newlines(At, q)
<1>1. source \in Seq(Symbols) /\ Previous \in 1 .. Len(source) + 1
      /\ pos \in Previous .. Len(source) + 1 /\ Gap(Previous, pos)
  BY Zenon DEF LexInv
<1>2. pos \in 1 .. Len(source) + 1
  BY <1>1, SymFacts
<1>3. Begins(pos, At)
  BY <1>1, <1>2, SkipFacts, Zenon DEF At
<1>4. Begins(Previous, At)
  BY <1>1, <1>3, BeginsLater, Zenon
<1>5. At \in pos .. Len(source) + 1 /\ ~CommentAt(At)
  BY <1>3, Zenon DEF Begins
<1>6. Gap(Previous, At)
  BY <1>4, Zenon DEF Begins
<1> HIDE DEF At
<1>7. At \in 1 .. Len(source) + 1 /\ (Sym(At) = "end" <=> At = Len(source) + 1)
  BY <1>1, <1>2, <1>5, SymFacts
<1>8. 1 \in Nat /\ pos \in Nat /\ At \in Nat /\ 1 <= pos /\ pos <= At /\ 1 <= At
  BY <1>1, <1>2, <1>5, <1>7, SymFacts
<1>9. Newlines(1, At) = Newlines(1, pos) + Newlines(pos, At)
  BY <1>8, NewlinesSum, Zenon
<1>10. ASSUME NEW q \in At .. Len(source) + 1
       PROVE  Newlines(1, q) = Newlines(1, At) + Newlines(At, q)
  <2>1. q \in Nat /\ At <= q
    BY <1>8
  <2> QED
    BY <1>8, <2>1, NewlinesSum, Zenon
<1> QED
  BY <1>4, <1>5, <1>6, <1>7, <1>9, <1>10

LEMMA SameText ==
  ASSUME source' = source
  PROVE  /\ \A p, q : Gap(p, q)' <=> Gap(p, q)
         /\ \A p, q : Newlines(p, q)' = Newlines(p, q)
         /\ EscapedLine' <=> EscapedLine
<1>1. \A p : Unclosed(p)' <=> Unclosed(p)
  BY Zenon DEF Unclosed
<1>2. \A p, q : Gap(p, q)' <=> Gap(p, q)
  BY <1>1, Zenon DEF Gap, Runaway
<1>3. \A p : Sym(p)' = Sym(p)
  BY Zenon DEF Sym
<1>4. \A p, q : Newlines(p, q)' = Newlines(p, q)
  BY <1>3, Zenon DEF Newlines
<1>5. EscapedLine' <=> EscapedLine
  BY Zenon DEF EscapedLine
<1> QED
  BY <1>2, <1>4, <1>5

(* A token that reads as it should.                                            *)
LEMMA TokenAsC ==
  ASSUME source \in Seq(Symbols), NEW previous \in 1 .. Len(source) + 1, NEW t,
         t.from \in previous .. Len(source) + 1,
         Gap(previous, t.from), ~CommentAt(t.from), TakesLexeme(t.kind, t.from, t.next),
         EscapedLine \/ t.line = 1 + Newlines(1, t.from)
  PROVE  ReadAsC(source, previous, t)
<1>1. CASE Runaway(previous, t.from)
  BY <1>1, Zenon DEF ReadAsC, Runaway, Unclosed
<1>2. CASE ~Runaway(previous, t.from)
  <2>1. Space(source, previous, t.from)
    BY <1>2, Zenon DEF Gap
  <2>2. t.kind = "END" <=> t.from = Len(source) + 1
    BY Zenon DEF TakesLexeme
  <2>3. ASSUME NEW q \in 1 .. Len(source) + 1, Comment(source, t.from, q) PROVE FALSE
    <3>1. t.from \in Nat /\ q \in Nat
      BY SymFacts
    <3> QED
      BY <2>3, <3>1, NoComment, Zenon
  <2>4. LexemesFrom(t.from) # {} /\ t.kind # "INLINE_ASM" =>
          /\ t.kind # "BAD"
          /\ t.next \in LexemesFrom(t.from) /\ \A q \in LexemesFrom(t.from) : q <= t.next
          /\ Part(source, t.from, t.next) \in OperatorTexts =>
               Spelled[t.kind] = Part(source, t.from, t.next)
    BY Zenon DEF TakesLexeme
  <2>5. Newlines(1, t.from) = Cardinality({p \in 1 .. t.from - 1 : source[p] = "\n"})
    <3>1. \A p \in 1 .. t.from - 1 : Sym(p) = source[p]
      BY SymFacts
    <3>2. {p \in 1 .. t.from - 1 : Sym(p) = "\n"} = {p \in 1 .. t.from - 1 : source[p] = "\n"}
      BY <3>1, Zenon
    <3> QED
      BY <3>2, Zenon DEF Newlines
  <2>6. EscapedLine
        \/ t.line = 1 + Cardinality({p \in 1 .. t.from - 1 : source[p] = "\n"})
    BY <2>5, Zenon
  <2> QED
    BY <2>1, <2>2, <2>3, <2>4, <2>6, Zenon DEF ReadAsC, LexemesFrom, EscapedLine
<1> QED
  BY <1>1, <1>2

LEMMA TokenStep ==
  ASSUME LexInv, NEW kind, NEW read, NEW value, NEW next \in At .. Len(source) + 1, NEW newlines,
         Token(kind, read, value, next, newlines), TakesLexeme(kind, At, next),
         EscapedLine \/ newlines = Newlines(At, next)
  PROVE  LexInv'
<1> DEFINE t == [kind |-> kind, text |-> read, value |-> value, from |-> At,
                 next |-> next, line |-> line + Newlines(pos, At)]
           n == Len(tokens)
<1>1. source \in Seq(Symbols) /\ Previous \in 1 .. Len(source) + 1
      /\ pos \in Previous .. Len(source) + 1
      /\ (EscapedLine \/ line = 1 + Newlines(1, pos))
  BY Zenon DEF LexInv
<1>2. PICK S : tokens \in Seq(S)
  BY Zenon DEF LexInv
<1>3. tokens' = Append(tokens, t) /\ pos' = next /\ line' = line + Newlines(pos, At) + newlines
      /\ source' = source
  BY Zenon DEF Token
<1>4. t.kind = kind /\ t.from = At /\ t.next = next /\ t.line = line + Newlines(pos, At)
  BY Zenon
<1> HIDE DEF t
<1>5. /\ tokens' \in Seq(S \cup {t}) /\ tokens' # <<>> /\ Len(tokens') = n + 1 /\ n \in Nat
      /\ tokens'[Len(tokens')] = t
      /\ Previous = IF Len(tokens') = 1 THEN 1 ELSE tokens'[Len(tokens') - 1].next
  BY <1>2, <1>3 DEF Previous
<1>6. /\ At \in Previous .. Len(source) + 1 /\ At \in 1 .. Len(source) + 1
      /\ ~CommentAt(At) /\ Gap(Previous, At)
  BY <1>1, AtFacts DEF Begins
<1>7. 1 + Newlines(1, pos) + Newlines(pos, At) = 1 + Newlines(1, At)
      /\ 1 + Newlines(1, At) + Newlines(At, next) = 1 + Newlines(1, next)
  <2>1. 1 \in Nat /\ pos \in Nat /\ At \in Nat /\ next \in Nat /\ 1 <= pos /\ pos <= At /\ At <= next
    BY <1>1, AtFacts, SymFacts
  <2>2. Newlines(1, pos) \in Nat /\ Newlines(pos, At) \in Nat /\ Newlines(At, next) \in Nat
    BY <2>1, NewlinesSplit, Zenon
  <2>3. Newlines(1, At) = Newlines(1, pos) + Newlines(pos, At)
        /\ Newlines(1, next) = Newlines(1, At) + Newlines(At, next)
    BY AtFacts, Zenon
  <2> QED
    BY <2>2, <2>3
<1>8. EscapedLine \/ t.line = 1 + Newlines(1, At)
  BY <1>1, <1>4, <1>7, Zenon
<1>9. ReadAsC(source, Previous, t)
  BY <1>1, <1>4, <1>6, <1>8, TokenAsC, Zenon
<1>10. ReadsLexemes'
  BY <1>3, <1>5, <1>9, Zenon DEF ReadsLexemes
<1>11. EscapedLine \/ line' = 1 + Newlines(1, next)
  BY <1>1, <1>3, <1>7, Zenon
<1>12. Previous' = next /\ next \in 1 .. Len(source) + 1 /\ next \in next .. Len(source) + 1
       /\ next \in Nat
  <2>1. Previous' = next
    BY <1>4, <1>5, Zenon DEF Previous
  <2>2. next \in 1 .. Len(source) + 1
    BY <1>1, <1>6, SymFacts
  <2> QED
    BY <1>1, <2>1, <2>2, SymFacts
<1>13. Gap(next, next)
  BY <1>12, SpaceHere, Zenon DEF Gap
<1> QED
  BY <1>1, <1>3, <1>5, <1>10, <1>11, <1>12, <1>13, SameText, Zenon DEF LexInv

LEMMA NewLineStep ==
  ASSUME LexInv, NewLine
  PROVE  LexInv'
<1>1. source \in Seq(Symbols) /\ Previous \in 1 .. Len(source) + 1
      /\ pos \in Previous .. Len(source) + 1
      /\ (EscapedLine \/ line = 1 + Newlines(1, pos)) /\ (\E S : tokens \in Seq(S)) /\ ReadsLexemes
  BY Zenon DEF LexInv
<1>2. Sym(At) = "\n" /\ pos' = At + 1 /\ line' = line + Newlines(pos, At + 1)
      /\ source' = source /\ tokens' = tokens
  BY Zenon DEF NewLine
<1>3. At \in pos .. Len(source) + 1 /\ At \in 1 .. Len(source) + 1 /\ Gap(Previous, At)
      /\ (Sym(At) = "end" <=> At = Len(source) + 1)
  BY AtFacts, Zenon
<1>4. At # Len(source) + 1
  BY <1>2, <1>3, Zenon
<1> HIDE DEF At
<1>5. At \in 1 .. Len(source) /\ source[At] = Sym(At) /\ At + 1 \in Previous .. Len(source) + 1
      /\ At \in Nat /\ At + 1 \in Nat /\ Previous \in Nat /\ pos \in Nat /\ 1 \in Nat
      /\ Previous <= At /\ At <= At + 1 /\ pos <= At /\ pos <= At + 1 /\ 1 <= pos /\ At + 1 > At
  BY <1>1, <1>3, <1>4, SymFacts
<1>6. Gap(Previous, At + 1)
  <2>1. Blank(source, At, At + 1)
    BY <1>2, <1>5, Zenon DEF Blank
  <2>2. Space(source, At, At)
    BY <1>5, SpaceHere, Zenon
  <2>3. Space(source, At, At + 1)
    BY <1>5, <2>1, <2>2, SpaceAppend, Zenon
  <2>4. Gap(At, At + 1)
    BY <2>3, Zenon DEF Gap
  <2> QED
    BY <1>3, <1>5, <2>4, GapJoin, Zenon
<1>7. EscapedLine \/ line' = 1 + Newlines(1, At + 1)
  <2>1. Newlines(1, At + 1) = Newlines(1, pos) + Newlines(pos, At + 1)
    BY <1>5, NewlinesSum, Zenon
  <2>2. Newlines(1, pos) \in Nat /\ Newlines(pos, At + 1) \in Nat
    BY <1>5, NewlinesSplit, Zenon
  <2>3. 1 + Newlines(1, pos) + Newlines(pos, At + 1) = 1 + Newlines(1, At + 1)
    BY <2>1, <2>2
  <2> QED
    BY <1>1, <1>2, <2>3, Zenon
<1>8. Previous' = Previous /\ ReadsLexemes'
  BY <1>1, <1>2, Zenon DEF Previous, ReadsLexemes
<1> QED
  BY <1>1, <1>2, <1>5, <1>6, <1>7, <1>8, SameText, Zenon DEF LexInv

LEMMA EndStep ==
  ASSUME LexInv, End
  PROVE  LexInv'
<1>1. Sym(At) = "end" /\ Token("END", <<>>, 0, At, 0) /\ source \in Seq(Symbols)
  BY Zenon DEF End, LexInv
<1>2. At = Len(source) + 1
  BY <1>1, AtFacts, Zenon
<1>3. TakesLexeme("END", At, At)
  BY <1>1, <1>2, EndReads, Zenon
<1>4. At \in At .. Len(source) + 1 /\ At \in Nat
  BY <1>1, AtFacts, SymFacts
<1>5. Newlines(At, At) = 0
  <2>1. \A r \in At .. At - 1 : Sym(r) # "\n"
    BY <1>4
  <2> QED
    BY <1>4, <2>1, NewlinesNone, Zenon
<1> QED
  BY <1>1, <1>3, <1>4, <1>5, TokenStep, Zenon

LEMMA WordStep ==
  ASSUME LexInv, Word
  PROVE  LexInv'
<1> DEFINE read == TextOf(At, WordEnd)
           key  == IF Len(read) = 1 THEN read[1] ELSE "end"
           kind == IF key \in DOMAIN Keywords THEN Keywords[key] ELSE "IDENT"
<1>1. Sym(At) \in Letters /\ Token(kind, read, 0, WordEnd, 0) /\ source \in Seq(Symbols)
      /\ At \in 1 .. Len(source) + 1
  BY AtFacts, Zenon DEF Word, LexInv
<1>2. kind \notin {"END", "BAD"}
  BY KeywordKinds, Zenon
<1> HIDE DEF key, read, kind
<1>3. WordEnd \in At + 1 .. Len(source) + 1 /\ TakesLexeme(kind, At, WordEnd)
      /\ Newlines(At, WordEnd) = 0
  BY <1>1, <1>2, WordReads, Zenon DEF WordEnd
<1>4. WordEnd \in At .. Len(source) + 1
  BY <1>1, <1>3, SymFacts
<1> QED
  BY <1>1, <1>3, <1>4, TokenStep, Zenon

LEMMA InlineAsmStep ==
  ASSUME LexInv, InlineAsm
  PROVE  LexInv'
<1> DEFINE open     == Skip[WordEnd]
           count(q, s) == Cardinality({r \in open .. q : Sym(r) = s})
           close    == FirstFrom(open, LAMBDA q : count(q, "{") = count(q, "}"))
           next     == IF close > Len(source) THEN close ELSE close + 1
           S        == {q \in Int : count(q, "{") = count(q, "}")}
<1>1. source \in Seq(Symbols) /\ At \in 1 .. Len(source) + 1 /\ Sym(At) \in Letters
  BY AtFacts, Zenon DEF InlineAsm, LexInv
<1>2. Token("INLINE_ASM", TextOf(open + 1, close), 0, next, Newlines(At, next))
  BY Zenon DEF InlineAsm
<1>3. WordEnd \in At + 1 .. Len(source) + 1
  <2>1. "IDENT" \notin {"END", "BAD"}
    BY Zenon
  <2> QED
    BY <1>1, <2>1, WordReads, Zenon DEF WordEnd
<1>4. WordEnd \in 1 .. Len(source) + 1
  BY <1>1, <1>3, SymFacts
<1>5. open \in WordEnd .. Len(source) + 1
  BY <1>1, <1>4, SkipFacts, Zenon DEF Begins
<1> HIDE DEF open
<1>6. open \in 1 .. Len(source) + 1 /\ \A q \in open .. Len(source) + 1 : q \in Int
                                         /\ \A r \in open .. q - 1 : r \in Int
  BY <1>1, <1>4, <1>5, SymFacts
<1>7. \E q \in open .. Len(source) + 1 : /\ q > Len(source) \/ count(q, "{") = count(q, "}")
                                         /\ \A r \in open .. q - 1 : ~(count(r, "{") = count(r, "}"))
  <2>1. \E q \in open .. Len(source) + 1 : (q > Len(source) \/ q \in S)
                                           /\ \A r \in open .. q - 1 : r \notin S
    BY <1>1, <1>6, SymFacts, FirstExists, Zenon
  <2> QED
    BY <1>6, <2>1, Zenon
<1>8. close \in open .. Len(source) + 1
  BY <1>7, Zenon DEF FirstFrom
<1> HIDE DEF close
<1>9. next \in At .. Len(source) + 1 /\ At # Len(source) + 1
  BY <1>1, <1>3, <1>5, <1>8, SymFacts
<1> HIDE DEF next
<1>10. TakesLexeme("INLINE_ASM", At, next)
  BY <1>9, Zenon DEF TakesLexeme
<1> QED
  BY <1>2, <1>9, <1>10, TokenStep, Zenon

LEMMA NumeralStep ==
  ASSUME LexInv, Numeral
  PROVE  LexInv'
<1> DEFINE hex  == Sym(At) = "0" /\ Sym(At + 1) \in Exes
           next == IF hex THEN FirstFrom(At + 2, LAMBDA q : Sym(q) \notin DOMAIN Digit)
                   ELSE FirstFrom(At, LAMBDA q : ~IsDigit(Sym(q)))
           read == TextOf(At, next)
           value == IF hex THEN Number(SubSeq(read, 3, Len(read)), 16) ELSE Number(read, 10)
<1>1. IsDigit(Sym(At)) /\ Token("NUMBER", read, value, next, 0) /\ source \in Seq(Symbols)
      /\ At \in 1 .. Len(source) + 1
  BY AtFacts, Zenon DEF Numeral, LexInv, Exes
<1> HIDE DEF read, value
<1>2. next \in At + 1 .. Len(source) + 1 /\ TakesLexeme("NUMBER", At, next) /\ Newlines(At, next) = 0
  <2>1. CASE hex
    BY <1>1, <2>1, HexReads, Zenon
  <2>2. CASE ~hex
    BY <1>1, <2>2, DecimalReads, Zenon
  <2> QED
    BY <2>1, <2>2, Zenon
<1> HIDE DEF next
<1>3. next \in At .. Len(source) + 1
  BY <1>1, <1>2, SymFacts
<1> QED
  BY <1>1, <1>2, <1>3, TokenStep, Zenon

LEMMA StringStep ==
  ASSUME LexInv, StringLiteral
  PROVE  LexInv'
<1> DEFINE s == StringFrom[At + 1]
           next == IF s.close > Len(source) THEN s.close ELSE s.close + 1
<1>1. Sym(At) = QuoteMark /\ Token("STRING", s.text, 0, next, s.newlines)
      /\ source \in Seq(Symbols) /\ At \in 1 .. Len(source) + 1
  BY AtFacts, Zenon DEF StringLiteral, QuoteMark, LexInv
<1>2. At + 1 \in 1 .. Len(source) + 1
  <2>1. QuoteMark # "end"
    BY Zenon DEF QuoteMark
  <2> QED
    BY <1>1, <2>1, SymFacts
<1>3. Ending(At + 1, s.close) /\ (EscapedLine \/ s.newlines = Newlines(At + 1, s.close))
  BY <1>1, <1>2, StringFacts, Zenon DEF StringRead
<1> HIDE DEF s
<1>4. next \in At + 1 .. Len(source) + 1 /\ TakesLexeme("STRING", At, next)
      /\ Newlines(At, next) = Newlines(At + 1, s.close)
  BY <1>1, <1>3, StringReads, Zenon
<1> HIDE DEF next
<1>5. next \in At .. Len(source) + 1
  BY <1>1, <1>4, SymFacts
<1> QED
  BY <1>1, <1>3, <1>4, <1>5, TokenStep, Zenon

LEMMA CharStep ==
  ASSUME LexInv, CharLiteral
  PROVE  LexInv'
<1> DEFINE escape == Sym(At + 1) = "\\"
           at     == IF escape THEN At + 2 ELSE At + 1
           after  == IF at > Len(source) THEN at ELSE at + 1
           next   == IF Sym(after) = Apostrophe THEN after + 1 ELSE after
           value  == IF at > Len(source) THEN 0
                     ELSE CodeOf(IF escape THEN Escaped(Sym(at)) ELSE Sym(at))
<1>1. Sym(At) = Apostrophe /\ Token("CHAR_LIT", <<>>, value, next, Newlines(At, next))
      /\ source \in Seq(Symbols) /\ At \in 1 .. Len(source) + 1
  BY AtFacts, Zenon DEF CharLiteral, Apostrophe, LexInv
<1>2. next \in At + 1 .. Len(source) + 1 /\ TakesLexeme("CHAR_LIT", At, next)
  <2>1. escape \in BOOLEAN /\ (escape <=> Sym(At + 1) = "\\")
    BY Zenon
  <2>2. /\ at = IF escape THEN At + 2 ELSE At + 1
        /\ after = IF at > Len(source) THEN at ELSE at + 1
        /\ next = IF Sym(after) = Apostrophe THEN after + 1 ELSE after
    BY Zenon
  <2> HIDE DEF escape, at, after, next, value
  <2> QED
    BY <1>1, <2>1, <2>2, CharReads, Zenon
<1> HIDE DEF next, value
<1>3. next \in At .. Len(source) + 1
  BY <1>1, <1>2, SymFacts
<1> QED
  BY <1>1, <1>2, <1>3, TokenStep, Zenon

LEMMA OperatorStep ==
  ASSUME LexInv, Operator
  PROVE  LexInv'
<1> DEFINE a == Sym(At)
           b == Sym(At + 1)
           withEq  == b = "=" /\ a \in DOMAIN WithEq
           doubled == b = a /\ a \in DOMAIN Doubled
           shiftEq == doubled /\ a \in DOMAIN Shifts /\ Sym(At + 2) = "="
           arrow   == a = "-" /\ b = ">"
<1>1. /\ a \in DOMAIN Alone /\ source \in Seq(Symbols) /\ At \in 1 .. Len(source) + 1
      /\ \/ withEq /\ Token(WithEq[a], <<>>, 0, At + 2, 0)
         \/ doubled /\ ~shiftEq /\ Token(Doubled[a], <<>>, 0, At + 2, 0)
         \/ shiftEq /\ Token(Shifts[a], <<>>, 0, At + 3, 0)
         \/ arrow /\ Token("ARROW", <<>>, 0, At + 2, 0)
         \/ ~withEq /\ ~doubled /\ ~arrow /\ Token(Alone[a], <<>>, 0, At + 1, 0)
  BY AtFacts, Zenon DEF Operator, LexInv
<1>2. Pair(a, b) <=> withEq \/ doubled \/ arrow
  BY Zenon DEF Pair
<1>3. Triple(a, b, Sym(At + 2)) => shiftEq
  <2>1. a \in DOMAIN Shifts => a \in DOMAIN Doubled
    BY Zenon DEF Shifts, Doubled
  <2> QED
    BY <2>1, Zenon DEF Triple
<1>4. shiftEq => Triple(a, b, Sym(At + 2))
  BY Zenon DEF Triple
<1>5. (withEq => ~doubled) /\ (arrow => ~withEq /\ ~doubled)
  BY PairsAlone, Zenon
<1>6. \A q \in LexemesFrom(At) : q \in At .. Len(source) + 1
  BY <1>1, SymFacts DEF LexemesFrom
<1>7. CASE withEq /\ Token(WithEq[a], <<>>, 0, At + 2, 0)
  <2>1. At + 2 \in LexemesFrom(At) /\ Newlines(At, At + 2) = 0 /\ TakesLexeme(WithEq[a], At, At + 2)
    BY <1>1, <1>2, <1>3, <1>5, <1>7, OperatorReads, Zenon
  <2> QED
    BY <1>6, <1>7, <2>1, TokenStep, Zenon
<1>8. CASE doubled /\ ~shiftEq /\ Token(Doubled[a], <<>>, 0, At + 2, 0)
  <2>1. At + 2 \in LexemesFrom(At) /\ Newlines(At, At + 2) = 0 /\ TakesLexeme(Doubled[a], At, At + 2)
    BY <1>1, <1>2, <1>3, <1>8, OperatorReads, Zenon
  <2> QED
    BY <1>6, <1>8, <2>1, TokenStep, Zenon
<1>9. CASE shiftEq /\ Token(Shifts[a], <<>>, 0, At + 3, 0)
  <2>1. At + 3 \in LexemesFrom(At) /\ Newlines(At, At + 3) = 0 /\ TakesLexeme(Shifts[a], At, At + 3)
    BY <1>1, <1>4, <1>9, OperatorReads, Zenon
  <2> QED
    BY <1>6, <1>9, <2>1, TokenStep, Zenon
<1>10. CASE arrow /\ Token("ARROW", <<>>, 0, At + 2, 0)
  <2>1. At + 2 \in LexemesFrom(At) /\ Newlines(At, At + 2) = 0 /\ TakesLexeme("ARROW", At, At + 2)
    BY <1>1, <1>2, <1>3, <1>5, <1>10, OperatorReads, Zenon
  <2> QED
    BY <1>6, <1>10, <2>1, TokenStep, Zenon
<1>11. CASE ~withEq /\ ~doubled /\ ~arrow /\ Token(Alone[a], <<>>, 0, At + 1, 0)
  <2>1. At + 1 \in LexemesFrom(At) /\ Newlines(At, At + 1) = 0 /\ TakesLexeme(Alone[a], At, At + 1)
    BY <1>1, <1>2, <1>11, OperatorReads, Zenon
  <2> QED
    BY <1>6, <1>11, <2>1, TokenStep, Zenon
<1> QED
  BY <1>1, <1>7, <1>8, <1>9, <1>10, <1>11, Zenon

LEMMA UnexpectedStep ==
  ASSUME LexInv, Unexpected
  PROVE  LexInv'
<1>1. /\ Sym(At) \notin Letters \cup DOMAIN Alone /\ ~IsDigit(Sym(At)) /\ Sym(At) # QuoteMark
      /\ Sym(At) # Apostrophe /\ Sym(At) # "\n" /\ Sym(At) # "end"
      /\ Token("BAD", <<>>, 0, At + 1, 0) /\ source \in Seq(Symbols)
      /\ At \in 1 .. Len(source) + 1 /\ At # Len(source) + 1
  BY AtFacts, Zenon DEF Unexpected, QuoteMark, Apostrophe, LexInv
<1>2. At \in 1 .. Len(source) /\ At \in Nat /\ At + 1 \in At .. Len(source) + 1
  BY <1>1, SymFacts
<1>3. TakesLexeme("BAD", At, At + 1)
  BY <1>1, <1>2, BadReads, Zenon
<1>4. Newlines(At, At + 1) = 0
  BY <1>1, <1>2, NewlinesOne, Zenon
<1> QED
  BY <1>1, <1>2, <1>3, <1>4, TokenStep, Zenon

(* The lexer reads every source as C does: whatever next() has returned last   *)
(* begins where only blanks and comments lie behind it, is the longest lexeme  *)
(* there under its own name, and has its line.                                 *)
THEOREM LexemesRead == LexSpec => []ReadsLexemes
<1>1. LexInit => LexInv
  <2> SUFFICES ASSUME LexInit PROVE LexInv
    OBVIOUS
  <2>1. source \in Seq(Symbols) /\ pos = 1 /\ line = 1 /\ tokens = <<>>
    BY DEF LexInit
  <2>2. tokens \in Seq({}) /\ Len(tokens) = 0
    BY <2>1
  <2>3. Previous = 1 /\ 1 \in 1 .. Len(source) + 1 /\ pos \in 1 .. Len(source) + 1
    <3>1. Previous = 1
      BY <2>1, Zenon DEF Previous
    <3> QED
      BY <2>1, <3>1, SymFacts
  <2>4. Gap(1, 1)
    BY SpaceHere DEF Gap
  <2>5. Newlines(1, 1) = 0
    <3>1. \A r \in 1 .. 1 - 1 : Sym(r) # "\n"
      OBVIOUS
    <3> QED
      BY <3>1, NewlinesNone
  <2>6. line = 1 + Newlines(1, pos)
    BY <2>1, <2>5
  <2> QED
    BY <2>1, <2>2, <2>3, <2>4, <2>6, Zenon DEF LexInv, ReadsLexemes
<1>2. LexInv /\ [Lex]_lvars => LexInv'
  <2> SUFFICES ASSUME LexInv, [Lex]_lvars PROVE LexInv'
    OBVIOUS
  <2>1. CASE Lex
    BY <2>1, NewLineStep, EndStep, WordStep, InlineAsmStep, NumeralStep, StringStep, CharStep,
       OperatorStep, UnexpectedStep, Zenon DEF Lex
  <2>2. CASE UNCHANGED lvars
    <3>1. source' = source /\ pos' = pos /\ line' = line /\ tokens' = tokens
      BY <2>2, Zenon DEF lvars
    <3>2. Previous' = Previous /\ (ReadsLexemes' <=> ReadsLexemes)
      BY <3>1, Zenon DEF Previous, ReadsLexemes
    <3> QED
      BY <3>1, <3>2, SameText, Zenon DEF LexInv
  <2> QED
    BY <2>1, <2>2
<1>3. LexInv => ReadsLexemes
  BY Zenon DEF LexInv
<1> QED
  BY <1>1, <1>2, <1>3, PTL DEF LexSpec
===============================================================================
