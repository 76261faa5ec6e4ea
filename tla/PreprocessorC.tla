------------------------------ MODULE PreprocessorC ------------------------------
(***************************************************************************)
(* The preprocessor beside the rules of C it is meant to follow.  groups   *)
(* is a history variable: for each frame, the conditional groups open in   *)
(* its file, with whether the current branch is selected and whether any   *)
(* branch was; macros is the one table of macros C has for all files, and  *)
(* text what C has written, line by line.  plain stays TRUE while the      *)
(* source has used nothing the code selects or expands otherwise than C    *)
(* does: no nested conditional, no #elif, no unbalanced directive, no      *)
(* directive in a group that is not selected, no macro with the value 0 as *)
(* a condition, no text whose macro stands for another macro.  The ends of *)
(* C's lines the code treats otherwise throughout; RunTogether says how.   *)
(***************************************************************************)
EXTENDS Preprocessor

VARIABLES groups, macros, text, plain

history == <<groups, macros, text, plain>>
cvars   == <<vars, history>>

(* A line of C's text: its words, and whether it is the line, empty now, on   *)
(* which the #include of a finished file stood.                               *)
TextLine(words) == [words |-> words, include |-> FALSE]
IncludeLine     == [words |-> <<>>, include |-> TRUE]

Open     == Last(groups)
Selected == \A k \in 1 .. Len(groups) : \A g \in 1 .. Len(groups[k]) : groups[k][g].on

(* A macro stands for its value; anything else for itself.                    *)
CValue(word) == IF word \in DOMAIN macros THEN macros[word] ELSE word
CCondition ==
  CASE Line.kind \in {"if", "elif"} -> CValue(Line.name) \in NonZero
    [] Line.kind = "ifdef"          -> Line.name \in DOMAIN macros
    [] Line.kind = "ifndef"         -> Line.name \notin DOMAIN macros

(* The groups of the top frame after its line.                                *)
OpenAfter ==
  CASE Line.kind \in Conditionals ->
         Append(Open, [on |-> CCondition, taken |-> CCondition])
    [] Line.kind = "elif" /\ Open # <<>> ->
         Append(Front(Open), [on |-> ~Last(Open).taken /\ CCondition,
                              taken |-> Last(Open).taken \/ CCondition])
    [] Line.kind = "else" /\ Open # <<>> ->
         Append(Front(Open), [on |-> ~Last(Open).taken, taken |-> TRUE])
    [] Line.kind = "endif" /\ Open # <<>> -> Front(Open)
    [] OTHER -> Open

(* C's macros and text after a line of the top frame; a macro that stands for *)
(* nothing leaves an empty line.                                              *)
MacrosAfter ==
  LET n == Line.name
  IN CASE Selected /\ Line.kind = "define" ->
            [x \in DOMAIN macros \cup {n} |-> IF x = n THEN Line.value ELSE macros[x]]
       [] Selected /\ Line.kind = "undef" -> [x \in DOMAIN macros \ {n} |-> macros[x]]
       [] OTHER -> macros

TextAfter ==
  LET value == CValue(Line.name)
  IN CASE Selected /\ Line.kind = "text" ->
            Append(text, TextLine(IF value = "" THEN <<>> ELSE <<value>>))
       [] Selected /\ Line.kind = "unknown" -> Append(text, TextLine(<<Line.name>>))
       [] OTHER -> text

Ordinary ==
  CASE Line.kind \in Conditionals ->
         /\ \A k \in 1 .. Len(groups) : groups[k] = <<>>
         /\ Line.kind = "if" => (CCondition <=> Condition)
    [] Line.kind = "elif" -> FALSE
    [] Line.kind = "else" -> Open # <<>> /\ (Last(Open).taken <=> Last(Open).on)
    [] Line.kind = "endif" -> Open # <<>>
    [] Line.kind = "text" ->
         Line.name \in DOMAIN macros => macros[Line.name] \notin DOMAIN macros
    [] OTHER -> Selected

CInit == /\ Init
         /\ groups = << <<>> >> /\ macros = <<>> /\ text = <<>> /\ plain = TRUE

(* A frame's groups come and go with it.                                      *)
Follow ==
  CASE Len(frames') > Len(frames) ->
         /\ groups' = Append(groups, <<>>) /\ plain' = (plain /\ Selected)
         /\ UNCHANGED <<macros, text>>
    [] Len(frames') < Len(frames) ->
         /\ groups' = Front(groups) /\ plain' = (plain /\ Open = <<>>)
         /\ text' = Append(text, IncludeLine) /\ UNCHANGED macros
    [] frames' = frames -> UNCHANGED history
    [] OTHER ->
         /\ groups' = [groups EXCEPT ![Len(groups)] = OpenAfter]
         /\ plain' = (plain /\ Ordinary)
         /\ macros' = MacrosAfter /\ text' = TextAfter

CSpec == CInit /\ [][(Step /\ Follow) \/ (Returned /\ UNCHANGED history)]_cvars

(* C's text without the ends of its lines: they run together, and the code    *)
(* breaks them only after an included file.                                   *)
Unended(line) == IF line.include THEN Append(line.words, Newline) ELSE line.words
RunTogether(lines) == FlattenSeq([i \in 1 .. Len(lines) |-> Unended(lines[i])])

(* What the frames that are alive have written so far, the outermost first.   *)
WrittenSoFar == FlattenSeq([k \in 1 .. Len(frames) |-> frames[k].output])

-------------------------------------------------------------------------------
(* On the plain part of the language, through includes inside and outside     *)
(* conditionals and include guards that the macros of other files decide, the *)
(* lines written are the ones C selects, in C's order, each with the value    *)
(* C's macros give it, none lost where one state hands its output to the      *)
(* state that included it; but not C's text, for they run together.           *)
PlainFollowsC == plain => WrittenSoFar = RunTogether(text)

(* And the macros at hand, which each included file copies and gives back,    *)
(* are the ones C has, so that the files after it see what it defined and     *)
(* undefined, however deep.                                                   *)
MacrosFollowC == plain => Top.defines = macros

(* However the files include each other, the stack of open files is bounded:  *)
(* no file is open twice, except that the root, which is not on the include   *)
(* stack, may include itself once more.                                       *)
NestingBounded ==
  \A i, j \in 2 .. Len(frames) : i # j => frames[i].file # frames[j].file

===============================================================================
