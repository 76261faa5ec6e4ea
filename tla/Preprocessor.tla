------------------------------ MODULE Preprocessor ------------------------------
(***************************************************************************)
(* The C preprocessor of hvmc (src/src/tools/hvmc/src/preprocessor.cpp):   *)
(* process_line over the lines of a source file and of the files it        *)
(* includes.                                                               *)
(*                                                                         *)
(* The recursion of preprocess_internal is a stack of frames, one for each *)
(* PreprocessorState that is alive, the root file's first.  A line is a    *)
(* record of its directive and the words the directive uses; a text line   *)
(* is one token.  The output is the stream the code writes, piece after    *)
(* piece, with Newline where it writes one.  Nothing else comes between    *)
(* two pieces: getline takes the end of a line off and no one puts it back *)
(* (preprocessor.cpp:76-81), so that the lines foo and bar are foobar.     *)
(*                                                                         *)
(* An operator whose name has an underscore is the one it precedes with a  *)
(* plausible mistake in it; no action uses it.                             *)
(***************************************************************************)
EXTENDS Integers, Sequences, SequencesExt

CONSTANTS
  Files,      (* names of the files that can be opened                  *)
  Root,       (* the file preprocess is called on                       *)
  Missing,    (* names no file answers to                               *)
  NonZero,    (* the tokens std::stoi reads as a number other than zero *)
  Sources,    (* what the root file may hold: sequences of lines        *)
  Headers,    (* what the others may: functions from their names        *)
  Newline

Conditionals == {"if", "ifdef", "ifndef"}

ASSUME FilesAssumption ==
  /\ Root \in Files /\ Files \cap Missing = {}
  /\ \A h \in Headers : DOMAIN h = Files \ {Root}

VARIABLES
  files,    (* what each file holds: chosen at the start, never changed   *)
  frames,   (* the PreprocessorStates, each with the place in its file    *)
  status    (* "running", "done" or "failed" when an exception is thrown  *)

vars == <<files, frames, status>>

Frame(f, stack, defs, inCond, active) ==
  [file |-> f, at |-> 1, output |-> <<>>, include_stack |-> stack, defines |-> defs,
   in_conditional |-> inCond, conditional_active |-> active]

Init ==
  /\ \E s \in Sources, h \in Headers :
       files = [f \in Files |-> IF f = Root THEN s ELSE h[f]]
  /\ frames = <<Frame(Root, <<>>, <<>>, FALSE, TRUE)>>
  /\ status = "running"

Top    == Last(frames)
AtEnd  == Top.at > Len(files[Top.file])
Line   == files[Top.file][Top.at]

(* The next line of the top frame is a directive or text of this kind.       *)
Reads(kinds) == status = "running" /\ ~AtEnd /\ Line.kind \in kinds

(* process_line is done with the line: the top frame becomes f, past it.     *)
Goto(f) == /\ frames' = [frames EXCEPT ![Len(frames)] = [f EXCEPT !.at = @ + 1]]
           /\ UNCHANGED <<files, status>>

(* preprocess_internal writes what process_line returned for the line, with   *)
(* no end of line, so that it continues the piece before; but not while the   *)
(* frame is inside a conditional group that is not active.                    *)
Write(f, s) == IF f.in_conditional /\ ~f.conditional_active
               THEN f ELSE [f EXCEPT !.output = @ \o s]

Fail == status' = "failed" /\ UNCHANGED <<files, frames>>

-------------------------------------------------------------------------------
(* #define and #undef take effect whether or not the group is active.        *)
Define == /\ Reads({"define"})
          /\ LET n == Line.name
             IN Goto([Top EXCEPT !.defines = [x \in DOMAIN @ \cup {n} |->
                                                IF x = n THEN Line.value ELSE @[x]]])

Undef == /\ Reads({"undef"})
         /\ Goto([Top EXCEPT !.defines = [x \in DOMAIN @ \ {Line.name} |-> @[x]]])

(* The included file is processed by a state of its own, which starts from a  *)
(* copy of this one; the line is left only when that state is finished.       *)
Include_EmptyStack ==
  /\ Reads({"include"})
  /\ IF Contains(Top.include_stack, Line.name) \/ Line.name \in Missing THEN Fail
     ELSE /\ frames' = Append(frames, Frame(Line.name, <<Line.name>>, Top.defines,
                                            Top.in_conditional, Top.conditional_active))
          /\ UNCHANGED <<files, status>>

Include ==
  /\ Reads({"include"})
  /\ IF Contains(Top.include_stack, Line.name) \/ Line.name \in Missing THEN Fail
     ELSE /\ frames' = Append(frames, Frame(Line.name, Append(Top.include_stack, Line.name),
                                            Top.defines, Top.in_conditional,
                                            Top.conditional_active))
          /\ UNCHANGED <<files, status>>

(* The end of an included file: its macros and its output go to the includer, *)
(* its conditional state does not.                                            *)
EndOfInclude_KeepsOwnMacros ==
  /\ status = "running" /\ AtEnd /\ Len(frames) > 1
  /\ LET outer == [frames[Len(frames) - 1] EXCEPT !.at = @ + 1]
     IN frames' = Append(SubSeq(frames, 1, Len(frames) - 2),
                         Write(outer, Append(Top.output, Newline)))
  /\ UNCHANGED <<files, status>>

EndOfInclude ==
  /\ status = "running" /\ AtEnd /\ Len(frames) > 1
  /\ LET outer == [frames[Len(frames) - 1] EXCEPT !.defines = Top.defines, !.at = @ + 1]
     IN frames' = Append(SubSeq(frames, 1, Len(frames) - 2),
                         Write(outer, Append(Top.output, Newline)))
  /\ UNCHANGED <<files, status>>

EndOfRoot ==
  /\ status = "running" /\ AtEnd /\ Len(frames) = 1
  /\ status' = "done"
  /\ UNCHANGED <<files, frames>>

(* evaluate_constant: a macro is true when its value is not empty.            *)
Evaluate(word, defs) == IF word \in DOMAIN defs THEN defs[word] # "" ELSE word \in NonZero

Condition ==
  CASE Line.kind \in {"if", "elif"} -> Evaluate(Line.name, Top.defines)
    [] Line.kind = "ifdef"          -> Line.name \in DOMAIN Top.defines
    [] Line.kind = "ifndef"         -> Line.name \notin DOMAIN Top.defines

If == /\ Reads(Conditionals)
      /\ Goto([Top EXCEPT !.in_conditional = TRUE,
                          !.conditional_active = @ /\ Condition])

Else == /\ Reads({"else"})
        /\ Goto(IF Top.in_conditional THEN [Top EXCEPT !.conditional_active = ~@] ELSE Top)

Elif == /\ Reads({"elif"})
        /\ Goto(IF Top.in_conditional
                THEN [Top EXCEPT !.conditional_active = ~@ /\ Condition] ELSE Top)

Endif_StaysInactive ==
  /\ Reads({"endif"})
  /\ Goto([Top EXCEPT !.in_conditional = FALSE])

Endif == /\ Reads({"endif"})
         /\ Goto([Top EXCEPT !.in_conditional = FALSE, !.conditional_active = TRUE])

Error == Reads({"error"}) /\ Fail

Pragma == Reads({"pragma"}) /\ Goto(Top)

(* expand_macro replaces the macros one after the other, in the unspecified   *)
(* order of an unordered_map; a replaced token may be replaced again by a     *)
(* macro that comes later.                                                    *)
Expand(token, defs, order) ==
  LET after[i \in 0 .. Len(order)] ==
        IF i = 0 THEN token
        ELSE IF after[i - 1] = order[i] THEN defs[order[i]] ELSE after[i - 1]
  IN after[Len(order)]

Expansions(token, defs) == {Expand(token, defs, order) : order \in SetToSeqs(DOMAIN defs)}

Text == /\ Reads({"text"})
        /\ IF Top.conditional_active
           THEN \E t \in Expansions(Line.name, Top.defines) :
                  Goto(IF t = "" THEN Top ELSE Write(Top, <<t>>))
           ELSE Goto(Top)

(* A directive it does not know is passed through as it stands.               *)
Unknown == Reads({"unknown"}) /\ Goto(Write(Top, <<Line.name>>))

Step == \/ Define \/ Undef \/ Include \/ EndOfInclude \/ EndOfRoot
        \/ If \/ Else \/ Elif \/ Endif \/ Error \/ Pragma \/ Text
        \/ Unknown

(* The call of preprocess has returned or thrown.                             *)
Returned == status # "running" /\ UNCHANGED vars

Spec == Init /\ [][Step \/ Returned]_vars

===============================================================================
