--------------------------------- MODULE Lexer ---------------------------------
(***************************************************************************)
(* The C lexer of hvmc (src/src/tools/hvmc/src/lexer.cpp): next() called   *)
(* until the source ends or holds a character that begins no token.        *)
(*                                                                         *)
(* A source is a sequence of symbols.  A symbol is a character, or a run   *)
(* of letters taken as one: the lexer treats the letters of a word alike.  *)
(* The blank stands for spaces, tabs and carriage returns.                 *)
(*                                                                         *)
(* An operator whose name has an underscore is the one it precedes with a  *)
(* plausible mistake in it; no action uses it.  Of Lexemes only the        *)
(* property at the end speaks.                                             *)
(***************************************************************************)
EXTENDS Lexemes

CONSTANTS
  Letters,    (* the symbols that are letters                                  *)
  Digit,      (* the value of each symbol that is a hexadecimal digit          *)
  CodeOf(_)   (* the code of a character                                       *)

VARIABLES
  source,
  pos,        (* pos_ + 1                                                      *)
  line,
  tokens      (* what next() has returned                                      *)

lvars == <<source, pos, line, tokens>>

Keywords ==
  [if |-> "IF", else |-> "ELSE", while |-> "WHILE", for |-> "FOR", do |-> "DO",
   switch |-> "SWITCH", case |-> "CASE", default |-> "DEFAULT", break |-> "BREAK",
   continue |-> "CONTINUE", return |-> "RETURN", goto |-> "GOTO", int |-> "INT_KW",
   char |-> "CHAR_KW", short |-> "SHORT_KW", long |-> "LONG_KW", unsigned |-> "UNSIGNED",
   signed |-> "SIGNED", void |-> "VOID_KW", static |-> "STATIC", extern |-> "EXTERN",
   const |-> "CONST", volatile |-> "VOLATILE", typedef |-> "TYPEDEF",
   struct |-> "STRUCT_KW", sizeof |-> "SIZEOF"]

(* The kinds of the operators of one character, alone and followed by "=",    *)
(* and of the longer ones.                                                    *)
Alone ==
  [s \in {"=", "!", "<", ">", "&", "|", "+", "-", "*", "/", "%", "^", "(", ")", "{", "}", "[",
          "]", ";", ",", ".", "~", "?", ":"} |->
   CASE s = "=" -> "EQ"       [] s = "!" -> "EXCLAM"    [] s = "<" -> "LT"
     [] s = ">" -> "GT"       [] s = "&" -> "AMPER"     [] s = "|" -> "PIPE"
     [] s = "+" -> "PLUS"     [] s = "-" -> "MINUS"     [] s = "*" -> "STAR"
     [] s = "/" -> "SLASH"    [] s = "%" -> "PERCENT"   [] s = "^" -> "CARET"
     [] s = "(" -> "LPAREN"   [] s = ")" -> "RPAREN"    [] s = "{" -> "LBRACE"
     [] s = "}" -> "RBRACE"   [] s = "[" -> "LBRACKET"  [] s = "]" -> "RBRACKET"
     [] s = ";" -> "SEMICOLON" [] s = "," -> "COMMA"    [] s = "." -> "DOT"
     [] s = "~" -> "TILDE"    [] s = "?" -> "QUESTION"  [] s = ":" -> "COLON"]
WithEq ==
  [s \in {"=", "!", "<", ">", "&", "|", "+", "-", "*", "/", "%", "^"} |->
   CASE s = "=" -> "EQEQ"     [] s = "!" -> "NEQ"       [] s = "<" -> "LE"
     [] s = ">" -> "GE"       [] s = "&" -> "AMPER_EQ"  [] s = "|" -> "PIPE_EQ"
     [] s = "+" -> "PLUS_EQ"  [] s = "-" -> "MINUS_EQ"  [] s = "*" -> "STAR_EQ"
     [] s = "/" -> "SLASH_EQ" [] s = "%" -> "PERCENT_EQ" [] s = "^" -> "CARET_EQ"]
Doubled ==
  [s \in {"&", "|", "+", "-", "<", ">"} |->
   CASE s = "&" -> "ANDAND"   [] s = "|" -> "OROR"      [] s = "+" -> "PLUSPLUS"
     [] s = "-" -> "MINUSMINUS" [] s = "<" -> "LSHIFT"  [] s = ">" -> "RSHIFT"]
Shifts == [s \in {"<", ">"} |-> IF s = "<" THEN "LSHIFT_EQ" ELSE "RSHIFT_EQ"]

-------------------------------------------------------------------------------
Sym(p)      == IF p \in DOMAIN source THEN source[p] ELSE "end"
TextOf(p, q)  == SubSeq(source, p, q - 1)
IsDigit(s)  == s \in DOMAIN Digit /\ Digit[s] < 10
IsAlnum(s)  == s \in Letters \/ IsDigit(s)

(* The first position from p on with P, or the end of the source.             *)
FirstFrom(p, P(_)) ==
  CHOOSE q \in p .. Len(source) + 1 :
    (q > Len(source) \/ P(q)) /\ \A r \in p .. q - 1 : ~P(r)

Newlines(p, q) == Cardinality({r \in p .. q - 1 : Sym(r) = "\n"})

CommentAt(p) == Sym(p) = "/" /\ Sym(p + 1) \in {"/", "*"}

CommentEnd_FirstStar(p) ==
  IF Sym(p + 1) = "/" THEN FirstFrom(p, LAMBDA q : Sym(q) = "\n")
  ELSE LET close == FirstFrom(p + 1, LAMBDA q : Sym(q) = "*" /\ Sym(q + 1) = "/")
       IN IF close < Len(source) THEN close + 2
          ELSE IF p + 2 > Len(source) THEN p + 2 ELSE Len(source)

(* One that is not closed ends before the last character of the source.       *)
CommentEnd(p) ==
  IF Sym(p + 1) = "/" THEN FirstFrom(p, LAMBDA q : Sym(q) = "\n")
  ELSE LET close == FirstFrom(p + 2, LAMBDA q : Sym(q) = "*" /\ Sym(q + 1) = "/")
       IN IF close < Len(source) THEN close + 2
          ELSE IF p + 2 > Len(source) THEN p + 2 ELSE Len(source)

(* skip_whitespace_and_comments from p.                                       *)
Skip[p \in Nat] ==
  IF Sym(p) = " " THEN Skip[p + 1] ELSE IF CommentAt(p) THEN Skip[CommentEnd(p)] ELSE p

(* The value of the digits of s in a base.                                    *)
Number(s, base) ==
  LET value[n \in Nat] == IF n = 0 THEN 0 ELSE base * value[n - 1] + Digit[s[n]]
  IN value[Len(s)]

Escaped(s) == CASE s = "n" -> "\n" [] s = "r" -> "\r" [] s = "t" -> "\t" [] s = "0" -> "nul"
              [] OTHER -> s

(* A string from p on: its text, where its quote is, and the newlines that    *)
(* are counted in it: an escaped one is not.                                  *)
StringFrom[p \in Nat] ==
  IF Sym(p) \in {"\"", "end"} THEN [text |-> <<>>, close |-> p, newlines |-> 0]
  ELSE LET escape == Sym(p) = "\\" /\ Sym(p + 1) # "end"
           rest   == StringFrom[IF escape THEN p + 2 ELSE p + 1]
       IN [text     |-> <<IF escape THEN Escaped(Sym(p + 1)) ELSE Sym(p)>> \o rest.text,
           close    |-> rest.close,
           newlines |-> rest.newlines + IF Sym(p) = "\n" THEN 1 ELSE 0]

-------------------------------------------------------------------------------
(* next(): the token that begins at At.                                       *)
At == Skip[pos]

(* Any text; none of its characters is the end.                               *)
Symbols == STRING \ {"end"}
LexInit == source \in Seq(Symbols) /\ pos = 1 /\ line = 1 /\ tokens = <<>>

Ended == tokens # <<>> /\ tokens[Len(tokens)].kind \in {"END", "BAD"}

(* A token up to next, with so many newlines counted in it.                   *)
Token(kind, text, value, next, newlines) ==
  /\ tokens' = Append(tokens, [kind |-> kind, text |-> text, value |-> value, from |-> At,
                               next |-> next, line |-> line + Newlines(pos, At)])
  /\ pos' = next
  /\ line' = line + Newlines(pos, At) + newlines
  /\ UNCHANGED source

NewLine ==
  /\ Sym(At) = "\n"
  /\ pos' = At + 1 /\ line' = line + Newlines(pos, At + 1)
  /\ UNCHANGED <<source, tokens>>

End == Sym(At) = "end" /\ Token("END", <<>>, 0, At, 0)

WordEnd   == FirstFrom(At, LAMBDA q : ~IsAlnum(Sym(q)))
AsmOpens  == TextOf(At, WordEnd) = <<"asm">> /\ Sym(Skip[WordEnd]) = "{"

Word ==
  /\ Sym(At) \in Letters /\ ~AsmOpens
  /\ LET text == TextOf(At, WordEnd)
         key  == IF Len(text) = 1 THEN text[1] ELSE "end"
     IN Token(IF key \in DOMAIN Keywords THEN Keywords[key] ELSE "IDENT", text, 0, WordEnd, 0)

(* asm { ... }: everything up to the brace that closes the first one.         *)
InlineAsm ==
  /\ Sym(At) \in Letters /\ AsmOpens
  /\ LET open     == Skip[WordEnd]
         count(q, s) == Cardinality({r \in open .. q : Sym(r) = s})
         close    == FirstFrom(open, LAMBDA q : count(q, "{") = count(q, "}"))
         next     == IF close > Len(source) THEN close ELSE close + 1
     IN Token("INLINE_ASM", TextOf(open + 1, close), 0, next, Newlines(At, next))

Numeral ==
  /\ IsDigit(Sym(At))
  /\ LET hex  == Sym(At) = "0" /\ Sym(At + 1) \in {"x", "X"}
         next == IF hex THEN FirstFrom(At + 2, LAMBDA q : Sym(q) \notin DOMAIN Digit)
                 ELSE FirstFrom(At, LAMBDA q : ~IsDigit(Sym(q)))
         text == TextOf(At, next)
     IN Token("NUMBER", text,
              IF hex THEN Number(SubSeq(text, 3, Len(text)), 16) ELSE Number(text, 10), next, 0)

StringLiteral ==
  /\ Sym(At) = "\""
  /\ LET s == StringFrom[At + 1]
     IN Token("STRING", s.text, 0, IF s.close > Len(source) THEN s.close ELSE s.close + 1,
              s.newlines)

(* The character after the quote is taken whatever it is.                     *)
CharLiteral ==
  /\ Sym(At) = "'"
  /\ LET escape == Sym(At + 1) = "\\"
         at     == IF escape THEN At + 2 ELSE At + 1
         after  == IF at > Len(source) THEN at ELSE at + 1
         next   == IF Sym(after) = "'" THEN after + 1 ELSE after
         value  == IF at > Len(source) THEN 0
                   ELSE CodeOf(IF escape THEN Escaped(Sym(at)) ELSE Sym(at))
     IN Token("CHAR_LIT", <<>>, value, next, Newlines(At, next))

Operator ==
  /\ Sym(At) \in DOMAIN Alone
  /\ LET a == Sym(At)
         b == Sym(At + 1)
         withEq  == b = "=" /\ a \in DOMAIN WithEq
         doubled == b = a /\ a \in DOMAIN Doubled
         shiftEq == doubled /\ a \in DOMAIN Shifts /\ Sym(At + 2) = "="
         arrow   == a = "-" /\ b = ">"
     IN \/ withEq /\ Token(WithEq[a], <<>>, 0, At + 2, 0)
        \/ doubled /\ ~shiftEq /\ Token(Doubled[a], <<>>, 0, At + 2, 0)
        \/ shiftEq /\ Token(Shifts[a], <<>>, 0, At + 3, 0)
        \/ arrow /\ Token("ARROW", <<>>, 0, At + 2, 0)
        \/ ~withEq /\ ~doubled /\ ~arrow /\ Token(Alone[a], <<>>, 0, At + 1, 0)

(* An unexpected character: next() throws.                                    *)
Unexpected ==
  /\ Sym(At) \notin Letters \cup DOMAIN Alone \cup {"\n", "end", "\"", "'"} /\ ~IsDigit(Sym(At))
  /\ Token("BAD", <<>>, 0, At + 1, 0)

Lex == /\ ~Ended
       /\ \/ NewLine \/ End \/ Word \/ InlineAsm \/ Numeral
          \/ StringLiteral \/ CharLiteral \/ Operator \/ Unexpected

-------------------------------------------------------------------------------
(* The characters of the model: what is a letter, a digit or an operator is   *)
(* nothing else, and a 0x is a zero and a letter.                             *)
Others == {" ", "\n", "\"", "'", "\\", "end"}
ASSUME AlphabetAssumption ==
  /\ Words = Letters /\ HexDigits = DOMAIN Digit
  /\ Decimal = {s \in DOMAIN Digit : Digit[s] < 10} /\ Decimal \cap Letters = {}
  /\ (Letters \cup DOMAIN Digit) \cap (Others \cup DOMAIN Alone) = {}
  /\ "0" \in Decimal /\ Exes \subseteq Letters \ DOMAIN Digit

LexSpec == LexInit /\ [][Lex]_lvars

-------------------------------------------------------------------------------
(* A token, returned after one that ends before previous, is what C reads.    *)
ReadAsC(t, previous, token) ==
  LET unclosed == \E p \in previous .. token.from - 1 :
                    /\ Space(t, previous, p) /\ Part(t, p, p + 2) = <<"/", "*">>
                    /\ ~\E q \in p + 2 .. Len(t) : Part(t, q, q + 2) = <<"*", "/">>
      escaped  == \E p \in 1 .. Len(t) - 1 : Part(t, p, p + 2) = <<"\\", "\n">>
      lexemes  == {q \in token.from + 1 .. Len(t) + 1 : Lexeme(t, token.from, q)}
  IN unclosed \/
     /\ Space(t, previous, token.from)
     /\ token.kind = "END" <=> token.from = Len(t) + 1
     /\ ~\E q \in 1 .. Len(t) + 1 : Comment(t, token.from, q)
     /\ lexemes # {} /\ token.kind # "INLINE_ASM" =>
          /\ token.kind # "BAD"
          /\ token.next \in lexemes /\ \A q \in lexemes : q <= token.next
          /\ Part(t, token.from, token.next) \in OperatorTexts =>
               Spelled[token.kind] = Part(t, token.from, token.next)
     /\ escaped \/ token.line = 1 + Cardinality({p \in 1 .. token.from - 1 : t[p] = "\n"})

(* The lexer reads as C does, in the part of C of Lexemes.  Between two       *)
(* tokens there is nothing but blanks and comments; where a token begins the  *)
(* longest lexeme is taken, as what it is, and a source is refused only where *)
(* no lexeme begins; a token has the number of its line.  Unclosed comments,  *)
(* and ends of lines after a backslash, apart.                                *)
ReadsLexemes ==
  LET n == Len(tokens)
  IN tokens # <<>> => ReadAsC(source, IF n = 1 THEN 1 ELSE tokens[n - 1].next, tokens[n])
===============================================================================
