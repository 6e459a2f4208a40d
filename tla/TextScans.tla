------------------------------ MODULE TextScans ------------------------------
(***************************************************************************)
(* forbidden-std-imports and hardcoded-address read the text of a file and *)
(* not its tree. Each has a lexer of its own, line by line, to tell code   *)
(* from comments and strings. A text is a sequence of tokens: the         *)
(* delimiters, "word" (`std::` for one check, an address for the other)    *)
(* and "line" for the end of a line. The file is one of a contract, which  *)
(* is all the first check looks at, and no line is a doc attribute, which  *)
(* the second skips.                                                       *)
(***************************************************************************)
EXTENDS Naturals, Sequences, FiniteSetsExt, SequencesExt

CONSTANT MaxText   \* bound: tokens

VARIABLE text

Tokens == {"/*", "*/", "//", "quote", "word", "line"}

-----------------------------------------------------------------------------
(* What a text is to the compiler: comments nest, strings span lines. *)

Lex(mode, token) ==
  CASE mode = "string"       -> IF token = "quote" THEN "code" ELSE "string"
    [] mode = "line comment" -> IF token = "line" THEN "code" ELSE mode
    [] mode = "code"         -> CASE token = "/*" -> "comment" [] token = "quote" -> "string"
                                  [] token = "//" -> "line comment" [] token = "*/" -> "error"
                                  [] OTHER -> "code"
    [] mode = "comment"      -> IF token = "*/" THEN "code" ELSE IF token = "/*" THEN "nested" ELSE mode
    [] mode = "nested"       -> IF token = "*/" THEN "comment" ELSE IF token = "/*" THEN "error" ELSE mode
    [] OTHER                 -> "error"      \* or three comments deep, which is left out

\* The mode a token is read in; a file the compiler rejects is not scanned.
Mode(t, i) ==
  LET mode[k \in 0 .. Len(t)] == IF k = 0 THEN "code" ELSE Lex(mode[k - 1], t[k])
  IN mode[i - 1]
Parses(t) == Mode(t, Len(t) + 1) \in {"code", "line comment"}

-----------------------------------------------------------------------------
(* Lines, as sets of positions *)

Breaks(t)    == {i \in DOMAIN t : t[i] = "line"}
LineOf(t, i) == Cardinality({j \in Breaks(t) : j < i}) + 1
Line(t, n)   == {i \in DOMAIN t : LineOf(t, i) = n /\ t[i] # "line"}
LineCount(t) == Cardinality(Breaks(t)) + 1

\* What a piece of a line has, and its parts before and after a token's first place.
Has(t, s, token)        == \E i \in s : t[i] = token
StartsWith(t, s, token) == \E i \in s : t[i] = token /\ \A j \in s : i <= j
Upto(t, s, token)       == {i \in s : \A j \in s : t[j] = token => i < j}
After(t, s, token)      == {i \in s : \E j \in s : t[j] = token /\ j < i}

-----------------------------------------------------------------------------
(* forbidden-std-imports: the state between lines is in_block_comment. *)

\* code_contains_std: outside of strings that are opened in this very piece
Quoted(t, s, i) == Cardinality({j \in s : t[j] = "quote" /\ j < i}) % 2 = 1
CodeContainsStd(t, s) == \E i \in s : t[i] = "word" /\ ~Quoted(t, s, i)

StripLineComment(t, s) == {i \in s : ~\E j \in s : t[j] = "//" /\ ~Quoted(t, s, j) /\ j <= i}

\* Mutant: the rest of a line on which a comment ends is skipped.
SkipToEnd(in_block, t, s) ==
  IF in_block
  THEN [hit |-> FALSE, block |-> ~Has(t, s, "*/")]
  ELSE IF StartsWith(t, s, "//") THEN [hit |-> FALSE, block |-> FALSE]
  ELSE IF Has(t, s, "/*")        THEN [hit |-> CodeContainsStd(t, Upto(t, s, "/*")), block |-> TRUE]
  ELSE [hit |-> CodeContainsStd(t, StripLineComment(t, s)), block |-> FALSE]
StdLine(in_block, t, s) ==
  IF in_block
  THEN [hit |-> CodeContainsStd(t, After(t, s, "*/")), block |-> ~Has(t, s, "*/")]
  ELSE IF StartsWith(t, s, "//") THEN [hit |-> FALSE, block |-> FALSE]
  ELSE IF Has(t, s, "/*")        THEN [hit |-> CodeContainsStd(t, Upto(t, s, "/*")), block |-> TRUE]
  ELSE [hit |-> CodeContainsStd(t, StripLineComment(t, s)), block |-> FALSE]

InBlock(t, n) ==
  LET block[k \in 0 .. LineCount(t)] == k > 0 /\ StdLine(block[k - 1], t, Line(t, k)).block
  IN block[n - 1]
ForbiddenStdImports(t) == {n \in 1 .. LineCount(t) : StdLine(InBlock(t, n), t, Line(t, n)).hit}

-----------------------------------------------------------------------------
(* hardcoded-address: effective_lines keeps strings, and forgets at the end *)
(* of a line that it was in one. Comments do not nest.                      *)

Keep(mode, token) ==
  CASE token = "line"    -> IF mode = "comment" THEN mode ELSE "code"
    [] mode = "comment"  -> IF token = "*/" THEN "code" ELSE mode
    [] mode = "string"   -> IF token = "quote" THEN "code" ELSE mode
    [] mode = "code"     -> CASE token = "/*" -> "comment" [] token = "quote" -> "string"
                              [] token = "//" -> "dropped" [] OTHER -> mode
    [] OTHER             -> mode
Kept(t, i) ==
  LET mode[k \in 0 .. Len(t)] == IF k = 0 THEN "code" ELSE Keep(mode[k - 1], t[k])
  IN mode[i - 1]
HardcodedAddress(t) == {i \in DOMAIN t : t[i] = "word" /\ Kept(t, i) \in {"code", "string"}}

-----------------------------------------------------------------------------

Init == text = <<>>
Next == Len(text) < MaxText /\ \E token \in Tokens : text' = Append(text, token)

-----------------------------------------------------------------------------
(* Property *)

\* What the two lexers do not know: a comment in a comment, a string that goes
\* on in the next line, and to the first also a comment that only looks like one,
\* or that opens on a line where it or another ends.
Nested(t, i)    == \E j \in 1 .. i : Mode(t, j) = "nested"
Spanning(t, i)  == \E j \in 1 .. i : t[j] = "line" /\ Mode(t, j) = "string"
FakeOpen(t, i)  ==
  \E j \in 1 .. i : /\ t[j] = "/*"
                    /\ \/ Mode(t, j) # "code"
                       \/ \E k \in 1 .. i : t[k] = "*/" /\ Mode(t, k) = "comment" /\ LineOf(t, k) = LineOf(t, j)
\* A line with the end of a comment is code from there on to the first.
AfterClose(t, n) == Has(t, Line(t, n), "*/")

\* In a file that parses, an address in code or in a string is reported and one
\* in a comment is not, as long as no string spans lines and no comments nest;
\* a line with std:: in its code is reported and no other, as long as, besides,
\* every comment that opens is one and none ends on its line; on the line where
\* it ends, what follows is looked at whatever it is. (The code and its
\* tests leave comments out of hardcoded-address, the documentation does not:
\* see CommentsAreSearched.)
TextFindings ==
  Parses(text) =>
    /\ \A i \in DOMAIN text : text[i] = "word" /\ ~Nested(text, i) /\ ~Spanning(text, i) =>
         (i \in HardcodedAddress(text) <=> Mode(text, i) \in {"code", "string"})
    /\ \A n \in 1 .. LineCount(text) :
         LET end  == Max({0} \cup {i \in DOMAIN text : LineOf(text, i) <= n})
             code == \E i \in Line(text, n) : text[i] = "word" /\ Mode(text, i) = "code"
         IN ~Nested(text, end) /\ ~Spanning(text, end) /\ ~FakeOpen(text, end) =>
              /\ code => n \in ForbiddenStdImports(text)
              /\ n \in ForbiddenStdImports(text) => code \/ AfterClose(text, n)
=============================================================================
