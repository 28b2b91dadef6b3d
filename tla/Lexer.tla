-------------------------------- MODULE Lexer --------------------------------
(***************************************************************************)
(* The lexer (lumen-lang, lex.rs).  A source file is a sequence of         *)
(* lexemes: words, numbers with their unit, strings, punctuation, line     *)
(* ends, and everything a hash can begin.  Spaces are left out, except the *)
(* one that tells a comment from a colour.                                 *)
(***************************************************************************)
EXTENDS Integers, Sequences, FiniteSets, SequencesExt

CONSTANT HexWords   \* what a colour may be written with: six or eight hex digits

Word(w) == <<"word", w>>
\* A number in steps of 10^-7, and "" or one of the units.
Num(n, unit) == <<"num", n, unit>>
Str(s) == <<"str", s>>
Sign(s) == <<s>>
LineEnd == <<"nl">>
EndOfFile == <<"eof">>
\* A hash, that many spaces, and what is on the line after them.
Hash(gap, body) == <<"#", gap, body>>

ConvertedUnits == {"deg", "ms", "%"}
Units == {"m", "s", "rad", "hz"} \cup ConvertedUnits

Openers == {Sign("("), Sign("[")}
Closers == {Sign(")"), Sign("]")}

IsColor(l) == l[1] = "#" /\ l[2] = 0 /\ l[3] \in HexWords
IsComment(l) == l[1] = "#" /\ ~IsColor(l)

\* A token and the source it covers, from start up to but not including end.
Token(tok, start, end) == [tok |-> tok, start |-> start, end |-> end]
At(l, i) == Token(IF IsColor(l) THEN <<"color", l[3]>> ELSE l, i, i + 1)

Nesting(depth, l) ==
  IF l \in Openers THEN depth + 1 ELSE IF l \in Closers /\ depth > 0 THEN depth - 1 ELSE depth

\* A line end ends a statement, once, and not inside brackets.
EndsStatement(out, depth) == depth = 0 /\ out # <<>> /\ Last(out).tok # LineEnd

ScanOne(src, i, s) ==
  IF src[i] = LineEnd THEN IF EndsStatement(s.out, s.depth) THEN [s EXCEPT !.out = Append(@, At(LineEnd, i))] ELSE s
  ELSE IF IsComment(src[i]) THEN s
  ELSE [depth |-> Nesting(s.depth, src[i]), out |-> Append(s.out, At(src[i], i))]

\* The({f(y) : y \in {x}}) is f(x), with x worked out before f is.
The(values) == CHOOSE v \in values : TRUE

\* The lexemes from lo to hi, one after another.
RECURSIVE Scan(_, _, _, _)
Scan(src, lo, hi, s) ==
  IF lo >= hi THEN IF lo > hi THEN s ELSE ScanOne(src, lo, s)
  ELSE The({Scan(src, (lo + hi) \div 2 + 1, hi, t) : t \in {Scan(src, lo, (lo + hi) \div 2, s)}})

\* The last line end is added if it is missing, whatever brackets are open.
Finish(out, end) ==
  (IF EndsStatement(out, 0) THEN Append(out, Token(LineEnd, end, end)) ELSE out)
    \o <<Token(EndOfFile, end, end)>>

Lex(src) == Finish(Scan(src, 1, Len(src), [depth |-> 0, out |-> <<>>]).out, Len(src) + 1)

OwnLine(src, i) == i = 1 \/ src[i - 1] = LineEnd
BlankBefore(src, i) == i > 2 /\ src[i - 1] = LineEnd /\ src[i - 2] = LineEnd

\* The text is trimmed at the end, and of one space at its start.
CommentTextWhole(l) == <<l[2], l[3]>>
CommentText(l) == IF l[3] = "" \/ l[2] = 0 THEN <<0, l[3]>> ELSE <<l[2] - 1, l[3]>>

CommentAt(src, i) ==
  [text |-> CommentText(src[i]), start |-> i, own |-> OwnLine(src, i), blank |-> BlankBefore(src, i)]

CommentsOf(src) ==
  LET places == SelectSeq([i \in 1..Len(src) |-> i], LAMBDA i : IsComment(src[i]))
  IN  [k \in DOMAIN places |-> CommentAt(src, places[k])]
=============================================================================
