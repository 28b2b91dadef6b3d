------------------------------ MODULE MCEditor ------------------------------
(***************************************************************************)
(* Three files that hold every construct of the language between them, and *)
(* two that compile.                                                       *)
(***************************************************************************)
EXTENDS EditorSession, TLC

Signs == {"{", "}", "(", ")", "[", "]", ",", ":", ".", "..", "=", "->", "+", "-", "*", "/", "%",
          "<", "<=", ">", ">=", "==", "!=", "&&", "||", "!"}
Numbers == "0" :> Num(0, "") @@ "1" :> Num(One, "") @@ "2" :> Num(2 * One, "") @@ "0.5" :> Num(5000000, "")
  @@ "0.0000227" :> Num(227, "") @@ "0.0000263" :> Num(263, "") @@ "0.000023" :> Num(230, "") @@ "90deg" :> Num(90 * One, "deg") @@ "200ms" :> Num(200 * One, "ms")
  @@ "2m" :> Num(2 * One, "m") @@ "64" :> Num(64 * One, "")
Strings == {"'x'", "'you'"}
Colors == {"ff8000", "ff800080"}
Notes == {"one", "two", "three", "four", "five", "ff8000x"}

Lexeme(s) ==
  CASE s \in Signs -> Sign(s) [] s \in DOMAIN Numbers -> Numbers[s] [] s \in Strings -> Str(s)
    [] s \in Colors -> Hash(0, s) [] s \in Notes -> Hash(1, s) [] s = "nl" -> LineEnd [] OTHER -> Word(s)
Written(lines) ==
  FlattenSeq([k \in DOMAIN lines |-> [j \in DOMAIN lines[k] |-> Lexeme(lines[k][j])] \o <<LineEnd>>])

Scene == Written(<<
  <<"lumen", "1">>,
  <<>>, <<"one">>,
  <<"effect", "'x'", "{">>,
  <<"author", "'you'">>, <<"requires", "grid", ",", "rough">>, <<"budget", "64", "on", "esp32">>,
  <<"param", "speed", ":", "float", "=", "0.5", "range", "200ms", "..", "2", "unit", "hz", "label", "'you'">>,
  <<"channel", "bass", ":", "sim", "<", "swarm", ">", "hold", "64", "default", "0">>,
  <<"state", "heat", ":", "color", "=", "rgb", "(", "0.0000263", ",", "nl", "1", ",", "2m", ")">>,
  <<"}">>,
  <<"curve", "ease", "{">>, <<"0", "1">>, <<"0.5", "0.000023">>, <<"}">>,
  <<"two">> >>)
Arithmetic == Written(<<
  <<"lumen", "1">>,
  <<"palette", "warm", "{">>, <<"space", "hsv">>, <<"0", "ff8000">>, <<"1", "ff800080">>, <<"}">>,
  <<"effect", "'x'", "{">>,
  <<"let", "a", "=", "90deg", "*", "(", "u", "-", "(", "v", "-", "1", ")", ")", "/", "-", "t">>,
  <<"one">>,
  <<"mask", "top", "=", "a", ".", "x", ">", "0.5", "two">>,
  <<"fn", "f", "(", "v", ":", "float", ")", "->", "float", "{">>, <<"return", "v">>, <<"}">>,
  <<"}">> >>)
Simulated == Written(<<
  <<"lumen", "1">>,
  <<"effect", "'x'", "{">>,
  <<"sim", "swarm", "(", "count", "=", "64", ")", "{">>,
  <<"foreach", "p", "in", "swarm", "{">>, <<"if", "p", ".", "y", "<", "0", "{">>, <<"p", ".", "y", "=", "1">>,
  <<"}", "else", "{">>, <<"let", "k", "=", "0">>, <<"}">>, <<"}">>, <<"}">>,
  <<"one">>,
  <<"layer", "base", "mask", "(", "top", ")", "blend", "add", "opacity", "0.5", "{">>,
  <<"let", "k", "=", "f", "(", "a", ")">>, <<"color", "=", "k">>, <<"two">>,
  <<"}">>, <<>>, <<"three">>, <<"}">> >>)
\* Names of every kind and rate, in scopes of their own.
Layered == Written(<<
  <<"lumen", "1">>, <<"effect", "'x'", "{">>,
  <<"param", "speed", ":", "float", "=", "0.5", "range", "0", "..", "2">>, <<"channel", "bass", ":", "value">>,
  <<"let", "b", "=", "u", "+", "bass">>, <<"let", "a", "=", "t", "*", "speed">>,
  <<"mask", "top", "=", "b", ">", "a">>,
  <<"fn", "f", "(", "v", ":", "float", ")", "{">>, <<"return", "v">>, <<"}">>,
  <<"layer", "base", "{">>, <<"let", "k", "=", "f", "(", "b", ")">>,
  <<"color", "=", "palette", "(", "warm", ",", "k", ")">>, <<"}">>,
  <<"layer", "over", "mask", "(", "top", ")", "opacity", "a", "{">>,
  <<"let", "j", "=", "ease_out", "(", "u", ")">>, <<"color", "=", "rgb", "(", "j", ",", "b", ",", "0", ")">>, <<"}">>,
  <<"}">> >>)
Flock == Written(<<
  <<"lumen", "1">>, <<"effect", "'x'", "{">>, <<"stdlib", "2">>,
  <<"state", "heat", ":", "color", "=", "ff8000">>, <<"let", "b", "=", "u">>,
  <<"sim", "swarm", "(", "count", "=", "2", ")", "{">>, <<"foreach", "p", "in", "swarm", "{">>,
  <<"let", "k", "=", "p", ".", "vel", "*", "dt">>, <<"p", ".", "pos", "=", "p", ".", "pos", "+", "k">>,
  <<"}">>, <<"}">>,
  <<"layer", "base", "{">>, <<"let", "k", "=", "swarm", ".", "nearest", "(", "pos", ")">>,
  <<"heat", "=", "heat", "*", "b">>, <<"color", "=", "rgb", "(", "k", ",", "heat", ".", "r", ",", "0", ")">>,
  <<"}">>, <<"}">> >>)

\* What the files call of the standard library.
Eased ==
  [kind |-> "fn", name |-> "ease_out", formals |-> <<<<"x", "float">>>>, ret |-> <<"float">>, lets |-> <<>>,
   result |-> <<<<"Binary", "*", <<"Ident", "x">>, <<"Ident", "x">>>>>>, start |-> 0]
MCLibrary ==
  LET v1 == [fns |-> <<Eased>>,
             palettes |-> <<[kind |-> "palette", name |-> "warm", space |-> "oklab", stops |-> <<>>, start |-> 0]>>]
  IN  <<v1, [v1 EXCEPT !.fns = Append(@, [Eased EXCEPT !.name = "pow2"])]>>

\* A sign in front of a vector in brackets.
SignedBase == Written(<<
  <<"lumen", "1">>, <<"effect", "'x'", "{">>,
  <<"let", "a", "=", "(", "-", "v", ")", ".", "x">>, <<"}">> >>)

SignedFiles == {SignedBase}

\* Numbers with a place more than is printed: a constant that rounds the other way
\* without it, and where a stop is.
FineConstant == Written(<<
  <<"lumen", "1">>, <<"effect", "'x'", "{">>, <<"let", "a", "=", "u", "+", "0.0000227">>, <<"}">> >>)
FineStop == Written(<<
  <<"lumen", "1">>, <<"palette", "warm", "{">>, <<"0.0000227", "ff8000">>, <<"}">> >>)

FineFiles == {FineConstant}
FineStops == {FineStop}
MCFiles == {Scene, Arithmetic, Simulated, Layered, Flock}
MCKeys ==
  {Sign(s) : s \in {"{", "}", "(", "-", ","}} \cup {Word(w) : w \in {"let", "layer", "else", "in"}}
    \cup {LineEnd, Num(One, ""), Hash(1, "four")}
Value(lexemes) == Expr([Ready(lexemes) EXCEPT !.at = 1], 0).node
MCWirings ==
  {Value(<<Word("u"), Sign("-"), Sign("("), Word("v"), Sign("+"), Word("t"), Sign(")")>>),
   Value(<<Sign("-"), Sign("("), Word("u"), Sign("*"), Num(7, ""), Sign(")")>>),
   Value(<<Word("f"), Sign("("), Word("k"), Sign(")")>>),
   Value(<<Word("rgb"), Sign("("), Word("a"), Sign(","), Word("b"), Sign(","), Word("k"), Sign(")")>>)}
    \cup {<<"Ident", n>> : n \in {"a", "b", "k", "j", "bass", "heat", "top", "v"}}
=============================================================================
