------------------------------- MODULE Parser -------------------------------
(***************************************************************************)
(* The parser (lumen-lang, parse.rs): recursive descent over the tokens,   *)
(* precedence climbing for expressions, recovery at statement ends.        *)
(*                                                                         *)
(* A parser is [toks, at, wrong, node, none, todo, stack].  What an        *)
(* operator returns is in node, unless none is set: the code's Option.     *)
(* wrong is set by an error.  A statement form is a sequence of steps, in  *)
(* the order in which the function that parses it takes them; todo is      *)
(* what is left of it.  stack holds the nodes whose blocks are open, the   *)
(* file first: the functions that have been called and have not returned.  *)
(***************************************************************************)
EXTENDS Lexer

Peek(p) == p.toks[p.at].tok
Here(p) == p.toks[p.at].start
IsWord(p, w) == Peek(p) = Word(w)

Bump(p) == IF p.at < Len(p.toks) THEN [p EXCEPT !.at = @ + 1] ELSE p

Give(p, node) == [p EXCEPT !.node = node, !.none = FALSE]
Error(p) == [p EXCEPT !.wrong = TRUE]
Refuse(p) == [Error(p) EXCEPT !.none = TRUE]

\* Reports, and goes on as if it had been there.
Expect(p, tok) == IF Peek(p) = tok THEN Bump(p) ELSE Error(p)

Ident(p) == IF Peek(p)[1] = "word" THEN Give(Bump(p), Peek(p)[2]) ELSE Refuse(p)
String(p) == IF Peek(p)[1] = "str" THEN Give(Bump(p), Peek(p)[2]) ELSE Refuse(p)

One == 10000000
IsWhole(n) == n % One = 0

Integer(p) ==
  IF Peek(p)[1] # "num" THEN Refuse(p)
  ELSE LET n == Peek(p)[2]
           q == Bump(IF Peek(p)[3] # "" THEN Error(p) ELSE p)
       IN  IF IsWhole(n) THEN Give(q, n \div One) ELSE [Error(q) EXCEPT !.none = TRUE]

RECURSIVE SkipNewlines(_)
SkipNewlines(p) == IF Peek(p) = LineEnd THEN SkipNewlines(Bump(p)) ELSE p

RECURSIVE RecoverFrom(_, _)
RecoverFrom(p, depth) ==
  LET t == Peek(p)
  IN  IF t = EndOfFile \/ (t = Sign("}") /\ depth <= 0) THEN p
      ELSE IF t = LineEnd /\ depth <= 0 THEN Bump(p)
      ELSE RecoverFrom(Bump(p), depth + (IF t = Sign("{") THEN 1 ELSE IF t = Sign("}") THEN -1 ELSE 0))

Recover(p) == RecoverFrom(p, 0)

EndOfStatement(p) ==
  IF Peek(p) = LineEnd THEN Bump(p)
  ELSE IF Peek(p) \in {EndOfFile, Sign("}")} THEN p
  ELSE Recover(Error(p))

-----------------------------------------------------------------------------
(* Expressions *)

Precedence(op) ==
  CASE op = "||" -> 1 [] op = "&&" -> 2
    [] op \in {"==", "!="} -> 3 [] op \in {"<", "<=", ">", ">="} -> 4
    [] op \in {"+", "-"} -> 5 [] op \in {"*", "/", "%"} -> 6
    [] OTHER -> 0

\* What a literal stands for: radians, seconds and fractions.
Converted(n, unit) ==
  CASE unit = "deg" -> ((n \div One) * 17453293) \div 100
    [] unit = "ms" -> n \div 1000 [] unit = "%" -> n \div 100 [] OTHER -> n

Number(value, unit) == <<"Number", value, unit>>
Binary(op, l, r) == <<"Binary", op, l, r>>
Unary(op, e) == <<"Unary", op, e>>
FieldOf(base, f) == <<"Field", base, f>>
Call(callee, args) == <<"Call", callee, args>>
MethodCall(base, m, args) == <<"MethodCall", base, m, args>>

RECURSIVE Expr(_, _), Climb(_, _), UnaryExpr(_), Postfix(_), Args(_, _), Primary(_)

Expr(p, minimum) == Climb(UnaryExpr(p), minimum)

Join(p, op, r) == IF r.none THEN r ELSE Give(r, Binary(op, p.node, r.node))

Climb(p, minimum) ==
  IF p.none \/ Precedence(Peek(p)[1]) <= minimum THEN p
  ELSE Climb(Join(p, Peek(p)[1], Expr(Bump(p), Precedence(Peek(p)[1]))), minimum)

Negate(op, r) == IF r.none THEN r ELSE Give(r, Unary(op, r.node))

UnaryExpr(p) ==
  IF Peek(p) \in {Sign("-"), Sign("!")} THEN Negate(Peek(p)[1], UnaryExpr(Bump(p)))
  ELSE Postfix(Primary(p))

Method(base, m, r) == IF r.none THEN r ELSE Give(r, MethodCall(base, m, r.node))

Member(p, name) ==
  IF name.none THEN name
  ELSE IF Peek(name) = Sign("(") THEN Method(p.node, name.node, Args(Bump(name), <<>>))
  ELSE Give(name, FieldOf(p.node, name.node))

Postfix(p) ==
  IF p.none \/ Peek(p) # Sign(".") THEN p ELSE Postfix(Member(p, Ident(Bump(p))))

\* call_args: what is left of a list of which args have been read.
MoreArgs(r, args) ==
  IF r.none THEN r
  ELSE IF Peek(r) = Sign(",") THEN Args(Bump(r), Append(args, r.node))
  ELSE Give(Expect(r, Sign(")")), Append(args, r.node))

Args(p, args) ==
  IF args = <<>> /\ Peek(p) = Sign(")") THEN Give(Bump(p), <<>>) ELSE MoreArgs(Expr(p, 0), args)

Named(name, r) == IF r.none THEN r ELSE Give(r, Call(name, r.node))
Closed(r) == IF r.none THEN r ELSE Expect(r, Sign(")"))

Primary(p) ==
  LET t == Peek(p) q == Bump(p)
  IN  CASE t[1] = "num" -> Give(q, Number(Converted(t[2], t[3]), t[3]))
        [] t[1] = "color" -> Give(q, <<"Color", t[2]>>)
        [] t[1] = "str" -> Give(q, <<"Str", t[2]>>)
        [] t[1] = "word" -> IF Peek(q) = Sign("(") THEN Named(t[2], Args(Bump(q), <<>>))
                            ELSE Give(q, <<"Ident", t[2]>>)
        [] t = Sign("(") -> Closed(Expr(q, 0))
        [] OTHER -> Refuse(p)
-----------------------------------------------------------------------------
(* Steps: what a statement is made of *)

Types == {"float", "int", "bool", "angle", "vec2", "vec3", "color", "palette", "curve"}
Caps == {"mapped", "rough", "rgbw", "cct", "audio", "imu", "grid", "input"}
Blends == {"normal", "add", "multiply", "screen", "overlay", "max", "min", "difference"}
Spaces == {"oklab", "oklch", "hsv", "linear_rgb"}

Need(what, field) == <<"need", what, field>>   \* x = self.what()?
Some(what, field) == <<"some", what, field>>   \* x = Some(self.what()?)
Try(what, field) == <<"try", what, field>>     \* x = self.what(), which may be None
Pick(set, field) == <<"pick", set, field>>     \* a name, kept if it is one of the set
Want(s) == <<"want", s>>
Options(table) == <<"options", table>>         \* modifiers, in any order
Items(block, list) == <<"items", block, list>> \* what follows an opening brace
Body(list) == <<Want("{"), Items("sim", list)>>
Skip == <<"skip">>
End == <<"end">>
Special(what) == <<what>>

ParamSteps ==
  <<Skip, Need("word", "name"), Want(":"), Need("type", "ty"), Want("="), Some("expr", "default"),
    Options([range |-> <<Some("expr", "lo"), Want(".."), Some("expr", "hi")>>,
             unit |-> <<Pick(Units, "unit")>>,
             step |-> <<Some("expr", "step")>>,
             label |-> <<Try("string", "label")>>]), End>>

ChannelSteps ==
  <<Skip, Need("word", "name"), Want(":"), Special("carries"),
    Options([hold |-> <<Try("integer", "hold")>>, default |-> <<Some("expr", "default")>>]), End>>

BindingSteps == <<Skip, Need("word", "name"), Want("="), Need("expr", "value"), End>>

StateSteps ==
  <<Skip, Need("word", "name"), Want(":"), Need("type", "ty"), Want("="), Need("expr", "init"), End>>

LayerSteps ==
  <<Skip, Need("word", "name"),
    Options([mask |-> <<Want("("), Try("word", "mask"), Want(")")>>,
             blend |-> <<Pick(Blends, "blend")>>,
             opacity |-> <<Some("expr", "opacity")>>]),
    Want("{"), Items("layer", ""), Special("close")>>

AssignSteps == <<Need("word", "target"), Special("field"), Want("="), Need("expr", "value"), End>>

SimSteps == <<Skip, Need("word", "name"), Want("("), Special("named")>> \o Body("stmts")

IfSteps == <<Skip, Need("expr", "cond")>> \o Body("then") \o <<Special("else"), End>>

ForEachSteps ==
  <<Skip, Need("word", "binding"), Special("in"), Need("word", "over")>> \o Body("stmts") \o <<End>>

FnSteps ==
  <<Skip, Need("word", "name"), Want("("), Special("formals"), Special("returns"),
    Want("{"), Items("fn", ""), Special("body")>>

PaletteSteps == <<Skip, Need("word", "name"), Want("{"), Items("palette", "")>>
CurveSteps == <<Skip, Need("word", "name"), Want("{"), Items("curve", "")>>
EffectSteps == <<Skip, Need("string", "name"), Special("brace"), Items("effect", ""), Special("close")>>

StopSteps == <<Special("position"), Need("expr", "color"), End>>
PointSteps == <<Special("position"), Special("height")>>

Binding(start) == [kind |-> "let", name |-> "", value |-> <<>>, start |-> start]
Assign(start) == [kind |-> "assign", target |-> "", field |-> "", value |-> <<>>, start |-> start]

\* What a statement is before it has been read, and the steps that read it.
Form(kind, start) ==
  CASE kind = "param" ->
         <<ParamSteps, [name |-> "", ty |-> "", default |-> <<>>, lo |-> <<>>, hi |-> <<>>, unit |-> "",
                        step |-> <<>>, label |-> <<>>, start |-> start]>>
    [] kind = "channel" ->
         <<ChannelSteps, [name |-> "", ty |-> <<>>, hold |-> <<>>, default |-> <<>>, start |-> start]>>
    [] kind = "let" -> <<BindingSteps, Binding(start)>>
    [] kind = "state" -> <<StateSteps, [name |-> "", ty |-> "", init |-> <<>>, start |-> start]>>
    [] kind = "layer" ->
         <<LayerSteps, [name |-> "", mask |-> <<>>, blend |-> "normal", opacity |-> <<>>,
                        lets |-> <<>>, assigns |-> <<>>, start |-> start, end |-> start]>>
    [] kind = "assign" -> <<AssignSteps, Assign(start)>>
    [] kind = "sim" -> <<SimSteps, [name |-> "", args |-> <<>>, stmts |-> <<>>, start |-> start]>>
    [] kind = "if" ->
         <<IfSteps, [kind |-> "if", cond |-> <<>>, then |-> <<>>, otherwise |-> <<>>, start |-> start]>>
    [] kind = "foreach" ->
         <<ForEachSteps, [kind |-> "foreach", binding |-> "", over |-> "", stmts |-> <<>>, start |-> start]>>
    [] kind = "fn" ->
         <<FnSteps, [kind |-> "fn", name |-> "", formals |-> <<>>, ret |-> <<>>, lets |-> <<>>,
                     result |-> <<>>, start |-> start]>>
    [] kind = "palette" ->
         <<PaletteSteps, [kind |-> "palette", name |-> "", space |-> "oklab", stops |-> <<>>, start |-> start]>>
    [] kind = "stop" -> <<StopSteps, [position |-> 0, color |-> <<>>]>>
    [] kind = "curve" -> <<CurveSteps, [kind |-> "curve", name |-> "", points |-> <<>>, start |-> start]>>
    [] kind = "point" -> <<PointSteps, [position |-> 0, height |-> 0]>>
    [] kind = "effect" ->
         <<EffectSteps, [kind |-> "effect", name |-> "", version |-> <<>>, author |-> <<>>, stdlib |-> <<>>,
                         requires |-> <<>>, fps |-> <<>>, budgets |-> <<>>, params |-> <<>>,
                         channels |-> <<>>, lets |-> <<>>, masks |-> <<>>, states |-> <<>>,
                         layers |-> <<>>, sims |-> <<>>, fns |-> <<>>, start |-> start, end |-> start]>>

\* A block's item: steps on what the block belongs to, or a node for a list.
Own(steps) == [list |-> "", kind |-> "", steps |-> steps]
Into(list, kind) == [list |-> list, kind |-> kind, steps |-> <<>>]
NoItem == Own(<<>>)

EffectItems ==
  [version |-> Own(<<Skip, Try("integer", "version"), End>>),
   author |-> Own(<<Skip, Try("string", "author"), End>>),
   stdlib |-> Own(<<Skip, Try("integer", "stdlib"), End>>),
   fps |-> Own(<<Skip, Try("integer", "fps"), End>>),
   requires |-> Own(<<Skip, Special("requires"), End>>),
   budget |-> Own(<<Skip, Special("budget"), End>>),
   param |-> Into("params", "param"), channel |-> Into("channels", "channel"),
   let |-> Into("lets", "let"), mask |-> Into("masks", "let"), state |-> Into("states", "state"),
   layer |-> Into("layers", "layer"), sim |-> Into("sims", "sim"), fn |-> Into("fns", "fn")]

ItemOf(block, t) ==
  LET word == IF t[1] = "word" THEN t[2] ELSE ""
  IN  CASE block = "effect" /\ word \in DOMAIN EffectItems -> EffectItems[word]
        [] block = "layer" /\ word = "let" -> Into("lets", "let")
        [] block = "layer" /\ word \notin {"", "let"} -> Into("assigns", "assign")
        [] block = "sim" /\ word \in {"let", "if", "foreach"} -> Into("", word)
        [] block = "sim" /\ word \notin {"", "let", "if", "foreach"} -> Into("", "assign")
        [] block = "fn" /\ word = "let" -> Into("lets", "let")
        [] block = "fn" /\ word = "return" -> Own(<<Skip, Try("expr", "result"), End>>)
        [] block = "palette" /\ word = "space" -> Own(<<Skip, Pick(Spaces, "space"), End>>)
        [] block = "palette" /\ t[1] = "num" -> Into("stops", "stop")
        [] block = "curve" /\ t[1] = "num" -> Into("points", "point")
        [] OTHER -> NoItem
-----------------------------------------------------------------------------
(* Taking the steps *)

\* The code's `?`: a missing value ends the statement that needed it.
Keep(p, r, field, value) ==
  IF r.none THEN [r EXCEPT !.node = p.node] ELSE [r EXCEPT !.node = [p.node EXCEPT ![field] = value]]

Maybe(p, r, field) ==
  [r EXCEPT !.none = FALSE, !.node = [p.node EXCEPT ![field] = IF r.none THEN <<>> ELSE <<r.node>>]]

\* A name that is not in the set is an error, and the statement goes on.
PickFrom(p, r, set, field) ==
  IF r.none \/ r.node \in set THEN Keep(p, r, field, r.node)
  ELSE [Error(r) EXCEPT !.node = p.node]

TypeName(r) ==
  IF r.none \/ r.node \in Types THEN r ELSE [Error(r) EXCEPT !.none = TRUE]

Typed(p) == TypeName(Ident(p))

Inner(r, which) == IF r.none THEN r ELSE Give(Expect(r, Sign(">")), <<which, r.node>>)
Sized(r) == IF r.none THEN r ELSE Give(Expect(r, Sign(")")), <<"text", r.node>>)

ChannelType(r) ==
  IF r.none THEN r
  ELSE CASE r.node \in {"audio_bands", "audio_beat", "value", "vec3"} -> Give(r, <<r.node>>)
         [] r.node \in {"sim", "sensor"} -> Inner(Ident(Expect(r, Sign("<"))), r.node)
         [] r.node = "text" -> IF Peek(r) = Sign("(") THEN Sized(Integer(Bump(r)))
                               ELSE Give(r, <<"text", 64>>)
         [] OTHER -> [Error(r) EXCEPT !.none = TRUE]

\* requires: names with commas between them; one that is not a capability is
\* reported and left out.
RECURSIVE Requires(_, _)
Requires(p, r) ==
  IF r.none THEN [r EXCEPT !.none = FALSE, !.node = p.node]
  ELSE LET q == IF r.node \in Caps THEN Give(r, [p.node EXCEPT !.requires = Append(@, r.node)])
                ELSE [Error(r) EXCEPT !.node = p.node]
       IN  IF Peek(q) = Sign(",") THEN Requires(Bump(q), Ident(Bump(q))) ELSE q

OnDevice(r) == IF IsWord(r, "on") THEN Ident(Bump(r)) ELSE Refuse(r)
Claim(p, cost, class) ==
  IF class.none THEN [class EXCEPT !.none = FALSE, !.node = p.node]
  ELSE Give(class, [p.node EXCEPT !.budgets = Append(@, <<cost, class.node>>)])
Budget(p, r) ==
  IF r.none THEN [r EXCEPT !.none = FALSE, !.node = p.node] ELSE Claim(p, r.node, OnDevice(r))

\* A list in brackets, to its end: name = value, or name : type.
RECURSIVE Pairs(_, _, _, _)
PairValue(r, form) == IF form = "named" THEN Expr(Expect(r, Sign("=")), 0) ELSE Typed(Expect(r, Sign(":")))
Pairs(p, name, form, pairs) ==
  IF name.none THEN name
  ELSE LET r == PairValue(name, form)
           more == Append(pairs, <<name.node, r.node>>)
       IN  IF r.none THEN r
           ELSE IF Peek(r) = Sign(",") THEN Pairs(p, Ident(Bump(r)), form, more)
           ELSE Give(Expect(r, Sign(")")), more)

Bracketed(p, form) ==
  IF Peek(p) = Sign(")") THEN Give(Bump(p), <<>>) ELSE Pairs(p, Ident(p), form, <<>>)

Read(p, what) ==
  CASE what = "word" -> Ident(p) [] what = "string" -> String(p) [] what = "integer" -> Integer(p)
    [] what = "type" -> Typed(p) [] what = "expr" -> Expr(p, 0)

Reach(p) == p.toks[p.at].end

RECURSIVE Run(_), Modifiers(_, _, _)

Take(p, s) ==
  CASE s[1] = "skip" -> Bump(p)
    [] s[1] = "need" -> LET r == Read(p, s[2]) IN Keep(p, r, s[3], r.node)
    [] s[1] = "some" -> LET r == Read(p, s[2]) IN Keep(p, r, s[3], <<r.node>>)
    [] s[1] = "try" -> Maybe(p, Read(p, s[2]), s[3])
    [] s[1] = "pick" -> PickFrom(p, Ident(p), s[2], s[3])
    [] s[1] = "want" -> Expect(p, Sign(s[2]))
    [] s[1] = "options" -> Modifiers(p, s[2], p.todo)
    [] s[1] = "end" -> EndOfStatement(p)
    [] s[1] = "close" -> [p EXCEPT !.node.end = Reach(p)]
    [] s[1] = "brace" -> IF Peek(p) = Sign("{") THEN Bump(p) ELSE Refuse(p)
    [] s[1] = "carries" -> LET r == ChannelType(Ident(p)) IN Keep(p, r, "ty", r.node)
    [] s[1] = "field" -> IF Peek(p) # Sign(".") THEN p
                         ELSE LET r == Ident(Bump(p)) IN Keep(p, r, "field", r.node)
    [] s[1] = "in" -> IF IsWord(p, "in") THEN Bump(p) ELSE Error(p)
    [] s[1] = "else" -> IF IsWord(p, "else") THEN [Bump(p) EXCEPT !.todo = Body("otherwise") \o @] ELSE p
    [] s[1] = "named" -> LET r == Bracketed(p, "named") IN Keep(p, r, "args", r.node)
    [] s[1] = "formals" -> LET r == Bracketed(p, "formals") IN Keep(p, r, "formals", r.node)
    [] s[1] = "returns" -> IF Peek(p) # Sign("->") THEN p
                           ELSE LET r == Typed(Bump(p)) IN Keep(p, r, "ret", <<r.node>>)
    [] s[1] = "body" -> IF p.node.result # <<>> THEN p
                        ELSE [Error(p) EXCEPT !.none = TRUE]
    [] s[1] = "requires" -> Requires(p, Ident(p))
    [] s[1] = "budget" -> Budget(p, Integer(p))
    [] s[1] = "position" -> Bump([p EXCEPT !.node.position = Peek(p)[2]])
    [] s[1] = "height" -> IF Peek(p)[1] = "num"
                          THEN EndOfStatement(Bump([p EXCEPT !.node.height = Peek(p)[2]]))
                          ELSE [Recover(Error(p)) EXCEPT !.none = TRUE]

\* As far as the end of the statement, a value it lacks, or a block.
Run(p) ==
  IF p.todo = <<>> \/ p.none \/ Head(p.todo)[1] = "items" THEN p
  ELSE Run(Take([p EXCEPT !.todo = Tail(@)], Head(p.todo)))

Modifiers(p, table, then) ==
  IF p.none \/ Peek(p)[1] # "word" \/ Peek(p)[2] \notin DOMAIN table THEN [p EXCEPT !.todo = then]
  ELSE Modifiers(Run([Bump(p) EXCEPT !.todo = table[Peek(p)[2]]]), table, then)

-----------------------------------------------------------------------------
(* Blocks *)

Top(p) == Last(p.stack)
Update(p, node) == [p EXCEPT !.stack[Len(p.stack)].node = node, !.none = FALSE]

\* A statement that has been read goes into its list, unless it has a block
\* to read first.
Settle(r, list) ==
  IF r.todo # <<>>
  THEN [r EXCEPT !.stack = Append(@, [node |-> r.node, list |-> list, block |-> Head(r.todo)[2],
                                      field |-> Head(r.todo)[3], todo |-> Tail(r.todo)])]
  ELSE Update(r, [Top(r).node EXCEPT ![list] = Append(@, r.node)])

Popped(p) == [p EXCEPT !.stack = Front(@)]

\* One that could not be read is left out.  It takes a palette with it, and
\* the file skips to the end of the statement.
RECURSIVE Drop(_)
Drop(r) ==
  CASE Top(r).block = "palette" -> Drop(Popped(r))
    [] Top(r).block = "file" -> [Recover(r) EXCEPT !.none = FALSE]
    [] OTHER -> [r EXCEPT !.none = FALSE]

Done(r, list) == IF r.none THEN Drop(r) ELSE Settle(r, list)

Parsed(p, form, list) == Done(Run([p EXCEPT !.node = form[2], !.todo = form[1]]), list)

\* An item of the block's own node.
OnNode(p, r) == IF r.none THEN Drop(r) ELSE Update(r, r.node)
Owned(p, steps) == OnNode(p, Run([p EXCEPT !.node = Top(p).node, !.todo = steps]))

Progress(before, p) == IF p.at = before.at THEN Bump(p) ELSE p

Item(p, item) ==
  IF item.kind = "" THEN Owned(p, item.steps)
  ELSE Parsed(p, Form(item.kind, Here(p)), IF Top(p).block = "sim" THEN Top(p).field ELSE item.list)

JunkInSilence(p) == Progress(p, Recover(p))
Junk(p) == Progress(p, Recover(Error(p)))

\* The block is over: on with what its statement still has to read.
Leave(p) ==
  Done(Run([Popped(p) EXCEPT !.node = Top(p).node, !.todo = Top(p).todo]), Top(p).list)

-----------------------------------------------------------------------------
(* Files *)

DeclWords == {Word(w) : w \in {"effect", "palette", "curve", "fn"}}

FileFrame(version) ==
  [node |-> [version |-> version, decls |-> <<>>], list |-> "", block |-> "file", field |-> "", todo |-> <<>>]

Ready(src) ==
  SkipNewlines([toks |-> Lex(src), at |-> 1, wrong |-> FALSE, node |-> <<>>, none |-> FALSE, todo |-> <<>>,
                stack |-> <<>>])

Header(p) == IF IsWord(p, "lumen") THEN Integer(Bump(p)) ELSE Refuse(p)
Opened(r) == IF r.none THEN r ELSE [EndOfStatement(r) EXCEPT !.stack = <<FileFrame(r.node)>>]

Decl(p) == Parsed(p, Form(Peek(p)[2], Here(p)), "decls")
BadDeclInPlace(p) == Recover(Error(p))
BadDecl(p) == Recover(Progress(p, Error(p)))
=============================================================================
