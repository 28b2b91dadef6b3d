------------------------------ MODULE Formatter ------------------------------
(***************************************************************************)
(* The formatter (lumen-lang, fmt.rs): a tree back to lexemes, with the    *)
(* comments of the file it was read from put back by a cursor.             *)
(*                                                                         *)
(* A printer is [out, left]: what has been written, and the comments that  *)
(* are still to be.                                                        *)
(***************************************************************************)
EXTENDS Parser

Spell(words) == [k \in DOMAIN words |-> Word(words[k])]

\* Lists with a comma between their members.
RECURSIVE Commas(_)
Commas(parts) ==
  IF Len(parts) <= 1 THEN FlattenSeq(parts) ELSE Head(parts) \o <<Sign(",")>> \o Commas(Tail(parts))

Bracket(lexemes) == <<Sign("(")>> \o lexemes \o <<Sign(")")>>

\* number: six decimal places.  Where exactly half a place is left the code has
\* it as the nearest binary fraction has it; here it is rounded up.
Rounded(n) == ((n + 5) \div 10) * 10

\* Degrees, milliseconds and percent are printed as what they were turned into.
NumberText(value, unit) == <<Num(Rounded(value), IF unit \in ConvertedUnits THEN "" ELSE unit)>>
Whole(n) == <<Num(n * One, "")>>

\* An operation inside one that binds more tightly.
WrappedLoosely(lexemes, p, parent) == IF p + 1 < parent THEN Bracket(lexemes) ELSE lexemes
Wrapped(lexemes, p, parent) == IF p < parent THEN Bracket(lexemes) ELSE lexemes

RECURSIVE ExprText(_, _)
ExprText(e, parent) ==
  CASE e[1] = "Number" -> NumberText(e[2], e[3])
    [] e[1] = "Color" -> <<Hash(0, e[2])>>
    [] e[1] = "Str" -> <<Str(e[2])>>
    [] e[1] = "Ident" -> <<Word(e[2])>>
    [] e[1] = "Field" -> ExprText(e[2], 10) \o <<Sign("."), Word(e[3])>>
    [] e[1] = "Call" ->
         <<Word(e[2])>> \o Bracket(Commas([k \in DOMAIN e[3] |-> ExprText(e[3][k], 0)]))
    [] e[1] = "MethodCall" ->
         ExprText(e[2], 10) \o <<Sign("."), Word(e[3])>>
           \o Bracket(Commas([k \in DOMAIN e[4] |-> ExprText(e[4][k], 0)]))
    [] e[1] = "Unary" -> <<Sign(e[2])>> \o ExprText(e[3], 9)
    [] e[1] = "Binary" ->
         LET p == Precedence(e[2])
         IN  Wrapped(ExprText(e[3], p) \o <<Sign(e[2])>> \o ExprText(e[4], p + 1), p, parent)

Text(e) == ExprText(e, 0)

\* A modifier that is only written when there is something to say.
Option(words, value) == IF value = <<>> THEN <<>> ELSE Spell(words) \o value
Each(option, Form1(_)) == IF option = <<>> THEN <<>> ELSE Form1(option[1])

ChanType(ty) ==
  CASE ty[1] \in {"sim", "sensor"} -> <<Word(ty[1]), Sign("<"), Word(ty[2]), Sign(">")>>
    [] ty[1] = "text" /\ ty[2] # 64 -> <<Word("text")>> \o Bracket(Whole(ty[2]))
    [] OTHER -> <<Word(ty[1])>>

Is(value) == <<Sign("=")>> \o Text(value)
Of(name, ty) == <<Word(name), Sign(":"), Word(ty)>>

ParamLine(x) ==
  <<Word("param")>> \o Of(x.name, x.ty) \o Is(x.default[1])
    \o Each(x.lo, LAMBDA lo : <<Word("range")>> \o Text(lo) \o <<Sign("..")>> \o Text(x.hi[1]))
    \o Option(<<"unit">>, IF x.unit = "" THEN <<>> ELSE <<Word(x.unit)>>)
    \o Each(x.step, LAMBDA s : <<Word("step")>> \o Text(s))
    \o Each(x.label, LAMBDA s : <<Word("label"), Str(s)>>)

ChannelLine(x) ==
  <<Word("channel"), Word(x.name), Sign(":")>> \o ChanType(x.ty)
    \o Each(x.hold, LAMBDA h : <<Word("hold")>> \o Whole(h))
    \o Each(x.default, LAMBDA d : <<Word("default")>> \o Text(d))

StateLine(x) == <<Word("state")>> \o Of(x.name, x.ty) \o Is(x.init)
BindLine(word, x) == <<Word(word), Word(x.name)>> \o Is(x.value)
AssignLine(x) ==
  <<Word(x.target)>> \o (IF x.field = "" THEN <<>> ELSE <<Sign("."), Word(x.field)>>) \o Is(x.value)

Line(kind, x) ==
  CASE kind = "param" -> ParamLine(x) [] kind = "channel" -> ChannelLine(x)
    [] kind = "state" -> StateLine(x) [] kind = "assign" -> AssignLine(x)
    [] kind \in {"let", "mask"} -> BindLine(kind, x)

-----------------------------------------------------------------------------
(* The cursor over the comments *)

Put(f, lexemes) == [f EXCEPT !.out = @ \o lexemes]
PutLine(f, lexemes) == Put(f, lexemes \o <<LineEnd>>)

CommentLexeme(text) == IF text[2] = "" THEN Hash(0, "") ELSE Hash(text[1] + 1, text[2])

AfterBlank(out) == Len(out) >= 2 /\ out[Len(out)] = LineEnd /\ out[Len(out) - 1] = LineEnd
Spaced(f, blank) == IF blank /\ f.out # <<>> /\ ~AfterBlank(f.out) THEN Put(f, <<LineEnd>>) ELSE f

Rest(f) == [f EXCEPT !.left = Tail(@)]

\* flush_before: comments on lines of their own that began before place.
RECURSIVE FlushBefore(_, _)
FlushBefore(f, place) ==
  IF f.left = <<>> \/ Head(f.left).start >= place \/ ~Head(f.left).own THEN f
  ELSE FlushBefore(Rest(PutLine(Spaced(f, Head(f.left).blank), <<CommentLexeme(Head(f.left).text)>>)), place)

\* flush_trailing: the next comment, if it trails something, onto this line.
Unended(f) == IF f.out # <<>> /\ Last(f.out) = LineEnd THEN [f EXCEPT !.out = Front(@)] ELSE f
FlushTrailing(f) ==
  IF f.left = <<>> \/ Head(f.left).own THEN f
  ELSE Rest(PutLine(Unended(f), <<CommentLexeme(Head(f.left).text)>>))

RECURSIVE FlushRest(_)
FlushRest(f) ==
  IF f.left = <<>> THEN f ELSE FlushRest(Rest(PutLine(f, <<CommentLexeme(Head(f.left).text)>>)))

-----------------------------------------------------------------------------
(* Declarations *)

\* A line of its own for every item; kinds that end in a comment are drained.
RECURSIVE Lines(_, _, _, _)
Lines(f, kind, items, drains) ==
  IF items = <<>> THEN f
  ELSE LET x == Head(items)
           g == PutLine(FlushBefore(f, x.start), Line(kind, x))
       IN  Lines(IF drains THEN FlushTrailing(g) ELSE g, kind, Tail(items), drains)

Section(f, kind, items) == IF items = <<>> THEN f ELSE Lines(Put(f, <<LineEnd>>), kind, items, TRUE)

RECURSIVE StatementText(_, _)
OpenBlock(f, head) == PutLine(f, head \o <<Sign("{")>>)
Otherwise(f, stmts) ==
  PutLine(IF stmts = <<>> THEN f
          ELSE StatementText(PutLine(f, <<Sign("}"), Word("else"), Sign("{")>>), stmts), <<Sign("}")>>)

Statement(f, s) ==
  CASE s.kind \in {"let", "assign"} -> FlushTrailing(PutLine(f, Line(s.kind, s)))
    [] s.kind = "if" ->
         Otherwise(StatementText(OpenBlock(f, <<Word("if")>> \o Text(s.cond)), s.then), s.otherwise)
    [] s.kind = "foreach" ->
         PutLine(StatementText(OpenBlock(f, Spell(<<"foreach", s.binding, "in", s.over>>)), s.stmts),
                 <<Sign("}")>>)

StatementText(f, stmts) ==
  IF stmts = <<>> THEN f
  ELSE StatementText(Statement(FlushBefore(f, Head(stmts).start), Head(stmts)), Tail(stmts))

SimText(f, x) ==
  PutLine(StatementText(
    OpenBlock(f, Spell(<<"sim", x.name>>)
                   \o Bracket(Commas([k \in DOMAIN x.args |-> <<Word(x.args[k][1])>> \o Is(x.args[k][2])]))),
    x.stmts), <<Sign("}")>>)

FnHead(x) ==
  Spell(<<"fn", x.name>>) \o Bracket(Commas([k \in DOMAIN x.formals |-> Of(x.formals[k][1], x.formals[k][2])]))
    \o Each(x.ret, LAMBDA ty : <<Sign("->"), Word(ty)>>)

\* A function's lines take no comments.
PlainLines(kind, items) == FlattenSeq([k \in DOMAIN items |-> Line(kind, items[k]) \o <<LineEnd>>])
FnText(f, x) ==
  PutLine(Put(OpenBlock(f, FnHead(x)),
              PlainLines("let", x.lets) \o <<Word("return")>> \o Text(x.result[1]) \o <<LineEnd>>),
          <<Sign("}")>>)

LayerHead(x) ==
  Spell(<<"layer", x.name>>)
    \o Each(x.mask, LAMBDA m : <<Word("mask")>> \o Bracket(<<Word(m)>>))
    \o (IF x.blend = "normal" THEN <<>> ELSE Spell(<<"blend", x.blend>>))
    \o Each(x.opacity, LAMBDA o : <<Word("opacity")>> \o Text(o))

LayerText(f, x) ==
  LET body == Lines(Lines(OpenBlock(f, LayerHead(x)), "let", x.lets, FALSE), "assign", x.assigns, FALSE)
  IN  FlushTrailing(PutLine(FlushBefore(body, x.end), <<Sign("}")>>))

ItemText(f, kind, x) ==
  CASE kind = "fn" -> FnText(f, x) [] kind = "sim" -> SimText(f, x) [] kind = "layer" -> LayerText(f, x)

RECURSIVE Apart(_, _, _)
Apart(f, kind, items) ==
  IF items = <<>> THEN f
  ELSE Apart(ItemText(FlushBefore(Put(f, <<LineEnd>>), Head(items).start), kind, Head(items)),
             kind, Tail(items))

Metadata(e) ==
  LET line(lexemes) == lexemes \o <<LineEnd>>
  IN  Each(e.version, LAMBDA v : line(<<Word("version")>> \o Whole(v)))
        \o Each(e.author, LAMBDA a : line(<<Word("author"), Str(a)>>))
        \o Each(e.stdlib, LAMBDA s : line(<<Word("stdlib")>> \o Whole(s)))
        \o (IF e.requires = <<>> THEN <<>>
            ELSE line(<<Word("requires")>> \o Commas([k \in DOMAIN e.requires |-> <<Word(e.requires[k])>>])))
        \o Each(e.fps, LAMBDA r : line(<<Word("fps")>> \o Whole(r)))
        \o FlattenSeq([k \in DOMAIN e.budgets |->
             line(<<Word("budget")>> \o Whole(e.budgets[k][1]) \o Spell(<<"on", e.budgets[k][2]>>))])

Sections(f, e) ==
  Section(Section(Section(Section(Section(f,
    "param", e.params), "channel", e.channels), "state", e.states), "let", e.lets), "mask", e.masks)

EffectText(f, e) ==
  LET body == Sections(Put(OpenBlock(f, <<Word("effect"), Str(e.name)>>), Metadata(e)), e)
      all == Apart(Apart(Apart(body, "fn", e.fns), "sim", e.sims), "layer", e.layers)
  IN  PutLine(FlushBefore(all, e.end), <<Sign("}")>>)

PaletteText(f, p) ==
  PutLine(Put(OpenBlock(f, Spell(<<"palette", p.name>>)),
    (IF p.space = "oklab" THEN <<>> ELSE Spell(<<"space", p.space>>) \o <<LineEnd>>)
      \o FlattenSeq([k \in DOMAIN p.stops |->
           NumberText(p.stops[k].position, "") \o Text(p.stops[k].color) \o <<LineEnd>>])),
    <<Sign("}")>>)

CurveText(f, c) ==
  PutLine(Put(OpenBlock(f, Spell(<<"curve", c.name>>)),
    FlattenSeq([k \in DOMAIN c.points |->
      NumberText(c.points[k].position, "") \o NumberText(c.points[k].height, "") \o <<LineEnd>>])),
    <<Sign("}")>>)

DeclText(f, d) ==
  CASE d.kind = "effect" -> EffectText(f, d) [] d.kind = "palette" -> PaletteText(f, d)
    [] d.kind = "curve" -> CurveText(f, d) [] d.kind = "fn" -> FnText(f, d)

RECURSIVE DeclTexts(_, _)
DeclTexts(f, decls) ==
  IF decls = <<>> THEN f
  ELSE DeclTexts(DeclText(FlushBefore(Put(f, <<LineEnd>>), Head(decls).start), Head(decls)), Tail(decls))

EndingWithout(f) == f
Ending(f) == IF f.left = <<>> THEN f ELSE FlushRest(Put(f, <<LineEnd>>))

Format(file, comments) ==
  Ending(DeclTexts([out |-> <<Word("lumen")>> \o Whole(file.version) \o <<LineEnd>>, left |-> comments],
                   file.decls)).out
=============================================================================
