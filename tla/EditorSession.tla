---------------------------- MODULE EditorSession ----------------------------
(***************************************************************************)
(* A source file under an editor (lumen-lang's parse and fmt, `lumen fmt   *)
(* --write` in cmd.rs): it is read a statement at a time, typed into,      *)
(* rewired as a tree by the node editor, resolved, and saved in its        *)
(* canonical form.                                                         *)
(***************************************************************************)
EXTENDS Formatter, Resolver

CONSTANTS
  Files,      \* the files a session starts from
  Keys,       \* what may be typed
  Wirings,    \* expressions the node editor may put where one was
  MaxEdits    \* edits in a session

VARIABLES
  text,       \* the file, as lexemes
  phase,      \* "header", "reading" its declarations, or "read"
  parser,     \* where the parser is
  turns,      \* of the parser's loops, over this text
  edits,      \* how often the text has been touched
  source      \* what text was printed from: a tree and a text, once it was

vars == <<text, phase, parser, turns, edits, source>>

Unsaved == <<>>
Edited == source = Unsaved

\* parse: the file read from new, from its start.
Reread(new) == text' = new /\ parser' = Ready(new) /\ phase' = "header" /\ turns' = 0

Init ==
  /\ text \in Files
  /\ phase = "header" /\ parser = Ready(text) /\ turns = 0
  /\ edits = 0 /\ source = Unsaved

-----------------------------------------------------------------------------
(* Reading *)

Go(to, p) == phase' = to /\ parser' = p /\ turns' = turns + 1 /\ UNCHANGED <<text, edits, source>>

ReadHeader ==
  /\ phase = "header"
  /\ LET p == Opened(Header(parser)) IN Go(IF p.none THEN "read" ELSE "reading", p)

\* The token a loop over statements looks at, line ends skipped.
Upcoming == SkipNewlines(parser)
InFile == phase = "reading" /\ Len(parser.stack) = 1
InBlock == phase = "reading" /\ Len(parser.stack) > 1
ItemHere == ItemOf(Top(parser).block, Peek(Upcoming))

ReadDecl == InFile /\ Peek(Upcoming) \in DeclWords /\ Go("reading", Decl(Upcoming))
SkipDecl == InFile /\ Peek(Upcoming) \notin DeclWords \cup {EndOfFile} /\ Go("reading", BadDecl(Upcoming))
EndFile == InFile /\ Peek(Upcoming) = EndOfFile /\ Go("read", Upcoming)

ReadItem == InBlock /\ ItemHere # NoItem /\ Go("reading", Item(Upcoming, ItemHere))
SkipItem ==
  InBlock /\ ItemHere = NoItem /\ Peek(Upcoming) \notin {Sign("}"), EndOfFile} /\ Go("reading", Junk(Upcoming))
CloseBlock == InBlock /\ Peek(Upcoming) = Sign("}") /\ Go("reading", Leave(Bump(Upcoming)))
UnclosedBlock == InBlock /\ Peek(Upcoming) = EndOfFile /\ Go("reading", Leave(Error(Upcoming)))

Reading ==
  \/ ReadHeader \/ ReadDecl \/ SkipDecl \/ EndFile
  \/ ReadItem \/ SkipItem \/ CloseBlock \/ UnclosedBlock

-----------------------------------------------------------------------------
(* Editing *)

Accepted == phase = "read" /\ ~parser.none /\ ~parser.wrong
File == parser.stack[1].node

Edit == phase = "read" /\ edits < MaxEdits /\ edits' = edits + 1

\* What is typed behind a comment, and a line end removed there, only make it longer.
InComment(i) == i > 1 /\ IsComment(text[i - 1])

\* A comment is typed with the end of its line.
Keystrokes(l) == IF IsComment(l) THEN <<l, LineEnd>> ELSE <<l>>

Type(i, l) ==
  /\ Edit /\ ~InComment(i)
  /\ Reread(SubSeq(text, 1, i - 1) \o Keystrokes(l) \o SubSeq(text, i, Len(text)))
  /\ source' = Unsaved

Erase(i) == Edit /\ ~InComment(i) /\ Reread(RemoveAt(text, i)) /\ source' = Unsaved

\* A tree written to the file, with the comments the file has.
Write(tree) ==
  /\ Reread(Format(tree, CommentsOf(text)))
  /\ source' = <<tree, text>>

\* fmt: a file with errors is left alone.
Save == Accepted /\ Edited /\ Write(File) /\ UNCHANGED edits

\* An effect with another expression in one place.
Rewirings(x, e) ==
  {[x EXCEPT !.lets[k].value = e] : k \in DOMAIN x.lets}
    \cup {[x EXCEPT !.masks[k].value = e] : k \in DOMAIN x.masks}
    \cup {[x EXCEPT !.fns[k].result = <<e>>] : k \in DOMAIN x.fns}
    \cup {[x EXCEPT !.layers[k].opacity = <<e>>] : k \in DOMAIN x.layers}
    \cup UNION {{[x EXCEPT !.layers[k].lets[i].value = e] : i \in DOMAIN x.layers[k].lets} : k \in DOMAIN x.layers}
    \cup UNION {{[x EXCEPT !.layers[k].assigns[i].value = e] : i \in DOMAIN x.layers[k].assigns} :
                  k \in DOMAIN x.layers}

\* The node editor puts another expression somewhere, and writes the file back.
Rewire(d, e) == Accepted /\ Edit /\ \E x \in Rewirings(File.decls[d], e) : Write([File EXCEPT !.decls[d] = x])

Editing ==
  \/ \E i \in 1..(Len(text) + 1), l \in Keys : Type(i, l)
  \/ \E i \in 1..Len(text) : Erase(i)
  \/ Accepted /\ \E d \in DOMAIN File.decls :
       File.decls[d].kind = "effect" /\ \E e \in Wirings : Rewire(d, e)
  \/ Save

Next == Reading \/ Editing

Spec == Init /\ [][Next]_vars

-----------------------------------------------------------------------------
(* What a saved file must still be *)

\* to_q16: the constant a program has for a number, in steps of 2^-16, rounded
\* half away from zero.  One is 2^7 * 5^7, so 5^7 of our steps are 2^9 of those.
ToQ16(value) ==
  LET step == One \div 128
  IN  (value \div step) * 512 + (2 * (value % step) * 512 + step) \div (2 * step)

RECURSIVE PlainExpr(_), Plain(_)

\* A number by what is compiled of it, and without a unit already applied.
PlainExpr(e) ==
  LET all(es) == [k \in DOMAIN es |-> PlainExpr(es[k])]
  IN  CASE e[1] = "Number" -> Number(ToQ16(e[2]), IF e[3] \in ConvertedUnits THEN "" ELSE e[3])
        [] e[1] = "Field" -> FieldOf(PlainExpr(e[2]), e[3])
        [] e[1] = "Call" -> Call(e[2], all(e[3]))
        [] e[1] = "MethodCall" -> MethodCall(PlainExpr(e[2]), e[3], all(e[4]))
        [] e[1] = "Unary" -> Unary(e[2], PlainExpr(e[3]))
        [] e[1] = "Binary" -> Binary(e[2], PlainExpr(e[3]), PlainExpr(e[4]))
        [] OTHER -> e

Places == {"start", "end"}
Exprs == {"value", "init", "cond", "color"}
MaybeExprs == {"lo", "hi", "step", "default", "opacity", "result"}
Parts == {"decls", "params", "channels", "lets", "masks", "states", "layers", "sims", "fns",
          "assigns", "stmts", "then", "otherwise", "stops", "points"}

\* A node without where it was written.  What is not an expression, as where a
\* stop is, has to be kept as it is.
Plain(x) ==
  [f \in DOMAIN x \ Places |->
     CASE f \in Exprs -> PlainExpr(x[f])
       [] f \in MaybeExprs -> [k \in DOMAIN x[f] |-> PlainExpr(x[f][k])]
       [] f \in Parts -> [k \in DOMAIN x[f] |-> Plain(x[f][k])]
       [] f = "args" -> [k \in DOMAIN x[f] |-> <<x[f][k][1], PlainExpr(x[f][k][2])>>]
       [] OTHER -> x[f]]

Saved == phase = "read" /\ ~Edited

\* What is saved reads back as what was saved: operators bind as they did,
\* nothing is lost or moved to another block, and every number compiles to the
\* constant it did, whichever edit came before (fmt.rs: six decimals are more than
\* Q16.16 can represent; compile.rs: the program must not change).  Not if the
\* sixth decimal decides how a constant rounds: README, disagreements.
SavingKeepsTheProgram == Saved => Accepted /\ Plain(File) = Plain(source[1])
\* The canonical form is its own canonical form: saving a saved file, comments
\* and blank lines included, changes nothing (fmt.rs: formatting is idempotent).
SavingSettles == Saved /\ Accepted => Format(File, CommentsOf(text)) = text

CommentTexts(lexemes) ==
  [k \in DOMAIN CommentsOf(lexemes) |-> CommentsOf(lexemes)[k].text]

\* Every comment is written once and in its order, wherever it stood: also where
\* the grammar has no place for it (fmt.rs, Comments).
CommentsSurvive == Saved => CommentTexts(text) = CommentTexts(source[2])

\* How the line begins that ends with this comment.
Beginning(lexemes, comment) ==
  LET ends == {i \in 1..comment.start : lexemes[i] = LineEnd}
      from == IF ends = {} THEN 1 ELSE Max(ends) + 1
  IN  SubSeq(lexemes, from, from + 1)
Trailing(lexemes) == SelectSeq(CommentsOf(lexemes), LAMBDA c : ~c.own)

\* A trailing comment stays with the line it followed (fmt.rs:64, and a test of
\* that name).  It does not: README, disagreements.
TrailingCommentsStay ==
  Saved => \A c \in ToSet(Trailing(source[2])), d \in ToSet(Trailing(text)) :
             c.text = d.text => Beginning(source[2], c) = Beginning(text, d)

\* What a file says, in its own order or another: everything but its
\* comments, line ends and round brackets.
Said(l) == IF l[1] = "num" THEN NumberText(Converted(l[2], l[3]), l[3])[1] ELSE l
Spoken(lexemes) ==
  LET kept == SelectSeq(lexemes, LAMBDA l : ~IsComment(l) /\ l \notin {LineEnd, Sign("("), Sign(")")})
  IN  [k \in DOMAIN kept |-> Said(kept[k])]

\* The same lexemes, each as often.
Permuted(s, t) ==
  /\ Len(s) = Len(t)
  /\ \A l \in ToSet(s) : Cardinality({k \in DOMAIN s : s[k] = l}) = Cardinality({k \in DOMAIN t : t[k] = l})

\* An unknown construct is an error, never skipped (parse.rs): whatever is typed
\* where, a file without errors says in its canonical form what its text says.
NothingSkipped == Accepted /\ Edited => Permuted(Spoken(text), Spoken(Format(File, <<>>)))

\* The parser ends on every text: each turn of its loops moves it on, so that it
\* takes no more turns than there are tokens (parse.rs, the progress checks).
ReadingAdvances == turns <= Len(parser.toks) + 1

-----------------------------------------------------------------------------
(* What the resolver's word is worth to the emitter *)

\* Where the emitter comes to a name that the resolver has let pass, it has it:
\* the resolver declares and withdraws in a table, in the order of the text,
\* while the emitter drops the lets nobody reads, takes the hoisted ones before
\* the others and the layers last (resolve.rs:729, emit.rs:987).
AcceptedNamesAreHeld ==
  Accepted => \A c \in {Compile(File)} \ {Refused} : EmittedNames(c[1], c[2]).lost = {}

\* The body of a function reads its parameters, its lets and the built-ins, or
\* the file is refused (resolve.rs:1024, an unknown name is an error).  Nothing
\* checks the bodies: README, disagreements.
FunctionsAreChecked ==
  Accepted => \A c \in {Compile(File)} \ {Refused} : \A f \in ToSet(c[1].fns) :
    Sought(f.result[1]) \subseteq
      DOMAIN Builtins \cup NamesOf(f.lets) \cup {f.formals[k][1] : k \in DOMAIN f.formals}
=============================================================================
