---------------------------- MODULE MCWidgets ----------------------------
(* Small configurations: each has a widget or two that show one behaviour, and
   many that are an expression whose meaning is known. *)
EXTENDS Widgets

\* The names in alphabetical order; those in one set differ in their case only.
Alphabet == << {""}, {"active"}, {"align"}, {"Bitmap"}, {"class"}, {"col"}, {"diameter"}, {"direction"}, {"event"},
   {"expression"}, {"expression2"}, {"file"}, {"frame"}, {"gpo"}, {"height"}, {"inverted"}, {"keypad"}, {"l", "L"}, {"layer", "Layer"},
   {"Layout"}, {"length"}, {"max"}, {"min"}, {"n", "N"}, {"o"}, {"p"}, {"points"}, {"position"}, {"postfix"}, {"precision"},
   {"prefix"}, {"q"}, {"reload"}, {"Row", "row"}, {"speed"}, {"state"}, {"style"}, {"timer"}, {"update"}, {"v"},
   {"Variables"}, {"visible"}, {"w"}, {"Widget"}, {"width"}, {"x"}, {"y"} >>
MCRank == [name \in UNION {Alphabet[k] : k \in DOMAIN Alphabet} |-> CHOOSE k \in DOMAIN Alphabet : name \in Alphabet[k]]
MCCharCode == ("a" :> 97) @@ ("b" :> 98) @@ ("c" :> 99) @@ ("A" :> 65) @@ ("B" :> 66) @@ ("C" :> 67) @@ (" " :> 32) @@ ("-" :> 45) @@ ("." :> 46)
              @@ [c \in {Digit[d] : d \in 1 .. 10} |-> 48 + DigitValue(c)]
MCUpper == ("a" :> "A") @@ ("b" :> "B") @@ ("c" :> "C")
MCWord == (<<"N">> :> <<"N", "", 0>>)
MCReadings == {NumberResult(0), NumberResult(-7), NumberResult(96), Text(<<"a", "b", "c">>)}
MCPictures == {Nothing, "cat", "dog"}
MCKeypad == {<<"pressed", "up">>, <<"released", "confirm">>}
MCEventName == <<"go">>

-----------------------------------------------------------------------------
(* Expressions with a meaning of their own: a number, a string, or an operator
   with its operands.  Shown writes one with the fewest parentheses. *)
Num0(n) == [op |-> "number", n |-> n, s |-> <<>>, args |-> <<>>]
Str0(t) == [op |-> "string", n |-> 0, s |-> t, args |-> <<>>]
Apply(op, args) == [op |-> op, n |-> 0, s |-> <<>>, args |-> args]
Rank(op) == CASE op \in {"number", "string"} -> 12 [] op \in {"sign", "not"} -> 11 [] op = "?" -> 3
              [] OTHER -> CHOOSE n \in {4, 5, 6, 7, 8, 9, 10} : op \in LevelOps[n]
Char2(op) == CASE op = "==" -> <<"=", "=">> [] op = "!=" -> <<"!", "=">> [] op = "<=" -> <<"<", "=">> [] op = ">=" -> <<">", "=">>
               [] OTHER -> <<op>>
OpText(op) == IF op \in AlphaOperators THEN <<Name(op)>> ELSE [k \in DOMAIN Char2(op) |-> Op(Char2(op)[k])]

RECURSIVE Shown(_, _)
Shown(x, level) ==
    LET a(k, l) == Shown(x.args[k], l)
        r == Rank(x.op)
        bare == CASE x.op = "number" -> <<Number(x.n)>>
                  [] x.op = "string" -> <<Str(x.s)>>
                  [] x.op = "sign" -> <<Op("-")>> \o a(1, 12)
                  [] x.op = "not" -> <<Op("!")>> \o a(1, 12)
                  [] x.op = "?" -> a(1, 4) \o <<Op("?")>> \o a(2, 4) \o <<Op(":")>> \o a(3, 4)
                  [] OTHER -> a(1, r) \o <<Blank>> \o OpText(x.op) \o <<Blank>> \o a(2, r + 1)
    IN IF r < level THEN <<Op("(")>> \o bare \o <<Op(")")>> ELSE bare

RECURSIVE Meaning(_)
Meaning(x) ==
    LET m(k) == Meaning(x.args[k])
        n(k) == R2N(m(k))
        s(k) == R2S(m(k))
    IN CASE x.op = "number" -> NumberResult(x.n)
         [] x.op = "string" -> Text(x.s)
         [] x.op = "sign" -> NumberResult(0 - n(1))
         [] x.op = "not" -> NumberResult(IsTrue(n(1) = 0))
         [] x.op = "|" -> NumberResult(IsTrue(n(1) # 0 \/ n(2) # 0))
         [] x.op = "&" -> NumberResult(IsTrue(n(1) # 0 /\ n(2) # 0))
         [] x.op = "?" -> IF n(1) # 0 THEN m(2) ELSE m(3)
         [] x.op = "." -> Text(s(1) \o s(2))
         [] x.op \in AlphaOperators -> NumberResult(StringOp(x.op, s(1), s(2)))
         [] OTHER -> NumberResult(NumberOp(x.op, n(1), n(2)))

Binary == {"|", "&", "==", "!=", "eq", "ne", "<", "<=", ">", ">=", "lt", "ge", "+", "-", ".", "*", "/", "%", "^"}
Two == Num0(20)
Three == Num0(30)
Expressions ==
    {Apply(p, <<Apply(q, <<Three, Two>>), Num0(10)>>) : p, q \in Binary}
    \cup {Apply(p, <<Three, Apply(q, <<Two, Num0(0)>>)>>) : p \in Binary \ {"^"}, q \in Binary}
    \cup {Apply(u, <<Apply(p, <<Num0(15), Two>>)>>) : u \in {"sign", "not"}, p \in Binary}
    \cup {Apply(p, <<Apply(u, <<Num0(15)>>), Str0(<<"a">>)>>) : u \in {"sign", "not"}, p \in Binary}
    \cup {Apply("?", <<Apply(p, <<Two, Str0(<<"2">>)>>), Str0(<<"a", "b">>), Apply(p, <<Str0(<<"b">>), Str0(<<"c">>)>>)>>) : p \in Binary}
    \cup {Apply("?", <<Apply("?", <<Num0(0), Two, Num0(0)>>), Two, Three>>)}

-----------------------------------------------------------------------------
(* Files. *)
Open(name, instance) == [kind |-> "open", key |-> <<<<name, instance, 0>>>>, val |-> <<>>]
Close == [kind |-> "close", key |-> <<>>, val |-> <<>>]
Set2(key, text) == [kind |-> "set", key |-> key, val |-> text]
Set1(name, text) == Set2(<<<<name, "", 0>>>>, text)
W(name, class, settings) == <<Open("Widget", name), Set1("class", <<Str(<<class>>)>>)>> \o settings \o <<Close>>
N(n) == <<Number(n * Unit)>>
S(word) == <<Str(<<word>>)>>
Letters(word) == <<Str(word)>>
read == <<Name("read"), Op("("), Op(")")>>

\* A place in the layout: the key in the file, and where its widget is to be, with the
\* number behind X the row, as layout_init() has it.
Put(place, widget) == [key |-> place.key, at |-> place.at, widget |-> widget]
At1(r, c) == [key |-> <<<<"layer", "", 1>>, <<"row", "", r>>, <<"col", "", c>>>>, at |-> <<"RC", 1, r - 1, c - 1>>]
Old(r, c) == [key |-> <<<<"Row", "", r>>, <<"col", "", c>>>>, at |-> <<"RC", 1, r - 1, c - 1>>]
XY(l, x, y) == [key |-> <<<<"Layer", "", l>>, <<"x", "", x>>, <<"y", "", y>>>>, at |-> <<"XY", l, x - 1, y - 1>>]
One(name, n) == <<<<name, "", n>>>>
Numbered(name, kind, n) == [key |-> One(name, n), at |-> <<kind, 0, n - 1, 0>>]

NoScene == [options |-> <<>>, stat |-> SafeFile, file |-> <<>>, layout |-> <<>>, inputs |-> {}, keys |-> FALSE, events |-> FALSE,
            guard |-> FALSE, ast |-> Num0(0), isAst |-> FALSE,
            classes |-> {"text", "bar", "icon", "graph", "ring", "arc", "image", "gpo", "keypad"}]
Scene(layout, settings) ==
    [NoScene EXCEPT !.layout = layout,
                    !.file = <<Set1("Layout", S("l")), Open("Layout", "l")>>
                             \o [k \in DOMAIN layout |-> Set2(layout[k].key, S(layout[k].widget))] \o <<Close>> \o settings]
Reads(s) == [s EXCEPT !.inputs = {"reading"}]
TextScene(settings) == Scene(<<Put(At1(1, 1), "w")>>, W("w", "text", settings))

abc == Letters(<<"a", "b", "c">>)
TextScenes ==
    {Reads(TextScene(<<Set1("width", N(4)), Set1("align", S(a)), Set1("expression", read),
                       Set1("prefix", <<Name("strupper"), Op("(")>> \o read \o <<Op(")")>>)>>)) : a \in {"L", "R"}}
    \cup {Reads(TextScene(<<Set1("width", N(7)), Set1("align", S("C")), Set1("expression", abc),
                            Set1("prefix", <<Name("strupper"), Op("(")>> \o read \o <<Op(")")>>), Set1("postfix", S(" "))>>))}
    \cup {TextScene(<<Set1("width", N(w)), Set1("align", Letters(a)), Set1("expression", abc),
                      Set1("prefix", IF w = 3 THEN S("A") ELSE S(" ")), Set1("speed", N(5))>>)
            : w \in 2 .. 3, a \in {<<"M">>, <<"A">>, <<"P", "L">>, <<"P", "C">>, <<"P", "R">>}}
    \cup {Reads(TextScene(<<Set1("width", N(2)), Set1("align", Letters(a)), Set1("expression", read)>>))
            : a \in {<<"M">>, <<"A">>, <<"P">>}}
    \cup {Reads(TextScene(<<Set1("width", N(w)), Set1("precision", N(2)), Set1("align", S("R")), Set1("expression", read)>>)) : w \in {1, 2, 4, 5}}

turn == <<Name("n"), Op("="), Number(Unit), Blank, Op("-"), Blank, Name("n")>>
WidgetScenes ==
  { Reads(Scene(<<Put(At1(1, 1), "w")>>, W("w", "bar", <<Set1("expression", read), Set1("expression2", <<Op("-")>> \o read),
                                                        Set1("length", N(5)), Set1("direction", S("N"))>>))),
    Reads(Scene(<<Put(At1(1, 1), "w")>>, W("w", "bar", <<Set1("expression", read), Set1("max", N(5))>>))),
    Scene(<<Put(At1(1, 1), "w"), Put(At1(1, 3), "w")>>,
          W("w", "icon", <<Open("Bitmap", ""), Set2(One("Row", 1), Letters(<<"*", "|", " ", "|", "*">>)),
                           Set2(One("Row", 2), Letters(<<"*", "|">>)), Close>>)),
    Reads(Scene(<<Put(At1(1, 1), "w"), Put(At1(2, 1), "q")>>,
          W("w", "graph", <<Set1("expression", read), Set1("points", N(3))>>) \o W("q", "ring", <<Set1("expression", read), Set1("min", N(1))>>))),
    Reads(Scene(<<Put(At1(1, 1), "w"), Put(At1(2, 2), "w"), Put(Numbered("gpo", "GPO", 1), "o")>>,
          W("w", "arc", <<Set1("expression", read), Set1("max", <<Name("max"), Op("("), Number(20), Op(",")>> \o read \o <<Op(")")>>)>>)
          \o W("o", "gpo", <<Set1("expression", read), Set1("update", read)>>))),
    [Scene(<<Put(XY(2, 1, 1), "w"), Put(XY(2, 5, 1), "w")>>,
          W("w", "image", <<Set1("file", S("f")), Set1("reload", <<Name("test::onoff"), Op("("), Number(0), Op(")"), Op(">"), Number(0)>>)>>))
        EXCEPT !.inputs = {"picture"}],
    [Reads(Scene(<<Put(Numbered("timer", "TIMER", 1), "o"), Put(At1(1, 1), "w")>>,
          <<Open("Variables", ""), Set1("n", N(0)), Set1("v", <<Name("n"), Op("+"), Number(Unit)>>), Close>>
          \o W("o", "timer", <<Set1("expression", read \o <<Op("&"), Op("(")>> \o turn \o <<Op(")")>>),
                               Set1("active", <<Name("v")>>)>>)
          \o W("w", "text", <<Set1("expression", <<Name("n"), Blank, Op("."), Blank, Name("p")>>)>>))) EXCEPT !.guard = TRUE],
    [Scene(<<Put(Numbered("keypad", "KEYPAD", 1), "o"), Put(Numbered("keypad", "KEYPAD", 2), "p"), Put(At1(1, 1), "w")>>,
          W("o", "keypad", <<Set1("position", S("up")), Set1("expression", turn)>>)
          \o W("p", "keypad", <<Set1("position", S("up")), Set1("state", S("released")), Set1("expression", turn)>>)
          \o W("w", "text", <<Set1("expression", <<Name("button_exec"), Op("("), Str(<<"a">>), Op(")"), Op(";"), Name("n")>>)>>))
        EXCEPT !.keys = TRUE, !.inputs = {"forks"}],
    [Reads(Scene(<<Put(At1(1, 1), "w"), Put(At1(2, 1), "q"), Put(Numbered("timer", "TIMER", 1), "o")>>,
          W("w", "text", <<Set1("expression", read), Set1("event", S("go")), Set1("width", N(3))>>)
          \o W("q", "text", <<Set1("expression", read \o <<Op("."), Number(Unit)>>), Set1("event", S("go")), Set1("update", N(5)), Set1("width", N(4))>>)
          \o W("o", "timer", <<Set1("expression", <<Name("event::trigger"), Op("("), Str(<<"go">>), Op(")")>>), Set1("update", N(1))>>)))
        EXCEPT !.events = TRUE] }

\* Entries of the layout in the old style and in the new one, options that hold
\* against the file, names in either case, and files with errors.
two == Scene(<<Put(Old(1, 1), "w"), Put(At1(2, 1), "q"), Put(Old(2, 1), "w"), Put(Old(3, 1), "q"), Put(Numbered("gpo", "GPO", 2), "o")>>,
             W("w", "text", <<Set1("expression", N(1))>>) \o W("q", "text", <<Set1("expression", <<Name("cfg"), Op("("), Str(<<"N">>), Op(")")>>)>>)
             \o W("o", "gpo", <<Set1("expression", N(1)), Set1("update", N(0))>>) \o <<Set1("N", N(3)), Set1("n", N(4))>>)
Option(key, text) == [key |-> <<<<key, "", 0>>>>, val |-> text]
FileScenes ==
  { two,
    [two EXCEPT !.options = <<Option("n", N(7))>>],
    [two EXCEPT !.options = <<Option("N", N(6)), Option("n", N(5)), Option("Layout", S("L"))>>],
    [two EXCEPT !.classes = {"gpo"}, !.layout = <<@[5]>>],
    [two EXCEPT !.file = @ \o <<Close>>], [two EXCEPT !.file = SubSeq(@, 1, Len(@) - 3)],
    [two EXCEPT !.file = @ \o <<[kind |-> "bad", key |-> <<>>, val |-> <<>>]>>],
    [two EXCEPT !.stat.private = FALSE], [two EXCEPT !.options = <<Option("Layout", <<>>)>>],
    [two EXCEPT !.options = <<Option("Layout", Letters(<<>>))>>],
    [two EXCEPT !.options = <<[key |-> <<<<"Layout", "l", 0>>, <<"row", "", 1>>>>, val |-> N(1)]>>],
    [two EXCEPT !.file = @ \o <<Set2(<<<<"Widget", "w", 0>>, <<"class", "", 0>>>>, S("text"))>>],
    [two EXCEPT !.stat = [kind |-> "other", own |-> TRUE, private |-> TRUE]],
    [two EXCEPT !.options = <<Option("Layout", S("l"))>>, !.stat = [kind |-> "/dev/null", own |-> FALSE, private |-> FALSE],
                !.file = <<>>, !.layout = <<>>] }

\* Texts that are not expressions, or only in part.
Broken == { <<Op("(")>> \o N(1), N(1) \o <<Op("?")>> \o N(2), N(1) \o <<Garbage>>, <<Name("o"), Op("("), Number(1), Op(","), Op(")")>>,
            <<Name("max"), Op("("), Number(1), Op(")")>>, <<Name("substr"), Op("(")>> \o abc \o <<Op(","), Number(10), Op(")")>>,
            <<Name("decode"), Op("("), Number(10), Op(","), Str(<<"a">>), Op(","), Str(<<"b">>), Op(")")>>, <<Op("+")>>, <<Op("=")>>,
            N(1) \o <<Blank>> \o N(1), <<Name("strstr"), Op("(")>> \o abc \o <<Op(","), Str(<<"c">>), Op(")")>>,
            <<Name("strlen"), Op("("), Str(<<"a">>), Op(")"), Op(";"), Name("floor"), Op("("), Number(15), Op(")")>>,
            <<Name("min"), Op("("), Op(","), Number(15), Op(")")>> }
ExpressionScenes ==
    {[TextScene(<<Set1("expression", Shown(x, 1)), Set1("update", N(0))>>) EXCEPT !.ast = x, !.isAst = TRUE] : x \in Expressions}
    \cup {TextScene(<<Set1("expression", t), Set1("width", N(3))>>) : t \in Broken}

MCScenes == TextScenes \cup WidgetScenes \cup FileScenes \cup ExpressionScenes

-----------------------------------------------------------------------------
\* An expression means what its operators mean, by their ranks and from the left to
\* the right, whatever blanks and parentheses say it.
MeansWhatItSays ==
    \A i \in Texts : scene.isAst =>
        LET value == Of(i).prop["expression"].result
            meant == Meaning(scene.ast)
        IN ("number" \in meant.type <=> "number" \in value.type) /\ R2S(value) = R2S(meant)

\* An expression has the value that its text says, and no other.
EvaluationHolds == MeansWhatItSays /\ NoCrash
==========================================================================
