----------------------------- MODULE Evaluator -----------------------------
(* The expressions of the configuration, evaluator.c: a text is compiled into a
   tree of nodes, and evaluating the tree computes a result, calls functions and
   sets variables.

   A text is a sequence of lexemes: a name, a number, a string, an operator
   character, a blank, or a character that is none of these.  Numbers are counted
   in tenths, strings are sequences of characters. *)
EXTENDS Config

CONSTANTS MaxVariables,   \* slots for variables
          CHUNK_SIZE,     \* buffers for strings are multiples of this size
          CharCode,       \* the codes of the characters in use
          Upper,          \* toupper() of the small letters in use
          Word            \* the word of a key that a string names

Unit == 10              \* the number one

-----------------------------------------------------------------------------
(* Results: a number, a string, both when one was computed from the other, or
   nothing when a function sets none. *)
NoResult == [type |-> {}, number |-> 0, string |-> <<>>, size |-> 0]
IsTrue(b) == IF b THEN Unit ELSE 0

NumberResult(n) == [type |-> {"number"}, number |-> n, string |-> <<>>, size |-> 0]

\* SetResult(): a string goes into the buffer that is there if it is big enough.
StringResult(old, s) ==
    [type |-> {"string"}, number |-> 0, string |-> s,
     size |-> IF old.size # 0 /\ Len(s) < old.size THEN old.size
              ELSE CHUNK_SIZE * (((Len(s) + 1) \div CHUNK_SIZE) + 1)]
Text(s) == StringResult(NoResult, s)

CopyResult(old, value) ==
    [value EXCEPT !.size = IF @ > old.size \/ @ = 0 THEN @ ELSE old.size]

Abs(n) == IF n < 0 THEN 0 - n ELSE n
Digit == <<"0", "1", "2", "3", "4", "5", "6", "7", "8", "9">>
DigitValue(c) == CHOOSE d \in 0 .. 9 : Digit[d + 1] = c
IsDigit(c) == \E d \in 0 .. 9 : Digit[d + 1] = c

RECURSIVE Decimal(_)
Decimal(n) == (IF n < 10 THEN <<>> ELSE Decimal(n \div 10)) \o <<Digit[(n % 10) + 1]>>
Sign(n) == IF n < 0 THEN <<"-">> ELSE <<>>

\* printf("%g")
General(n) == Sign(n) \o Decimal(Abs(n) \div Unit)
              \o (IF Abs(n) % Unit = 0 THEN <<>> ELSE <<".", Digit[(Abs(n) % Unit) + 1]>>)

\* atof(): the number a string starts with, 0 if there is none.
RECURSIVE Whole(_, _)
Whole(s, n) == IF s # <<>> /\ IsDigit(Head(s)) THEN Whole(Tail(s), n * 10 + DigitValue(Head(s))) ELSE [n |-> n, rest |-> s]
Unsigned(s) == LET w == Whole(s, 0)
               IN w.n * Unit + (IF Len(w.rest) > 1 /\ w.rest[1] = "." /\ IsDigit(w.rest[2]) THEN DigitValue(w.rest[2]) ELSE 0)
atof(s) == IF s # <<>> /\ Head(s) = "-" THEN 0 - Unsigned(Tail(s)) ELSE Unsigned(s)

\* A result as a number or as a string, and what it has become by that.
WithNumber(r) == IF r.type = {"string"} THEN [r EXCEPT !.type = {"number", "string"}, !.number = atof(r.string)] ELSE r
WithString(r) == IF r.type = {"number"}
                 THEN [r EXCEPT !.type = {"number", "string"}, !.string = General(r.number), !.size = CHUNK_SIZE] ELSE r
R2N(r) == IF r.type = {} THEN 0 ELSE WithNumber(r).number
R2S(r) == WithString(r).string
IsNull(r) == r.type = {}            \* R2S() returns NULL, and its callers read from there

-----------------------------------------------------------------------------
(* The world of an expression: the variables, the configuration for cfg(), what
   the outside gives to read, the switches of test::onoff(), and the events that
   it triggered, in order. *)
Define(env, name, value) ==
    IF name \in DOMAIN env.vars THEN [env EXCEPT !.vars[name] = CopyResult(@, value)]
    ELSE IF Cardinality(DOMAIN env.vars) >= MaxVariables THEN env
    ELSE [env EXCEPT !.vars = (name :> CopyResult(NoResult, value)) @@ @]

NoVariable == ""
FindVariable(env, name) == IF name \in DOMAIN env.vars THEN name ELSE NoVariable
X_Known_Bug(env, name) == env
Known(env, name) == IF name \in DOMAIN env.vars THEN env ELSE Define(env, name, Text(<<>>))

Crash(env, broken) == [env EXCEPT !.crashed = @ \/ broken]

VariablesSection == <<<<"Variables", "", 0>>>>

\* The functions and how many arguments each takes; any number if negative.
Arity == ("max" :> 2) @@ ("min" :> 2) @@ ("floor" :> 1) @@ ("decode" :> -1) @@ ("strlen" :> 1) @@ ("substr" :> -1)
         @@ ("strstr" :> 2) @@ ("strupper" :> 1) @@ ("test::onoff" :> 1) @@ ("event::trigger" :> 1)
         @@ ("button_exec" :> -1) @@ ("cfg" :> -1) @@ ("read" :> 0)

-----------------------------------------------------------------------------
(* Parse() takes the next lexeme of the rest, and the blanks after it.  Two
   operator characters that make one operator are taken together. *)
Name(n) == [kind |-> "name", name |-> n]
Number(n) == [kind |-> "number", number |-> n]
Str(s) == [kind |-> "string", string |-> s]
Op(o) == [kind |-> "op", op |-> o]
Blank == [kind |-> "blank"]
Garbage == [kind |-> "garbage"]

AlphaOperators == {"eq", "ne", "lt", "le", "gt", "ge"}
Pairs == [NEQ |-> <<"=", "=">>, NNE |-> <<"!", "=">>, NLE |-> <<"<", "=">>, NGE |-> <<">", "=">>]
PairName == ("NEQ" :> "==") @@ ("NNE" :> "!=") @@ ("NLE" :> "<=") @@ ("NGE" :> ">=")

RECURSIVE SkipBlanks(_)
SkipBlanks(text) == IF text # <<>> /\ Head(text).kind = "blank" THEN SkipBlanks(Tail(text)) ELSE text

IsOp(text, i, o) == i <= Len(text) /\ text[i].kind = "op" /\ text[i].op = o
X_PairAt_Bug(text) == {}
PairAt(text) == {p \in DOMAIN Pairs : IsOp(text, 1, Pairs[p][1]) /\ IsOp(text, 2, Pairs[p][2])}

Took(p, text, n, token, op) == [p EXCEPT !.rest = SkipBlanks(SubSeq(text, n + 1, Len(text))),
                                        !.token = token, !.op = op, !.word = Head(text)]
Missed(p, text) == [p EXCEPT !.rest = text, !.token = "undefined", !.op = "", !.word = Str(<<>>)]
OperatorFrom(p, text, pair) ==
    IF pair = {} THEN Took(p, text, 1, "operator", Head(text).op)
    ELSE Took(p, text, 2, "operator", PairName[CHOOSE o \in pair : TRUE])
ParseFrom(p, text) ==
    IF text = <<>> THEN Missed(p, text)
    ELSE CASE Head(text).kind = "name" ->
                IF Head(text).name \in AlphaOperators THEN Took(p, text, 1, "operator", Head(text).name)
                ELSE Took(p, text, 1, "name", "")
           [] Head(text).kind = "number" -> Took(p, text, IF IsOp(text, 2, ".") THEN 2 ELSE 1, "number", "")
           [] Head(text).kind = "string" -> Took(p, text, 1, "string", "")
           [] Head(text).kind = "op" -> OperatorFrom(p, text, PairAt(text))
           [] OTHER -> Missed(p, text)
Parse(p) == ParseFrom(p, SkipBlanks(p.rest))

IsToken(p, ops) == p.token = "operator" /\ p.op \in ops
EmptyWord(p) == p.word.kind = "string" /\ p.word.string = <<>>

-----------------------------------------------------------------------------
(* The nodes, and the parser: one level for every rank of operators. *)
Node(token, op, child) == [token |-> token, op |-> op, child |-> child, result |-> NoResult, var |-> NoVariable, fun |-> ""]
Literal(token, result) == [Node(token, "", <<>>) EXCEPT !.result = result]
JunkNode == Literal("string", Text(<<>>))
LinkNode(node, child) == [node EXCEPT !.child = Append(@, child)]
Parsed(p, node) == [p |-> p, node |-> node]

LevelOps == << {";"}, {}, {}, {"|"}, {"&"}, {"==", "!=", "eq", "ne"}, {">", ">=", "<", "<=", "gt", "ge", "lt", "le"},
               {"+", "-", "."}, {"*", "/", "%"}, {"^"} >>

RECURSIVE Level(_, _), Arguments(_, _, _)

Operation(op, left, right) == Parsed(right.p, Node("operator", op, <<left, right.node>>))
X_Chain_Bug(n, q) == IF IsToken(q.p, LevelOps[n]) THEN Operation(q.p.op, q.node, Level(n, Parse(q.p))) ELSE q

\* Operators of one rank, from the left to the right.
RECURSIVE Chain(_, _)
Chain(n, q) == IF IsToken(q.p, LevelOps[n]) THEN Chain(n, Operation(q.p.op, q.node, Level(n + 1, Parse(q.p)))) ELSE q

\* A name before an "=" that does not start "==".
Assigned(right, var) == Parsed(right.p, [Node("operator", "=", <<right.node>>) EXCEPT !.var = var])
AssignTo(known, name) == Assigned(Level(3, Parse(Parse(known))), FindVariable(known.env, name))
Assignment(p) ==
    IF p.token = "name" /\ IsOp(p.rest, 1, "=") /\ ~IsOp(p.rest, 2, "=")
    THEN AssignTo([p EXCEPT !.env = Known(@, p.word.name)], p.word.name)
    ELSE Level(3, p)

Choice(cond, yes, no) == Node("operator", "?", <<cond, yes, no>>)
ThirdPart(cond, yes, no) == Parsed(no.p, Choice(cond, yes.node, no.node))
SecondPart(cond, yes) ==
    IF IsToken(yes.p, {":"}) THEN ThirdPart(cond, yes, Level(4, Parse(yes.p)))
    ELSE Parsed(yes.p, Choice(cond, yes.node, JunkNode))
FirstPart(cond) == IF IsToken(cond.p, {"?"}) THEN SecondPart(cond.node, Level(4, Parse(cond.p))) ELSE cond
Conditional(p) == FirstPart(Level(4, p))

\* The arguments of a call, after the opening brace.
Argued(arg, linked, argc) ==
    IF IsToken(arg.p, {","}) THEN Arguments(arg.p, linked, argc) ELSE [p |-> arg.p, node |-> linked, argc |-> argc]
Argument(arg, node, argc) == Argued(arg, LinkNode(node, arg.node), argc + 1)
ArgumentsFrom(first, node, argc) ==
    IF IsToken(first, {")"}) THEN [p |-> first, node |-> node, argc |-> argc]
    ELSE Argument(IF IsToken(first, {","}) THEN Parsed(first, JunkNode) ELSE Level(1, first), node, argc)
Arguments(p, node, argc) == ArgumentsFrom(Parse(p), node, argc)

\* An unknown function is an empty string; one with too few arguments gets empty ones.
Called(args, arity) == Parsed(args.p, [args.node EXCEPT !.child = @ \o [i \in 1 .. arity - args.argc |-> JunkNode]])
Call(p, name) ==
    IF name \in DOMAIN p.env.functions
    THEN Called(Arguments(Parse(p), [Node("function", "", <<>>) EXCEPT !.fun = name], 0), p.env.functions[name])
    ELSE Called(Arguments(Parse(p), JunkNode, 0), 0)

\* Numbers, strings, variables, calls and parentheses.
Braced(inner) == IF IsToken(inner.p, {")"}) THEN inner ELSE Parsed(inner.p, LinkNode(inner.node, JunkNode))
Variable(p, name) ==
    LET known == [p EXCEPT !.env = Known(@, name)]
    IN Parsed(known, [Node("variable", "", <<>>) EXCEPT !.var = FindVariable(known.env, name)])
NextParsed(q) == Parsed(Parse(q.p), q.node)
Primary(p) ==
    NextParsed(
        CASE IsToken(p, {"("}) -> Braced(Level(1, Parse(p)))
          [] p.token = "number" -> Parsed(p, Literal("number", NumberResult(p.word.number)))
          [] p.token = "string" -> Parsed(p, Literal("string", Text(p.word.string)))
          [] p.token = "name" /\ IsOp(p.rest, 1, "(") -> Call(p, p.word.name)
          [] p.token = "name" /\ ~IsOp(p.rest, 1, "(") -> Variable(p, p.word.name)
          [] OTHER -> Parsed(p, JunkNode))

\* One sign or "not".
Prefixed(op, operand) ==
    CASE op = "-" -> Parsed(operand.p, Node("operator", "sign", <<operand.node>>))
      [] op = "!" -> Parsed(operand.p, Node("operator", "not", <<operand.node>>))
      [] OTHER -> operand
Signed(p) == IF IsToken(p, {"+", "-", "!"}) THEN Prefixed(p.op, Primary(Parse(p))) ELSE Primary(p)

Level(n, p) ==
    CASE n = 2 -> Assignment(p)
      [] n = 3 -> Conditional(p)
      [] n = 11 -> Signed(p)
      [] OTHER -> Chain(n, Level(n + 1, p))

\* A tree, or none for an empty text and for one with more than an expression.
NoTree == Node("none", "", <<>>)
Compiled(all) == [ok |-> EmptyWord(all.p), tree |-> IF EmptyWord(all.p) THEN all.node ELSE NoTree, env |-> all.p.env]
CompileFrom(first) == IF EmptyWord(first) THEN [ok |-> FALSE, tree |-> NoTree, env |-> first.env] ELSE Compiled(Level(1, first))
Compile(text, env) == CompileFrom(Parse([rest |-> text, token |-> "undefined", op |-> "", word |-> Str(<<>>), env |-> env]))

-----------------------------------------------------------------------------
(* EvalTree().  A node is [node, env]: evaluating one leaves its result in it. *)
Done(node, env) == [node |-> node, env |-> env]
SetNumber(e, n) == Done([e.node EXCEPT !.result = NumberResult(n)], e.env)
SetString(e, s) == Done([e.node EXCEPT !.result = StringResult(@, s)], e.env)
SetValue(e, r) == Done([e.node EXCEPT !.result = r], e.env)

RECURSIVE EvalTree(_, _), EvalChildren(_, _), CallFunction(_), cfg_get(_, _, _)

\* The children in the set I, from the first to the last.
WithChild(e, i, child) == Done([e.node EXCEPT !.child[i] = child.node], child.env)
EvalChildren(e, I) ==
    IF I = {} THEN e
    ELSE LET i == CHOOSE k \in I : \A j \in I : k <= j
         IN EvalChildren(WithChild(e, i, EvalTree(e.node.child[i], e.env)), I \ {i})

EvalChild(e, i) == EvalChildren(e, {i})
Num(e, i) == R2N(e.node.child[i].result)
AsNumber(e, i) == Done([e.node EXCEPT !.child[i].result = WithNumber(@)], e.env)
AsNumbers(e) == AsNumber(AsNumber(e, 1), 2)
Str1(e, i) == R2S(e.node.child[i].result)
AsStrings(e) == Done([e.node EXCEPT !.child[1].result = WithString(@), !.child[2].result = WithString(@)],
                     Crash(e.env, \E i \in 1 .. 2 : IsNull(e.node.child[i].result)))

\* strcmp() < 0, by the codes of the characters.
RECURSIVE StringLess(_, _)
StringLess(a, b) ==
    /\ b # <<>>
    /\ \/ a = <<>>
       \/ CharCode[Head(a)] < CharCode[Head(b)]
       \/ Head(a) = Head(b) /\ StringLess(Tail(a), Tail(b))

\* The quotient and the remainder of numbers of any sign, toward zero as in C.
Quotient(a, b) == (IF (a < 0) = (b < 0) THEN 1 ELSE -1) * (Abs(a) \div Abs(b))
Remainder(a, b) == a - (b * Quotient(a, b))
\* pow(), for exponents that are whole.
RECURSIVE Power(_, _)
Power(a, n) == IF n <= 0 THEN Unit ELSE Quotient(a * Power(a, n - Unit), Unit)

NumberOps == {"==", "!=", "<", "<=", ">", ">=", "+", "-", "*", "/", "%", "^"}
NumberOp(op, a, b) ==
    CASE op = "==" -> IsTrue(a = b)  [] op = "!=" -> IsTrue(a # b)
      [] op = "<" -> IsTrue(a < b)   [] op = "<=" -> IsTrue(a <= b)
      [] op = ">" -> IsTrue(a > b)   [] op = ">=" -> IsTrue(a >= b)
      [] op = "+" -> a + b           [] op = "-" -> a - b
      [] op = "*" -> Quotient(a * b, Unit)
      [] op = "/" -> IF b = 0 THEN 0 ELSE Quotient(a * Unit, b)
      [] op = "%" -> IF b = 0 THEN 0 ELSE Remainder(a, b)
      [] op = "^" -> Power(a, b)

StringOp(op, s, t) ==
    CASE op = "eq" -> IsTrue(s = t)            [] op = "ne" -> IsTrue(s # t)
      [] op = "lt" -> IsTrue(StringLess(s, t)) [] op = "le" -> IsTrue(~StringLess(t, s))
      [] op = "gt" -> IsTrue(StringLess(t, s)) [] op = "ge" -> IsTrue(~StringLess(s, t))

\* The value of the last part of a list, of an assignment, of a branch: a number
\* or a string, anything else is an error and an empty string.
Inherit(e, i) ==
    LET r == e.node.child[i].result
    IN CASE r.type = {"number"} -> SetNumber(e, r.number)
         [] r.type = {"string"} -> SetString(e, r.string)
         [] OTHER -> SetString(e, <<>>)

EvalList(e) == Inherit(EvalChildren(e, DOMAIN e.node.child), Len(e.node.child))

SetTo(one, name) ==
    Done(one.node, IF name = NoVariable THEN Crash(one.env, TRUE)
                   ELSE [one.env EXCEPT !.vars[name] = CopyResult(@, one.node.child[1].result)])
EvalSet(e) == Inherit(SetTo(EvalChild(e, 1), e.node.var), 1)

Branch(cond, i) == Inherit(EvalChild(cond, i), i)
Decided(cond) == Branch(cond, IF Num(cond, 1) = 0 THEN 3 ELSE 2)
EvalConditional(e) == Decided(AsNumber(EvalChild(e, 1), 1))

IsDecided(left, decided) == (Num(left, 1) # 0) = decided
Second(right) == SetNumber(right, IsTrue(Num(right, 2) # 0))
LogicalBug(both, decided) == IF IsDecided(both, decided) THEN SetNumber(both, IsTrue(decided)) ELSE Second(both)
X_EvalLogical_Bug(e, decided) == LogicalBug(AsNumbers(EvalChildren(e, {1, 2})), decided)
\* "|" and "&": the right side is evaluated only if the left does not decide.
Logical(left, decided) ==
    IF IsDecided(left, decided) THEN SetNumber(left, IsTrue(decided)) ELSE Second(AsNumber(EvalChild(left, 2), 2))
EvalLogical(e, decided) == Logical(AsNumber(EvalChild(e, 1), 1), decided)

TwoSided(both, op) ==
    CASE op \in NumberOps -> SetNumber(AsNumbers(both), NumberOp(op, Num(both, 1), Num(both, 2)))
      [] op \in AlphaOperators -> SetNumber(AsStrings(both), StringOp(op, Str1(both, 1), Str1(both, 2)))
      [] op = "." -> SetString(AsStrings(both), Str1(both, 1) \o Str1(both, 2))
EvalBinary(e, op) == TwoSided(EvalChildren(e, {1, 2}), op)

OneSided(one, op) == SetNumber(one, IF op = "sign" THEN 0 - Num(one, 1) ELSE IsTrue(Num(one, 1) = 0))
EvalUnary(e, op) == OneSided(AsNumber(EvalChild(e, 1), 1), op)

EvalVariable(e) ==
    IF e.node.var = NoVariable THEN Done(e.node, Crash(e.env, TRUE))
    ELSE SetValue(e, CopyResult(e.node.result, e.env.vars[e.node.var]))

EvalOperator(e) ==
    LET op == e.node.op
    IN CASE op = ";" -> EvalList(e)
         [] op = "=" -> EvalSet(e)
         [] op = "?" -> EvalConditional(e)
         [] op = "|" -> EvalLogical(e, TRUE)
         [] op = "&" -> EvalLogical(e, FALSE)
         [] op \in {"sign", "not"} -> EvalUnary(e, op)
         [] OTHER -> EvalBinary(e, op)

EvalTree(node, env) ==
    CASE node.token = "variable" -> EvalVariable(Done(node, env))
      [] node.token = "function" ->
             CallFunction(EvalChildren(Done([node EXCEPT !.result = NoResult], env), DOMAIN node.child))
      [] node.token = "operator" -> EvalOperator(Done(node, env))
      [] OTHER -> Done(node, env)

\* Eval() copies the result of the root; no tree is an empty string.  It fails
\* when a list, an assignment or a branch comes to neither a number nor a string.
HeirOf(node) ==
    CASE node.op = ";" -> Len(node.child)
      [] node.op = "=" -> 1
      [] node.op = "?" -> IF R2N(node.child[1].result) = 0 THEN 3 ELSE 2
Fails(node) == /\ node.token = "operator"
               /\ node.op \in {";", "=", "?"}
               /\ node.child[HeirOf(node)].result.type \notin {{"number"}, {"string"}}
Root(e) == [tree |-> e.node, env |-> e.env, result |-> e.node.result, ok |-> ~Fails(e.node)]
Eval(tree, env) ==
    IF tree = NoTree THEN [tree |-> tree, env |-> env, result |-> Text(<<>>), ok |-> TRUE] ELSE Root(EvalTree(tree, env))

\* cfg_get(): a value is an expression too.
StringOf(v, default) ==
    IF v.ok THEN [value |-> R2S(v.result), env |-> Crash(v.env, IsNull(v.result))] ELSE [value |-> default, env |-> v.env]
StringFrom(c, default) ==
    IF c.ok THEN StringOf(Eval(c.tree, c.env), default) ELSE [value |-> default, env |-> c.env]
cfg_get(key, default, env) ==
    LET text == cfg_get_raw(env.config, key, <<>>)
    IN CASE Lookup(env.config, key) = 0 -> [value |-> default, env |-> env]
         [] Lookup(env.config, key) # 0 /\ text = <<>> -> [value |-> <<>>, env |-> env]
         [] OTHER -> StringFrom(Compile(text, env), default)

\* cfg_number(): a value out of its range becomes the bound; there is no upper one if max is -1.
Bounded(n, min, max) == CASE n < min -> min [] n >= min /\ max > min /\ max # -1 /\ n > max -> max [] OTHER -> n
NumberOf(v, default, min, max) ==
    [value |-> IF v.ok THEN Bounded(Quotient(R2N(v.result), Unit), min, max) ELSE default, env |-> v.env]
NumberFrom(c, default, min, max) ==
    IF c.ok THEN NumberOf(Eval(c.tree, c.env), default, min, max) ELSE [value |-> default, env |-> c.env]
cfg_number(key, default, min, max, env) ==
    LET text == cfg_get_raw(env.config, key, <<>>)
    IN IF text = <<>> THEN [value |-> default, env |-> env] ELSE NumberFrom(Compile(text, env), default, min, max)

-----------------------------------------------------------------------------
(* The functions of the plugins math, string, test, event, button_exec and cfg,
   and read(), which stands for every plugin that reads something. *)
Floor(n) == n \div Unit
Least(a, b) == IF a < b THEN a ELSE b
Clip(n) == IF n < 0 THEN 0 ELSE n

my_decode(e) ==
    LET index == Quotient(Num(e, 1), Unit)
        n == Len(e.node.child)
    IN CASE n < 2 -> SetString(e, <<>>)
         [] index \notin 0 .. n - 2 -> SetString(AsNumber(e, 1), <<>>)
         [] OTHER -> SetValue(AsNumber(e, 1), CopyResult(NoResult, e.node.child[index + 2].result))

my_substr(e) ==
    LET n == Len(e.node.child)
        s == Str1(e, 1)
        from == Least(Clip(Quotient(Num(e, 2), Unit)), Len(s))
        len == IF n = 3 THEN Least(Clip(Quotient(Num(e, 3), Unit)), Len(s) - from) ELSE Len(s) - from
    IN IF n \notin 2 .. 3 THEN SetString(e, <<>>) ELSE SetString(e, SubSeq(s, from + 1, from + len))

my_strstr(e) ==
    LET s == Str1(e, 1)
        t == Str1(e, 2)
        at == {i \in 0 .. Len(s) - Len(t) : SubSeq(s, i + 1, i + Len(t)) = t}
    IN SetNumber(e, IF at = {} THEN 0 - Unit ELSE Unit * (CHOOSE i \in at : \A j \in at : i <= j))

ToUpper(c) == IF c \in DOMAIN Upper THEN Upper[c] ELSE c

my_test_onoff(e) ==
    LET i == Floor(Num(e, 1)) % 10
        on == 0 - (IF i \in DOMAIN e.env.on THEN e.env.on[i] ELSE 1)
    IN SetNumber(Done(e.node, [e.env EXCEPT !.on = (i :> on) @@ @]), on * Unit)

\* The number that event::trigger() returns is the value of a pointer.
my_trigger(e) == SetNumber(Done(e.node, [e.env EXCEPT !.fired = Append(@, Str1(e, 1))]), Unit)

\* No result when the process cannot fork.
my_button_exec(e) == IF e.env.forks THEN SetString(e, <<"0">>) ELSE e

Got(node, got) == SetString(Done(node, got.env), got.value)
my_cfg(e) == Got(e.node, cfg_get([i \in DOMAIN e.node.child |-> Word[Str1(e, i)]], <<>>, e.env))

\* R2S() of an argument that is nothing ends the program.
StringArguments == [strlen |-> {1}, strupper |-> {1}, strstr |-> {1, 2}, substr |-> {1}, button_exec |-> {1}]
                   @@ ("event::trigger" :> {1})
NullArgument(e) == /\ e.node.fun \in DOMAIN StringArguments
                   /\ \E i \in StringArguments[e.node.fun] \cap DOMAIN e.node.child : IsNull(e.node.child[i].result)

Function(f, e) ==
    CASE f = "max" -> SetNumber(AsNumbers(e), IF Num(e, 1) > Num(e, 2) THEN Num(e, 1) ELSE Num(e, 2))
      [] f = "min" -> SetNumber(AsNumbers(e), Least(Num(e, 1), Num(e, 2)))
      [] f = "floor" -> SetNumber(AsNumber(e, 1), Unit * Floor(Num(e, 1)))
      [] f = "strlen" -> SetNumber(e, Unit * Len(Str1(e, 1)))
      [] f = "strupper" -> SetString(e, [i \in DOMAIN Str1(e, 1) |-> ToUpper(Str1(e, 1)[i])])
      [] f = "strstr" -> my_strstr(e)
      [] f = "substr" -> my_substr(e)
      [] f = "decode" -> my_decode(e)
      [] f = "test::onoff" -> my_test_onoff(AsNumber(e, 1))
      [] f = "event::trigger" -> my_trigger(e)
      [] f = "button_exec" -> my_button_exec(e)
      [] f = "cfg" -> my_cfg(e)
      [] f = "read" -> SetValue(e, CopyResult(NoResult, e.env.reading))
CallFunction(e) == Function(e.node.fun, Done(e.node, Crash(e.env, NullArgument(e))))

\* plugin_init_cfg(), before any other function is there: the section Variables,
\* in alphabetical order.
Stored(name, v) == IF v.ok THEN Define(v.env, name, v.result) ELSE v.env
StoredFrom(name, c) == IF c.ok THEN Stored(name, Eval(c.tree, c.env)) ELSE c.env
LoadVariable(env, key) ==
    LET text == cfg_get_raw(env.config, VariablesSection \o key, <<>>)
    IN IF Len(key) # 1 \/ key[1][2] # "" \/ text = <<>> THEN env ELSE StoredFrom(key[1][1], Compile(text, env))

load_variables(env) == FoldLeft(LoadVariable, env, cfg_list(env.config, VariablesSection))

\* plugin_init(): the variables, then the constants and the functions.
plugin_init(env) ==
    LET loaded == load_variables(env)
    IN [Define(Define(loaded, "Pi", NumberResult(31)), "e", NumberResult(27)) EXCEPT !.functions = Arity]

\* DeleteFunctions() and DeleteVariables()
plugin_exit(env) == [env EXCEPT !.functions = <<>>, !.vars = <<>>]
=============================================================================
