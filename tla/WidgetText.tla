----------------------------- MODULE WidgetText -----------------------------
(* Properties, and the widget that shows a text: widget_text.c and property.c.

   The handlers work on a world: env (variables, functions, configuration, see
   Evaluator), the widgets in the order in which they were added, their data (a
   child shares the data of its parent), a bag of pending timers, the named events
   with their callbacks, and the screen, what each widget drew last.  A string is
   a sequence of characters; a word that no property takes apart, the name of a
   class for instance, is one character. *)
EXTENDS Evaluator, Bags

Nothing == "nothing"
PrecisionUnset == 57005  \* 0xDEAD: the value is a string
NoString == <<Nothing>>     \* a widget that never formatted its value
PINGPONGWAIT == 2
Data(s, i) == s.data[s.widgets[i].data]
Section(name) == <<<<"Widget", name, 0>>>>
Key(name, key) == Section(name) \o <<<<key, "", 0>>>>

-----------------------------------------------------------------------------
(* Properties: an expression that is compiled once, and its last value. *)
Loads(c, there) == [prop |-> [valid |-> there, tree |-> c.tree, result |-> NoResult], env |-> c.env]
property_load(name, key, default, e) ==
    Loads(Compile(cfg_get_raw(e.config, Key(name, key), default), e), Lookup(e.config, Key(name, key)) # 0)

\* The properties of a widget, defaults a sequence of <<key, default text>>.
RECURSIVE LoadAll(_, _, _)
WithProperty(key, prop, more) == [prop |-> (key :> prop) @@ more.prop, env |-> more.env]
LoadRest(name, defaults, one) == WithProperty(Head(defaults)[1], one.prop, LoadAll(name, Tail(defaults), one.env))
LoadAll(name, defaults, e) ==
    IF defaults = <<>> THEN [prop |-> <<>>, env |-> e]
    ELSE LoadRest(name, defaults, property_load(name, Head(defaults)[1], Head(defaults)[2], e))

\* The settings of a widget, in the order in which it asks for them: strings with
\* their defaults, numbers with their defaults and their bounds.
RECURSIVE Settings(_, _, _)
WithSetting(key, value, more) == [is |-> (key :> value) @@ more.is, env |-> more.env]
RestOfSettings(name, list, one) == WithSetting(Head(list)[1], one.value, Settings(name, Tail(list), one.env))
Setting(key, s, e) == IF Len(s) = 2 THEN cfg_get(key, s[2], e) ELSE cfg_number(key, s[2], s[3], s[4], e)
Settings(name, list, e) ==
    IF list = <<>> THEN [is |-> <<>>, env |-> e]
    ELSE RestOfSettings(name, list, Setting(Key(name, Head(list)[1]), Head(list), e))

\* Did the value change?  Numbers are compared, or strings in buffers of one size.
X_Changed_Bug(old, new) == ~("number" \in new.type /\ "number" \in old.type /\ new.number = old.number)
                           /\ ~("string" \in new.type /\ "string" \in old.type /\ new.size = old.size)
Changed(old, new) ==
    /\ ~("number" \in new.type /\ "number" \in old.type /\ new.number = old.number)
    /\ ~("string" \in new.type /\ "string" \in old.type /\ new.size = old.size /\ new.string = old.string)

RECURSIVE property_eval(_, _, _), EvalAll(_, _, _), Fired(_), named_event_trigger(_, _)

WithValue(s, d, key, v) == [s EXCEPT !.env = v.env, !.data[d].prop[key].tree = v.tree, !.data[d].prop[key].result = v.result]
property_eval(s, i, key) ==
    LET d == s.widgets[i].data
    IN Fired(WithValue(s, d, key, Eval(s.data[d].prop[key].tree, s.env)))

EvalAll(s, i, keys) == IF keys = <<>> THEN s ELSE EvalAll(property_eval(s, i, Head(keys)), i, Tail(keys))

Prop(s, i, key) == Data(s, i).prop[key]
property_valid(s, i, key) == Prop(s, i, key).valid
P2N(s, i, key) == R2N(Prop(s, i, key).result)
P2S(s, i, key) == R2S(Prop(s, i, key).result)

\* What using a property as a number or as a string leaves in it.
Used(s, i, key, as(_)) == [s EXCEPT !.data[s.widgets[i].data].prop[key].result = as(@)]
UsedAsString(s, i, key) == [Used(s, i, key, WithString) EXCEPT !.env = Crash(@, IsNull(Prop(s, i, key).result))]

-----------------------------------------------------------------------------
(* Timers, events, the screen. *)
Timer(callback, i, ms, once) == [callback |-> callback, widget |-> i, ms |-> ms, once |-> once]
AddTimer(s, callback, i, ms, once) == [s EXCEPT !.timers = @ (+) SetToBag({Timer(callback, i, ms, once)})]
X_Again_Bug(s, callback, i, ms) == IF ms > 0 THEN AddTimer(s, callback, i, ms, FALSE) ELSE s
Again(s, callback, i, ms) == IF ms > 0 THEN AddTimer(s, callback, i, ms, TRUE) ELSE s

Draw(s, i, shown) == [s EXCEPT !.screen = (i :> shown) @@ @]

named_event_add(s, event, i) ==
    LET k == {n \in DOMAIN s.events : s.events[n].name = event}
    IN IF k = {} THEN [s EXCEPT !.events = Append(@, [name |-> event, calls |-> <<i>>])]
       ELSE [s EXCEPT !.events[CHOOSE n \in k : TRUE].calls = Append(@, i)]

-----------------------------------------------------------------------------
(* Texts. *)
Scrolling == {"marquee", "automatic", "pingpong left", "pingpong center", "pingpong right"}
PingPong == {"pingpong left", "pingpong center", "pingpong right"}
Room(t, prefix, postfix) == Clip(t.width - Len(prefix) - Len(postfix))
Blanks(n) == [k \in 1 .. n |-> " "]
Take(seq, n) == SubSeq(seq, 1, Least(Clip(n), Len(seq)))
Overread == "?"         \* what is behind the end of a string
Drop(seq, n) == IF n > Len(seq) THEN <<Overread>> ELSE SubSeq(seq, n + 1, Len(seq))

\* Where the string starts: blanks before it, or characters that are skipped if negative.
Aligned(align, width, len) ==
    CASE align \in {"left", "automatic", "pingpong left"} -> 0
      [] align \in {"right", "pingpong right"} -> Clip(width - len)
      [] OTHER -> Clip((width - len) \div 2)

X_Marquee_Bug(t, width, len) ==
    [pad |-> width - t.scroll, text |-> [t EXCEPT !.scroll = IF t.scroll + 1 >= len THEN 0 ELSE t.scroll + 1]]
Marquee(t, width, len) ==
    [pad |-> width - t.scroll, text |-> [t EXCEPT !.scroll = IF t.scroll + 1 >= width + len THEN 0 ELSE t.scroll + 1]]

\* At either end it waits before it turns.
PingPongStep(t, width, len) ==
    LET scroll == IF t.direction = 1 THEN t.scroll + 1 ELSE t.scroll - 1
        moved == [t EXCEPT !.scroll = scroll]
        turned(direction, back) == [moved EXCEPT !.direction = direction, !.delay = PINGPONGWAIT, !.scroll = scroll + back]
        waited(pad, direction, back) ==
            [pad |-> pad, text |-> IF t.delay < 1 THEN turned(direction, back) ELSE [moved EXCEPT !.delay = t.delay - 1]]
    IN CASE scroll > len - width -> waited(width - len, 0, 0 - PINGPONGWAIT)
         [] scroll < 0 -> waited(0, 1, PINGPONGWAIT)
         [] OTHER -> [pad |-> 0 - scroll, text |-> moved]

Scrolled(t, width, len) ==
    CASE t.align = "marquee" \/ (t.align = "automatic" /\ len > width) -> Marquee(t, width, len)
      [] t.align \in PingPong /\ len > width -> PingPongStep(t, width, len)
      [] OTHER -> [pad |-> Aligned(t.align, width, len), text |-> t]

\* The buffer: prefix, blanks, string, blanks up to the postfix if there is room, postfix.
Laid(t, prefix, postfix, pad) ==
    LET head == Take(prefix \o Blanks(Clip(pad)), t.width)
        body == Take(head \o Drop(t.string, Clip(0 - pad)), t.width)
    IN Take(body \o Blanks(Clip(t.width - Len(postfix) - Len(body))) \o postfix, t.width)

Advanced(s, i, next, prefix, postfix) ==
    LET buffer == Laid(next.text, prefix, postfix, next.pad)
    IN Draw([s EXCEPT !.data[s.widgets[i].data] = [next.text EXCEPT !.buffer = buffer, !.prop = Data(s, i).prop]], i, buffer)
widget_text_scroll(s, i) ==
    LET t == Data(s, i)
        prefix == P2S(s, i, "prefix")
        postfix == P2S(s, i, "postfix")
    IN IF t.string = NoString THEN s
       ELSE Advanced(UsedAsString(UsedAsString(s, i, "prefix"), i, "postfix"), i,
                     Scrolled(t, Room(t, prefix, postfix), Len(t.string)), prefix, postfix)

\* printf("%.*f"), a half is rounded to the even neighbour.
RoundHalfEven(n) == LET w == Abs(n) \div Unit
                        r == Abs(n) % Unit
                    IN IF 2 * r > Unit \/ (2 * r = Unit /\ w % 2 = 1) THEN w + 1 ELSE w
Fixed(n, precision) ==
    IF precision = 0 THEN Sign(n) \o Decimal(RoundHalfEven(n))
    ELSE Sign(n) \o Decimal(Abs(n) \div Unit) \o <<".", Digit[(Abs(n) % Unit) + 1]>> \o [k \in 1 .. precision - 1 |-> "0"]

\* A number that is too long loses digits after the point, then it becomes stars.
FormatNumber(n, wide, width) ==
    LET size == Len(Fixed(n, wide))
        less == IF size > width /\ wide > 0 THEN Least(size - width, wide) ELSE 0
        precision == wide - less
        left == size - less - (IF less > 0 /\ precision = 0 THEN 1 ELSE 0)
    IN IF left > width THEN [k \in 1 .. width |-> "*"] ELSE Take(Fixed(n, precision), left)

Formatted(s, i) ==
    LET t == Data(s, i)
    IN IF t.precision = PrecisionUnset THEN P2S(s, i, "expression")
       ELSE FormatNumber(P2N(s, i, "expression"), t.precision, Room(t, P2S(s, i, "prefix"), P2S(s, i, "postfix")))

X_Restarted_Bug(t) == [t EXCEPT !.direction = IF t.align \in PingPong THEN 0 ELSE @, !.delay = 0]
\* A new content scrolls from the start.
Restarted(t) == [t EXCEPT !.scroll = 0,
                          !.direction = IF t.align \in PingPong THEN 0 ELSE @,
                          !.delay = IF t.align \in PingPong THEN PINGPONGWAIT ELSE @]

TextWritten(s, i, changed, string) ==
    IF changed \/ Data(s, i).string # string
    THEN widget_text_scroll([s EXCEPT !.data[s.widgets[i].data] = Restarted([@ EXCEPT !.string = string])], i)
    ELSE s
UsedForText(s, i) ==
    IF Data(s, i).precision = PrecisionUnset THEN UsedAsString(s, i, "expression")
    ELSE Used(UsedAsString(UsedAsString(s, i, "prefix"), i, "postfix"), i, "expression", WithNumber)
TextEvaluated(old, new, i) ==
    TextWritten(UsedForText(new, i), i,
                \E key \in {"prefix", "postfix", "style"} : Changed(Prop(old, i, key).result, Prop(new, i, key).result),
                Formatted(UsedForText(new, i), i))
\* Its last condition is always true, so it always scrolls when something changed.
widget_text_update(s, i) == TextEvaluated(s, EvalAll(s, i, <<"prefix", "postfix", "style", "expression">>), i)

Alignment == ("L" :> "left") @@ ("C" :> "center") @@ ("R" :> "right") @@ ("M" :> "marquee") @@ ("A" :> "automatic")
PingPongAlignment == ("L" :> "pingpong left") @@ ("R" :> "pingpong right") @@ ("C" :> "pingpong center")
AlignOf(c) == IF c # <<>> /\ c[1] = "P"
              THEN IF Len(c) > 1 /\ c[2] \in DOMAIN PingPongAlignment THEN PingPongAlignment[c[2]] ELSE "pingpong center"
              ELSE IF c # <<>> /\ c[1] \in DOMAIN Alignment THEN Alignment[c[1]] ELSE "left"

WithData(s, i, d, e) == [s EXCEPT !.env = e, !.data = (i :> d) @@ @, !.widgets[i].data = i]
Corner(s, i, x, y) == [s EXCEPT !.widgets[i].x2 = x, !.widgets[i].y2 = y]

\* Below ten milliseconds is ten; an event takes the place of the usual interval.
TextInterval(update, event) == CASE update \in 1 .. 9 -> 10 [] update = 1000 /\ event # <<>> -> 0 [] OTHER -> update
widget_text_init(s, i, prop, o, e) ==
    LET update == TextInterval(o.update, o.event)
        t == [prop |-> prop, width |-> o.width, align |-> AlignOf(o.align), update |-> update,
              precision |-> o.precision, string |-> NoString, buffer |-> <<>>, scroll |-> 0, direction |-> 0, delay |-> 0]
        placed == Corner(WithData(s, i, t, e), i, s.widgets[i].col + o.width, s.widgets[i].row)
        listening == IF o.event = <<>> THEN placed ELSE named_event_add(placed, o.event, i)
        timed == AddTimer(listening, "text", i, update, update = 0)
    IN IF AlignOf(o.align) \in Scrolling THEN AddTimer(timed, "scroll", i, o.speed, FALSE) ELSE timed

-----------------------------------------------------------------------------
(* Events run their callbacks, which can only be the updates of texts, in the
   order in which they were added. *)
RECURSIVE TextUpdates(_, _)
TextUpdates(s, calls) == IF calls = <<>> THEN s ELSE TextUpdates(widget_text_update(s, Head(calls)), Tail(calls))

X_named_event_trigger_Bug(s, event) ==
    LET k == {n \in DOMAIN s.events : s.events[n].name = event}
    IN IF k = {} THEN s ELSE widget_text_update(s, Head(s.events[CHOOSE n \in k : TRUE].calls))
named_event_trigger(s, event) ==
    LET k == {n \in DOMAIN s.events : s.events[n].name = event}
    IN IF k = {} THEN s ELSE TextUpdates(s, s.events[CHOOSE n \in k : TRUE].calls)

\* The events that an expression triggered.
Fired(s) == IF s.env.fired = <<>> THEN s
            ELSE Fired(named_event_trigger([s EXCEPT !.env.fired = Tail(@)], Head(s.env.fired)))
=============================================================================
