------------------------------ MODULE Widgets ------------------------------
(* The program from its configuration to the widgets: main() reads the options
   and the file, starts the plugins and the driver, and lays out the widgets,
   which then live from timers, named events and keys.  A widget evaluates its
   properties and draws itself; what it drew last stays on the screen.

   The timer queue and the groups of widgets with one interval are modelled in
   Timer and TimerGroup, the drawing in TextDisplay and Graphic: here a timer that
   is pending may fire at any time, and drawing a widget copies what it shows. *)
EXTENDS WidgetText

CONSTANTS Scenes,       \* configurations: options of the command line, file, driver
          Readings,     \* what the outside may give to read
          Pictures,     \* contents of the file of an image; Nothing if it cannot be read
          Keypad,       \* keys that are pressed
          EventName,    \* an event that comes from outside
          MAX_WIDGETS, LAYERS, YRES

VARIABLES phase,        \* how far main() is
          scene,        \* the configuration this program was started with
          env, widgets, data, timers, events, screen,   \* the world of the handlers
          did           \* the last thing that happened: <<kind, widget>>
vars == <<phase, scene, env, widgets, data, timers, events, screen, did>>

World == [env |-> env, widgets |-> widgets, data |-> data, timers |-> timers, events |-> events, screen |-> screen]
Becomes(s) == /\ env' = s.env /\ widgets' = s.widgets /\ data' = s.data
              /\ timers' = s.timers /\ events' = s.events /\ screen' = s.screen

TypeOfClass == ("text" :> "RC") @@ ("bar" :> "RC") @@ ("icon" :> "RC") @@ ("graph" :> "RC") @@ ("ring" :> "RC") @@ ("arc" :> "RC")
               @@ ("image" :> "XY") @@ ("gpo" :> "GPO") @@ ("timer" :> "TIMER") @@ ("keypad" :> "KEYPAD")
NOCOORD == -1
Whole10(n) == Quotient(n, Unit)
Num2Text(n) == IF n < 0 THEN <<Op("-"), Number(0 - n)>> ELSE <<Number(n)>>

-----------------------------------------------------------------------------
(* The classes: the properties that a widget loads, then the settings that it reads,
   then what it is made of.  An update evaluates the properties in an order of its
   own, s is the world after that, and draws. *)
zero == <<Number(0)>>
one == <<Number(Unit)>>
second == <<Number(1000 * Unit)>>
PlainValue == << <<"expression", <<>>>> >>
RangeOf == << <<"min", <<>>>>, <<"max", <<>>>> >>
Properties ==
    [text |-> << <<"prefix", <<>>>>, <<"expression", <<>>>>, <<"postfix", <<>>>>, <<"style", <<>>>> >>,
     bar |-> PlainValue \o << <<"expression2", <<>>>> >> \o RangeOf,
     icon |-> << <<"speed", <<Number(1000)>>>>, <<"visible", one>>, <<"frame", Num2Text(0 - Unit)>> >>,
     image |-> << <<"file", <<>>>>, <<"update", <<Number(1000)>>>>, <<"reload", zero>>, <<"visible", one>>, <<"inverted", zero>> >>,
     graph |-> PlainValue \o RangeOf \o << <<"update", second>> >>,
     ring |-> PlainValue \o RangeOf \o << <<"update", second>> >>,
     arc |-> PlainValue \o RangeOf \o << <<"update", second>> >>,
     gpo |-> PlainValue \o << <<"update", second>> >>,
     timer |-> PlainValue \o << <<"update", <<Number(100 * Unit)>>>>, <<"active", one>> >>,
     keypad |-> PlainValue]
SettingsOf ==
    [text |-> << <<"width", 10, 0, -1>>, <<"precision", PrecisionUnset, 0, 80>>, <<"align", <<"L">>>>,
                 <<"update", 1000, 0, -1>>, <<"speed", 500, 10, -1>>, <<"event", <<>>>> >>,
     bar |-> << <<"length", 1, 0, -1>>, <<"direction", <<"E">>>>, <<"update", 1000, 10, -1>> >>,
     graph |-> << <<"width", 40, 1, 500>>, <<"height", 20, 1, 300>>, <<"points", 50, 1, 200>> >>,
     ring |-> << <<"diameter", 100, 20, 500>> >>, arc |-> << <<"diameter", 100, 20, 500>> >>,
     keypad |-> << <<"state", <<"pressed">>>>, <<"position", <<"confirm">>>> >>,
     icon |-> <<>>, image |-> <<>>, gpo |-> <<>>, timer |-> <<>>]
EvalKeys ==
    [bar |-> <<"expression", "expression2", "min", "max">>, icon |-> <<"speed", "visible", "frame">>,
     image |-> <<"file", "update", "reload", "visible", "inverted">>, graph |-> <<"update", "expression">>,
     ring |-> <<"update", "expression", "min", "max">>, arc |-> <<"update", "expression", "min", "max">>,
     gpo |-> <<"expression", "update">>, timer |-> <<"update", "active">>]

\* The widgets after the first one of a name are its children: they draw the data of
\* their parent, and only the parent evaluates it.
IsChild(s, i) == s.widgets[i].parent # 0
\* The second value and the bounds are evaluated only if there is an expression for them.
Optional == {"expression2", "min", "max"}
KeysToEval(s, i, class) == IF class \in {"icon", "image"} /\ IsChild(s, i) THEN <<>>
                           ELSE SelectSeq(EvalKeys[class], LAMBDA key : key \in Optional => property_valid(s, i, key))
UsedNumbers(s, i, keys) == FoldLeft(LAMBDA w, key : Used(w, i, key, WithNumber), s, keys)
Change(s, i, d) == [s EXCEPT !.data[s.widgets[i].data] = d]

-----------------------------------------------------------------------------
(* Bars.  Without an expression for it, a bound of the scale follows the values. *)
Fraction(v, min, max) == IF max > min THEN <<v - min, max - min>> ELSE <<0, 1>>
X_AutoScale_Bug(bound, old, v1, v2) == IF bound = "min" THEN Min({old, v1}) ELSE Max({old, v1})
AutoScale(bound, old, v1, v2) == IF bound = "min" THEN Min({old, v1, v2}) ELSE Max({old, v1, v2})

widget_bar_update(s, i) ==
    LET val1 == P2N(s, i, "expression")
        val2 == IF property_valid(s, i, "expression2") THEN P2N(s, i, "expression2") ELSE val1
        bound(key, old) == IF property_valid(s, i, key) THEN P2N(s, i, key) ELSE AutoScale(key, old, val1, val2)
        min == bound("min", Data(s, i).min)
        max == bound("max", Data(s, i).max)
        val == <<Fraction(val1, min, max), Fraction(val2, min, max)>>
    IN Draw(Change(s, i, [Data(s, i) EXCEPT !.min = min, !.max = max, !.val = val]), i, val)

Directions == {"E", "W", "N", "S"}
widget_bar_init(s, i, prop, o, e) ==
    LET d == IF o.direction = <<>> THEN Nothing ELSE o.direction[1]
        b == [prop |-> prop, length |-> o.length, min |-> 0, max |-> 0, val |-> <<<<0, 1>>, <<0, 1>>>>,
              direction |-> IF d \in Directions THEN d ELSE "E"]
        made == WithData(s, i, b, e)
        placed == CASE d \in {"E", "W"} -> Corner(made, i, s.widgets[i].col + o.length - 1, s.widgets[i].row)
                    [] d \in {"N", "S"} -> Corner(made, i, s.widgets[i].col, s.widgets[i].row + o.length - 1)
                    [] OTHER -> made
    IN AddTimer(placed, "bar", i, o.update, FALSE)

-----------------------------------------------------------------------------
(* Icons and images. *)
\* A frame selects a picture, any other number the next one.
NextPicture(icon, frame) ==
    IF frame \in 0 .. icon.maxmap THEN frame
    ELSE IF icon.curmap + 1 >= icon.maxmap THEN 0 ELSE icon.curmap + 1
Turned(s, i) == Change(s, i, [Data(s, i) EXCEPT !.curmap = NextPicture(Data(s, i), Whole10(P2N(s, i, "frame")))])
IconDrawn(s, i) == Again(Draw(s, i, Data(s, i).curmap), "icon", i, Whole10(P2N(s, i, "speed")))
X_widget_icon_update_Bug(s, i) == IconDrawn(Turned(s, i), i)
widget_icon_update(s, i) == IconDrawn(IF IsChild(s, i) THEN s ELSE Turned(s, i), i)

\* Pictures side by side in the rows, with bars between them: their number is
\* that of the longest row, an empty picture at its end does not count.
PicturesIn(row) ==
    {Cardinality({j \in 1 .. k - 1 : row[j] = "|"}) + 1 : k \in DOMAIN row}
RECURSIVE ReadRows(_, _, _)
LongerThan(row, more) == [maxmap |-> Max(PicturesIn(row) \cup {more.maxmap}), env |-> more.env]
RowsFrom(name, row, val) == LongerThan(val.value, ReadRows(name, row + 1, val.env))
ReadRows(name, row, e) ==
    IF row > YRES THEN [maxmap |-> 0, env |-> e]
    ELSE RowsFrom(name, row, cfg_get(Section(name) \o <<<<"Bitmap", "", 0>>, <<"Row", "", row>>>>, <<>>, e))
widget_icon_read_bitmap(name, e) == ReadRows(name, 1, e)

IconWith(s, i, prop, bitmap) ==
    Corner(WithData(s, i, [prop |-> prop, maxmap |-> bitmap.maxmap, curmap |-> 0], bitmap.env), i,
           s.widgets[i].col + 1, s.widgets[i].row + 1)
widget_icon_init(s, i, prop, e) == IconWith(s, i, prop, widget_icon_read_bitmap(s.widgets[i].name, e))

\* A file is read the first time and whenever "reload" says so.  What cannot be
\* read leaves the image empty.
widget_image_render(image, file, reload, visible, inverted, picture) ==
    LET again == image.gd = Nothing \/ reload
        gd == IF ~again THEN image.gd ELSE IF file = <<>> THEN Nothing ELSE picture
    IN [image EXCEPT !.gd = gd, !.bitmap = IF gd # Nothing /\ visible THEN <<gd, inverted>> ELSE <<Nothing, FALSE>>]

Rendered(s, i) ==
    LET is(key) == P2N(s, i, key) # 0
    IN Change(s, i, widget_image_render(Data(s, i), P2S(s, i, "file"), is("reload"), is("visible"), is("inverted"), s.env.picture))
ImageDrawn(s, i) == Again(Draw(s, i, Data(s, i).bitmap), "image", i, Whole10(P2N(s, i, "update")))
widget_image_update(s, i) == ImageDrawn(IF IsChild(s, i) THEN s ELSE Rendered(UsedAsString(s, i, "file"), i), i)

widget_image_init(s, i, prop, e) ==
    Corner(WithData(s, i, [prop |-> prop, gd |-> Nothing, bitmap |-> <<Nothing, FALSE>>], e), i,
           s.widgets[i].col, s.widgets[i].row)

-----------------------------------------------------------------------------
(* Graphs, rings and arcs. *)
X_Recorded_Bug(g, value) == [g EXCEPT !.points[(g.count % Len(g.points)) + 1] = value, !.head = (@ + 1) % Len(g.points),
                                      !.count = Least(@ + 1, Len(g.points))]
Recorded(g, value) == [g EXCEPT !.points[g.head + 1] = value, !.head = (@ + 1) % Len(g.points),
                                !.count = Least(@ + 1, Len(g.points))]
GraphDrawn(s, i) == Again(Draw(s, i, Data(s, i).points), "graph", i, Whole10(P2N(s, i, "update")))
widget_graph_update(s, i) == GraphDrawn(Change(s, i, Recorded(Data(s, i), P2N(s, i, "expression"))), i)
widget_graph_init(s, i, prop, o, e) ==
    LET g == [prop |-> prop, points |-> [k \in 1 .. o.points |-> 0], head |-> 0, count |-> 0]
    IN Corner(WithData(s, i, g, e), i, s.widgets[i].col + o.width, s.widgets[i].row + o.height)

Gauged(g, s, i) == [g EXCEPT !.value = P2N(s, i, "expression"),
                             !.min = IF property_valid(s, i, "min") THEN P2N(s, i, "min") ELSE @,
                             !.max = IF property_valid(s, i, "max") THEN P2N(s, i, "max") ELSE @]
GaugeDrawn(s, i, class) ==
    Again(Draw(s, i, <<Data(s, i).value, Data(s, i).min, Data(s, i).max>>), class, i, Whole10(P2N(s, i, "update")))
widget_ring_update(s, i) == GaugeDrawn(Change(s, i, Gauged(Data(s, i), s, i)), i, "ring")
widget_arc_update(s, i) == GaugeDrawn(Change(s, i, Gauged(Data(s, i), s, i)), i, "arc")
GaugeMade(s, i, prop, o, e) ==
    Corner(WithData(s, i, [prop |-> prop, value |-> 0, min |-> 0, max |-> 100 * Unit], e), i,
           s.widgets[i].col + o.diameter, s.widgets[i].row + o.diameter)
widget_ring_init(s, i, prop, o, e) == GaugeMade(s, i, prop, o, e)
widget_arc_init(s, i, prop, o, e) == GaugeMade(s, i, prop, o, e)

-----------------------------------------------------------------------------
(* Outputs, timers and keys have no place on the display. *)
Nowhere(s, i, prop, e) == Corner(WithData(s, i, [prop |-> prop], e), i, NOCOORD, NOCOORD)

widget_gpo_update(s, i) == Again(Draw(s, i, P2N(s, i, "expression")), "gpo", i, Whole10(P2N(s, i, "update")))
widget_gpo_init(s, i, prop, e) == Nowhere(s, i, prop, e)

\* The action is evaluated only while the widget is active; the timer goes on.
TimerActs(s, i, update) ==
    Again(IF Whole10(P2N(s, i, "active")) > 0 THEN property_eval(s, i, "expression") ELSE s,
          "timer", i, IF update < 10 THEN 10 ELSE update)
widget_timer_update(s, i) == TimerActs(s, i, Whole10(P2N(s, i, "update")))
widget_timer_init(s, i, prop, e) == Nowhere(s, i, prop, e)

Positions == {"up", "down", "left", "right", "cancel"}
widget_keypad_init(s, i, prop, o, e) ==
    LET key == <<IF o.state = <<"released">> THEN "released" ELSE "pressed",
                 IF o.position # <<>> /\ o.position[1] \in Positions THEN o.position[1] ELSE "confirm">>
    IN Corner(WithData(s, i, [prop |-> prop, key |-> key], e), i, NOCOORD, NOCOORD)
widget_keypad_find(s, i, key) == Data(s, i).key = key
widget_keypad_draw(s, i) == Used(property_eval(s, i, "expression"), i, "expression", WithNumber)

-----------------------------------------------------------------------------
(* The update of a widget: its properties are evaluated, used as numbers, except for
   the name of a file, and drawn. *)
Updated(s, i, class) ==
    CASE class = "bar" -> widget_bar_update(s, i)     [] class = "icon" -> widget_icon_update(s, i)
      [] class = "image" -> widget_image_update(s, i) [] class = "graph" -> widget_graph_update(s, i)
      [] class = "ring" -> widget_ring_update(s, i)   [] class = "arc" -> widget_arc_update(s, i)
      [] class = "gpo" -> widget_gpo_update(s, i)     [] class = "timer" -> widget_timer_update(s, i)
AsNumbersBut(s, i, keys, key) == UsedNumbers(s, i, SelectSeq(keys, LAMBDA k : k # key))
UpdateWith(s, i, class, keys) == Updated(AsNumbersBut(EvalAll(s, i, keys), i, keys, "file"), i, class)
Update(s, callback, i) ==
    CASE callback = "text" -> widget_text_update(s, i)
      [] callback = "scroll" -> widget_text_scroll(s, i)
      [] OTHER -> UpdateWith(s, i, callback, KeysToEval(s, i, callback))

\* A child of an icon or an image takes the data of its parent; one of a graph, a ring
\* or an arc is never initialised: it has no data and no timer.
Made(s, i, class, prop, o, e) ==
    CASE class = "text" -> widget_text_init(s, i, prop, o, e)   [] class = "bar" -> widget_bar_init(s, i, prop, o, e)
      [] class = "icon" -> widget_icon_init(s, i, prop, e)      [] class = "image" -> widget_image_init(s, i, prop, e)
      [] class = "graph" -> widget_graph_init(s, i, prop, o, e) [] class = "ring" -> widget_ring_init(s, i, prop, o, e)
      [] class = "arc" -> widget_arc_init(s, i, prop, o, e)     [] class = "gpo" -> widget_gpo_init(s, i, prop, e)
      [] class = "timer" -> widget_timer_init(s, i, prop, e)    [] class = "keypad" -> widget_keypad_init(s, i, prop, o, e)
SettingsRead(s, i, class, prop, o) == Made(s, i, class, prop, o.is, o.env)
PropertiesLoaded(s, i, class, p) == SettingsRead(s, i, class, p.prop, Settings(s.widgets[i].name, SettingsOf[class], p.env))
Begun(s, i, class) ==
    CASE IsChild(s, i) /\ class \in {"icon", "image"} -> [s EXCEPT !.widgets[i].data = s.widgets[s.widgets[i].parent].data]
      [] IsChild(s, i) /\ class \in {"graph", "ring", "arc"} -> s
      [] OTHER -> PropertiesLoaded(s, i, class, LoadAll(s.widgets[i].name, Properties[class], s.env))
DrawsAtOnce(s, i, class) == \/ class \in {"icon", "image", "gpo", "timer"}
                            \/ class \in {"graph", "ring", "arc"} /\ ~IsChild(s, i)
Initialised(s, i, class, draw) == IF draw THEN Update(s, class, i) ELSE s
ClassInit(s, i) ==
    LET class == s.widgets[i].class
    IN Initialised(Begun(s, i, class), i, class, DrawsAtOnce(s, i, class))

-----------------------------------------------------------------------------
(* The layout. *)
\* The first widget of a name is the parent of the others.
Parent(s, name) == LET same == {i \in DOMAIN s.widgets : s.widgets[i].name = name}
                   IN IF same = {} THEN 0 ELSE Min(same)

\* Nothing is added for a widget of no class, of an unknown one, or of one that
\* does not go where the layout puts it.
AddOf(s, class, name, type, layer, row, col) ==
    IF \/ class = <<>>
       \/ class[1] \notin scene.classes \cup {"timer"}
       \/ TypeOfClass[class[1]] # type
       \/ Len(s.widgets) >= MAX_WIDGETS
    THEN s
    ELSE ClassInit([s EXCEPT !.widgets = Append(@, [name |-> name, class |-> class[1], parent |-> Parent(s, name),
                                                    layer |-> layer, row |-> row, col |-> col, x2 |-> 0, y2 |-> 0, data |-> 0])],
                   Len(s.widgets) + 1)
AddWith(s, class, name, type, layer, row, col) == AddOf([s EXCEPT !.env = class.env], class.value, name, type, layer, row, col)
widget_add(s, name, type, layer, row, col) ==
    AddWith(s, cfg_get(Key(name, "class"), <<>>, s.env), name, type, layer, row, col)

\* Rows and columns without a layer belong to layer 1.
Named(key, names) == Len(key) = Len(names) /\ \A k \in DOMAIN names : SameName(key[k][1], names[k])
OldPlace(key) == Named(key, <<"row", "col">>)
LayoutSection(layout) == <<<<"Layout", layout, 0>>>>
X_Migrate_Bug(config, section, key) ==
    IF OldPlace(key) THEN cfg_add(config, section \o <<<<"layer", "", 1>>>>, cfg_get_raw(config, section \o key, <<>>), 0) ELSE config
Migrate(config, section, key) ==
    IF OldPlace(key) THEN cfg_rename(config, section, key, <<<<"layer", "", 1>>>> \o key) ELSE config
layout_migrate(config, section) ==
    FoldLeft(LAMBDA c, key : Migrate(c, section, key), config, cfg_list(config, section))

Cell_FromOne_Bug(type, key) == <<type, key[1][3], key[2][3] - 1, key[3][3]>>
\* A place by three numbers; those of the layout count from 1.
Cell(type, key) == <<type, key[1][3], key[2][3] - 1, key[3][3] - 1>>

\* What a key of the layout says: <<type, layer, row, col>>, or nothing.  The number
\* behind X is taken for the row, and that behind Y for the column.
Place(key) ==
    LET is(names) == Named(key, names)
        layered == IF key[1][3] \in 0 .. LAYERS - 1 THEN {0} ELSE {}
    IN CASE is(<<"layer", "x", "y">>) -> {Cell("XY", key) : k \in layered}
         [] is(<<"layer", "row", "col">>) -> {Cell("RC", key) : k \in layered}
         [] is(<<"gpo">>) -> {<<"GPO", 0, key[1][3] - 1, 0>>}
         [] is(<<"timer">>) -> {<<"TIMER", 0, key[1][3] - 1, 0>>}
         [] is(<<"keypad">>) -> {<<"KEYPAD", 0, key[1][3] - 1, 0>>}
         [] OTHER -> {}

AddAt(s, widget, p) ==
    IF widget.value = <<>> THEN [s EXCEPT !.env = widget.env]
    ELSE widget_add([s EXCEPT !.env = widget.env], widget.value[1], p[1], p[2], p[3], p[4])
PlaceWidget(s, section, key) ==
    IF Place(key) = {} THEN s
    ELSE AddAt(s, cfg_get(section \o key, <<>>, s.env), CHOOSE q \in Place(key) : TRUE)

LayAll(s, section) == FoldLeft(LAMBDA w, key : PlaceWidget(w, section, key), s, cfg_list(s.env.config, section))
layout_init(s, layout) == LayAll([s EXCEPT !.env.config = layout_migrate(@, LayoutSection(layout))], LayoutSection(layout))

-----------------------------------------------------------------------------
(* main(): options, configuration, plugins, driver, layout, one after the other;
   then the main loop. *)
NewEnv == [vars |-> <<>>, functions |-> <<>>, config |-> <<>>, reading |-> CHOOSE r \in Readings : TRUE,
           picture |-> CHOOSE p \in Pictures : p # Nothing, forks |-> TRUE, on |-> <<>>, fired |-> <<>>, crashed |-> FALSE]

Init ==
    /\ phase = "options" /\ scene \in Scenes
    /\ env = NewEnv /\ widgets = <<>> /\ data = <<>> /\ timers = EmptyBag /\ events = <<>> /\ screen = <<>>
    /\ did = <<"start", 0>>

Unstarted == UNCHANGED <<scene, widgets, data, timers, events, screen>>

ReadOptions ==
    /\ phase = "options"
    /\ phase' = (IF \E i \in DOMAIN scene.options : BadOption(scene.options[i]) THEN "exit" ELSE "configuration")
    /\ did' = <<"options", 0>>
    /\ env' = [env EXCEPT !.config = FoldLeft(cfg_cmd, @, scene.options)]
    /\ Unstarted

ReadConfiguration ==
    LET read == cfg_init(env.config, scene.stat, scene.file)
    IN /\ phase = "configuration"
       /\ phase' = (IF read.error THEN "exit" ELSE "plugins") /\ did' = <<"configuration", 0>>
       /\ env' = [env EXCEPT !.config = read.config]
       /\ Unstarted

StartPlugins ==
    /\ phase = "plugins"
    /\ phase' = "layout" /\ did' = <<"plugins", 0>>
    /\ env' = plugin_init(env)
    /\ Unstarted

\* The driver has registered its classes and main() that of the timers.
LayOutWith(layout) ==
    IF layout.value = <<>> THEN /\ phase' = "exit" /\ env' = layout.env
                                /\ UNCHANGED <<widgets, data, timers, events, screen>>
    ELSE /\ phase' = "running"
         /\ \E s \in {layout_init([World EXCEPT !.env = layout.env], layout.value[1])} : Becomes(s)
LayOut ==
    /\ phase = "layout"
    /\ did' = <<"layout", 0>>
    /\ LayOutWith(cfg_get(<<<<"Layout", "", 0>>>>, <<>>, env))
    /\ UNCHANGED scene

Running == phase = "running" /\ ~env.crashed
Step(kind, i) == did' = <<kind, i>> /\ UNCHANGED <<phase, scene>>

\* A one-shot timer is gone before its callback may add the next.
TimerFires(t) ==
    /\ Running /\ t \in DOMAIN timers
    /\ Step(t.callback, t.widget)
    /\ \E s \in {Update([World EXCEPT !.timers = IF t.once THEN @ (-) SetToBag({t}) ELSE @], t.callback, t.widget)} : Becomes(s)

\* drv_generic_keypad_press(): the first widget of the key.
KeyPressed(key) ==
    LET found == {i \in DOMAIN widgets : widgets[i].class = "keypad" /\ widget_keypad_find(World, i, key)}
    IN /\ Running /\ scene.keys
       /\ IF found = {} THEN UNCHANGED <<env, widgets, data, timers, events, screen>>
          ELSE \E s \in {widget_keypad_draw(World, Min(found))} : Becomes(s)
       /\ Step("key", IF found = {} THEN 0 ELSE Min(found))

EventComes ==
    /\ Running /\ scene.events
    /\ \E s \in {named_event_trigger(World, EventName)} : Becomes(s)
    /\ Step("event", 0)

\* Outside the program: what plugins read, the file of an image, the processes that
\* can be started.
Outside(field, value) ==
    /\ Running /\ field \in scene.inputs /\ env[field] # value
    /\ env' = [env EXCEPT ![field] = value]
    /\ UNCHANGED <<widgets, data, timers, events, screen>>
    /\ Step("outside", 0)
ReadingChanges(r) == Outside("reading", r)
PictureChanges(p) == Outside("picture", p)
ForkingChanges(b) == Outside("forks", b)

\* After a signal: the driver drops the widgets with their data, nobody their timers.
widget_unregister(s) == [s EXCEPT !.widgets = <<>>, !.data = <<>>]
cfg_exit(e) == [e EXCEPT !.config = <<>>]
Stop ==
    /\ Running
    /\ phase' = "stopped" /\ did' = <<"stop", 0>>
    /\ Becomes([widget_unregister(World) EXCEPT !.env = plugin_exit(cfg_exit(@))])
    /\ UNCHANGED scene

Next ==
    \/ ReadOptions \/ ReadConfiguration \/ StartPlugins \/ LayOut
    \/ \E t \in DOMAIN timers : TimerFires(t)
    \/ \E key \in Keypad : KeyPressed(key)
    \/ EventComes
    \/ \E r \in Readings : ReadingChanges(r)
    \/ \E p \in Pictures : PictureChanges(p)
    \/ \E b \in BOOLEAN : ForkingChanges(b)
    \/ Stop

OfClass(class) == {i \in DOMAIN widgets : widgets[i].class = class /\ widgets[i].data # 0}
Of(i) == Data(World, i)
Prefix(i) == P2S(World, i, "prefix")
Postfix(i) == P2S(World, i, "postfix")
Texts == {i \in OfClass("text") : Of(i).string # NoString}
Wide(i) == Room(Of(i), Prefix(i), Postfix(i))
IsScrolling(i) == Of(i).align \in Scrolling /\ ~(Of(i).align # "marquee" /\ Len(Of(i).string) <= Wide(i))

\* The timer queue goes on to call what is pending (see Timer): texts scroll as long
\* as the program runs.  This is weak fairness of Scrolls, with what enables it put in
\* words that are cheap to evaluate: a text that scrolls changes with each step.
Scrolls == \E t \in DOMAIN timers : t.callback = "scroll" /\ TimerFires(t)
MayScroll == Running /\ \E t \in DOMAIN timers : t.callback = "scroll" /\ IsScrolling(t.widget)
Spec == Init /\ [][Next]_vars /\ ([]<>~MayScroll \/ []<><<Scrolls>>_vars)

-----------------------------------------------------------------------------
(* Properties. *)

\* The state is what the program's variables may hold.
WidgetsTypeOK ==
    /\ phase \in {"options", "configuration", "plugins", "layout", "running", "exit", "stopped"}
    /\ \A name \in DOMAIN env.vars : env.vars[name].type \subseteq {"number", "string"}
    /\ Cardinality(DOMAIN env.vars) <= MaxVariables /\ Len(widgets) <= MAX_WIDGETS
    /\ \A i, j \in DOMAIN env.config : i < j => CompareKeys(env.config[i], env.config[j])
    /\ \A i \in DOMAIN widgets : widgets[i].parent \in 0 .. i - 1 /\ widgets[i].data \in 0 .. i
    /\ BagToSet(timers) \subseteq [callback : {"text", "scroll", "bar", "icon", "image", "graph", "ring", "arc", "gpo", "timer"},
                                   widget : 1 .. MAX_WIDGETS, ms : Nat, once : BOOLEAN]

\* No text on the screen is stale: it is made of the values that its prefix, its
\* expression and its postfix had when they were last evaluated, in the whole width
\* of the widget, although it is only drawn again when one of them changed.
TextShowsItsValues ==
    \A i \in Texts :
        /\ Of(i).string = Formatted(World, i)
        /\ Len(screen[i]) = Of(i).width
        /\ ~IsScrolling(i) =>
              screen[i] = Laid(Of(i), Prefix(i), Postfix(i), Aligned(Of(i).align, Wide(i), Len(Of(i).string)))

\* A text that scrolls shows a window of its string: blanks before and behind it in
\* a marquee, only characters of the string in a pingpong, and never what lies in
\* memory behind a string that has become shorter.
ScrollsInside ==
    \A i \in Texts :
        LET pads == IF Of(i).align \in PingPong THEN Wide(i) - Len(Of(i).string) .. 0 ELSE 0 - Len(Of(i).string) .. Wide(i)
        IN IsScrolling(i) => \E pad \in pads : screen[i] = Laid(Of(i), Prefix(i), Postfix(i), pad)

\* The scrolling text of the first widget, if it does not change, shows every one of
\* its letters again and again.
ScrollerShowsAll ==
    \A c \in DOMAIN Upper :
        []<>(scene.inputs = {} /\ 1 \in Texts =>
                (IsScrolling(1) /\ c \in ToSet(Of(1).string) => c \in ToSet(screen[1])))

\* A widget waits for at most one timer of a kind, and never misses the one that it
\* needs, whatever events, keys and parents did in between.
Waiting(i, callback) == BagCardinality([t \in {u \in DOMAIN timers : u.widget = i /\ u.callback = callback} |-> timers[t]])
Interval(i) == IF widgets[i].class = "icon" THEN P2N(World, i, "speed") ELSE P2N(World, i, "update")
OneTimerEach ==
    phase = "running" =>
    \A i \in DOMAIN widgets :
        LET class == widgets[i].class
        IN CASE class = "keypad" \/ widgets[i].data = 0 -> \A t \in DOMAIN timers : t.widget # i
             [] class = "text" -> /\ Waiting(i, "text") <= 1
                                  /\ Of(i).update > 0 \/ Of(i).string = NoString => Waiting(i, "text") = 1
                                  /\ Waiting(i, "scroll") = IF Of(i).align \in Scrolling THEN 1 ELSE 0
             [] class \in {"bar", "timer"} -> Waiting(i, class) = 1
             [] OTHER -> IF widgets[i].parent = 0 THEN Waiting(i, class) = IF Whole10(Interval(i)) > 0 THEN 1 ELSE 0
                         ELSE Waiting(i, class) <= 1

\* A bar that finds its own scale fills between nothing and its whole length.
BarInScale ==
    \A i \in OfClass("bar") :
        ~property_valid(World, i, "min") /\ ~property_valid(World, i, "max") =>
            \A k \in 1 .. 2 : LET f == Of(i).val[k] IN 0 <= f[1] /\ f[1] <= f[2]

\* A graph keeps the last values in the order in which they came.
Unrolled(g) == [k \in 1 .. g.count |-> g.points[((g.head - g.count + k - 1) % Len(g.points)) + 1]]
GraphKeepsLastValues ==
    [][\A i \in OfClass("graph") : did'[1] = "graph" /\ did'[2] = i =>
          LET old == Append(Unrolled(data[i]), R2N(data'[i].prop["expression"].result))
          IN Unrolled(data'[i]) = SubSeq(old, Len(old) - data'[i].count + 1, Len(old))]_vars

\* The pictures of an icon that turns follow one another on the screen, however
\* often its copies are drawn in between.
IconTurns ==
    [][\A i \in OfClass("icon") : did' = <<"icon", i>> /\ widgets[i].parent = 0 /\ P2N(World, i, "frame") < 0 =>
          screen'[i] = (screen[i] + 1) % data[i].maxmap]_vars

\* An option of the command line holds against the file, and the program does not
\* go on without one that it cannot take.
OptionsHold ==
    phase \notin {"options", "exit", "stopped"} =>
        \A i \in DOMAIN scene.options :
            LET o == scene.options[i]
            IN (\A j \in i + 1 .. Len(scene.options) : ~SameKey(scene.options[j].key, o.key))
               => cfg_get_raw(env.config, o.key, <<>>) = o.val

\* Where a widget is: the kind of place, the layer, the row and the column from 0 on.
At(widget) == <<TypeOfClass[widget.class], widget.layer, widget.row, widget.col>>

\* Every entry of the layout gets its widget where the scene wants it, on layer 1 if
\* the entry names none, unless the place on that layer is taken by another entry, and
\* no widget is anywhere else.
LayoutKept ==
    phase = "running" =>
        /\ \A k \in DOMAIN scene.layout :
             LET l == scene.layout[k]
             IN \/ \E j \in DOMAIN scene.layout : j # k /\ scene.layout[j].at = l.at /\ OldPlace(l.key)
                \/ \E i \in DOMAIN widgets : widgets[i].name = l.widget /\ At(widgets[i]) = l.at
        /\ \A i \in DOMAIN widgets : \E k \in DOMAIN scene.layout : At(widgets[i]) = scene.layout[k].at

\* No expression uses a variable that has no slot, or a string that is not there.
NoCrash == ~env.crashed

\* After an event every text that listens to it shows what is read now.
ListenersAreFresh ==
    [][did' = <<"event", 0>> =>
          \A n \in DOMAIN events : events[n].name = EventName =>
              \A k \in DOMAIN events[n].calls :
                  LET value == data'[events[n].calls[k]].prop["expression"]
                  IN R2S(value.result) = R2S(Eval(value.tree, env').result)]_vars

\* The side effect behind a "&" that is false does not happen, and behind one that is
\* true it does: the variable "n" turns with the widget exactly then.
GuardedSideEffects ==
    [][scene.guard /\ did'[1] = "timer" =>
          ((env'.vars["n"].number # env.vars["n"].number) <=> (R2N(env.reading) # 0))]_vars

\* A number is shown rounded, with as many digits after the point as asked for or
\* fewer, or as stars; only a number that rounding makes longer before the point
\* may lose its last digit.
NumbersRounded ==
    \A i \in Texts : Of(i).precision # PrecisionUnset =>
        LET number == P2N(World, i, "expression")
            size(p) == Len(Fixed(number, p))
        IN \/ \E p \in 0 .. Of(i).precision : Of(i).string = Fixed(number, p)
           \/ Of(i).string = [k \in 1 .. Wide(i) |-> "*"]
           \/ size(0) > size(1) - 2 /\ Of(i).string = Take(Fixed(number, 0), size(0) - 1)

\* What is on the screen is what the widgets read, in its window or in its scale.
ScreenHolds == WidgetsTypeOK /\ TextShowsItsValues /\ NumbersRounded /\ ScrollsInside /\ BarInScale

\* What the options, the file and the layout say is what the program goes by.
ConfigHolds == OptionsHold /\ LayoutKept

\* An update does to its widget, and to the variables, what it is for.
UpdatesTake == ListenersAreFresh /\ GraphKeepsLastValues /\ IconTurns /\ GuardedSideEffects
=============================================================================
