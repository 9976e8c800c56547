----------------------------- MODULE MCGraphic -----------------------------
(* Instance of Graphic: a display of 4 x 6 pixels, characters of 2 x 2. *)
EXTENDS Graphic

MCFg == [v |-> 0, a |-> 2]
MCBg == [v |-> 2, a |-> 0]
MCBl == [v |-> 2, a |-> 2]
Grey == [v |-> 1, a |-> 2]
Veil == [v |-> 0, a |-> 1]
Light == [v |-> 2, a |-> 2]

MCFont == [bold \in BOOLEAN |->
    [c \in {"a", "b"} |-> IF c = "a" THEN {<<0, 0>>, <<1, 1>>} \union (IF bold THEN {<<0, 1>>} ELSE {})
                          ELSE {<<1, 0>>}]]

At(class, rc, row, col, layer) ==
    [class |-> class, rc |-> rc, row |-> row, col |-> col, layer |-> layer, fg |-> MCFg, bg |-> MCBg]
Text(row, col, layer) == [bold |-> FALSE] @@ At("text", TRUE, row, col, layer)
Icon(row, col) == [bitmap |-> <<{<<0, 0>>, <<0, 1>>}, {<<1, 1>>}>>] @@ At("icon", TRUE, row, col, 0)
Bar(row, col, dir, hollow) ==
    [dir |-> dir, len |-> 2, hollow |-> hollow, bar |-> <<MCFg, Grey>>] @@ [bg |-> Light] @@ At("bar", TRUE, row, col, 0)
Picture(row, col) == [width |-> 2, height |-> 2, visible |-> TRUE] @@ At("image", FALSE, row, col, 0)
Graph(row, col) ==
    [width |-> 3, height |-> 3, grid |-> 1, gridcolour |-> Grey, points |-> 3, leftwards |-> FALSE,
     size |-> 6, more |-> 1, textcolour |-> Veil]
        @@ [bg |-> Light] @@ At("graph", FALSE, row, col, 1)
Gauge(row, col, diameter, needle) ==
    [diameter |-> diameter, thickness |-> 1, background |-> TRUE, needle |-> needle, thick |-> 1, reverse |-> TRUE]
        @@ [bg |-> Light] @@ At("arc", FALSE, row, col, 0)
RingAt(row, col) ==
    [diameter |-> 2, thickness |-> 1, background |-> FALSE, margin |-> 1, start |-> 2, reverse |-> FALSE]
        @@ At("ring", FALSE, row, col, 0)

Square(a, b, c, e) == [y \in 0 .. 1 |-> [x \in 0 .. 1 |-> IF y = 0 THEN <<a, b>>[x + 1] ELSE <<c, e>>[x + 1]]]

MCScenes ==
    [plain |-> <<[widget |-> Text(0, 0, 1), contents |-> {<<"a", "b">>, <<"bell", "a">>}],
                 [widget |-> Icon(0, 2), contents |-> {1, 0}],
                 [widget |-> Bar(1, 1, "east", FALSE), contents |-> {<<0, 3>>, <<5, 1>>}]>>,
     layers |-> <<[widget |-> Text(0, 0, 1), contents |-> {<<"a", "b", "a">>}],
                  [widget |-> Picture(1, 1), contents |-> {<<>>, Square(Veil, Grey, NO_COL, Light), Square(Grey, Veil, Veil, NO_COL)}],
                  [widget |-> Bar(0, 2, "north", FALSE), contents |-> {<<1, 4>>, <<3, 0>>}]>>,
     bars |-> <<[widget |-> Bar(0, 0, "west", FALSE), contents |-> {<<0, 3>>, <<5, 1>>, <<2, 2>>}],
                [widget |-> Bar(0, 2, "south", FALSE), contents |-> {<<0, 3>>, <<5, 1>>}],
                [widget |-> Bar(1, 0, "east", TRUE), contents |-> {<<0, 3>>, <<5, 1>>}]>>,
     graphs |-> <<[widget |-> Graph(0, 1), contents |-> {<<1>>, <<0, 2>>, <<2, 0, 1>>, <<0, 5, 0, 2>>}],
                  [widget |-> Icon(1, 0), contents |-> {1, 2}]>>,
     round |-> <<[widget |-> Gauge(0, 1, 4, 0), contents |-> {0, 2, 5}],
                 [widget |-> Icon(1, 2), contents |-> {1, 2}]>>,
     ring |-> <<[widget |-> RingAt(1, 2), contents |-> {0, 3, 9}],
                [widget |-> Text(0, 0, 0), contents |-> {<<"a", "b">>, <<"b">>}]>>,
     needle |-> <<[widget |-> [Gauge(2, 0, 12, 9) EXCEPT !.thick = 2], contents |-> {0, 1, 2}]>>,
     beside |-> <<[widget |-> Gauge(0, 0, 4, 1), contents |-> {0, 5}], [widget |-> Icon(1, 2), contents |-> {0, 2}]>>,
     wide |-> <<[widget |-> Text(0, 1, 1), contents |-> {<<"a", "b", "a">>, <<"b">>}],
                [widget |-> Text(2, 0, 0), contents |-> {<<"a">>}],
                [widget |-> Icon(1, 1), contents |-> {1, 2}]>>]

Case(driver, scene) ==
    [driver |-> driver, scene |-> scene, inverted |-> FALSE, greeting |-> <<"a", "b">>, symbols |-> <<>>,
     orientation |-> 0, portrait |-> FALSE, dual |-> FALSE, invert |-> FALSE, protocol |-> 1, update |-> 1]

MCCases ==
    {Case(driver, "plain") : driver \in Mono \ {"EA232graphic"}}
    \union {Case(driver, "layers") : driver \in Colour}
    \union {[Case("LUIse", scene) EXCEPT !.inverted = inv] : scene \in DOMAIN MCScenes, inv \in BOOLEAN}
    \union {Case("serdisplib", scene) : scene \in {"bars", "graphs", "wide", "round", "needle", "ring"}}
    \union {[Case("EA232graphic", "plain") EXCEPT !.protocol = n] : n \in 1 .. 4}
    \union {[Case("T6963", "plain") EXCEPT !.dual = TRUE], [Case("MatrixOrbitalGX", "plain") EXCEPT !.invert = TRUE],
            [Case("picoLCDGraphic", "plain") EXCEPT !.update = 0]}
    \union {[Case("dpf", "layers") EXCEPT !.orientation = o, !.portrait = v] : o \in {0, 2}, v \in BOOLEAN}
    \union {Case("X11", "beside"), Case("serdisplib", "beside")}
    \union {[Case("LPH7508", "round") EXCEPT !.symbols = <<<<1>>, <<4, 5>>>>]}
=============================================================================
