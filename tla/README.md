# A TLA+ verification of LCD4Linux

LCD4Linux reads values from the system (plugins), evaluates the expressions of
its configuration (evaluator, properties), lays the results out as widgets
(texts, bars, icons, images, graphs, keypads, GPOs) and drives one of some
fifty displays (drivers).  It is a single process with a cooperative main loop:
nothing is locked, but everything runs from callbacks that change the very
tables they are called from.  Around that process there are others: the
children of the exec plugin, other instances of LCD4Linux, whoever sets the
clock, the D-Bus daemon.  This directory models that core, checks it with TLC
and proves part of it with TLAPS.

All line numbers refer to the sources in `src/`.

## 1. Inventory

| Component | State | Operations | Interaction | What is hard |
|---|---|---|---|---|
| main loop, `lcd4linux.c` | `got_signal`, `running_background` | options, `daemonize`, `drv_init`, `layout_init`, loop, shutdown, restart on SIGHUP | calls `timer_process()` and `event_process()` in turn until a signal or an error | which cleanup runs on which way out; signals while blocked |
| timer queue, `timer.c` | `Timers[]`, `nTimers`; slots are reused | `timer_add`, `timer_add_late`, `timer_remove`, `timer_process`, `timer_exit` | used by widgets, groups, drivers, D-Bus | callbacks change the table in the loop; the clock is wall time and may be set; int and float arithmetic |
| timer groups, `timer_group.c` | `TimerGroups[]`, `TimerGroupWidgets[]` | `timer_add_widget`, `timer_remove_widget`, `timer_process_group`, `timer_exit_group` | one generic timer per interval; its callback calls the widgets | one-shot widgets add themselves again in their callback; release of emptied groups; two tables to keep in step |
| descriptor events, `event.c` | `events[]`, `event_count` | `event_add`, `event_del`, `event_modify`, `event_process` | D-Bus watches, TeakLCM serial port | removal by swapping while the loop runs |
| named events, `event.c` | `ev_names[]` with callback lists | `named_event_add`, `_del`, `_trigger` | D-Bus signals and `event::trigger()` update text widgets | a callback can trigger the next event: recursion |
| PID file, `pid.c` | the file | `pid_init`, `pid_exit` | other instances | crash leaves a stale file; test and removal are two steps |
| exec plugin, `plugin_exec.c`, `thread.c` | `Thread[]`, `max_thread`, hash `EXEC`; per thread a child, a semaphore, shared memory | `exec()`, the child's loop, `plugin_exit_exec` | evaluator calls `exec()`; child writes while parent reads | real concurrency, death of a child, failing calls, clock steps |
| hash tables, `hash.c` | items, slots for deltas, sorted flag | `hash_put`, `hash_put_delta`, `hash_get*`, `hash_age` | all value plugins | two orders of keys (`strcasecmp`, `strcmp`), ring of delta slots that grows |
| widgets, layout: `widget*.c`, `layout.c` | `Widgets[]`, classes, per-widget data | register, find, add, init, update, draw, quit | timers, properties, named events, keys; the driver's draw function | order of initialisation, children of multi-widgets, scrolling states, widgets that re-arm themselves |
| text displays, `drv_generic_text.c` | `LayoutFB`, `DisplayFB`, characters, bar segments | draw text/icon/bar/GPO, `drv_generic_text_*` | widgets above, driver's `write` below | only differences are sent, user-defined characters are few |
| graphic displays, `drv_generic_graphic.c` | frame buffers by layer | text, icon, bar, image, graph, arc, ring, blit | widgets above, driver's `blit` below | blending of layers, growing buffers, clipping, what area is sent |
| text drivers | address counters, queues, copies of the screen, latches of outputs | start, write, defchar, settings, GPOs, quit | `drv_generic_text.c` above, the device below | bytes that are text and command, several controllers, retries, shared registers |
| graphic drivers | copies of the frame, dirty flags, timers | start, blit, settings, quit | `drv_generic_graphic.c` above, the device below | what changed is found by comparison, joined, packed, postponed |
| TeakLCM driver, `drv_TeakLCM.c` | protocol state machine, `shadow` | connect, reply, print, end | events and one-shot timers; the board | restarts of the board, answers to somebody else, parts of frames; nothing is sent again |
| configuration, `cfg.c` | sorted entries `section.key` | command line, file, lookup, rename | everybody | who wins when a key is set twice; defaults and ranges |
| evaluator, properties: `evaluator.c`, `property.c` | compiled trees, variables, functions | compile, eval, delete | widgets, plugins | operators that share prefixes, ranks, side effects, caching of results |
| value plugins on tables (13 of `plugin_*.c`) | a hash table, a descriptor, the time of the last read | read, parse, look up | evaluator, `/proc`, `/sys`, devices | stale tables, failing reads, rates |
| fifo plugin, `plugin_fifo.c` | pipe, buffer | open, read, close | evaluator | partial reads, several readers of one value |
| D-Bus plugin, `plugin_dbus.c` | signals, watches, timeouts | add/remove/toggle watch and timeout | libdbus calls back into timer and event tables | removal and re-adding inside callbacks |
| MPD plugin, `plugin_mpd.c` | connection, failures in a row, copies of the answers | `mpd_update`, getters, keys | evaluator; the music server and its other clients | a connection that breaks at any command, copies that keys change, what is kept after a failure |
| Huawei plugin, `plugin_huawei.c` | descriptor, connected, configured, values | ask, send, receive three lines, evaluate them | evaluator; a modem at a serial port | lines that come late or in pieces, a modem that is pulled out |
| KVV plugin, `plugin_kvv.c` | shared memory, semaphore, a child; per page the place in it | `kvv_*`, the child's loop, parser callbacks | evaluator calls; the child fetches pages | real concurrency, death of the child, pages that overflow |
| other plugins | at most a socket | one function each | evaluator | I/O |
| ports, delays, messages | device handles | open, write, wait, print | drivers, everybody | hardware access |

What makes each of them correct:

* timer queue: no timer is lost or starved; the loop never sleeps past a
  trigger; a steady clock is never taken for a skew, a clock that was set back
  costs a bounded wait; missed intervals do not stack up;
* timer groups: every widget has a live timer of its interval; one pass calls
  every member; groups that are no longer needed are unlinked;
* events: a callback runs only for what was polled and reported; nobody's
  event is lost; what stays ready is served;
* PID file: one daemon, and the file names it;
* exec: outputs are neither mixed nor stale, one child per command, no wait
  without end;
* hash: a table holds the last line read of every key, under every history of
  sorting and growing; rates are taken over the interval asked for; plugins
  answer with nothing older than their caching time, and try again after a failure;
* MPD, Huawei: what a function answers is what the server or the modem said last, of one
  song, to one command; after any failure they serve again;
* KVV: the program finds one page as a whole;
* text display: after an update the display shows what the widgets drew;
* graphic display: every pixel shows the composition of what the layers hold;
  nobody paints into another widget;
* drivers: the device shows what the calls asked for, in the cell or at the
  pixel meant, whatever was sent before; outputs and settings do not disturb each
  other; the end leaves an empty display;
* TeakLCM: a driver that takes the board for connected is right, and everything
  written is shown, whoever restarted in between;
* configuration and expressions: an expression means what its text says, effects
  happen when they should and only then; an option wins over the file;
* widgets: initialised once and in order; each shows its present values, keeps
  exactly one timer, scrolls within its string, and hears its events.

`PROJECT.json` lists the places where this can go wrong ("hazards") with the
properties that guard each.

## 2. Modules

```
Loops        lemmas on loops and least elements (constant level)
TimerSlots   operators on the slot table (constant level)
   ^
Timer        main loop, timer queue, clock, callbacks, poll     TimerProofs
   ^                                                      MCTimer
TimerGroup   timer groups on top of the queue              MCTimerGroup (and
                                                          TimerProofs)
DaemonLock   abstract: at most one daemon
   ^  (refined by)
Pid          the PID file by system calls                       PidProofs
Exec         exec plugin, children, semaphores                  ExecProofs
                                                          MCExec
Event        descriptor events                                  EventProofs
LineStore    abstract: the last line read of every key
   ^  (refined by)
HashTable    operators on the tables of hash.c (constant level)
   ^
ProcFiles    plugins that answer from a table             MCPlugins
Mpd          the plugin for a music server                PluginProofs
Huawei       the plugin for a modem                       (of all four, and
Kvv          the plugin for departures, and its child      of MCPlugins)
BarSegments  bars, segments and characters (constant level)
   ^
TextDisplay  frame buffers, texts, icons, bars, display         TextDisplayProofs
                                                          MCTextDisplay
GraphicDisplay  layers, blending, painting (constant level)
   ^
GraphicDrivers  what 19 drivers send and what is shown then
   ^
Graphic      a graphic display at work                          GraphicProofs
                                                          MCGraphic
TextDevices  controllers and terminals (constant level)
   ^
TextDriversHD, TextDriversSerial   what 31 drivers send
   ^
TextDriverTable  what each tells the shared code, start and end
   ^
TextDrivers  a text display at work                       MCTextDrivers
TeakLCM      the TeakLCM driver and its board             MCTeakLCM
Config       the table of the configuration (constant level)
   ^
Evaluator    compiler and evaluation of expressions (constant level)
   ^
WidgetText   properties, timers, named events, texts
   ^
Widgets      the program from its options to its end      MCWidgets
```

A definition named `..._Bug` is a faulty variant of its namesake: it is used
by no specification and documents which mistake a property would find.

### TimerSlots, Timer (timer.c, loop of lcd4linux.c)

`Timers` is the slot table; a slot is `[client, when, interval, one_shot,
active]`, `client` standing for the (callback, data) pair.  `pc` tells where the
program is:

| `pc` | code |
|---|---|
| `init` | before the loop: drivers and layout add timers |
| `timers` | the loop of `timer_process()` at index `timer` |
| `callback` | inside `Timers[timer].callback(...)` |
| `poll` | inside `ppoll()`, `delay` left |
| `event` | event callbacks, then the next turn of the main loop |
| `exit` | loop left, `timer_exit()` done |

`Begin`, `Skip`, `Fire`, `Return`, `Finish` are `timer_process()` cut where
client code or the clock can come in between; `Add`, `AddLate`, `Remove` are the
API, called in the states `ClientRuns` allows; `Tick` and `SetClock` are the
clock.  `timer_add_late()` is modelled as it is, with the inverted test of
`timer_add()`'s result (it reports failure after success).  Integers: `Wrap` is the
wrap of a C `int`, `IntervalCounts` the conversion of a float that may be
infinite or too large (undefined: both what x86 and what ARM yields).

Abstractions: times are whole milliseconds (the code keeps microseconds and
compares milliseconds); the rounding of the float quotient is left out;
`realloc()` fails beyond `SlotLimit`.

### TimerGroup (timer_group.c, update functions of widgets)

Extends `Timer`: the generic timer of group slot `g` has the client `GroupTimer(g)`,
and the steps of `timer_process_group()` (`EnterGroup`, `SkipWidget`,
`CallWidget`, `ReturnWidget`, `LeaveGroup`) take place while `pc = "callback"`.
Text and bar widgets are added once (`InitWidget`); icons, GPOs, images, graphs,
arcs and rings (`Rearming`) add themselves again with an interval evaluated anew
(`RearmWidget`).  `timer_remove_widget()` has no caller in the sources;
`RetireWidget` calls it for the widgets in `Retired`.

Three divergences from what the comments say are part of the model:
`timer_remove_group()` passes the address of a pointer, so the generic timer of
a released group stays (`TimerOfRemovedGroup`); a
widget that re-arms itself takes a later slot and is called again in the same
pass (`calls` may reach 2); a group whose `timer_add()` failed stays active.
The `malloc()` failure at timer_group.c:203, which leaves an uninitialised slot,
is left out.

### Pid, DaemonLock (pid.c, lcd4linux.c)

One action per system call of `pid_init()`: `Link`, `Open` (with `read`),
`Check` (`kill(pid, 0)`), `Unlink`; `Quit`/`Exit` for `pid_exit()` and the end;
`Die` for a crash or an exit that leaves the file (missing Layout,
lcd4linux.c:389).  A process that starts again under the same PID is a reused
PID.  The temporary file is private to its process and left out.  Any number of processes start at
the same time, and those in `Foreground` (`-F`, `-i`) never call `pid_init()` but remove the file when they
end, as `main()` does.

The lock of pid.c can be broken: between the `kill()` that finds a file stale and its `unlink()` another process may
have taken the lock, and a foreground run removes whatever file there is.  Two ghost variables
say when.  `stolen` becomes true at the very step that removes the file of another process that has
the lock (`Holds`: a daemon, or one that has found its own PID in the file), and `raced`
when a process was started while another was starting, or one in the foreground has ended.
`DaemonLock` is the promise: processes acquire and release the lock, which excludes until somebody steals
it; `Pid` refines it with `daemons <- Daemons`.  That contention alone does not break it, only theft, and that theft takes a
race, is what the properties and the theorems say.

### Exec (plugin_exec.c, thread.c)

`Thread[i]` joins the table entry with the child, the semaphore and the shared
memory it names; `ret` has two halves, so that a copy can be torn.  The child
loops through `Run`, `ChildLock`, `ChildWrite1/2`, `ChildUnlock`; the parent
through `FirstTime` / `Cached` / `NotFound` / `Reread` (the branches of
`do_exec()`), `Lock`, `Copy1/2`, `Unlock`.  `Die` kills a child anywhere, the
semaphore stays as it is.  `CreateThread` includes what happens when `fork()` or
`shmget()` fails: `kill(-1, SIGKILL)` reaches all other children.  `Interrupt`
is a signal that breaks `semop()`.  `hash_age()` is abstracted to the ranges
`do_exec()` tells apart; `"negative"` is an entry of the future after the clock
was set back behind it (`SetBack`, at most `MaxSetbacks` times), which makes `do_exec()` create another child.
`floor` (the output that was there when `do_exec()` last copied that of a key) and `setbacks` are
history variables.  Signals that reach a waiting child, and `semget()` rights, are
left out (with `mutex = FALSE` standing for a mutex that does not work).

### Event (event.c)

`events` is the table, `fds`/`revents` what `poll()` got and gave, `i` and `j`
the two indices of the loop.  Clients change the table between two passes and
inside callbacks (`Change`).  `event_del()` fills the gap with the last event and
drops the last one even if nothing was found; `event_modify()` drops the last one,
too, which is a bug (section 5).  `event_count` below zero is undefined
behaviour and excluded (`events # <<>>`).

### BarSegments, TextDisplay (drv_generic_text.c, widget_icon.c)

The program has one thread and a draw runs to its end, so each draw function is
one action: `DrawText`, `DrawBar`, and `UpdateIcon`/`UpdateCopy` for
`widget_icon_update()` of an icon and of a widget that shows the same icon
elsewhere.  Any order of updates is a behaviour: which timer fires first is
`TimerGroup`'s business.  `LayoutFB`, `DisplayFB`, `BarFB`, `Segment`, `nSegment`
are the variables of the source; cells are pairs of row and column, so growing a
buffer keeps them where they are, as `resizeFB()` does by copying.  `cgram` and
`screen` are the display, which is external: the bitmaps of the user-defined
characters, and per cell the character and the bitmap it had when it was sent.

`left` is a history variable: the cells that packing left without a segment in use
and that were not sent since.

`BarSegments` is the bar renderer without state: `CreateBar` (pixels per cell),
`CreateSegments` (a matching segment per cell), `PackSegments` (the merging loop with
its error table, updated in place as the code does), `DefineChars`.  Its loops are
recursive functions on the naturals, one value for each turn.

Abstractions: directions are sets, so that `&` is intersection; segment 0 stands
for the code's -1; the flag `invalid` of a bar cell lives within one draw and is
`new.defined`; a bitmap is described by what it was computed from.  A vertical
bitmap shows the first value only; nothing fills the buffer for a bar to the
west, which is thus `"arbitrary"`.  After "unable to compact" the code leaves
cells that point behind `nSegment`; `Settled` tells them apart.  On a display with
`INVALIDATE` such a cell, once it is settled again, may show the bitmap of before until it is sent:
`MayBeOld`, which `GlyphFresh` and the bars of `CharactersKept` exempt (section 5).  The greeting, the
message at the end, GPOs and drivers that replace a draw function are left out.

What is assumed of the constants, by name:

* `DisplayAssumption`, `WidgetsAssumption`: bars and icons lie on the display, as in a
  layout that suits it; texts may be too long; a bar has one direction, texts are bytes.
* `ApartAssumption`: nothing is drawn over a bar; texts hold no user-defined character, nor
  is the blank one.  Two widgets in one cell overwrite each other, which is what the layout asks for, and
  what the screen shows then is `ScreenShowsLayout`'s business only.
* `SegmentsAssumption`: the characters of a driver's own segments belong to the font, as they
  do in each driver; the codes of user-defined characters are bytes.  The M50530 with twelve
  of them from 248 on (drv_M50530.c:367, 602) is excluded: its last four codes are 256..259.

### HashTable, LineStore, ProcFiles (hash.c, thirteen plugin_*.c)

`HashTable` has the operators of hash.c on a table of items, each with a ring of
slots (value, time), and `hash_get_delta()` with its search for the slot that is
old enough.  `ProcFiles` observes one plugin at a time: `Evaluate(k)` is one
evaluation of one of its functions, that is, the test whether the table is young
enough, the read with every way to fail, the parsing and the answer.  `Change`,
`Tick` and `SetBack` are the system and the clock; `Toggle` lets a source fail or come back within a tick.
`enosys` are the numbers that the driver of a DVB frontend does not implement: only those are given
up for good (dvb.c:90), any other failure is asked again.  The CPU functions of
plugin_proc_stat.c are an observed case of their own (`"cps"`), so the model
distinguishes fourteen.  `LineStore` is the promise of the tables, and `ProcFiles`
refines it with `store <- stored`.  One plugin is `forgetful`: `my_uptime()` writes the result of a read that
failed, -1, over the uptime it had (plugin_uptime.c:207), which it answers until it reads again
(`Lose`, `lost`).

Abstractions: a line is a key and two columns; parsing picks them; a tick stands for
the 10, 100, 250 or 1000 ms after which a plugin reads again.  The functions of
the plugins that only format a number, and reads of `/proc/seti`-like files that
are longer than the buffer, are left out.

`TablesAssumption`: the keys of a file differ even when their case is ignored, because
`bsearch()` compares with `strcasecmp()` (hash.c:102) and takes names that differ
in case only for one; there is a key, and a kind of work; a name is not empty and no kind of work
is called "busy"; a table has at least one slot; the clock's bound leaves room for the longest caching time.
The kernel's names of fields, disks and kinds of work are such; interfaces could be named otherwise.

### Mpd (plugin_mpd.c)

`Evaluate` is the evaluation of any getter: `mpd_update()` with what `Connect`,
`mpd_query_status()` and `mpd_query_stats()` do up to the command at which the
connection is lost (`fails`), and the answer.  `Press` is a key: the same, then the change of the
copy and the command, sent if a song is known.  `conn` has the value `"failed"` for a
connection object that never connected and is kept, and asked, as the code does
beyond `ERROR_DISPLAY` failures.  `ServerEnds`, `ServerStarts`, `ServerCloses` and
`Other` are the server and its other clients, modelled from what the plugin uses of libmpdclient;
`Tick` and `SetBack` are the clock.

`MpdAssumption`: the waiting time is a natural number.

Abstractions: an age counts up to the waiting time, beyond which nothing changes; the
status is one answer, with "state" for the fields that are copied in the same way; the
conversion of characters never takes place in the code and is left out.

### Huawei (plugin_huawei.c)

A call is cut where the modem or the time comes in between: `Ask` (open, initialise or
answer at once), `huawei_send` (write the command), `huawei_receive` (one of at most
three lines), `Done` (evaluate the reply).  `recv_seq` says which line comes next: echo, data, OK.
`wire` are the lines not yet received, so a line that comes late is taken by the next
command.  A line may come in pieces (`InPieces`), whose repeated character is the
uninitialised `char` of the code.  `Pull`, `Plug` and `Health` are the modem.
`calls` are the functions that the widgets evaluate, chosen by `Init` from `Calls`.

`HuaweiAssumption`: numbers are naturals, and two flow reports with different times are at
least two seconds apart ("Values comes at 2s interval.", plugin_huawei.c:766; between closer ones the
code keeps the rate of before); the name of the operator and its end fit into the variable (`NameSize`).
A name that fills it stops every later copy (plugin_huawei.c:731, section 5).

Abstractions: a line is its kind, its command and its value; of equally handled values one is
kept; a late line beyond `MaxWire` does not occur.

### Kvv (plugin_kvv.c)

`Evaluate`, `Lock`, `ReadAndUnlock` are a function, with `kvv_fork()` in the first one; `http_open`,
`Receive`, `ClientLocks`, `ClientScans`, `ClientUnlocks`, `Sleep` the child, which holds the semaphore
while it parses, one step for each table cell as the parser of the page does.  `scan` has the child's
variables `last_was_stop` and `overflow`.  `ClientDies` is anywhere, and the semaphore
stays as it is.

Abstractions: a page is the sequence of its cells; how they are cut out of the text and
how names are shortened is left out.

### GraphicDisplay, GraphicDrivers, Graphic (drv_generic_graphic.c, 19 drivers)

A canvas holds a function from pixels to colours for every layer; a painting
operator returns the new canvas and the area that the code passes to `blit()`.
A driver is a pair of operators, for its start and for an area; it keeps `buf`
and the display shows `dev`.  In `Graphic` a driver and a layout are chosen by
`Init`; after the greeting any widget is drawn with any of its contents (`Draw`), timers of
drivers run (`Timer`), and symbols, brightness and keypad are changed.  `drv_GLCD2USB`, `drv_MDM166A`
and others differ in how they find out what to send; each `..._blit` operator
follows its source.

The value of a graph is written into it as the code does without a TrueType font: as blocks of its
digits, the last value and the largest (`ValueBlocks`).  The needle of a gauge is the line of
drv_generic_graphic.c:1139-1173: steps of one along the longer axis and truncated fractions along the other
(`Needle`), each step with as many pixels as the gauge is thick, and a dot in the middle
that may be larger than the gauge.  Those pixels are painted but not sent: they are `stale` until
something sends them, on X11 as well, unless a change of brightness repaints the window.

Assumptions: `DriverAssumption` (sizes of bytes and cells are positive, bounds natural), `SceneAssumption`: widgets and contents are of
the types of their class (`WidgetOK`, `ContentOK`), and the options of a display suit it (`OptionsOK`: no
byte or cell crosses its edge, numbers of symbols are consecutive and apart), as those of the real ones do.

Abstractions: a colour has one channel and three levels, a byte holds two
pixels, cells are 2 x 2; fonts are sets of pixels, sine and cosine tables of tenths.  libgd, TrueType (whose texts are
the value of a gauge, and that of a graph if a font is configured) and the table
of colour names are left out.  Transfers do not fail, except for the LED matrix.

### TextDevices, TextDriversHD, TextDriversSerial, TextDriverTable, TextDrivers

`TextDevices` is the far side: HD44780 memories, displays that obey a stream of
bytes with a table of commands, terminals.  The two driver modules hold one
group of operators for each driver (its `write`, `defchar`, settings, outputs), with `s.own`
for the static variables of the source and `s.dev` for the device.  `TextDriverTable`
is the rest: options, start, greeting and end, chosen by name.  In `TextDrivers` an
instance is `case`; after `Greet` and `Quiet` the calls `Write`, `Defchar`, `Plugin`, `SetOutput`
(at most `STEPS` of them), `Glitch` (transfers fail for a while) and `Quit` come in any order.  A transfer fails in
one of three ways, which `case.glitches` lists for each device: it is refused, it is obeyed but its answer
is lost, or it cannot be sent.  What a driver makes of that (a retry, an early return as in drv_ula200.c:208-212,
530, 567, or the end of the program, `s.over`, when a repeated transfer fails as well: ASTUSB, IRLCD, LCD2USB) is in
its operators; what the display may then be expected to show, in `DrawnBy`, `DefinedBy`, `ToldBy`: a text obeyed twice may run
on over the rest of its row, one that was not sent leaves the cells as they were.  `Wired` says, independently of the driver, in
which controller and at which address the cell of a row and a column is: what a
manual of the display says and the drivers have to hit.

Abstractions: devices are external and modelled from what the drivers rely on;
ports are opened without failure; delays are left out.

### TeakLCM (drv_TeakLCM.c)

`state`, `reset_rx` and `shadow` are the variables of the source; `out` and `in` are the
frames on the serial line, each a sequence of bytes with its masks, its escapes and the
checksum of `CRC16()`.  `lcm_event_callback` reads any number of the frames that have come
and possibly a part of the next, whose rest comes with the next read.
`fsm_handle_bytes` works on these bytes as the code does: a frame with a command, a
frame with data (`Unescape` up to where the checksum fits, `Complete`), or garbage, which is
dropped together with everything read behind it; after a frame with data it goes on with a
length that is one too long, and so looks at a byte behind what was read.
`fsm_handle_cmd` is the table of answers (`Answered`) and `fsm_step()`.  An assertion that
fails ends the program (`phase` is then `"aborted"`, which `TeakTypeOK` excludes).
`BoardHears`, `BoardRestarts` and `KeyPressed` are the board, modelled from what the driver
expects of it; `Crash` kills the program and lets another start on the same line.

Abstractions: what earlier reads left behind in `rxbuf` is nothing or some part of frames
(`Leftovers`) in place of its real history; the NACK after a bad checksum, which is prepared
and never sent, is left out; a row with more than five bytes to escape, which overflows the
frame of 32, does not occur with the bounds.

### Config, Evaluator, WidgetText, Widgets (cfg.c, evaluator.c, property.c, widget*.c, layout.c, main())

`Config` works on the sorted table of entries, with the checks of keys (`validchars`) and of the file's owner
and rights (`cfg_check_source`, with its exception for `/dev/null`), `Evaluator` compiles a sequence of lexemes
with one operator per rank as the code has one function per rank, and evaluates the
tree, passing the world (variables, configuration, readings, triggered events)
along.  An evaluation that fails (`ok`, `Fails`: the code passes the type of one child on, `HeirOf`, and returns -1 when
that has none) gives the default of the option, as cfg.c:395, cfg.c:430 and plugin_cfg.c:74 do.  `WidgetText` has properties, the timers as a bag, named events, and texts with
their scrolling; `Widgets` the other classes, the layout and `main()`.  Handlers map a
world to a world; an action of `Widgets` applies one.  `phase` goes through options,
configuration, plugins, layout, `running`, and ends in `stopped` or, after an
error, in `exit`.  While it runs a timer that is pending fires, a named event is
triggered, a key is pressed, or a value that expressions read changes.

Abstractions: numbers are tenths; names and strings come from small sets and
have an order and a case; `pow()` takes whole exponents; events that an expression
triggers run when the evaluation of that property is over, where the code calls `named_event_trigger()` in the middle of it
(plugin_event.c:65), so a listener that changes a variable the rest of the same expression reads is not covered; intervals only tell timers apart, since
`TimerGroup` is about when they fire; the file is a sequence of lines that are split already.

## 3. Runs

| Run | What it asks |
|---|---|
| `timer` | two clients, two slots, intervals 0 and 2, clock 0..2, steady clock; adding and removing anywhere |
| `timer_jumps` | the clock is set twice, by -6 or +3, before any reading |
| `timer_group` | an icon that changes its interval, a text that is removed, a driver |
| `pid` | four processes, one of them in the foreground, any number of starts at once, crashes, reused PIDs |
| `exec` | two commands, children that write and are killed, failing `fork()`, the clock set back |
| `event` | three descriptors, five changes of the table, anywhere |
| `plugins` | one plugin at a time: fourteen on tables, with files that change and fail and a clock that is set back; MPD, the modem, KVV with all that the other side may do |
| `text_display` | a text, an icon shown twice and two bars share a small display |
| `graphic` | nineteen drivers, layouts of all classes of widgets, options of the displays |
| `text_drivers` | 47 displays of 31 drivers, calls in any order, transfers that are refused, unsent or lose their answer |
| `teak` | handshake, texts, keys, restarts of board and program, frames in parts |
| `widgets` | configurations with every class of widgets, and some 800 expressions |

All are expected to pass.  A property is often a conjunction of named parts; each part has
a comment of its own in its module.

* `timer`: `TypeOK`; `WaitBound` (no trigger further away than the interval);
  `NoFalseSkew` (the skew correction never acts with a steady clock, threshold 0);
  `NeverOversleeps`; `NoTimerLost` (a timer leaves its slot only when called,
  removed or at exit); `DueTimerFires` (liveness, with a timer of interval 0 that
  is due in every pass).
* `timer_jumps`: `JumpBounds` (`SleepBound`, `StallBound`), `NoBacklog`: what a
  clock step costs.
* `timer_group`: `GroupInv` (`GroupTypeOK`, `WidgetServed`: each waiting widget has
  exactly one active group, with a recurring timer of its interval);
  `PassComplete`; `WidgetCalled` (liveness).
* `pid`: `PidHolds` (`DaemonListed`: until a file is stolen it names the daemon that runs;
  `StolenByRace`: nothing but overlapping starts and foreground runs can steal it), `LockSpec` (refinement:
  until then the lock excludes, under contention), `StartReturns` (liveness of the retry loop).
* `exec`: `ExecInv` (`ExecTypeOK`; `NoTornRead`; `ChildrenCounted`: one child per command, and one more at most for each
  time the clock was set back), `Fresh` (no answer, copied or cached, is older than what was there when its command's
  output was last copied), `ExecReturns` (liveness).
* `event`: `EventInv` (`EventTypeOK`, `NoEventLost`), `CalledWhenReady`, `ReadyServed`
  (liveness).
* `plugins`: `AnswersHold` (`ProcTypeOK`; `FreshAnswer`: nothing older than the caching
  time; `Recovers`: a failure is not remembered; `DeltaIsRate`: a rate is
  that of two lines read and spans the interval asked for; `CpuShares`), `StoreSpec` (refinement);
  `ServersAnswer` (`Mpd`: `Fresh`, the copies agree with the server up to the waiting time, whatever keys
  have changed, and `SongAndTimes`, a song is never shown with the times of another; `Huawei`: `InStep`,
  with a modem in time the values are those it reported last, `OwnData`, whatever comes late the
  reply to one command is not taken for that to another, and `Gone`, no values without a
  modem; `Kvv`: `WholePages`, who has the semaphore finds one page);
  `ServersServe` (liveness; `Reconnects`, `Initialised`, `Returns`: each serves again after any failure).
* `text_display`: `CharactersKept` (`TextTypeOK`; `IconsKept`: bars keep off the icons'
  characters; `GlyphFresh`: no cell keeps an old bitmap; `BarShown`,
  `BarsFilledFromTheirEnd`), `ScreenShowsLayout` (sending differences suffices),
  `NoNeedlessMerge` (no bar is distorted while there are characters left).
* `graphic`: `CanvasRight` (`GraphicTypeOK`; `BlendIsComposition`: skipping layers makes no
  difference; `OnlyRoundSpills`, `OthersKept`: who may paint where; `BarsFilled`: as many pixels as the value says;
  `CanvasGrows`), `DisplayRight` (`DisplayShown`: at rest each painted pixel is shown;
  `SymbolsShown`), `FramesGoOut` (liveness: nothing waits for ever).
* `text_drivers`: `AsAsked` (`TextDriversTypeOK`; `TextShown`, `GlyphsKept`, `SettingsShown`,
  `OutputsShown`: the device is as the calls asked; `OnlyAsked`: nothing else
  changes), `LeftAtEnd` (`ClearedAtEnd`, `DarkAtEnd`).
* `teak`: `ShadowShown` (`TeakTypeOK`; at rest, a driver that takes the board for connected
  is right and all text is shown; the end leaves an empty, dark board; no assertion
  fails), `Reconnects`
  (liveness: a driver that waits for an answer, just started or after a restart of the board, ends up with a board
  that shows the text, unless the program ends or dies first, or another frame is cut).
* `widgets`: `EvaluationHolds` (`MeansWhatItSays`: each expression, written with as few
  parentheses as its ranks allow, has its meaning; `NoCrash`), `ScreenHolds` (`WidgetsTypeOK`;
  `TextShowsItsValues`; `NumbersRounded`; `ScrollsInside`; `BarInScale`), `OneTimerEach`
  (every widget that lives from a timer has exactly one), `ConfigHolds` (`OptionsHold`; `LayoutKept`: each widget is where its
  scene says, row, column and layer being written down beside the key of the entry, not computed from it),
  `ScrollerShowsAll` (liveness), `UpdatesTake` (`ListenersAreFresh`, `GraphKeepsLastValues`,
  `IconTurns`, `GuardedSideEffects`).

### Bounds

* Two clients and two slots show every sharing of slots between an old and a new
  owner; all positions of a changed slot relative to the loop index occur.
* Clock 0..2 with intervals 0 and 2: due, overdue and future triggers exist in
  the same table.  `IntMax` is out of reach (1000) in these runs; overflow is
  modelled, and the theorems state the assumption that excludes it.
* `SkewDetect = 0` in `timer` makes `NoFalseSkew` strongest, `1` elsewhere.
* In `timer_group` three widget slots are what one re-arming and one recurring
  widget need; the slot limit 3 leaves room for the timer a changed interval
  leaks.  With more changes the leak exhausts any limit: a failed `timer_add()`
  then breaks `WidgetServed`; the clock bound keeps the run below that.
* `pid`: four processes: one holds, one retries, one interferes, one is in the foreground (some 240 000 states).
* `exec`: `MaxSetbacks = 1`: the clock is set back once, behind either entry.  `MaxRuns = 1` gives each child one output to write over the empty
  one, which is enough for a torn and for a stale copy; two commands share table
  and hash.  Their CRCs differ (`OwnKeys`).
* `event`: three events allow one in front of, at, and behind the loop index;
  five changes allow a removal and a new event after three additions.
* `text_display`: 2 x 3 cells, three characters of which one is the icon's, and
  the two segments most drivers add.  Two characters are too few for the values
  of a two-cell and a one-cell bar: draws without packing, with merges, and with
  "unable to compact" all occur, as do texts that make the layout grow beyond the
  display.  `INVALIDATE` is `TRUE`, the harder case, and `GOTO_COST` 1 makes
  `blit()` send equal cells between different ones.
* `plugins`: two lines and a ring of `DELTA_SLOTS = 3` slots, which fills and
  wraps within `MaxNow = 5` ticks; counters of 0..`MaxValue = 2` go up and wrap.  Only the
  first key changes for most plugins, once per tick, since the lines are independent.  `waittime = 2` ticks tell an
  age of zero (asked at once), a young and an old one apart; `ERROR_DISPLAY = 1` failure is logged and
  one is not; `MaxChanges = 1` key or change of another client.  The modem reports `Times` so that two reports may have
  equal bytes and different times, an rssi that is a number and the 99 of none, and operators of different lengths;
  the longest, of two, and its end fit into `NameSize = 4`;
  its functions are evaluated in the four groups of `MCCalls`, within which answers can be
  mistaken for one another.  Pages of 0, 1 and `MAX_LINES + 1` departures, and `MaxPages = 2` pages that
  differ: one that fits, one that is empty, one that overflows, after each other.  A modem that is not
  in step may hold late lines up to `MaxWire = 3`, the number received per command.
* `graphic`: 4 x 6 pixels are three cells by two, so that widgets overlap, touch
  the edge and lie beyond it (the canvas grows); two layers and three levels of colour and of opacity
  give every case of blending; runs of changed bytes are at most `MaxRun = 2` long and joined over
  `ShortGap = 1`, so all joins and cuts occur.
* `text_drivers`: `STEPS = 3` calls after the greeting: one to disturb, one to be
  disturbed and one in between.  The displays are small versions of those the
  driver knows: for each number of controllers and each wiring there is one.  Texts touch
  both ends of lines and hold the bytes of the protocols.
* `teak`: one column, one text (its character is the escape itself, 27), one key, and two of: a
  key, a restart of the board, a death of the program, a frame that is cut.  Every position of these in the handshake occurs.
* `widgets`: each configuration (`Scenes`) has one or two widgets and the inputs that
  matter to it; three or four letters per text, windows of one to seven cells, buffers for strings that are
  multiples of `CHUNK_SIZE = 4`.  Expressions are all pairs of operators, nested to the left and
  to the right, signs, conditionals, and calls of each function.

`CHECK_DEADLOCK FALSE` stands where the model ends at a bound, in `exit`, or in a
`main` that waits for a dead child.

### Fairness

* `Timer`, `TimerGroup`: weak fairness of the steps of `timer_process()` (they
  run to completion unless a callback blocks: callbacks are assumed to return),
  of the timeout of `ppoll()` and of time.
* `Pid`: weak fairness of each process inside `pid_init()`.  No fairness for
  `Start`, `Quit`, `Die`: `StartReturns` claims nothing for an instance if others are started again and
  again, each of which may leave a file that is stale.
* `Exec`: weak fairness of both processes, strong fairness of the parent's
  `Lock`, because System V semaphores serve waiters in the order of arrival.
  `ExecReturns` makes no claim when a child of the command was killed: one that died with the
  semaphore blocks the main process for ever.
* `Event`: weak fairness of `event_process()`.  Clients change the table finitely
  often (`MaxChanges`): a client that removes events in each pass can make each
  pass skip the others.
* `ProcFiles`, `TextDrivers`: none; they promise nothing that needs it.
* `Mpd`: weak fairness of evaluations, which timers make again and again, and of time.
* `Huawei`: weak fairness of the steps of a call (reads of the port have a timeout); strong fairness of
  asking, since widgets evaluate their functions for ever and a call in between always returns.
  Not of `Plug` or `Health`.
* `Kvv`: weak fairness of the child, strong fairness of the program's steps, because System V semaphores serve waiters in
  the order of arrival.  `Returns` makes no claim when the child died with the semaphore.
  In `MCPlugins` one plugin is observed and the others never move, so that
  fairness of a disjunction is that of the observed one.
* `Graphic`: weak fairness of the driver's timer.
* `TeakLCM`: weak fairness of the start, the connecting timer, the events of the descriptor
  and the board's answers: the main loop serves timers and events, and the board
  is assumed to work.  Reading and answering are written out (`Reads`, `Answers`) with what
  enables them in words that TLC evaluates fast: a running program with something to
  read, a frame for the board.  `Reconnects` claims nothing when a frame is cut afterwards.
* `Widgets`: weak fairness of the scrolling timers, written out (`MayScroll` is what enables
  them), because TLC evaluates ENABLED of such large handlers slowly.

## 4. Proofs

| Theorem | Assumes | States |
|---|---|---|
| `TimerProofs!TypeCorrect` | | `TypeOK` |
| `TimerProofs!SleepEndsInTime` | | `NeverOversleeps`, with any clock |
| `TimerProofs!TimersKept` | `~SelfRemove` | `NoTimerLost` |
| `TimerProofs!WaitsBounded` | steady clock, no overflow | `WaitBound` |
| `TimerProofs!SkewNeverAssumed` | steady clock, no overflow | `NoFalseSkew` |
| `TimerProofs!SleepsBounded` | clock set within a range that fits | `SleepBound` |
| `TimerProofs!NoTimerStacksUp` | the same | `NoBacklog` |
| `TimerProofs!JumpsCost` | the same, one clock for all additions, no zero interval | `JumpBounds` |
| `TimerProofs!GroupTypeCorrect` | | `GroupTypeOK` |
| `TimerProofs!PassesComplete` | | `PassComplete` |
| `TimerProofs!WidgetsServed` | `timer_add()` finds a slot | `WidgetServed` |
| `TimerProofs!GroupInvariant` | the same | `GroupInv` |
| `ExecProofs!ExecTypeCorrect` | | `ExecTypeOK` |
| `ExecProofs!NeverStale` | | `Fresh` |
| `ExecProofs!NeverTorn` | `semget()` never fails | `NoTornRead` |
| `ExecProofs!ChildrenKnown` | | `ChildrenCounted`, however the clock is set |
| `ExecProofs!ExecInvariant` | `semget()` never fails | `ExecInv` |
| `EventProofs!TableComplete` | | `EventInv` |
| `EventProofs!CallsOnlyReady` | | `CalledWhenReady` |
| `PidProofs!DaemonsListed` | | `PidHolds`: `DaemonListed`, `StolenByRace` |
| `PidProofs!MutualExclusion` | | `OneDaemon`: one daemon until a file is stolen |
| `PidProofs!LockImplemented` | | `LockSpec` |
| `TextDisplayProofs!TypesCorrect` | | `TextTypeOK` |
| `TextDisplayProofs!ScreenCorrect` | | `ScreenShowsLayout`, with and without `INVALIDATE` |
| `TextDisplayProofs!IconsCorrect` | | `IconsKept` |
| `TextDisplayProofs!CharactersCorrect` | | `CharactersKept` |
| `TextDisplayProofs!MergesAreNeeded` | | `NoNeedlessMerge` |
| `GraphicProofs!DrawingIsRight` | | `CanvasRight`: `GraphicTypeOK`, `BlendIsComposition`, `OnlyRoundSpills`, `BarsFilled`, `OthersKept`, `CanvasGrows` |
| `GraphicProofs!DisplayIsRight` | | `DisplayRight`: `DisplayShown`, `SymbolsShown` |
| `PluginProofs!PagesWhole` | | `WholePages`, for any `MAX_LINES` and any sizes of pages |
| `PluginProofs!TablesTruthful` | | `AnswersHold`: `ProcTypeOK`, `FreshAnswer`, `Recovers`, `DeltaIsRate`, `CpuShares` |
| `PluginProofs!TablesStore` | | `StoreSpec`: the tables implement `LineStore` |
| `PluginProofs!ServersTruthful` | | `ServersAnswer`: `SongAndTimes`, `AnswersRight` and those of Huawei and KVV |

`OneDaemon` is the invariant behind `LockSpec`, which the run `pid` checks.  They hold for all clients, intervals, slot limits, thresholds and processes, and
for all display sizes, widgets, values and goto costs.  Those of `Graphic` hold for all layouts the
module's `SceneAssumption` admits: rows and columns count from 1, as in a layout (the code takes
1 off and checks nothing), and the contents are of their widget's kind.

*Timer.*  `TypeOK` is inductive; its lemmas say what `FreeSlot`, `TimerAdd`,
`TimerRemove`, `NextTriggers` and `CorrectSkew` do to a table.  `NoTimerLost`
needs that the slot of the running callback still holds the timer that was
called: `CalledSlotKept`, which is why removing one's own timer is excluded, and
the counterexample in section 5 shows that this cannot be dropped.  For `WaitBound` the
strengthening `SteadyInv` says that `now` never runs ahead of the clock, that no
trigger lies more than its interval after the clock, and that the running slot is
either due already or, if its callback re-created it, a full interval ahead of the
pass.  From it `timer_inc()` moves a trigger past `now`, by one interval at most,
because the truncated quotient is the number of whole intervals missed
(`NextTriggersProperty`).  "Steady
clock" is `SteadyClock`, `MaxJumps = 0`: nobody
sets the clock.  "No overflow" is `NoOverflow`: `MaxClock`, an interval and the
threshold together fit in C's `int`.

With a clock that is set, the range matters.  `ClockFits(lo, hi, m)` says that the
width of `lo..hi`, three times the longest interval `m` and the threshold together
fit in an `int`; the theorems assume that the clock stays in `lo..hi`.
After a larger step, of more than about 24.8 days, the difference of two
times wraps, the skew is not seen, and a timer waits for as long as the clock was set
back.  `RangeInv` is the invariant: a trigger lies between `lo` and two intervals
after `hi`, so no difference wraps, and each timer that is looked at ends up within
its interval and the threshold.  `JumpsCost` speaks of all timers, not of the next one
only.  `CorrectSkew` shifts all of them by what it takes for the one it looks at: a
timer added under another clock would be shifted by the wrong amount, and a timer
whose interval is zero stays due and keeps the others from being looked at.  Hence `OneClock`.
Its invariant `StallInv` says that between passes no two triggers are further apart
than the longest interval (`Together`), and that in a pass this is wrong only of the
timers not reached yet (`TogetherSoon`), those behind the index lying after the time
of the pass (`PassedAhead`).

*TimerGroup.*  `PassInv` holds whatever `timer_add()` answers: the two tables keep their types and
the generic timers belong to group slots (`GroupTables`), no widget has two slots except while
it re-arms itself (`OwnersApart`), a recurring member has been called if and only if its
slot was passed (`RecurringPart`), and a widget that adds itself again is called
twice at most, because after the first such call a released slot lies behind the
index (`RearmingPart`).  `Served` strengthens `WidgetServed`: groups of equal
intervals are one, each active group has a recurring timer of its interval, each active widget
has a group.  Its assumption `[]CanAdd(Timers)`, a free slot or memory for one, cannot be
dropped: `timer_add_group()` leaves the group active when its generic timer could
not be had (timer_group.c:217), and no widget of that interval is ever called.

*Exec.*  `ExecIInv` has a part per property.  `TablePart`: a semaphore and the processes
that hold it add up to one, or two after a signal has broken a wait; nobody but a holder
finds a buffer half written (`EntryOK`); the entry `do_exec()` has found stays.  `FloorPart`: a key's first child, the one
that is read, never has less than what was published when its output was last copied; `HashPart`: nor has
the hash, but while it is about to be copied again, or when the clock was set back and it was
emptied.  `WholePart`: if every mutex was created, all copies are of one output until a signal breaks a wait.
`OnePart` counts: the children of a key, and one for an entry that `do_exec()` would take
for missing, are at most one more than the times the clock was set back behind it; so creating one uses up what
setting the clock back has given.  `NeverTorn` needs `semget()` because children without
a mutex write at any time; the others need nothing.

*Event.*  `EventIInv` is `EventTypeOK /\ TablePart /\ PassPart`.  `TablePart`: each
descriptor has one event at most, and until `event_modify()` is used the table
holds what clients have added and not removed.  `PassPart`: an event that was given a place in
`fds` is the one put there, however the callbacks have moved it within the table; `fds`
has each descriptor once; and what was called lies before the present position.
The places are handed out by counting active events: `NthActive` is the
event at the n-th place, its lemmas say that it exists and is unique, and `Loops` has the
facts on `Min` they rest on.

*Pid.*  `PidInv` has two parts.  `HoldersListed`: until a file is stolen, each process that has the lock is in the file;
for daemons alone this is not inductive, since one that has read its own PID is about to become one.
It needs nothing of what the others do: a `link()` succeeds only without a file, and whoever removes that of a holder sets `stolen`.  From it
follow `DaemonListed`, `OneDaemon` and the refinement.  `InTurn`, for as long as nothing has
raced, gives `StolenByRace`: one process is starting at most; while it judges the PID it has read, the file
still holds that PID or has been removed by its owner; and when it removes the file, no
daemon runs.

*Loops.*  A loop of the code that searches, counts or changes a table is a recursive function on the
number of turns (or of what is left).  `LoopInvariant` is the rule for such a loop: what each turn keeps
holds of its result; `LoopRuns` says that the function defined by such an equation has the
values the equation states.  With them `BarSegments` has lemmas for each of its loops: what
`CreateBar`, `CreateSegments`, `PackSegments` and `DefineChars` do to the bar cells (`BarCellsOK`), to the table of segments
(`TableOK`), to the characters the segments own (`OwnOK`, `CharsOK`) and to the memory of the display.

*TextDisplay.*  `CharInv` is the inductive invariant, in four parts.

`BaseInv` is about the tables.  `LayoutInv`: the layout never gets smaller than the display, and
display buffer, layout and screen agree.  Its lemma is about `Blit`: if display buffer and screen agree, and
display buffer and layout agree outside of the window, then all three agree after `blit()`, whatever
the goto cost makes it send in addition.  With `INVALIDATE` a draw first puts wrong values into the
display buffer of cells whose character is new; that these differ from what the layout has, so
that `blit()` sends them, follows from the types of the codes.  `SegmentsInv`: the first `fSegment`
segments stay the driver's; each one in use behind them has a character no other one has, taken from
those that icons do not use, and what the display holds for it is its bitmap.  `IconsInv`: icons
have their characters from the other end, and what was last sent for an icon is what the
display has.

`CodesInv` relates the layout to both: a settled cell of a bar holds the character of its
segment, no other cell one of the bars' characters, and an icon's character is in that icon's cells
only.  `GlyphFresh` is then inductive: a bitmap changes either in a draw of bars, which
sends every cell that shows the character, or invalidates it; or in an update of the icon, whose own cell
is drawn.  A cell of another widget with that icon keeps its bitmap, which is why the model and
the theorem speak of the icon's own cell.  `BarsInv` says that the cells of a bar are those of
one value, and arithmetic with quotient and remainder, that the segments of such cells light
the bar from its end (`BarsFilledFromTheirEnd`).

`NoNeedlessMerge` counts.  What `CreateSegments` adds to the table maps one-to-one into the values of
cells that no segment still in use shows: each was added for a cell that none of the former matched.
So if those in use and those values together fit into the characters of the display, the table is never longer than
they are, and `PackSegments` has nothing to do.

*Graphic.*  `CanvasInv`: the canvas is at least as large as the display and all its layers have its size
(`CanvasOK`); what is seen is the image of the canvas, and what the driver keeps covers the screen; before the
greeting is gone no widget was drawn; stale pixels are due to a round one; and a bar that
no other widget of its layer overlaps shows the colours of its last value (`BarShown`).  A canvas
grows without losing a pixel (`resizeFB`), and each draw callback changes pixels of its own area and layer only
(`Drawn`); all but the round ones send each of them that is on the screen (`Sends`).  The needle of a gauge
stays in its box, widened by half its thickness: a step that covers a part of the way does not go further than the whole way
(`PartOfTheWay`, `NeedleInBox`).  The loop of
`drv_generic_graphic_blend()` begins with the first opaque layer: it is the end of a run over all of
them, and an opaque layer forgets what is behind it, so both runs end alike, which is
`BlendIsComposition`.  How many pixels a bar fills follows from its colours: the
filled half is a product of two intervals, whose lengths multiply.

`DisplayRight` rests on what a driver's buffer and its display have to do with each other (`Synced`).  Drivers that send what
changed (`T6963`, `LPH7508`, `GLCD2USB`, `dpf`) keep all of the display in step with the buffer; those that send areas or frames
keep what was sent, unless a frame is still to go out; the MDM166A keeps each column in step that lies outside the bounds
of its next flush.  Every start establishes it (`SyncedStart`), and every blit keeps it and puts the area into the
buffer (`BlitShows`, a lemma per driver): a byte that differs is in a run (`RunHolds`) or, by induction over the
loop, in a report (`ReportsHold`); a frame in which two values are escaped is taken as it was sent (`FrameArrives`); a
pixel is found again where the protocol put it, as no two of an area have the same byte and bit (`CodesDiffer`), or
where it was turned to (`PlacesUnique`); a rectangle around some pixels holds them
(`AroundHolds`).  `ShowInv` adds that the buffer has what is seen in each pixel that was sent and is not stale; that
rests on a draw changing nothing outside what it sends (`SeenKept`) but what a round widget spills.  X11 has a
relation of its own (`X11Shown`): its timer shows the canvas, not the buffer, so a pixel is exposed, right, or black
after a clearing.  The symbols of the LPH7508 need `CtlOK`: the column it takes the display to be at
is the one behind a symbol, where no other begins (`SymbolSet`).

*Mpd.*  `MpdInv`: while the connection is good and the clock was not set back since the last question,
a copy that is younger than the last change by another client is what the server has (`KnownSince`: `since > age`).
The plugin's own keys change copy and server alike, so they keep it; an error costs the connection, and a
good one is had only with a new copy.  `mpd_update()` is proved by what it leaves after each command at which the
connection may be lost (`UpdateOK`).

*Huawei.*  A reply belongs to its command because of what can be on the wire: behind the echo of a
command follows its answer or an error (`Followed`), and when `recv_seq` is 1 the next line is what follows the
echo of this command (`CallOK`).  An echo of a former command is never taken for it.  Hence no
value is ever read from another command's reply, also from a modem that is late, and with which values are
not promised (`lost`).  While nothing is late, `AnswerStage` says how far the answer is: how
many of its lines are received and which are on the wire; and in each stage the variables, with
what is still to be evaluated of the reply, agree with what the modem has reported (`Agree`).  A modem that is gone leaves
no values: `Connection`.

*Kvv.*  `WholePages` speaks of the memory when the child does not hold the semaphore.  `KvvInv`
says in addition what holds in between: who has the semaphore and the memory (`OwnedMemory`); that
the child's variables are those its next cell needs (`CellDue`: `overflow` is set if and only if the line it has
seen last was one too many, `last_was_stop` if and only if a time is due); and what it has
written (`Written`: whole departures up to the one it is at, and of that the
cells read so far).  A page that ends finds the scan at a line, hence only whole entries.  The
program never writes, so its steps and the death of the child keep all of it.

*Tables.*  `TablesInv` has three parts.  `TablesOK`: one item for a key, its ring in use at the
newest slot.  `UpToDate`: unless the clock was set back, the table holds every line that has not
changed since its time stamp (of the sensors: each entry since its own), apart from what was set aside or
given up.  `Remembers`: the ring of a key, read backwards, is the list of the newest samples, and
empty behind them (`Alike`).  The lemmas follow the code from below: what a store does to a ring (`RingStored`)
and to a table (`SetStores`), what the loop over the lines does (`LinesTaken`, by `LoopInvariant`),
how each plugin's read ends (`PluginReads`, `SensorReads`), and that every evaluation takes the lines of all, of one or of no
key (`Evaluation`).  Then `Remembers` gives the rates: the search in the ring ends at the slot of the
sample that the delay asks for (`SearchFinds`), and no rate is negative (`RateIsNatural`), hence the shares are
percentages, two of which lose at most one by rounding (`Percents`).  For uptime, whose value a failed read spoils, `UptimeReads` says which of the two its variable is, and `Lost` is the abstract `lost`.
`UpToDate` gives `FreshAnswer`: an answer without a
read comes from a table that is young enough (`Excused`).  For the refinement, `stored` is what the
newest slots hold (`StoredIs`), and an evaluation is the abstract read of the keys it takes.

`ServersInv` puts the first three together; a plugin that is not observed does not move
(`Unobserved`), so each step is a step of one and a stutter of the others.

Only model-checked, and why:

* every liveness property (`DueTimerFires`, `WidgetCalled`, `StartReturns`, `ExecReturns`,
  `ReadyServed`, `FramesGoOut`, `Reconnects`, `ServersServe`, `ScrollerShowsAll`): liveness under
  fairness is beyond the prover;
* `TextDrivers`: each driver folds the bytes it sends, and the statement is one per driver, not one
  for all values of a constant;
* `TeakLCM`: it parses bytes with recursive operators and computes checksums with `Bitwise`; its
  handshake is checked with all restarts that fit the bounds;
* `Widgets`: `Evaluator` and the modules above it use recursive operators.

## 5. Disagreements between code, comments and what one would expect

The models contain what the code does.  Where a property does not hold because of it,
the property says so (an exemption with a comment) or has a run of its own outside of the
list above.  Such counterexamples are had by putting the property into a copy of the
configuration:

| Configuration | Change | Property | What TLC shows |
|---|---|---|---|
| `Timer.cfg` | `SelfRemove = TRUE`, `SkewDetect = 1`, `MaxClock = 3`, `Intervals = {1, 2}`, `Dynamic = {"callback"}` | `NoTimerLost` | a callback removes its own timer and adds another: the new one takes the slot and is treated as the old one, which may delete it at once (timer.c:380) |
| `TimerGroup.cfg` | `Retired = {}`, `MaxClock = 3`, `SlotLimit = 5`, `GroupLimit = 3` | `NoOrphanTimer` | `timer_remove_group()` passes the address of a pointer: the generic timer stays (timer_group.c:272) |
| `Pid.cfg` | invariant only | `~stolen` | the file of a running daemon is removed, and a second daemon can start: by a start that has found an earlier file stale (pid.c:129, 131), or by the end of a foreground run (lcd4linux.c:355, 414) |
| `Event.cfg` | `MaxChanges = 3`, no other property | `ModifyKeepsEvents` | `event_modify()` drops the last event (event.c:188) |
| `TextDisplay.cfg` | three bars of one cell (`MCThreeBars`, `MCPackValues`), no text, no icon, two characters | `EmptyAndFullKept` | packing merges a segment with itself and shows a full bar as partly filled (drv_generic_text.c:825) |
| `Graphic.cfg` | | `GreetingGone` | two drivers clear the display behind the back of their buffers: the greeting comes back (drv_picoLCDGraphic.c:554, drv_mdm166a.c:484) |
| `Widgets.cfg` | drop the last disjunct of `NumbersRounded` | `ScreenHolds` | a number that rounding makes longer loses its last digit: 9.6 with width 1 and precision 2 is shown as 1 (widget_text.c:258) |
| `Plugins.cfg` | property `[]~crashed` | the same | keys of MPD use a connection that has just been freed (plugin_mpd.c:703), though "when mpd dies, do NOT exit application" (plugin_mpd.c:877) |
| `Plugins.cfg` | property `[](connected = 0 /\ call.at = "idle" => val.mode = 0)` | the same | the mode of a modem that is gone stays (plugin_huawei.c:545), though all variables are to be cleared (plugin_huawei.c:543) |
| `Plugins.cfg` | property `[](at # "crashed")` | the same | after an initialisation that failed, the second call goes on without the memory (plugin_kvv.c:616, 620) |
| `Exec.cfg` | | `\A k \in Keys : Cardinality(ThreadsOf(k)) <= 1` | a second child of a command after the clock was set back (plugin_exec.c:210) |
| `Widgets.cfg` | an entry `X5.Y1` with the place that the message of widget.c:273-277 gives it, X as the column | `ConfigHolds` | the layout takes the number after X for the row and that after Y for the column (layout.c:140-147), so X5.Y1 is the first column of the fifth row; the message of the widget at that place (widget.c:273-277) calls its row Y and its column X, and so says Y 4, X 0 |

Other observations, by component; those marked with * are in the models as they are.

* Timers: the inverted result of `timer_add_late()`* (timer.c:305); the second call
  of a re-arming widget within one pass* (timer_group.c:358); the group that stays
  active without a timer* (timer_group.c:217); triggers that wrap after a clock step of more
  than 25 days* (timer.c:152, 443).
* Start and end: `pid_exit()` in instances that never called `pid_init()`*
  (lcd4linux.c:355, 414); PID file left behind without a layout* (lcd4linux.c:389).
* Exec: the seventeenth thread (plugin_exec.c:166); `kill(-1, SIGKILL)` after a failed
  `fork()`* (plugin_exec.c:196); commands whose CRCs are equal (plugin_exec.c:252); a mutex that
  could not be made (plugin_exec.c:174).
* Events: two watches for one descriptor (event.c:181); `named_event_del()` while the
  event is triggered.
* Text displays: copies of an icon that keep the old bitmap with `INVALIDATE`*
  (drv_generic_text.c:485); the bitmap of bars to the west* (drv_generic_text.c:858);
  cells that point behind `nSegment` after "unable to compact"* (drv_generic_text.c:810); on displays of
  which "re-defined chars must be re-sent to the display" (drv_Cwlinux.c:435), such a cell
  keeps an old bitmap even when later draws give it a segment again, since only cells that
  point to a segment being defined at that time are sent again* (drv_generic_text.c:902); the codes behind 255 of the M50530
  (drv_M50530.c:367, 602).
* Text drivers: writes that cross the middle of a 16x1 display (RouterBoard, HD44780);
  wrong controller from the third on (HD44780)*; rows and columns swapped in the clear of
  MatrixOrbital's protocols 3 and 4; columns 9, 19, ... of escape sequences
  (WincorNixdorf, SimpleLCD as VT100); `?` and codes beyond 127 (PHAnderson)*; the greeting that
  Crystalfontz 2 does not clear, and the conversion that changes the display buffer in place;
  outputs that always answer 0 (Sample, ShuttleVFD)*; `drv_pL_quit()` leaves the outputs on*;
  the clear of a quiet end stays in the queue of LCD2USB*; the index of the controller that ASTUSB
  never uses*; 16x4 displays of IRLCD, Milford and Pertelian; addresses of large glyphs
  (M50530); the message that Newhaven sends one off; ACKs of Crystalfontz that are lost; bytes of
  Sample's protocol in texts; BWCT, which gives up after 20 errors.
* Graphic displays: a ring clears a margin that it does not send, the dot of a gauge may
  leave its box*; LPH7508 never sends row 63*; T6963 compares bytes behind its
  buffer; X11 loses black pixels after a change of brightness*, and does not show what a gauge painted outside of its box before one*; the keypad of vnc stays on
  the display*; a PICGraphic frame waits for the next area when it comes too
  early*; a late ACK of the LED matrix*; GLCD2USB takes a report that could not be sent for
  shown; MatrixOrbitalGX does not escape a backlight of 192 or 219; SamsungSPF never sends a
  first frame that equals its initial buffer*.
* TeakLCM: an answer that is lost is neither missed nor asked for again* (`LCM_TIMEOUT` has no
  use), so the driver stays in `ST_COMMAND` until the board restarts; lengths are sent with
  the high byte first and read with the low byte first, and not escaped; a row with more than
  five bytes to escape overflows the frame of 32; one row of text, and the second is read behind the
  shadow.
* Configuration and expressions: an expression that starts with `''` counts as empty*
  (evaluator.c:1398); what follows a complete expression is ignored*; variables are loaded
  before the constants of the plugins*; a function that sets no result gives a string that
  is NULL* (`button_exec` when `fork()` fails); functions added after a compilation leave dangling
  pointers (evaluator.c:501); the keys of places, which name a row X and a column Y* (layout.c:140); `section.name}` is closed at the last dot only (cfg.c:613).
* Widgets: `frame <= Icon->maxmap` selects a bitmap behind the last* (widget_icon.c:107);
  children of rings, graphs and arcs are never initialised*; a condition that is always true*
  (widget_text.c:290); an explicit update of 1000 with an event counts as none*
  (widget_text.c: the interval).
* MPD, Huawei: a shorter name of an operator keeps the end of the former one* (plugin_huawei.c:732); a signal of
  99, which is none, leaves the percentage as it was* (plugin_huawei.c:821); an answer that is late is received
  with the next command, which then gets none of its own*; the test for `uptime_seconds` is never reached (plugin_huawei.c:1057);
  a name of an operator that fills its variable is never replaced, as the copy goes on only while
  the present name is shorter* (plugin_huawei.c:731).
* Plugins: uptime answers -1 for up to 100 ms after a second read that failed* (plugin_uptime.c:207); keys that differ in case only share an entry once the table is sorted (hash.c:102); descriptors that a failed read leaves at -1, after which apm, isdn, loadavg and
  uptime never read again*; loops that end with a byte only (pop3); pauses that truncate to
  `int` (hash.c); imon never reconnects.

The first table has the line where the code bites; `PROJECT.json` has the hazards.

### What the properties leave open

* `NoTimerLost` is checked and proved without callbacks that remove their own timer: what happens to a slot that is
  released by its own callback and taken by another timer is the first row of the table above.
* In `timer_group` a `timer_add()` never fails; the group that stays active without a timer is not
  caught there, but by the hypothesis that `WidgetsServed` cannot do without.
* `ClearedAtEnd` exempts LCD2USB, whose queue keeps the clear, and what could not be sent.
* `NumbersRounded` accepts the number that rounding makes longer (a row of the table).
* `NoCrash`: no scene loads a property whose expression cannot be compiled and evaluates it afterwards, so a tree that is NULL
  is not met.
* `UpdatesTake` sees events triggered by an expression after it, not within it (see `Evaluator` in section 2).
* `Reconnects` of `Mpd` ends with a program that has crashed (a row of the table).

## 6. Plan

Done: all modules of section 2 and the proofs of section 4.  Next:

1. `Fifo`: states of the pipe.  An abstract "armed timer" refined by `Timer`.
2. Retries: a `TeakLCM` whose handshake is repeated, to show which part of `Reconnects` that adds.

Not modelled, and why:

* plugins that ask a socket, a bus or a library (gps, pop3, wireless, netinfo, imon,
  D-Bus signals and others) and format the answer: I/O, no state but a cache;
* opening and configuring of ports, USB enumeration, parallel port wiring and delays, the outputs
  of `drv_USBHUB.c`, `drv_NULL.c`: hardware access, or nothing;
* libgd and picture files, TrueType, the table of colour names, fonts: data;
* the fifo plugin; interactive mode, `execv()` on SIGHUP and listings: left for later;
* logging and formatting; memory that cannot be allocated, except where the code handles it.
