------------------------------- MODULE Config -------------------------------
(* The table of the configuration, cfg.c: entries section.key = value sorted by
   their keys, in which letters of either case are equal.  A key is a sequence
   of words, one between every two dots; a word <<name, instance, number>> stands
   for "name", "name:instance" or "name<number>".  A value is the text of an
   expression, which nobody evaluates here (see Evaluator). *)
EXTENDS Integers, Sequences, SequencesExt

CONSTANT NameRank       \* the place of a name in the alphabet; letters of either case have the same

RankOf(key) == FoldLeft(LAMBDA ranks, word : ranks \o <<NameRank[word[1]], NameRank[word[2]], word[3]>>, <<>>, key)

RECURSIVE Before(_, _)
Before(a, b) ==
    /\ b # <<>>
    /\ \/ a = <<>>
       \/ Head(a) < Head(b)
       \/ Head(a) = Head(b) /\ Before(Tail(a), Tail(b))

SameName(a, b) == NameRank[a] = NameRank[b]
SameKey(a, b) == RankOf(a) = RankOf(b)
CompareKeys(a, b) == Before(RankOf(a.key), RankOf(b.key))

\* bsearch(): the place of a key, 0 if there is none.
Lookup(config, key) ==
    LET found == {i \in DOMAIN config : SameKey(config[i].key, key)}
    IN IF found = {} THEN 0 ELSE CHOOSE i \in found : TRUE

X_SortEntries_Bug(config) == config
SortEntries(config) == SortSeq(config, CompareKeys)

X_cfg_add_Bug(config, key, val, lock) ==
    LET i == Lookup(config, key)
    IN IF i = 0 THEN SortEntries(Append(config, [key |-> key, val |-> val, lock |-> lock]))
       ELSE [config EXCEPT ![i].val = val]

\* An entry that is there keeps its lock: a locked one is only replaced by a locked one.
cfg_add(config, key, val, lock) ==
    LET i == Lookup(config, key)
    IN IF i = 0 THEN SortEntries(Append(config, [key |-> key, val |-> val, lock |-> lock]))
       ELSE IF config[i].lock > lock THEN config
       ELSE [config EXCEPT ![i].val = val]

\* A key that is given starts with a letter and has no colon: only the brace of a
\* section gives an instance.  (No word here has any other character.)
validchars(key) == \A i \in DOMAIN key : key[i][2] = "" /\ (i = 1 => key[i][1] # "")

\* Options of the command line, "-c key=value": main() ends at one that has no key or
\* no value, or a key of other characters.
BadOption(o) == o.key = <<>> \/ o.val = <<>> \/ ~validchars(o.key)
cfg_cmd(config, o) == IF BadOption(o) THEN config ELSE cfg_add(config, o.key, o.val, 1)

\* The entries below a section, in the order of the table, without its name.
InSection(section, key) ==
    Len(key) > Len(section) /\ SameKey(SubSeq(key, 1, Len(section)), section)
cfg_list(config, section) ==
    LET here == SelectSeq(config, LAMBDA e : InSection(section, e.key))
    IN [i \in DOMAIN here |-> SubSeq(here[i].key, Len(section) + 1, Len(here[i].key))]

cfg_rename(config, section, old, new) ==
    LET i == Lookup(config, section \o old)
    IN IF i = 0 \/ Lookup(config, section \o new) # 0 THEN config
       ELSE SortEntries([config EXCEPT ![i].key = section \o new])

\* The text of an entry; a missing one has the default.
cfg_get_raw(config, key, default) ==
    LET i == Lookup(config, key) IN IF i = 0 THEN default ELSE config[i].val

-----------------------------------------------------------------------------
(* Reading the file.  A line opens a section, closes it, sets a key, or is bad:
   garbage after a brace, or characters that are not allowed. *)
Line(read, line) ==
    CASE read.error -> read
      [] line.kind = "open" /\ validchars(Front(line.key)) -> [read EXCEPT !.section = @ \o line.key]
      [] line.kind = "close" -> IF read.section = <<>> THEN [read EXCEPT !.error = TRUE]
                                ELSE [read EXCEPT !.section = Front(@)]
      [] line.kind = "set" /\ validchars(line.key) -> [read EXCEPT !.config = cfg_add(@, read.section \o line.key, line.val, 0)]
      [] OTHER -> [read EXCEPT !.error = TRUE]

RECURSIVE Lines(_, _)
Lines(read, file) == IF file = <<>> THEN read ELSE Lines(Line(read, Head(file)), Tail(file))

cfg_read(config, file) ==
    LET read == Lines([config |-> config, section |-> <<>>, error |-> FALSE], file)
    IN [read EXCEPT !.error = @ \/ read.section # <<>>]

\* The file must be /dev/null or a regular one of the owner, which nobody else can read.
SafeFile == [kind |-> "regular", own |-> TRUE, private |-> TRUE]
cfg_check_source(stat) == stat.kind = "/dev/null" \/ stat = SafeFile

\* Nothing is read from an unsafe file; the entries before an error stay.
cfg_init(config, stat, file) ==
    IF ~cfg_check_source(stat) THEN [config |-> config, error |-> TRUE]
    ELSE LET read == cfg_read(config, file) IN [config |-> read.config, error |-> read.error]
=============================================================================
