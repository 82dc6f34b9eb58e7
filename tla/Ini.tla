-------------------------------- MODULE Ini --------------------------------
(* mINI_basic of src/src/Util/mini.h: a configuration file is parsed into a *)
(* map that keeps the order and the comments, the program sets keys, and    *)
(* the map is dumped into the file that the next start parses.  A line of a *)
(* file is trimmed and has a kind, a name and a value; a key of the map is  *)
(* the pair of its section and its name.                                    *)
EXTENDS Integers, Sequences, SequencesExt, Functions

CONSTANTS
  Sections,     \* in the order of std::map, the first the empty one
  IniKeys,      \* names of keys, in that order too
  Values,
  Remarks,      \* comment lines, "" (a line with only "\r") among them
  MaxLines, MaxSets

ASSUME IniAssumption == "" \in Values /\ "" \in Remarks /\ MaxLines \in Nat /\ MaxSets \in Nat

VARIABLES
  fileLines,
  ini,          \* the map itself, _sort and _comment
  saved,        \* what the last dump was made from
  iniStage, sets

iniVars == <<fileLines, ini, saved, iniStage, sets>>

NoSection == Sections[1]
Remark(c) == [kind |-> "remark", name |-> c, value |-> ""]
Header(s) == [kind |-> "section", name |-> s, value |-> ""]
Entry(k, v) == [kind |-> "entry", name |-> k, value |-> v]
Symbols == ToSet(Sections) \X ToSet(IniKeys)
Empty == <<>>
FreshMap == [entries |-> Empty, sort |-> <<>>, comment |-> Empty]

(* emplace keeps what a key has; operator[] overwrites it.                  *)
Emplace(f, k, v) == IF k \in DOMAIN f THEN f ELSE (k :> v) @@ f
Assign(f, k, v) == (k :> v) @@ f

IniInit ==
  fileLines = <<>> /\ ini = FreshMap /\ saved = FreshMap /\ iniStage = "edit" /\ sets = 0

Edit(line) ==
  /\ iniStage = "edit" /\ Len(fileLines) < MaxLines
  /\ fileLines' = Append(fileLines, line) /\ UNCHANGED <<ini, saved, iniStage, sets>>

(* The program sets a default before the file is parsed, or a value later.  *)
SetKey(symbol, v) ==
  /\ iniStage \in {"edit", "parsed"} /\ sets < MaxSets
  /\ ini' = [ini EXCEPT !.entries = Assign(@, symbol, v)]
  /\ sets' = sets + 1 /\ UNCHANGED <<fileLines, saved, iniStage>>

(* parse, line by line: the comment lines above a section or a key are its. *)
(* Mutant: the comment is not cleared after a key.                          *)
ParseLineKeeps(p, line) ==
  CASE line.kind = "remark" -> [p EXCEPT !.above = Append(@, line.name)]
    [] line.kind = "section" ->
         [p EXCEPT !.tag = line.name, !.above = <<>>, !.comment = Emplace(@, <<line.name>>, p.above)]
    [] OTHER ->
         LET symbol == <<p.tag, line.name>>
         IN [p EXCEPT !.comment = Emplace(@, symbol, p.above), !.sort = Append(@, symbol),
                      !.entries = Assign(@, symbol, line.value)]
ParseLine(p, line) ==
  CASE line.kind = "remark" -> [p EXCEPT !.above = Append(@, line.name)]
    [] line.kind = "section" ->
         [p EXCEPT !.tag = line.name, !.above = <<>>, !.comment = Emplace(@, <<line.name>>, p.above)]
    [] OTHER ->
         LET symbol == <<p.tag, line.name>>
         IN [p EXCEPT !.comment = Emplace(@, symbol, p.above), !.sort = Append(@, symbol),
                      !.entries = Assign(@, symbol, line.value), !.above = <<>>]

Parsed(from, lines) ==
  LET start == [entries |-> from.entries, sort |-> <<>>, comment |-> from.comment,
                tag |-> NoSection, above |-> <<>>]
      end == FoldLeft(ParseLine, start, lines)
  IN [entries |-> end.entries, sort |-> end.sort, comment |-> end.comment]

Parse ==
  /\ iniStage = "edit" /\ iniStage' = "parsed" /\ ini' = Parsed(ini, fileLines)
  /\ UNCHANGED <<fileLines, saved, sets>>

(* getComment, as the lines it adds.                                        *)
CommentOf(m, k) ==
  IF k \in DOMAIN m.comment THEN [i \in DOMAIN m.comment[k] |-> Remark(m.comment[k][i])] ELSE <<>>

(* dump_l for one key: copy[key] brings an erased key back, as an empty one.*)
DumpKey(m, d, symbol) ==
  LET v == IF symbol \in DOMAIN d.copy THEN d.copy[symbol] ELSE ""
      opened == symbol[1] # NoSection /\ d.tag # symbol[1]
      head == IF ~opened THEN <<>>
              ELSE (IF CommentOf(m, <<symbol[1]>>) = <<>> THEN <<Remark("")>>
                    ELSE CommentOf(m, <<symbol[1]>>)) \o <<Header(symbol[1])>>
  IN [copy |-> Restrict(d.copy, DOMAIN d.copy \ {symbol}),
      tag |-> IF opened THEN symbol[1] ELSE d.tag,
      out |-> d.out \o head \o CommentOf(m, symbol) \o <<Entry(symbol[2], v)>>]

DumpL(m, d, sort) == FoldLeft(LAMBDA acc, s : DumpKey(m, acc, s), [d EXCEPT !.tag = NoSection], sort)

KeyBefore(a, b) ==
  LET at(s, x) == SelectInSeq(s, LAMBDA e : e = x)
  IN \/ at(Sections, a[1]) < at(Sections, b[1])
     \/ a[1] = b[1] /\ at(IniKeys, a[2]) < at(IniKeys, b[2])

(* dump: the keys of the file in its order, then the others, then a line.   *)
(* Mutant: the keys that were not in the file are left out.                 *)
DumpedFileOnly(m) ==
  DumpL(m, [copy |-> m.entries, tag |-> NoSection, out |-> <<>>], m.sort).out \o <<Remark("")>>
Dumped(m) ==
  LET first == DumpL(m, [copy |-> m.entries, tag |-> NoSection, out |-> <<>>], m.sort)
      others == SetToSortSeq(DOMAIN first.copy, KeyBefore)
  IN DumpL(m, first, others).out \o <<Remark("")>>

Dump ==
  /\ iniStage = "parsed" /\ iniStage' = "dumped"
  /\ fileLines' = Dumped(ini) /\ saved' = ini
  /\ UNCHANGED <<ini, sets>>

(* The next start of the program: a new map parses the file.                *)
NextStart ==
  /\ iniStage = "dumped" /\ iniStage' = "again" /\ ini' = Parsed(FreshMap, fileLines)
  /\ UNCHANGED <<fileLines, saved, sets>>

IniNext ==
  \/ \E c \in Remarks : Edit(Remark(c))
  \/ \E s \in ToSet(Sections) \ {NoSection} : Edit(Header(s))
  \/ \E k \in ToSet(IniKeys), v \in Values : Edit(Entry(k, v))
  \/ \E symbol \in Symbols, v \in Values \ {""} : SetKey(symbol, v)
  \/ Parse \/ Dump \/ NextStart

-----------------------------------------------------------------------------
(* What dump is not able to keep: a key that the file had twice is written  *)
(* as an empty one (mini.h:150), and a key without section that the file    *)
(* did not have is written below the last section (mini.h:151-158).         *)
Keepable(m) ==
  /\ IsInjective(m.sort)
  /\ \A s \in DOMAIN m.entries \ ToSet(m.sort) :
       s[1] = NoSection => \A t \in ToSet(m.sort) : t[1] = NoSection

(* The program finds at its next start every key, its value and the comment *)
(* above it, whether the file or the program had set it, and a map that is  *)
(* unchanged then dumps the same file again (mini.h:37-103).                *)
SettingsKept ==
  iniStage = "again" /\ Keepable(saved) =>
    /\ ini.entries = saved.entries
    /\ \A s \in DOMAIN saved.entries : CommentOf(ini, s) = CommentOf(saved, s)
    /\ DOMAIN saved.entries = ToSet(saved.sort) =>
         Parsed(FreshMap, Dumped(ini)) = ini
=============================================================================
