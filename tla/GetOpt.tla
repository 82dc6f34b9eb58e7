------------------------------- MODULE GetOpt -------------------------------
(* getopt_long of src/src/win32/getopt.c, which scans a command line that   *)
(* it permutes as it goes, and OptionParser of src/src/Util/CMD.cpp, which  *)
(* calls it.  Texts are sequences of characters; argv[i] is argv[i] of the  *)
(* code and argc is Len(argv) + 1.  Options with a callback and an empty    *)
(* command line that asks for help are left out.                            *)
EXTENDS Naturals, Sequences, FiniteSets

CONSTANTS
  LongNames, ShortNames, ArgTypes, \* of each option
  Defaults,    \* options with a default value
  Required,    \* options with _must_exist
  AllArgs,     \* elements of a command line of up to MaxArgs elements
  PlainArgs,   \* elements of a longer one
  MaxArgs, MaxLine

ASSUME GetOptAssumption ==
  /\ Len(ShortNames) = Len(LongNames) /\ Len(ArgTypes) = Len(LongNames)
  /\ Defaults \cup Required \subseteq DOMAIN LongNames /\ {MaxArgs, MaxLine} \subseteq Nat

VARIABLES
  line,      \* the command line as given
  argv,      \* the command line as permuted so far
  optind,
  nextchar,  \* the rest of an element that is being scanned
  firstNonopt, lastNonopt,
  allArgs,   \* <<option, value>>
  parser     \* "line", "scans", "done" or "throws"

optVars == <<line, argv, optind, nextchar, firstNonopt, lastNonopt, allArgs, parser>>

OptInit ==
  /\ line = <<>> /\ argv = <<>> /\ optind = 1 /\ nextchar = <<>>
  /\ firstNonopt = 1 /\ lastNonopt = 1 /\ allArgs = {} /\ parser = "line"

AddArg(arg) ==
  /\ parser = "line" /\ Len(line) < MaxLine
  /\ Len(line) >= MaxArgs => {line[i] : i \in DOMAIN line} \cup {arg} \subseteq PlainArgs
  /\ line' = Append(line, arg) /\ argv' = line'
  /\ UNCHANGED <<optind, nextchar, firstNonopt, lastNonopt, allArgs, parser>>

StartParse ==
  /\ parser = "line" /\ parser' = "scans"
  /\ UNCHANGED <<line, argv, optind, nextchar, firstNonopt, lastNonopt, allArgs>>

-----------------------------------------------------------------------------
(* The scan: v the elements, [first, last) the non-options skipped, ind the *)
(* next element                                                             *)

DashDash == <<"-", "-">>
IsOption(e) == Len(e) > 1 /\ e[1] = "-"
IsLong(e) == Len(e) > 1 /\ e[2] = "-"
Beyond(s, i) == SubSeq(s, i, Len(s))

Reversed(s, from, to) ==
  [i \in DOMAIN s |-> IF i \in from .. to THEN s[from + to - i] ELSE s[i]]

(* Mutant: the non-options stay reversed.                                   *)
ExchangeTwice(q) ==
  LET middle == q.first + q.ind - q.last
  IN [q EXCEPT !.v = Reversed(Reversed(@, q.first, q.ind - 1), q.first, middle - 1),
               !.first = middle, !.last = q.ind]

(* The options behind the non-options come before them: all reversed, then  *)
(* each part.                                                               *)
Exchange(q) ==
  LET middle == q.first + q.ind - q.last
      all == Reversed(q.v, q.first, q.ind - 1)
  IN [q EXCEPT !.v = Reversed(Reversed(all, q.first, middle - 1), middle, q.ind - 1),
               !.first = middle, !.last = q.ind]

Permuted(q) ==
  LET e == IF q.first # q.last /\ q.last # q.ind THEN Exchange(q)
           ELSE IF q.last # q.ind THEN [q EXCEPT !.first = q.ind] ELSE q
      next == CHOOSE i \in e.ind .. Len(e.v) + 1 :
                /\ i <= Len(e.v) => IsOption(e.v[i])
                /\ \A j \in e.ind .. i - 1 : ~IsOption(e.v[j])
  IN [e EXCEPT !.last = next, !.ind = next]

(* After "--" everything is a non-option.                                   *)
Premature(q) ==
  IF q.ind > Len(q.v) \/ q.v[q.ind] # DashDash THEN q
  ELSE LET p == [q EXCEPT !.ind = @ + 1]
           e == IF p.first # p.last THEN Exchange(p) ELSE [p EXCEPT !.first = p.ind]
       IN [e EXCEPT !.last = Len(e.v) + 1, !.ind = Len(e.v) + 1]

Scan ==
  LET now == [v |-> argv, first |-> firstNonopt, last |-> lastNonopt, ind |-> optind]
  IN IF nextchar = <<>> THEN Premature(Permuted(now)) ELSE now

(* What the scan leaves, and the element or the option it goes on with.     *)
GoesBy(q, ind, rest) ==
  /\ argv' = q.v /\ firstNonopt' = q.first /\ lastNonopt' = q.last
  /\ optind' = ind /\ nextchar' = rest
  /\ UNCHANGED line

(* OptionParser: an option that is given again keeps its first value, and   *)
(* one that getopt does not know throws.                                    *)
Given(opt, value) ==
  /\ parser' = parser
  /\ allArgs' = IF \E a \in allArgs : a[1] = opt THEN allArgs ELSE allArgs \cup {<<opt, value>>}
BadOption == parser' = "throws" /\ UNCHANGED allArgs

-----------------------------------------------------------------------------
(* Names may be abbreviated as long as one option fits.                     *)
Matching(name) == {i \in DOMAIN LongNames :
                 Len(name) <= Len(LongNames[i]) /\ SubSeq(LongNames[i], 1, Len(name)) = name}
Found(name) == LET exact == {i \in Matching(name) : LongNames[i] = name}
               IN IF exact # {} THEN exact ELSE Matching(name)

LongOption == \E q \in {Scan} :
  LET text == Beyond(q.v[q.ind], 3)
      equals == {i \in DOMAIN text : text[i] = "="}
      end == IF equals = {} THEN Len(text) ELSE (CHOOSE i \in equals : \A j \in equals : i <= j) - 1
      found == Found(SubSeq(text, 1, end))
      opt == CHOOSE i \in found : TRUE
  IN /\ nextchar = <<>> /\ q.ind <= Len(q.v) /\ IsLong(q.v[q.ind])
     /\ \/ /\ \/ Cardinality(found) # 1
              \/ equals # {} /\ ArgTypes[opt] = "none"
              \/ equals = {} /\ ArgTypes[opt] = "required" /\ q.ind = Len(q.v)
           /\ BadOption /\ GoesBy(q, q.ind + 1, <<>>)
        \/ /\ Cardinality(found) = 1
           /\ \/ /\ equals # {} /\ ArgTypes[opt] # "none"
                 /\ Given(opt, Beyond(text, end + 2)) /\ GoesBy(q, q.ind + 1, <<>>)
              \/ /\ equals = {} /\ ArgTypes[opt] # "required"
                 /\ Given(opt, <<>>) /\ GoesBy(q, q.ind + 1, <<>>)
              \/ /\ equals = {} /\ ArgTypes[opt] = "required" /\ q.ind < Len(q.v)
                 /\ Given(opt, q.v[q.ind + 1]) /\ GoesBy(q, q.ind + 2, <<>>)

ShortOption == \E q \in {Scan} :
  LET text == IF nextchar = <<>> THEN Beyond(q.v[q.ind], 2) ELSE nextchar
      rest == Tail(text)
      opts == {i \in DOMAIN ShortNames : ShortNames[i] = text[1]}
      opt == CHOOSE i \in opts : TRUE
      ind == IF rest = <<>> THEN q.ind + 1 ELSE q.ind
  IN /\ q.ind <= Len(q.v) /\ ~IsLong(q.v[q.ind])
     /\ \/ opts = {} /\ BadOption /\ GoesBy(q, ind, rest)
        \/ /\ opts # {}
           /\ \/ ArgTypes[opt] = "none" /\ Given(opt, <<>>) /\ GoesBy(q, ind, rest)
              \/ /\ ArgTypes[opt] # "none" /\ rest # <<>>
                 /\ Given(opt, rest) /\ GoesBy(q, q.ind + 1, <<>>)
              \/ /\ ArgTypes[opt] = "optional" /\ rest = <<>>
                 /\ Given(opt, <<>>) /\ GoesBy(q, ind, <<>>)
              \/ /\ ArgTypes[opt] = "required" /\ rest = <<>>
                 /\ IF ind > Len(q.v) THEN BadOption /\ GoesBy(q, ind, <<>>)
                    ELSE Given(opt, q.v[ind]) /\ GoesBy(q, ind + 1, <<>>)

(* EOF: optind goes back to the non-options; then the default values, and   *)
(* the options that must exist.                                             *)
EndOfOptions == \E q \in {Scan} :
  LET given == {a[1] : a \in allArgs}
  IN /\ nextchar = <<>> /\ q.ind > Len(q.v)
     /\ GoesBy(q, IF q.first # q.last THEN q.first ELSE q.ind, <<>>)
     /\ allArgs' = allArgs \cup {<<i, <<"default">>>> : i \in Defaults \ given}
     /\ parser' = IF Required \subseteq given \cup Defaults THEN "done" ELSE "throws"

OptNext ==
  \/ \E arg \in AllArgs : AddArg(arg)
  \/ StartParse
  \/ parser = "scans" /\ (LongOption \/ ShortOption \/ EndOfOptions)

OptSpec == OptInit /\ [][OptNext]_optVars

-----------------------------------------------------------------------------
(* The same without permuting: opts what is given, used the elements that   *)
(* are options or their arguments, rest the others.                         *)

Nothing == [opts |-> <<>>, used |-> <<>>, rest |-> <<>>, bad |-> FALSE]

(* The options of a cluster of short names, and whether its last one takes  *)
(* the next element.                                                        *)
Cluster(text, more) ==
  LET Opt(c) == {i \in DOMAIN ShortNames : ShortNames[i] = c}
      Takes(k) == \E i \in Opt(text[k]) : ArgTypes[i] # "none"
      n == CHOOSE k \in 1 .. Len(text) :
             (Takes(k) \/ k = Len(text)) /\ \A j \in 1 .. k - 1 : ~Takes(j)
      next == n = Len(text) /\ \E i \in Opt(text[n]) : ArgTypes[i] = "required"
      Value(k) == IF k < n THEN <<>> ELSE IF next /\ more # <<>> THEN more[1] ELSE Beyond(text, n + 1)
      bad == \/ \E k \in 1 .. n : Opt(text[k]) = {}
             \/ next /\ more = <<>>
  IN [bad |-> bad, next |-> next,
      opts |-> IF bad THEN <<>>
               ELSE [k \in 1 .. n |-> <<CHOOSE i \in Opt(text[k]) : TRUE, Value(k)>>]]

(* A long name alone, or with "=" and a value.                              *)
Single(text, more) ==
  LET Named(value) == {<<i, value>> : i \in {j \in DOMAIN LongNames : \E k \in 0 .. Len(text) :
                         Found(SubSeq(text, 1, k)) = {j} /\ Beyond(text, k + 1) = value}}
      given == UNION {Named(Beyond(text, k)) : k \in {j \in DOMAIN text : text[j] = "="}}
                 \cup Named(<<>>)
      one == CHOOSE g \in given : TRUE
      next == given # {} /\ one[2] = <<>> /\ ArgTypes[one[1]] = "required"
      bad == \/ given = {}
             \/ next /\ more = <<>>
             \/ one[2] # <<>> /\ ArgTypes[one[1]] = "none"
  IN [bad |-> bad, next |-> next,
      opts |-> IF bad THEN <<>>
               ELSE << <<one[1], IF next THEN more[1] ELSE Beyond(one[2], 2)>> >>]

RECURSIVE Plain(_)
Plain(s) ==
  IF s = <<>> THEN Nothing
  ELSE IF s[1] = DashDash THEN [Nothing EXCEPT !.used = <<s[1]>>, !.rest = Tail(s)]
  ELSE IF ~IsOption(s[1]) THEN [Plain(Tail(s)) EXCEPT !.rest = <<s[1]>> \o @]
  ELSE LET e == IF IsLong(s[1]) THEN Single(Beyond(s[1], 3), Tail(s))
                ELSE Cluster(Beyond(s[1], 2), Tail(s))
           n == IF e.next THEN 2 ELSE 1
       IN IF e.bad THEN [Nothing EXCEPT !.bad = TRUE]
          ELSE [Plain(Beyond(s, n + 1)) EXCEPT !.opts = e.opts \o @, !.used = SubSeq(s, 1, n) \o @]

(* getopt_long permutes while it scans, and yet the parser gets what a scan *)
(* from left to right gives: the options in order with their arguments, the *)
(* first value of each, and behind optind what is left, in order; and it    *)
(* throws when an option is unknown, ambiguous, lacks its argument or must  *)
(* exist.                                                                   *)
OptionsParsed ==
  parser \in {"done", "throws"} => \A p \in {Plain(line)} :
    LET given == {p.opts[i][1] : i \in DOMAIN p.opts}
        First(o) == CHOOSE i \in DOMAIN p.opts :
                      p.opts[i][1] = o /\ \A j \in 1 .. i - 1 : p.opts[j][1] # o
    IN /\ parser = "throws" <=> p.bad \/ ~(Required \subseteq given \cup Defaults)
       /\ parser = "done" =>
            /\ argv = p.used \o p.rest /\ optind = Len(p.used) + 1
            /\ allArgs = {p.opts[First(o)] : o \in given}
                           \cup {<<o, <<"default">>>> : o \in Defaults \ given}
=============================================================================
