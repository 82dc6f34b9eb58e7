----------------------------- MODULE TimeParse -----------------------------
(* strptime of src/src/Util/strptime_win.cpp, which reads the dates in the  *)
(* names of old log files on Windows: the conversions of a format, one by   *)
(* one, against the text that is left.  A format is a sequence of tokens: a *)
(* conversion [conv, alts], white space or a literal.  A text has the       *)
(* digits, the names by their abbreviation ("Sun") followed by TheRest when *)
(* they are whole, "AM" and "PM", " " and the literals.                     *)
EXTENDS Integers, Sequences, SequencesExt

CONSTANTS
  DateFormats,  \* sequences of tokens
  Dates,        \* records [sec, min, hour, mday, mon, year, wday, yday]
  NoDate        \* the fields before a call

ASSUME TimeParseAssumption ==
  \A d \in Dates : d.sec \in 0 .. 61 /\ d.hour \in 0 .. 23 /\ d.mon \in 0 .. 11

VARIABLES format, theDate, toRead, frames, tm, verdict

parseVars == <<format, theDate, toRead, frames, tm, verdict>>

Conv(c) == [conv |-> c, alts |-> <<>>]
Alt(m, c) == [conv |-> c, alts |-> m]
Is(c) == [literal |-> c]
White == " "
TheRest == "rest of the name"

Days == <<"Sun", "Mon", "Tue", "Wed", "Thu", "Fri", "Sat">>
Months == <<"Jan", "Feb", "Mar", "Apr", "May", "Jun", "Jul", "Aug", "Sep", "Oct", "Nov", "Dec">>
InFull(name) == IF name = "May" THEN <<name>> ELSE <<name, TheRest>>

Clock == <<Conv("H"), Is(":"), Conv("M"), Is(":"), Conv("S")>>
American == <<Conv("m"), Is("/"), Conv("d"), Is("/"), Conv("y")>>

(* The conversions that are other formats, and those that are numbers with  *)
(* their limits, their legal modifiers and what they set.                   *)
Complex ==
  [c |-> <<Conv("x"), Is(White), Conv("X")>>, D |-> American, x |-> American,
   R |-> <<Conv("H"), Is(":"), Conv("M")>>, T |-> Clock, X |-> Clock,
   r |-> <<Conv("I"), Is(":"), Conv("M"), Is(":"), Conv("S"), Is(White), Conv("p")>>]

Range2(f, lo, hi, alts) == [field |-> f, lo |-> lo, hi |-> hi, alts |-> alts]

NumberConvs ==
  [d |-> Range2("mday", 1, 31, {"O"}), e |-> Range2("mday", 1, 31, {"O"}),
   k |-> Range2("hour", 0, 23, {}),    H |-> Range2("hour", 0, 23, {"O"}),
   l |-> Range2("hour", 1, 12, {}),    I |-> Range2("hour", 1, 12, {"O"}),
   j |-> Range2("yday", 1, 366, {}),   M |-> Range2("min", 0, 59, {"O"}),
   m |-> Range2("mon", 1, 12, {"O"}),  S |-> Range2("sec", 0, 61, {"O"}),
   U |-> Range2("week", 0, 53, {"O"}), W |-> Range2("week", 0, 53, {"O"}),
   w |-> Range2("wday", 0, 6, {"O"}),  Y |-> Range2("year", 0, 9999, {"E"}),
   C |-> Range2("year", 0, 99, {"E"}), y |-> Range2("year", 0, 99, {"E", "O"})]

LegalAlts(c) ==
  IF c \in DOMAIN NumberConvs THEN NumberConvs[c].alts
  ELSE IF c \in {"c", "X", "x"} THEN {"E"} ELSE {}

(* LEGAL_ALT is also applied to a modifier, so that there is at most one.   *)
Legal(t) == Len(t.alts) <= 1 /\ ToSet(t.alts) \subseteq LegalAlts(t.conv)

-----------------------------------------------------------------------------
(* What strftime writes for a date, with numbers of the width of the limit. *)
Digit == <<"0", "1", "2", "3", "4", "5", "6", "7", "8", "9">>
DigitsOf(n, width) == [i \in 1 .. width |-> Digit[1 + ((n \div 10 ^ (width - i)) % 10)]]
Width(hi) == IF hi > 999 THEN 4 ELSE IF hi > 99 THEN 3 ELSE IF hi > 9 THEN 2 ELSE 1

Counted(c, d) ==
  CASE c = "Y" -> d.year + 1900
    [] c = "C" -> (d.year + 1900) \div 100
    [] c = "y" -> (d.year + 1900) % 100
    [] c \in {"U", "W"} -> (d.yday + 7 - d.wday) \div 7
    [] c \in {"m", "j"} -> d[NumberConvs[c].field] + 1
    [] c \in {"I", "l"} -> IF d.hour % 12 = 0 THEN 12 ELSE d.hour % 12
    [] OTHER -> d[NumberConvs[c].field]

WrittenToken(t, d) ==
  IF "literal" \in DOMAIN t THEN <<t.literal>>
  ELSE CASE t.conv = "A" -> InFull(Days[d.wday + 1])
         [] t.conv = "a" -> <<Days[d.wday + 1]>>
         [] t.conv = "B" -> InFull(Months[d.mon + 1])
         [] t.conv \in {"b", "h"} -> <<Months[d.mon + 1]>>
         [] t.conv = "p" -> <<IF d.hour > 11 THEN "PM" ELSE "AM">>
         [] t.conv \in {"n", "t"} -> <<White, White>>
         [] OTHER -> DigitsOf(Counted(t.conv, d), Width(NumberConvs[t.conv].hi))

Flat[depth \in 0 .. 2] ==
  [f \in DateFormats |-> IF depth = 0 THEN f
     ELSE FlattenSeq([i \in DOMAIN Flat[depth - 1][f] |->
            LET t == Flat[depth - 1][f][i]
            IN IF "conv" \in DOMAIN t THEN IF t.conv \in DOMAIN Complex THEN Complex[t.conv] ELSE <<t>>
               ELSE <<t>>])]

Written(f, d) == FlattenSeq([i \in DOMAIN Flat[2][f] |-> WrittenToken(Flat[2][f][i], d)])

TimeParseInit ==
  /\ format = <<>> /\ theDate = NoDate /\ toRead = <<>> /\ frames = <<>> /\ tm = NoDate
  /\ verdict = "none"

(* A call of strptime for a text that strftime wrote.                       *)
ReadDate(f, d) ==
  /\ verdict = "none" /\ verdict' = "reads"
  /\ format' = f /\ theDate' = d /\ toRead' = Written(f, d)
  /\ frames' = <<[fmt |-> f, split |-> FALSE]>> /\ UNCHANGED tm

-----------------------------------------------------------------------------
frame == frames[1]
token == frame.fmt[1]
Reading == verdict = "reads" /\ frames # <<>> /\ frame.fmt # <<>>
Converts(cs) ==
  Reading /\ "conv" \in DOMAIN token /\ Legal(token) /\ token.conv \in cs

(* The frame of strptime after its first token; split is its split_year.    *)
Past(split) == <<[fmt |-> Tail(frame.fmt), split |-> split]>> \o Tail(frames)
RefuseDate == verdict' = "refused" /\ UNCHANGED <<format, theDate, toRead, frames, tm>>

SkipWhite == LET ink == {i \in DOMAIN toRead : toRead[i] # White}
             IN SubSeq(toRead, IF ink = {} THEN Len(toRead) + 1
                             ELSE CHOOSE i \in ink : \A j \in ink : i <= j, Len(toRead))

(* White space of the format, %n and %t match any white space.              *)
WhiteSpace ==
  /\ Reading
  /\ IF "literal" \in DOMAIN token THEN token.literal = White
     ELSE Legal(token) /\ token.conv \in {"n", "t"}
  /\ toRead' = SkipWhite /\ frames' = Past(frame.split)
  /\ UNCHANGED <<format, theDate, tm, verdict>>

Literal ==
  /\ Reading /\ "literal" \in DOMAIN token /\ token # Is(White)
  /\ IF toRead = <<>> THEN RefuseDate
     ELSE IF toRead[1] # token.literal THEN RefuseDate
     ELSE /\ toRead' = Tail(toRead) /\ frames' = Past(frame.split)
          /\ UNCHANGED <<format, theDate, tm, verdict>>

IllegalAlt == Reading /\ "conv" \in DOMAIN token /\ ~Legal(token) /\ RefuseDate

(* A call of strptime for the other format, which has its own split_year.   *)
Recurse ==
  /\ Converts(DOMAIN Complex)
  /\ frames' = <<[fmt |-> Complex[token.conv], split |-> FALSE]>> \o Past(frame.split)
  /\ UNCHANGED <<format, theDate, toRead, tm, verdict>>

EndOfFormat ==
  /\ verdict = "reads" /\ frames # <<>> /\ frame.fmt = <<>>
  /\ frames' = Tail(frames) /\ verdict' = IF Len(frames) = 1 THEN "read" ELSE verdict
  /\ UNCHANGED <<format, theDate, toRead, tm>>

(* The names are tried in their order, each whole and then abbreviated.     *)
Name(cs, names, field) ==
  /\ Converts(cs)
  /\ LET fits == {i \in DOMAIN names : toRead # <<>> /\ IsPrefix(<<names[i]>>, toRead)}
     IN IF fits = {} THEN RefuseDate
        ELSE \E i \in fits :
          LET whole == IsPrefix(InFull(names[i]), toRead)
          IN /\ tm' = [tm EXCEPT ![field] = i - 1]
             /\ toRead' = SubSeq(toRead, 1 + Len(IF whole THEN InFull(names[i]) ELSE <<names[i]>>), Len(toRead))
             /\ frames' = Past(frame.split)
             /\ UNCHANGED <<format, theDate, verdict>>

DayName == Name({"A", "a"}, Days, "wday")
MonthName == Name({"B", "b", "h"}, Months, "mon")

(* AM and PM are compared with the whole of what is left.                   *)
HalfDay ==
  /\ Converts({"p"})
  /\ IF toRead \notin {<<"AM">>, <<"PM">>} \/ tm.hour > 11 THEN RefuseDate
     ELSE /\ tm' = [tm EXCEPT !.hour = @ + IF toRead = <<"PM">> THEN 12 ELSE 0]
          /\ toRead' = <<>> /\ frames' = Past(frame.split)
          /\ UNCHANGED <<format, theDate, verdict>>

(* conv_num: digits are taken while they could fit the limit and while the  *)
(* limit has as many.                                                       *)
DigitsFrom(s) == {n \in 0 .. Len(s) : \A i \in 1 .. n : s[i] \in ToSet(Digit)}
Value(n) == FoldLeft(LAMBDA acc, d : acc * 10 + SelectInSeq(Digit, LAMBDA e : e = d) - 1,
                     0, SubSeq(toRead, 1, n))

(* Mutant: the number of digits of the limit is not counted.                *)
TakenUncounted(hi) ==
  CHOOSE n \in DigitsFrom(toRead) :
    /\ \A k \in 1 .. n - 1 : Value(k) * 10 <= hi
    /\ n + 1 \in DigitsFrom(toRead) => Value(n) * 10 > hi
Taken(hi) ==
  CHOOSE n \in DigitsFrom(toRead) :
    /\ \A k \in 1 .. n - 1 : Value(k) * 10 <= hi
    /\ n <= Width(hi)
    /\ n + 1 \in DigitsFrom(toRead) => n = Width(hi) \/ Value(n) * 10 > hi

(* Mutant: the hour 12 is left as it is.                                    *)
StoredNoon(c, i) ==
  CASE c \in {"m", "j"} -> i - 1 [] c = "Y" -> i - 1900
    [] c = "C" -> (IF frame.split THEN tm.year % 100 ELSE 0) + i * 100
    [] c = "y" -> IF frame.split THEN (tm.year \div 100) * 100 + i
                  ELSE i + IF i <= 68 THEN 100 ELSE 0
    [] OTHER -> i
Stored(c, i) ==
  CASE c \in {"m", "j"} -> i - 1
    [] c \in {"I", "l"} -> i % 12
    [] c = "Y" -> i - 1900
    [] c = "C" -> (IF frame.split THEN tm.year % 100 ELSE 0) + i * 100
    [] c = "y" -> IF frame.split THEN (tm.year \div 100) * 100 + i
                  ELSE i + IF i <= 68 THEN 100 ELSE 0
    [] OTHER -> i

Number ==
  /\ Converts(DOMAIN NumberConvs)
  /\ IF 1 \notin DigitsFrom(toRead) THEN RefuseDate
     ELSE LET range == NumberConvs[token.conv]
              n == Taken(range.hi)
          IN IF Value(n) \notin range.lo .. range.hi THEN RefuseDate
             ELSE /\ tm' = [tm EXCEPT ![range.field] = Stored(token.conv, Value(n))]
                  /\ toRead' = SubSeq(toRead, n + 1, Len(toRead))
                  /\ frames' = Past(frame.split \/ token.conv \in {"C", "y"})
                  /\ UNCHANGED <<format, theDate, verdict>>

TimeParseNext ==
  \/ \E f \in DateFormats, d \in Dates : ReadDate(f, d)
  \/ WhiteSpace \/ Literal \/ IllegalAlt \/ Recurse \/ EndOfFormat
  \/ DayName \/ MonthName \/ HalfDay \/ Number

-----------------------------------------------------------------------------
(* The fields that a format fixes.                                          *)
Fixes(f) ==
  LET cs == {Flat[2][f][i].conv : i \in {j \in DOMAIN Flat[2][f] : "conv" \in DOMAIN Flat[2][f][j]}}
  IN {NumberConvs[c].field : c \in cs \cap (DOMAIN NumberConvs \ {"C", "y", "I", "l", "U", "W"})}
     \cup (IF cs \cap {"A", "a"} # {} THEN {"wday"} ELSE {})
     \cup (IF cs \cap {"B", "b", "h"} # {} THEN {"mon"} ELSE {})
     \cup (IF cs \cap {"I", "l"} # {} /\ "p" \in cs THEN {"hour"} ELSE {})
     \cup (IF "y" \in cs /\ "C" \notin cs THEN {"year"} ELSE {})

Refusing(f) ==
  \E i \in DOMAIN f : IF "conv" \in DOMAIN f[i] THEN ~Legal(f[i]) ELSE FALSE

(* What strftime writes for a date in a format is read as that date, to its *)
(* last character, in every field the format fixes, and a format with a     *)
(* modifier that its conversion does not allow is always refused            *)
(* (strptime_win.cpp:46-335).                                               *)
DateReadBack ==
  /\ verdict = "refused" => Refusing(format)
  /\ verdict = "read" => /\ ~Refusing(format) /\ toRead = <<>>
                         /\ \A f \in Fixes(format) : tm[f] = theDate[f]
=============================================================================
