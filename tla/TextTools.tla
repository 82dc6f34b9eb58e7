------------------------------- MODULE TextTools -------------------------------
(* The functions on strings of src/src/Util/util.cpp, loop by loop: split,  *)
(* trim, replace, end_with and limitString.  Every call has a string, a     *)
(* second one (the delimiter, the characters to trim, what to look for) and *)
(* for replace a third.                                                     *)
EXTENDS Integers, Sequences, SequencesExt

CONSTANTS
  Letters,    \* characters
  LastByte,   \* the character 0xFF, which the map of TRIM is too short for
  MaxText, MaxPattern, MaxNew,
  NameLimit   \* max_size of limitString: 16 on Linux, 32 on a Mac

ASSUME TextsAssumption ==
  LastByte \notin Letters /\ MaxText \in Nat /\ MaxPattern \in Nat \ {0}
  /\ NameLimit \in Nat /\ NameLimit >= 10

VARIABLES asks, left, last, pieces, textStage

textsVars == <<asks, left, last, pieces, textStage>>

Strings(alphabet, max) == UNION {[1 .. n -> alphabet] : n \in 0 .. max}
Asked(op, s, p, new) == [op |-> op, s |-> s, p |-> p, new |-> new]

TextsInit ==
  /\ asks = Asked("none", <<>>, <<>>, <<>>) /\ left = <<>>
  /\ last = 0 /\ pieces = <<>> /\ textStage = "none"

Begins(call) ==
  /\ textStage = "none" /\ textStage' = "runs" /\ asks' = call /\ left' = call.s
  /\ UNCHANGED <<last, pieces>>

CallText ==
  \/ \E op \in {"split", "endWith"}, s \in Strings(Letters, MaxText),
        p \in Strings(Letters, MaxPattern) \ {<<>>} : Begins(Asked(op, s, p, <<>>))
  \/ \E s \in Strings(Letters, MaxText), p \in Strings(Letters, MaxPattern),
        new \in Strings(Letters, MaxNew) : Begins(Asked("replace", s, p, new))
  \/ \E s \in Strings(Letters \cup {LastByte}, MaxText), p \in Strings(Letters, 1) :
        Begins(Asked("trim", s, p, <<>>))
  \/ \E n \in 0 .. 2 * NameLimit : Begins(Asked("limit", [i \in 1 .. n |-> i], <<>>, <<>>))

(* std::string::find and rfind, from 0 as in the code; -1 is npos.          *)
Matches(s, p) == {i \in 0 .. Len(s) - Len(p) : SubSeq(s, i + 1, i + Len(p)) = p}
Find(s, p, from) ==
  LET found == {i \in Matches(s, p) : i >= from}
  IN IF found = {} THEN -1 ELSE CHOOSE i \in found : \A j \in found : i <= j
RFind(s, p) ==
  IF Matches(s, p) = {} THEN -1 ELSE CHOOSE i \in Matches(s, p) : \A j \in Matches(s, p) : j <= i

Runs(op) == textStage = "runs" /\ asks.op = op
TextEnds(how) == textStage' = how /\ UNCHANGED asks

(* Mutant: an empty piece is kept too.                                      *)
WorthKeepingAlways(from, to) == from <= to
WorthKeeping(from, to) == from < to

SplitStep ==
  /\ Runs("split")
  /\ LET index == Find(asks.s, asks.p, last)
         size == Len(asks.s)
     IN IF index >= 0
        THEN /\ pieces' = IF WorthKeeping(last, index)
                          THEN Append(pieces, SubSeq(asks.s, last + 1, index)) ELSE pieces
             /\ last' = index + Len(asks.p) /\ UNCHANGED <<asks, left, textStage>>
        ELSE /\ pieces' = IF size = 0 \/ WorthKeeping(last, size)
                          THEN Append(pieces, SubSeq(asks.s, last + 1, size)) ELSE pieces
             /\ TextEnds("done") /\ UNCHANGED <<left, last>>

(* TRIM: at() throws for the character the map has no place for.            *)
Trimmable(c) == c \in ToSet(asks.p)
TrimStep ==
  /\ Runs("trim") /\ UNCHANGED <<last, pieces>>
  /\ IF left = <<>> THEN TextEnds("done") /\ UNCHANGED left
     ELSE IF Last(left) = LastByte THEN TextEnds("throws") /\ UNCHANGED left
     ELSE IF Trimmable(Last(left)) THEN left' = Front(left) /\ UNCHANGED <<asks, textStage>>
     ELSE IF left[1] = LastByte THEN TextEnds("throws") /\ UNCHANGED left
     ELSE IF Trimmable(left[1]) THEN left' = Tail(left) /\ UNCHANGED <<asks, textStage>>
     ELSE TextEnds("done") /\ UNCHANGED left

(* replace calls itself with the place behind what it put in.               *)
(* Mutant: with the place behind as many characters as it took out.         *)
ResumeBehindOld(pos) == pos + Len(asks.p)
Resume(pos) == pos + Len(asks.new)

ReplaceStep ==
  /\ Runs("replace") /\ UNCHANGED pieces
  /\ LET pos == Find(left, asks.p, last)
     IN IF asks.p = <<>> \/ asks.p = asks.new \/ pos < 0
        THEN TextEnds("done") /\ UNCHANGED <<left, last>>
        ELSE /\ left' = SubSeq(left, 1, pos) \o asks.new \o SubSeq(left, pos + Len(asks.p) + 1, Len(left))
             /\ last' = Resume(pos) /\ UNCHANGED <<asks, textStage>>

EndWith ==
  /\ Runs("endWith") /\ TextEnds("done")
  /\ LET pos == RFind(asks.s, asks.p)
     IN last' = IF pos >= 0 /\ pos = Len(asks.s) - Len(asks.p) THEN 1 ELSE 0
  /\ UNCHANGED <<left, pieces>>

(* limitString cuts a hole behind the fifth character; 0 is a dot.          *)
Limit ==
  /\ Runs("limit") /\ TextEnds("done")
  /\ LET size == Len(asks.s)
         erased == size + 1 - NameLimit + 3
     IN left' = IF size + 1 <= NameLimit THEN asks.s
                ELSE SubSeq(asks.s, 1, 5) \o <<0, 0, 0>> \o SubSeq(asks.s, 5 + erased + 1, size)
  /\ UNCHANGED <<last, pieces>>

TextsNext == CallText \/ SplitStep \/ TrimStep \/ ReplaceStep \/ EndWith \/ Limit

-----------------------------------------------------------------------------
(* The occurrences of p in s from the left that do not overlap, and s with  *)
(* new in their places.                                                     *)
Substituted(s, p, new) ==
  LET from[i \in 0 .. Len(s)] ==
        IF i = Len(s) THEN <<>>
        ELSE IF i \in Matches(s, p) THEN new \o from[i + Len(p)]
        ELSE <<s[i + 1]>> \o from[i + 1]
  IN from[0]

TrimmedOf(s, chars) ==
  LET kept == {i \in DOMAIN s : s[i] \notin chars}
  IN IF kept = {} THEN <<>>
     ELSE SubSeq(s, CHOOSE i \in kept : \A j \in kept : i <= j,
                    CHOOSE i \in kept : \A j \in kept : j <= i)

(* replace, split and trim give what their plain definitions give, however  *)
(* patterns overlap: the pieces of split are the string without its         *)
(* delimiters and none of them has one; a name that limitString shortens    *)
(* fits and keeps its ends (util.cpp:272-330, 585-592).                     *)
TextsRight ==
  textStage = "done" =>
    CASE asks.op = "split" ->
           /\ FlattenSeq(pieces) = Substituted(asks.s, asks.p, <<>>)
           /\ \A i \in DOMAIN pieces :
                Matches(pieces[i], asks.p) = {} /\ (pieces[i] = <<>> => asks.s = <<>>)
      [] asks.op = "replace" ->
           left = IF asks.p = <<>> THEN asks.s ELSE Substituted(asks.s, asks.p, asks.new)
      [] asks.op = "trim" -> left = TrimmedOf(asks.s, ToSet(asks.p))
      [] asks.op = "endWith" -> (last = 1) <=> IsSuffix(asks.p, asks.s)
      [] OTHER -> /\ Len(left) < NameLimit
                  /\ Len(left) # Len(asks.s) =>
                       Len(left) = NameLimit - 1 /\ Last(left) = Last(asks.s)
=============================================================================
