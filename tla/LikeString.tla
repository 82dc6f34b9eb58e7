----------------------------- MODULE LikeString -----------------------------
(***************************************************************************)
(* BufferLikeString (src/src/Network/Buffer.h): a string whose ends are    *)
(* erased by moving two offsets, beside a plain string on which the same   *)
(* calls are made.  A call that throws out_of_range changes nothing and is *)
(* left out.  When the capacity makes append move the text to the front of *)
(* its memory is not observable, and is left open.                         *)
(***************************************************************************)
EXTENDS Naturals, Sequences

CONSTANTS Chars, MaxStored
NUL == 0

VARIABLES str,       \* _str
          head,      \* _erase_head
          tail,      \* _erase_tail
          plain,     \* the plain string
          outgrown   \* a resize has asked for more than is stored

textVars == <<str, head, tail, plain, outgrown>>

TextInit == str = <<>> /\ head = 0 /\ tail = 0 /\ plain = <<>> /\ outgrown = FALSE

TextSize == Len(str) - tail - head
NewTexts == {<<c>> : c \in Chars} \cup {<<c, d>> : c, d \in Chars}

Inserted(s, pos, text) == SubSeq(s, 1, pos) \o text \o SubSeq(s, pos + 1, Len(s))
EraseAt(s, pos, n) == SubSeq(s, 1, pos) \o SubSeq(s, pos + n + 1, Len(s))
Filled(n, c) == [i \in 1 .. n |-> c]
Overwritten(s, pos, text) ==
  [i \in DOMAIN s |-> IF i > pos /\ i <= pos + Len(text) THEN text[i - pos] ELSE s[i]]

(* data()[size()] = '\0', over the terminator or over an erased character.  *)
Terminated(s, h, t) == Overwritten(s, Len(s) - t, <<NUL>>)

EraseHead(n) ==
  /\ n <= TextSize
  /\ head' = head + n /\ tail' = tail /\ str' = Terminated(str, head', tail)
  /\ plain' = SubSeq(plain, n + 1, Len(plain))
  /\ UNCHANGED outgrown

EraseAll ==
  /\ head' = 0 /\ tail' = Len(str) /\ str' = Terminated(str, 0, Len(str))
  /\ plain' = <<>>
  /\ UNCHANGED outgrown

EraseTail(pos) ==
  /\ 0 < pos /\ pos < TextSize
  /\ head' = head /\ tail' = tail + TextSize - pos /\ str' = Terminated(str, head, tail')
  /\ plain' = SubSeq(plain, 1, pos)
  /\ UNCHANGED outgrown

EraseMiddle(pos, n) ==
  /\ 0 < pos /\ pos + n < TextSize
  /\ str' = EraseAt(str, head + pos, n)
  /\ plain' = EraseAt(plain, pos, n)
  /\ UNCHANGED <<head, tail, outgrown>>

(* Mutant: appends at the end of the memory even if characters were erased. *)
AppendAtEnd(text, moved) ==
  /\ str' = (IF moved THEN EraseAt(str, 0, head) ELSE str) \o text
  /\ head' = (IF moved THEN 0 ELSE head)
  /\ plain' = plain \o text
  /\ UNCHANGED <<tail, outgrown>>

AppendText(text, moved) ==
  /\ LET s == IF moved THEN EraseAt(str, 0, head) ELSE str
     IN str' = Inserted(s, Len(s) - tail, text)
  /\ head' = (IF moved THEN 0 ELSE head)
  /\ plain' = plain \o text
  /\ UNCHANGED <<tail, outgrown>>

PushBack(c) ==
  /\ IF tail = 0 THEN str' = Append(str, c) /\ UNCHANGED tail
     ELSE /\ tail' = tail - 1
          /\ str' = Terminated(Overwritten(str, head + TextSize, <<c>>), head, tail')
  /\ plain' = Append(plain, c)
  /\ UNCHANGED <<head, outgrown>>

InsertText(pos, text) ==
  /\ pos <= TextSize
  /\ str' = Inserted(str, head + pos, text)
  /\ plain' = Inserted(plain, pos, text)
  /\ UNCHANGED <<head, tail, outgrown>>

AssignText(text) ==
  /\ str' = text /\ head' = 0 /\ tail' = 0 /\ plain' = text /\ outgrown' = FALSE

(* assign of a part of its own text only moves the offsets.                 *)
AssignPart(pos, n) ==
  /\ 0 < n /\ pos + n <= TextSize
  /\ head' = head + pos /\ tail' = Len(str) - (head + pos + n)
  /\ plain' = SubSeq(plain, pos + 1, pos + n)
  /\ UNCHANGED <<str, outgrown>>

ClearText == str' = <<>> /\ head' = 0 /\ tail' = 0 /\ plain' = <<>> /\ outgrown' = FALSE

(* resize; to grow past the stored text the code calls _str.resize with the *)
(* number of missing characters, not with the new length.                   *)
ResizeText(n, c) ==
  LET more == n - TextSize
      missing == more - tail
  IN /\ n # TextSize
     /\ IF n < TextSize
        THEN tail' = tail + TextSize - n /\ str' = Overwritten(str, head + n, Filled(TextSize - n, c))
        ELSE IF more <= tail
        THEN tail' = tail - more /\ str' = Overwritten(str, head + TextSize, Filled(more, c))
        ELSE /\ tail' = 0
             /\ str' = Overwritten(SubSeq(str \o Filled(missing, c), 1, missing),
                                   head + TextSize, Filled(tail, c))
     /\ plain' = SubSeq(plain \o Filled(n, c), 1, n)
     /\ outgrown' = (more > tail)
     /\ UNCHANGED head

TextNext ==
  \/ /\ ~outgrown /\ Len(str) < MaxStored
     /\ \/ \E text \in NewTexts : \/ \E moved \in BOOLEAN : AppendText(text, moved)
                               \/ \E pos \in 0 .. TextSize : InsertText(pos, text)
        \/ \E c \in Chars : PushBack(c) \/ \E n \in 0 .. TextSize + tail + 1 : ResizeText(n, c)
  \/ /\ ~outgrown
     /\ \/ EraseAll
        \/ \E pos, n \in 0 .. TextSize :
             EraseHead(n) \/ EraseTail(pos) \/ EraseMiddle(pos, n) \/ AssignPart(pos, n)
  \/ ClearText \/ \E text \in NewTexts : AssignText(text)

TextSpec == TextInit /\ [][TextNext]_textVars

-----------------------------------------------------------------------------
(* The text between the two offsets is that of a plain string after the     *)
(* same calls, whatever erasures, insertions and moves came before; until a *)
(* resize outgrows the stored text, which loses it.                         *)
LikeAString ==
  ~outgrown => head + tail <= Len(str) /\ SubSeq(str, head + 1, Len(str) - tail) = plain
=============================================================================
