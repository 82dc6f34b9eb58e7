------------------------------ MODULE Encodings ------------------------------
(* encodeBase64 and decodeBase64 of src/src/Util/base64.cpp, iteration by   *)
(* iteration: characters are the numbers 0 .. 63 they stand for, and Pad is *)
(* '='.  Registers have WordWidth bits, and lose what is shifted out.       *)
EXTENDS Integers, Sequences, SequencesExt

CONSTANTS
  SomeBytes64,  \* of 0 .. 255
  MaxBytes,
  WordWidth     \* of i_bits and v (32)

ASSUME Base64Assumption ==
  SomeBytes64 \subseteq 0 .. 255 /\ MaxBytes \in Nat /\ WordWidth \in 20 .. 22

VARIABLES plain64, codec, bitsIn, shift, remaining, encoded64, decoded64

base64Vars == <<plain64, codec, bitsIn, shift, remaining, encoded64, decoded64>>

Pad == 64
Register(n) == n % 2 ^ WordWidth

Base64Init ==
  /\ plain64 = <<>> /\ codec = "input" /\ bitsIn = 0 /\ shift = 0 /\ remaining = 0
  /\ encoded64 = <<>> /\ decoded64 = <<>>

Extend(byte) ==
  /\ codec = "input" /\ Len(plain64) < MaxBytes /\ plain64' = Append(plain64, byte)
  /\ UNCHANGED <<codec, bitsIn, shift, remaining, encoded64, decoded64>>

StartEncode ==
  /\ codec = "input" /\ plain64 # <<>> /\ codec' = "encodes" /\ remaining' = Len(plain64)
  /\ UNCHANGED <<plain64, bitsIn, shift, encoded64, decoded64>>

(* The characters that the bits in the register make, down to the last      *)
(* `spare' bits, and what remains.                                          *)
Emitting(bits, from, spare) ==
  LET chars[s \in -6 .. 14] ==
        IF s > spare THEN <<(Register(bits * 64) \div 2 ^ s) % 64>> \o chars[s - 6] ELSE <<>>
      last[s \in -6 .. 14] == IF s > spare THEN last[s - 6] ELSE s
  IN [chars |-> chars[from], shift |-> last[from]]

(* Mutant: six bits that are left at the end are lost.                      *)
EmittedFull(bits, from, left) == Emitting(bits, from, 6)
Emitted(bits, from, left) == Emitting(bits, from, IF left = 0 THEN 0 ELSE 6)

EncodeByte ==
  /\ codec = "encodes" /\ remaining > 0
  /\ LET bits == Register(bitsIn * 256) + plain64[Len(plain64) - remaining + 1]
         e == Emitted(bits, shift + 8, remaining - 1)
     IN bitsIn' = bits /\ encoded64' = encoded64 \o e.chars /\ shift' = e.shift
  /\ remaining' = remaining - 1
  /\ UNCHANGED <<plain64, codec, decoded64>>

PadOut ==
  /\ codec = "encodes" /\ remaining = 0
  /\ IF Len(encoded64) % 4 # 0 THEN encoded64' = Append(encoded64, Pad) /\ UNCHANGED <<codec, bitsIn>>
     ELSE codec' = "decodes" /\ bitsIn' = 0 /\ UNCHANGED encoded64
  /\ shift' = 0  \* `i' of the decoder, which counts the characters
  /\ UNCHANGED <<plain64, remaining, decoded64>>

Ended == IF shift = Len(encoded64) THEN TRUE ELSE encoded64[shift + 1] = Pad

(* Mutant: every character but the first gives a byte.                      *)
DecodeCharFirst ==
  /\ codec = "decodes" /\ ~Ended
  /\ LET v == Register(bitsIn * 64) + encoded64[shift + 1]
     IN /\ bitsIn' = v
        /\ decoded64' = IF shift # 0 THEN Append(decoded64, (v \div 2 ^ (6 - 2 * (shift % 4))) % 256)
                      ELSE decoded64
  /\ shift' = shift + 1
  /\ UNCHANGED <<plain64, codec, remaining, encoded64>>

DecodeChar ==
  /\ codec = "decodes" /\ ~Ended
  /\ LET v == Register(bitsIn * 64) + encoded64[shift + 1]
         i == shift % 4
     IN /\ bitsIn' = v
        /\ decoded64' = IF i # 0 THEN Append(decoded64, (v \div 2 ^ (6 - 2 * i)) % 256) ELSE decoded64
  /\ shift' = shift + 1
  /\ UNCHANGED <<plain64, codec, remaining, encoded64>>

DecodeEnd ==
  /\ codec = "decodes" /\ Ended
  /\ codec' = "done"
  /\ UNCHANGED <<plain64, bitsIn, shift, remaining, encoded64, decoded64>>

Base64Next ==
  \/ \E b \in SomeBytes64 : Extend(b)
  \/ StartEncode \/ EncodeByte \/ PadOut \/ DecodeChar \/ DecodeEnd
Base64Spec == Base64Init /\ [][Base64Next]_base64Vars

-----------------------------------------------------------------------------
(* What is encoded is decoded to the same bytes, though the registers lose  *)
(* the bits of long inputs, and each buffer is as large as was computed:    *)
(* AV_BASE64_SIZE with the final zero, and three quarters of the text.      *)
RoundTrip64 ==
  /\ Len(encoded64) + 1 <= ((Len(plain64) + 2) \div 3) * 4 + 1
  /\ Len(decoded64) <= (Len(encoded64) * 3) \div 4
  /\ codec = "done" => decoded64 = plain64

-----------------------------------------------------------------------------
(* How MD5 and SHA1 of src/src/Util cut a message that comes in pieces into *)
(* blocks, and what they add at its end.  The compression of a block is not *)
(* modelled: a digest is the sequence of the blocks it was made of.         *)
CONSTANTS
  BlockBytes,   \* blocksize and BLOCK_BYTES (64), of which the length takes 2 (8)
  WordBits,     \* width of count[0] (32)
  Pieces,       \* sizes of the pieces
  MaxMessage

ASSUME DigestAssumption ==
  /\ BlockBytes \in Nat /\ BlockBytes > 2 /\ WordBits > 3 /\ MaxMessage \in Nat
  /\ Pieces \subseteq Nat \ {0}

VARIABLES
  message,  \* bytes so far: the i-th is i
  md5,      \* MD5
  sha1      \* SHA1

digestVars == <<message, md5, sha1>>

Byte80 == -80       \* 0x80
Size(n) == -1000 - n  \* one word of the length

DigestInit ==
  /\ message = 0
  /\ md5 = [lo |-> 0, hi |-> 0, buffer |-> [i \in 1 .. BlockBytes |-> 0], state |-> <<>>,
            finalized |-> FALSE]
  /\ sha1 = [buffer |-> <<>>, transforms |-> 0, digest |-> <<>>, final |-> FALSE]

Input(n) == [i \in 1 .. n |-> message + i]
Word == 2 ^ WordBits

-----------------------------------------------------------------------------
(* MD5: whole blocks are taken from the input; the buffer is overwritten    *)
(* from its beginning.                                                      *)
BlocksOf(buffer, from, bytes) ==
  [i \in 1 .. BlockBytes |-> IF i > from /\ i <= from + Len(bytes) THEN bytes[i - from] ELSE buffer[i]]

Md5Update(o, input) ==
  LET length == Len(input)
      index == (o.lo \div 8) % BlockBytes
      bits == (length * 8) % Word
      lo == (o.lo + bits) % Word
      hi == o.hi + (IF lo < bits THEN 1 ELSE 0) + (length * 8) \div Word
      first == BlockBytes - index
      whole == (length - first) \div BlockBytes
      full == BlocksOf(o.buffer, index, SubSeq(input, 1, first))
      rest == first + whole * BlockBytes
      Chunk(k) == SubSeq(input, first + (k - 1) * BlockBytes + 1, first + k * BlockBytes)
  IN IF length < first
     THEN [o EXCEPT !.lo = lo, !.hi = hi, !.buffer = BlocksOf(@, index, input)]
     ELSE [o EXCEPT !.lo = lo, !.hi = hi, !.state = Append(@, full) \o [k \in 1 .. whole |-> Chunk(k)],
                    !.buffer = BlocksOf(full, 0, SubSeq(input, rest + 1, length))]

Padding(n) == [i \in 1 .. n |-> IF i = 1 THEN Byte80 ELSE 0]

(* Mutant: a block with room for the length and no more is not enough.      *)
PadLenOffByOne(o) ==
  LET index == (o.lo \div 8) % BlockBytes
  IN IF index <= BlockBytes - 2 THEN BlockBytes - 2 - index ELSE 2 * BlockBytes - 2 - index

PadLen(o) ==
  LET index == (o.lo \div 8) % BlockBytes
  IN IF index < BlockBytes - 2 THEN BlockBytes - 2 - index ELSE 2 * BlockBytes - 2 - index

Md5Finalize(o) ==
  LET padded == Md5Update(o, Padding(PadLen(o)))
  IN [Md5Update(padded, <<Size(o.lo), Size(o.hi)>>)
        EXCEPT !.lo = 0, !.hi = 0, !.buffer = [i \in 1 .. BlockBytes |-> 0], !.finalized = TRUE]

-----------------------------------------------------------------------------
(* SHA1: reads from the stream what its buffer lacks.                       *)
Sha1Update(o, input) ==
  LET all == o.buffer \o input
      whole == Len(all) \div BlockBytes
      Chunk(k) == SubSeq(all, (k - 1) * BlockBytes + 1, k * BlockBytes)
  IN [o EXCEPT !.buffer = SubSeq(all, whole * BlockBytes + 1, Len(all)),
               !.transforms = @ + whole, !.digest = @ \o [k \in 1 .. whole |-> Chunk(k)]]

Sha1Final(o) ==
  LET bits == (o.transforms * BlockBytes + Len(o.buffer)) * 8
      orig == Len(o.buffer) + 1
      block == Append(o.buffer, Byte80) \o [i \in 1 .. BlockBytes - orig |-> 0]
      two == orig > BlockBytes - 2
      last == SubSeq(IF two THEN [i \in 1 .. BlockBytes |-> 0] ELSE block, 1, BlockBytes - 2)
                \o <<Size(bits \div Word), Size(bits % Word)>>
  IN [o EXCEPT !.digest = (IF two THEN Append(@, block) ELSE @) \o <<last>>, !.final = TRUE,
               !.buffer = <<>>, !.transforms = 0]

-----------------------------------------------------------------------------
Absorb(n) ==
  /\ ~md5.finalized /\ message + n <= MaxMessage
  /\ message' = message + n
  /\ md5' = Md5Update(md5, Input(n)) /\ sha1' = Sha1Update(sha1, Input(n))

Finish ==
  /\ ~md5.finalized
  /\ md5' = Md5Finalize(md5) /\ sha1' = Sha1Final(sha1) /\ UNCHANGED message

DigestNext == Finish \/ \E n \in Pieces : Absorb(n)
DigestSpec == DigestInit /\ [][DigestNext]_digestVars

-----------------------------------------------------------------------------
(* RFC 1321 and RFC 3174: the message, one bit, as few zeros as make room   *)
(* for the length, and the length.                                          *)
Padded(size) ==
  LET zeros == CHOOSE k \in 0 .. BlockBytes : (message + 1 + k + 2) % BlockBytes = 0
  IN [i \in 1 .. message |-> i] \o <<Byte80>> \o [i \in 1 .. zeros |-> 0] \o size

(* Whatever pieces the message came in, all of it was digested in order and *)
(* padded as the standards say, and its length is right past 2^32 bits.     *)
DigestsWhole ==
  md5.finalized =>
    LET lo == (message * 8) % Word
        hi == (message * 8) \div Word
    IN /\ FlattenSeq(md5.state) = Padded(<<Size(lo), Size(hi)>>)
       /\ FlattenSeq(sha1.digest) = Padded(<<Size(hi), Size(lo)>>)
       /\ \A i \in DOMAIN sha1.digest : Len(sha1.digest[i]) = BlockBytes

=============================================================================
