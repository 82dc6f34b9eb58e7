------------------------------- MODULE SSLBox -------------------------------
(***************************************************************************)
(* SSL_Box (src/src/Util/SSLBox.cpp) around an SSL object of OpenSSL, which*)
(* is external: it reads whole records from one memory BIO, answers each   *)
(* handshake record in another, and encrypts once the handshake is over.   *)
(* The callbacks of a chunk may call onSend and, from on_dec, shutdown.    *)
(***************************************************************************)
EXTENDS Naturals, Sequences, FiniteSets

CONSTANTS
  Flights,   \* handshake records of the peer
  PeerData,  \* data records of the peer
  OwnData,   \* buffers given to onSend
  BuffSize   \* _buff_size, in records

ASSUME SSLBoxAssumption == {Flights, PeerData, OwnData, BuffSize} \subseteq Nat \ {0}

Records == Flights + PeerData

VARIABLES
  serverMode,
  sentHandshake, \* _send_handshake
  readBio,   \* halves of records in _read_bio
  took,      \* records that SSL_read consumed
  bufferSend, \* _buffer_send
  writeBio,  \* records in _write_bio
  flush,     \* where flush is: "no", "read", "dec", "test", "write", "enc", "sent"
  chunk,     \* data of the callback under way
  closed,    \* SSL_shutdown was called
  fed,       \* halves of records the peer sent
  onSends,   \* calls of onSend
  decoded,   \* what on_dec was called with
  encoded,   \* what on_enc was called with
  inEnc      \* buffers given to onSend in on_enc with nothing left to encrypt

sslVars == <<serverMode, sentHandshake, readBio, took, bufferSend, writeBio, flush, chunk, closed, fed,
             onSends, decoded, encoded, inEnc>>

Hello == [kind |-> "flight", nr |-> 0]
Reply(k) == [kind |-> "flight", nr |-> k]
Cipher(k) == [kind |-> "data", nr |-> k]
Notify == [kind |-> "close", nr |-> 0]

SslInit ==
  /\ serverMode \in BOOLEAN /\ sentHandshake = FALSE
  /\ readBio = 0 /\ took = 0 /\ bufferSend = <<>> /\ writeBio = <<>>
  /\ flush = "no" /\ chunk = <<>> /\ closed = FALSE
  /\ fed = 0 /\ onSends = 0 /\ decoded = <<>> /\ encoded = <<>> /\ inEnc = {}

Finished == took >= Flights  \* SSL_is_init_finished

-----------------------------------------------------------------------------
(* onRecv: the peer sends its next flight when it has the answer to the     *)
(* last one; a TCP segment may end within a record, or hold several.        *)
OnRecv ==
  LET sent == {encoded[i] : i \in DOMAIN encoded}
      answered == {k \in 1 .. Flights : Reply(k) \in sent}
      limit == IF Cardinality(answered) = Flights THEN 2 * Records ELSE 2 * (Cardinality(answered) + 1)
  IN  /\ flush = "no" /\ (serverMode \/ Hello \in sent)
      /\ fed' \in fed + 1 .. limit /\ readBio' = readBio + fed' - fed
      /\ flush' = "read"
      /\ UNCHANGED <<serverMode, sentHandshake, took, bufferSend, writeBio, chunk, closed, onSends,
                     decoded, encoded, inEnc>>

(* The front of _buffer_send has been given to SSL_write.                   *)
Encrypts ==
  /\ bufferSend # <<>>
  /\ LET out == encoded \o chunk \o writeBio
     IN  \E i \in DOMAIN out : out[i] = Cipher(Head(bufferSend))

(* onSend, from outside or from a callback; in a flush under way the inner  *)
(* flush returns at once.                                                   *)
OnSend ==
  /\ flush \in {"no", "dec", "enc"} /\ onSends < OwnData
  /\ onSends' = onSends + 1
  /\ bufferSend' = Append(bufferSend, onSends')
  /\ sentHandshake' = (sentHandshake \/ ~serverMode)
  /\ writeBio' = IF serverMode \/ sentHandshake THEN writeBio ELSE Append(writeBio, Hello)
  /\ flush' = IF flush = "no" THEN "read" ELSE flush
  /\ inEnc' = IF flush = "enc" /\ Finished /\ ~Encrypts THEN inEnc \cup {onSends'} ELSE inEnc
  /\ UNCHANGED <<serverMode, readBio, took, chunk, closed, fed, decoded, encoded>>

(* SSL_shutdown has no notification of the peer yet: it does not return 1,  *)
(* and shutdown leaves the record where it is.                              *)
ShutdownSsl ==
  /\ flush \in {"no", "dec"} /\ Finished /\ ~closed
  /\ closed' = TRUE /\ bufferSend' = <<>>
  /\ writeBio' = Append(writeBio, Notify)
  /\ UNCHANGED <<serverMode, sentHandshake, readBio, took, flush, chunk, fed, onSends, decoded,
                 encoded, inEnc>>

-----------------------------------------------------------------------------
(* flushReadBio: SSL_read until the buffer is full or no record is complete.*)
FlushReadBio ==
  LET complete == readBio \div 2
      handshake == IF Finished THEN 0 ELSE IF complete < Flights - took THEN complete ELSE Flights - took
      data == IF complete - handshake < BuffSize THEN complete - handshake ELSE BuffSize
  IN  /\ flush = "read"
      /\ took' = took + handshake + data
      /\ readBio' = readBio - 2 * (handshake + data)
      /\ writeBio' = writeBio \o [k \in 1 .. handshake |-> Reply(took + k)]
      /\ chunk' = [k \in 1 .. data |-> took + handshake + k]
      /\ flush' = IF data = 0 THEN "test" ELSE "dec"
      /\ UNCHANGED <<serverMode, sentHandshake, bufferSend, closed, fed, onSends, decoded, encoded, inEnc>>

(* on_dec returns; the rest is read if the buffer was full.                 *)
OnDec ==
  /\ flush = "dec"
  /\ decoded' = decoded \o chunk /\ chunk' = <<>>
  /\ flush' = IF Len(chunk) = BuffSize THEN "read" ELSE "test"
  /\ UNCHANGED <<serverMode, sentHandshake, readBio, took, bufferSend, writeBio, closed, fed,
                 onSends, encoded, inEnc>>

(* Mutant: the answers to the handshake wait for data.                      *)
NextToSendLate ==
  IF bufferSend = <<>> \/ ~Finished THEN flush' = "no" /\ UNCHANGED <<bufferSend, writeBio>>
  ELSE IF closed THEN flush' = "no" /\ bufferSend' = <<>> /\ writeBio' = Append(writeBio, Notify)
  ELSE /\ writeBio' = Append(writeBio, Cipher(Head(bufferSend)))
       /\ flush' = "write" /\ UNCHANGED bufferSend

(* What flush does after reading: SSL_write of the front, which fails once  *)
(* SSL_shutdown was called.                                                 *)
NextToSend ==
  IF bufferSend = <<>> \/ ~Finished THEN flush' = "write" /\ UNCHANGED <<bufferSend, writeBio>>
  ELSE IF closed THEN flush' = "no" /\ bufferSend' = <<>> /\ writeBio' = Append(writeBio, Notify)
  ELSE /\ writeBio' = Append(writeBio, Cipher(Head(bufferSend)))
       /\ flush' = "write" /\ UNCHANGED bufferSend

Test ==
  /\ flush = "test"
  /\ NextToSend
  /\ UNCHANGED <<serverMode, sentHandshake, readBio, took, chunk, closed, fed, onSends, decoded,
                 encoded, inEnc>>

(* flushWriteBio: one chunk for on_enc.                                     *)
FlushWriteBio ==
  LET n == IF Len(writeBio) < BuffSize THEN Len(writeBio) ELSE BuffSize
  IN  /\ flush = "write"
      /\ chunk' = SubSeq(writeBio, 1, n) /\ writeBio' = SubSeq(writeBio, n + 1, Len(writeBio))
      /\ flush' = IF n = 0 THEN "sent" ELSE "enc"
      /\ UNCHANGED <<serverMode, sentHandshake, readBio, took, bufferSend, closed, fed, onSends,
                     decoded, encoded, inEnc>>

OnEnc ==
  /\ flush = "enc"
  /\ encoded' = encoded \o chunk /\ chunk' = <<>>
  /\ flush' = IF Len(chunk) = BuffSize THEN "write" ELSE "sent"
  /\ UNCHANGED <<serverMode, sentHandshake, readBio, took, bufferSend, writeBio, closed, fed,
                 onSends, decoded, inEnc>>

(* The front is through, and the loop goes on; or flush ends.               *)
Sent ==
  /\ flush = "sent"
  /\ bufferSend' = IF Encrypts THEN Tail(bufferSend) ELSE bufferSend
  /\ flush' = IF Encrypts /\ Len(bufferSend) > 1 THEN "test" ELSE "no"
  /\ UNCHANGED <<serverMode, sentHandshake, readBio, took, writeBio, chunk, closed, fed, onSends,
                 decoded, encoded, inEnc>>

SslNext ==
  \/ OnRecv \/ OnSend \/ ShutdownSsl
  \/ FlushReadBio \/ OnDec \/ Test \/ FlushWriteBio \/ OnEnc \/ Sent

SslSpec == SslInit /\ [][SslNext]_sslVars

-----------------------------------------------------------------------------
(* Properties.                                                              *)

Ciphers(s) == SelectSeq(s, LAMBDA r : r.kind = "data")

(* Data passes each way once and in order, own data only after the          *)
(* handshake; and when flush is not under way nothing waits that could go:  *)
(* no complete record to read, no answer to the handshake, and no buffer    *)
(* once it is over - except, until the next call, what on_enc itself gave   *)
(* to onSend when nothing was left, and what follows shutdown (flush,       *)
(* flushReadBio, flushWriteBio, onSend, shutdown).                          *)
NothingHeldBack ==
  /\ \A i \in DOMAIN decoded : decoded[i] = Flights + i
  /\ LET out == Ciphers(encoded)
     IN  \A i \in 1 .. Len(out) - 1 : out[i].nr < out[i + 1].nr
  /\ \A i, j \in DOMAIN encoded : encoded[i].kind = "data" /\ encoded[j].kind = "flight" => j < i
  /\ flush = "no" =>
       /\ readBio < 2
       /\ Len(decoded) = (IF Finished THEN took - Flights ELSE 0)
       /\ ~closed => writeBio = <<>> \/ inEnc # {}
       /\ ~closed /\ Finished => {bufferSend[i] : i \in DOMAIN bufferSend} \subseteq inEnc
       /\ ~closed => Len(Ciphers(encoded)) + Len(bufferSend) = onSends

=============================================================================
