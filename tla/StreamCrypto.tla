---------------------------- MODULE StreamCrypto ----------------------------
(***************************************************************************)
(* Encryption of a stream in chunks: the writer seals every full chunk and *)
(* at the end the rest, the reader reads a buffer of a fixed size and opens*)
(* it as one record.  The buffer has room for a chunk and its nonce, and   *)
(* none for the tag.                                                       *)
(***************************************************************************)
EXTENDS ServerClock, Integers, FiniteSets, SequencesExt

CONSTANTS Units,       \* the data written, in units
          ChunkUnits,  \* units of a chunk: 65536 bytes in the code
          NonceUnits,  \* 12 bytes
          TagUnits,    \* 16 bytes
          MaxStream    \* bound on the units of a stream

ASSUME StreamAssumption ==
    /\ ChunkUnits \in Nat \ {0}
    /\ NonceUnits \in Nat \ {0}
    /\ TagUnits \in Nat
    /\ MaxStream \in Nat

VARIABLES plain,   \* what was written
          pending, \* EncryptedWriter.buffer
          sealed,  \* the plaintexts of the records written out, in order
          finished,\* finish() was called
          unread,  \* the bytes the reader has not consumed
          ready,   \* DecryptedReader.buffer
          got,     \* what the reader returned: data, error, shortened
          opened   \* the numbers of the records that opened, in order

streamVars == <<plain, pending, sealed, finished, unread, ready, got, opened>>

StreamInit ==
    /\ plain = <<>> /\ pending = <<>> /\ sealed = <<>>
    /\ finished = FALSE
    /\ unread = <<>> /\ ready = <<>>
    /\ got = [data |-> <<>>, error |-> FALSE, shortened |-> FALSE]
    /\ opened = <<>>

\* A record on the wire: which record, and which of its bytes.
RecordLength(data) == NonceUnits + Len(data) + TagUnits
RecordBytes(i, data) ==
    [j \in 1..RecordLength(data) |-> [record |-> i, at |-> j]]

\* Bytes open if they are one record, whole.
Opens(bytes) ==
    \E i \in DOMAIN sealed : bytes = RecordBytes(i, sealed[i])

-----------------------------------------------------------------------------

\* write(): full chunks leave the buffer.
WriteUnits(data) ==
    LET buffered == pending \o data
        full == Len(buffered) \div ChunkUnits
    IN  /\ ~finished
        /\ Len(plain) + Len(data) <= MaxStream
        /\ plain' = plain \o data
        /\ sealed' = sealed \o [i \in 1..full |->
                         SubSeq(buffered, (i - 1) * ChunkUnits + 1, i * ChunkUnits)]
        /\ pending' = SubSeq(buffered, full * ChunkUnits + 1, Len(buffered))
        /\ UNCHANGED <<clockVars, finished, unread, ready, got, opened>>

\* finish(): the rest is a record of its own, and the stream may be read.
FinishStream ==
    /\ ~finished
    /\ finished' = TRUE
    /\ sealed' = IF pending = <<>> THEN sealed ELSE Append(sealed, pending)
    /\ pending' = <<>>
    /\ unread' = FlattenSeq([i \in DOMAIN sealed' |-> RecordBytes(i, sealed'[i])])
    /\ UNCHANGED <<clockVars, plain, ready, got, opened>>

ReadBuffer == ChunkUnits + NonceUnits

\* Mutant: the unused end of the buffer is not cut off.
WholeBuffer(n) ==
    SubSeq(unread, 1, n) \o [j \in 1..(ReadBuffer - n) |-> Nothing]

Buffered(n) == SubSeq(unread, 1, n)

\* A read of the inner reader returns as much as fits, or less.  What does not
\* open is an error of this call only: the next one goes on behind it.
FillBuffer(n) ==
    /\ finished
    /\ ready = <<>> /\ unread # <<>>
    /\ n <= ReadBuffer /\ n <= Len(unread)
    /\ unread' = SubSeq(unread, n + 1, Len(unread))
    /\ LET shortened == got.shortened \/ (n < ReadBuffer /\ n < Len(unread))
       IN  IF Opens(Buffered(n))
           THEN /\ ready' = sealed[unread[1].record]
                /\ opened' = Append(opened, unread[1].record)
                /\ got' = [got EXCEPT !.shortened = shortened]
           ELSE /\ got' = [got EXCEPT !.error = TRUE, !.shortened = shortened]
                /\ UNCHANGED <<ready, opened>>
    /\ UNCHANGED <<clockVars, plain, pending, sealed, finished>>

\* read() hands out what is ready, as much as the caller has room for.
ReadUnits(n) ==
    /\ n \in 1..Len(ready)
    /\ got' = [got EXCEPT !.data = @ \o SubSeq(ready, 1, n)]
    /\ ready' = SubSeq(ready, n + 1, Len(ready))
    /\ UNCHANGED <<clockVars, plain, pending, sealed, finished, unread, opened>>

StreamNext ==
    \/ \E u, v \in Units : WriteUnits(<<u>>) \/ WriteUnits(<<u, v, u>>)
    \/ FinishStream
    \/ \E n \in 1..ReadBuffer : FillBuffer(n) \/ ReadUnits(n)

StreamSpec == ClockInit /\ StreamInit /\ [][StreamNext]_<<clockVars, streamVars>>

-----------------------------------------------------------------------------
(* Properties *)

Whole(data) == RecordLength(data) <= ReadBuffer

\* The reader returns whole records, none twice and none before an earlier one, in
\* whatever pieces it reads; until a call returns an error that is the beginning
\* of what was written, with nothing left out.  A stream of one record that fits
\* its buffer, read without short reads, it returns without an error and to the
\* end.
StreamFaithful ==
    /\ got.data \o ready = FlattenSeq([i \in DOMAIN opened |-> sealed[opened[i]]])
    /\ \A i, j \in DOMAIN opened : i < j => opened[i] < opened[j]
    /\ ~got.error => IsPrefix(got.data \o ready, plain)
    /\ Len(sealed) = 1 /\ Whole(sealed[1]) /\ ~got.shortened =>
          /\ ~got.error
          /\ finished /\ unread = <<>> => got.data \o ready = plain

=============================================================================
