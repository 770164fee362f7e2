------------------------------- MODULE Chunker -------------------------------
(***************************************************************************)
(* Content-defined chunking: where a file is cut, and what an edit of the  *)
(* file does to the cuts.  Positions count from 0, as in the code.         *)
(***************************************************************************)
EXTENDS Integers, Sequences, FiniteSetsExt

CONSTANTS ByteValues, \* values of bytes
          MinChunk,   \* min_chunk
          MaxChunk,   \* max_chunk
          Mask,       \* mask, of the form 2^k - 1
          HashWindow, \* window_size
          HashRange,  \* the hash wraps at it
          FileLength, \* of the first version of the file
          MaxChanges  \* bound on its edits

ASSUME ChunkerAssumption ==
    /\ ByteValues \subseteq Nat
    /\ MinChunk \in Nat /\ MaxChunk \in Nat \ {0} /\ MinChunk <= MaxChunk
    /\ Mask \in Nat /\ HashWindow \in Nat \ {0}
    /\ HashRange \in Nat \ {0} /\ HashRange % (Mask + 1) = 0
    /\ FileLength \in Nat /\ MaxChanges \in Nat

VARIABLES file,     \* the file
          previous, \* the version chunked before
          edits     \* how often it was edited

chunkerVars == <<file, previous, edits>>

ChunkerInit ==
    /\ file \in [1..FileLength -> ByteValues]
    /\ previous = file
    /\ edits = 0

Lesser(a, b) == IF a < b THEN a ELSE b

-----------------------------------------------------------------------------

\* Mutant: the hash starts to roll at once.
RollAtOnce(data, start) ==
    LET scanStart == start + MinChunk
        scanEnd == Lesser(start + MaxChunk, Len(data))
        hash[i \in scanStart..scanEnd] ==
            IF i = scanStart THEN 0
            ELSE (2 * (hash[i - 1] - (IF i > HashWindow THEN data[i - HashWindow] ELSE 0))
                    + data[i]) % HashRange
        cuts == {i \in (scanStart + 1)..scanEnd : hash[i] % (Mask + 1) = Mask}
    IN  IF Len(data) - start <= MinChunk THEN Len(data)
        ELSE IF cuts = {} THEN scanEnd ELSE Min(cuts)

\* hash[i] covers the bytes before i.  The first window is only added up; then
\* the byte that leaves it is subtracted as it is (its shift, a multiple of 8
\* that wraps in a byte, moves nothing) before the hash is doubled.
find_boundary(data, start) ==
    LET scanStart == start + MinChunk
        scanEnd == Lesser(start + MaxChunk, Len(data))
        initEnd == Lesser(scanStart + HashWindow, scanEnd)
        hash[i \in scanStart..scanEnd] ==
            IF i = scanStart THEN 0
            ELSE IF i <= initEnd THEN (2 * hash[i - 1] + data[i]) % HashRange
            ELSE (2 * (hash[i - 1] - data[i - HashWindow]) + data[i]) % HashRange
        cuts == {i \in initEnd..scanEnd : hash[i] % (Mask + 1) = Mask}
    IN  IF Len(data) - start <= MinChunk THEN Len(data)
        ELSE IF cuts = {} THEN scanEnd ELSE Min(cuts)

\* chunk_data: the ends of the chunks.
Ends(data) ==
    LET from[start \in 0..Len(data)] ==
            IF start = Len(data) THEN <<>>
            ELSE LET end == find_boundary(data, start) IN <<end>> \o from[end]
    IN  from[0]

\* The file is edited, bytes replaced by others, and chunked again.
chunk_file ==
    /\ edits < MaxChanges
    /\ edits' = edits + 1
    /\ previous' = file
    /\ \E at \in 0..Len(file) :
       \E gone \in 0..Lesser(1, Len(file) - at), byte \in {<<>>} \cup {<<b>> : b \in ByteValues} :
           file' = SubSeq(file, 1, at) \o byte \o SubSeq(file, at + gone + 1, Len(file))

ChunkerNext == chunk_file

ChunkerSpec == ChunkerInit /\ [][ChunkerNext]_chunkerVars

-----------------------------------------------------------------------------
(* Properties *)

Positions(data) == {0} \cup {Ends(data)[i] : i \in DOMAIN Ends(data)}

\* "Insertions or deletions only affect nearby chunk boundaries": from the first
\* cut that the new version shares with the old one, in bytes from the end and
\* with the same bytes behind it, all cuts are the old ones.
TailChunksShared ==
    \A i \in Positions(previous), j \in Positions(file) :
        SubSeq(previous, i + 1, Len(previous)) = SubSeq(file, j + 1, Len(file)) =>
            {k - i : k \in {p \in Positions(previous) : p >= i}}
                = {k - j : k \in {p \in Positions(file) : p >= j}}

=============================================================================
