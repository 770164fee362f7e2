------------------------------ MODULE AuditLog ------------------------------
(***************************************************************************)
(* The hash-chained audit log with rotation (openvault-core/src/audit.rs). *)
(* The server guards it with a lock (AuditService), so each call is one    *)
(* step.  Somebody may alter an entry in memory, which verify_chain is  *)
(* there to notice.                                                        *)
(***************************************************************************)
EXTENDS Integers, Sequences

CONSTANTS
    Bodies,      \* what an entry records: user, operation, target, result, metadata
    Characters,  \* of each body: the characters of its fields, one after the other
    MaxEntries,  \* RotationConfig.max_entries; 0: no limit
    MaxAppends,  \* bound: entries ever appended
    MaxDays,     \* bound: days
    Alterable    \* somebody alters an entry (one, once)

ASSUME RotationAssumption ==
    /\ MaxEntries \in Nat
    /\ MaxAppends \in Nat /\ MaxDays \in Nat /\ Alterable \in BOOLEAN

\* SHA-256 is injective, so a digest stands for all it was computed from: what was
\* hashed of the entries up to here.  The empty string is <<>>.  The fields of a body
\* are hashed without anything between them: what is hashed of two bodies whose
\* characters run together alike is the same.
Content == [seq : Nat, day : 0..MaxDays, characters : {Characters[b] : b \in Bodies}]
Digest == Seq(Content)

Entry == [seq : 1..MaxAppends, day : 0..MaxDays, body : Bodies, prev_hash : Digest,
          hash : Digest \ {<<>>}]

VARIABLES
    entries,   \* the active entries
    archived,  \* the segments rotated out
    next_seq,
    today,     \* the clock, in days
    altered    \* history: the seq of entries altered, when they had a successor, in
               \* what is hashed of them

vars == <<entries, archived, next_seq, today, altered>>

\* The log, its archive and its numbers hold values of their kinds: in particular append
\* gives every entry its hash.
TypeOK ==
    /\ entries \in Seq(Entry)
    /\ archived \in Seq(Seq(Entry))
    /\ next_seq \in 1..(MaxAppends + 1)
    /\ today \in 0..MaxDays
    /\ altered \subseteq 1..MaxAppends

Init ==
    /\ entries = <<>> /\ archived = <<>> /\ next_seq = 1
    /\ today = 0
    /\ altered = {}

-----------------------------------------------------------------------------
LastOf(s) == s[Len(s)]

\* SHA-256 over the fields of an entry and the hash of the one before.
Sha256(c, prev_hash) == Append(prev_hash, c)

\* What of an entry is hashed besides the hash of the one before.
HashedOf(e) == [seq |-> e.seq, day |-> e.day, characters |-> Characters[e.body]]

compute_hash(e) == Sha256(HashedOf(e), e.prev_hash)

\* An entry made now, to follow a given hash.
EntryAfter(prev_hash, b) ==
    LET e == [seq |-> next_seq, day |-> today, body |-> b] IN
    [seq |-> next_seq, day |-> today, body |-> b, prev_hash |-> prev_hash,
     hash |-> Sha256(HashedOf(e), prev_hash)]

NewOnFirst(b) == EntryAfter(IF entries = <<>> THEN <<>> ELSE entries[1].hash, b)

NewEntry(b) == EntryAfter(IF entries = <<>> THEN <<>> ELSE LastOf(entries).hash, b)

\* maybe_rotate: how many of the oldest entries are archived.
Cut(s) == IF MaxEntries > 0 /\ Len(s) > MaxEntries THEN Len(s) \div 2 ELSE 0

append(b) ==
    LET all == Append(entries, NewEntry(b))
        n == Cut(all)
    IN
    /\ next_seq <= MaxAppends
    /\ next_seq' = next_seq + 1
    /\ entries' = SubSeq(all, n + 1, Len(all))
    /\ archived' = IF n = 0 THEN archived ELSE Append(archived, SubSeq(all, 1, n))
    /\ UNCHANGED <<today, altered>>

\* Mutant: the link to the predecessor is not looked at.
VerifiedUnlinked(s) ==
    \A i \in DOMAIN s : s[i].hash = compute_hash(s[i])

\* verify_chain.
Verified(s) ==
    \A i \in DOMAIN s :
        /\ s[i].hash = compute_hash(s[i])
        /\ s[i].prev_hash = IF i = 1 THEN <<>> ELSE s[i - 1].hash

\* The contents of an entry are changed, its hash with them or not.  Characters may
\* move from one field to the next, so that the same is hashed as before.
Alter(i, b, rehash) ==
    LET e == [entries[i] EXCEPT !.body = b] IN
    /\ Alterable /\ altered = {}
    /\ i < Len(entries) /\ entries[i].body # b
    /\ entries' = [entries EXCEPT ![i] =
                      IF rehash THEN [e EXCEPT !.hash = compute_hash(e)] ELSE e]
    /\ altered' = IF HashedOf(e) = HashedOf(entries[i]) THEN {} ELSE {entries[i].seq}
    /\ UNCHANGED <<archived, next_seq, today>>

Tick ==
    /\ today < MaxDays
    /\ today' = today + 1
    /\ UNCHANGED <<entries, archived, next_seq, altered>>

Next ==
    \/ \E b \in Bodies : append(b)
    \/ \E i \in DOMAIN entries, b \in Bodies, rehash \in BOOLEAN : Alter(i, b, rehash)
    \/ Tick

Spec == Init /\ [][Next]_vars

-----------------------------------------------------------------------------
(* Properties.                                                             *)

Follows(e, d) == e.seq = d.seq + 1 /\ e.prev_hash = d.hash

Linked(s) == \A i \in 1..(Len(s) - 1) : Follows(s[i + 1], s[i])

Oldest == IF archived = <<>> THEN entries ELSE archived[1]

ActiveChained ==
    /\ Linked(entries)
    /\ IF entries = <<>> THEN next_seq = 1 ELSE LastOf(entries).seq = next_seq - 1
ArchiveChained ==
    /\ \A k \in 1..Len(archived) : archived[k] # <<>> /\ Linked(archived[k])
    /\ \A k \in 1..(Len(archived) - 1) : Follows(archived[k + 1][1], LastOf(archived[k]))
Joined ==
    /\ archived # <<>> => entries # <<>> /\ Follows(entries[1], LastOf(LastOf(archived)))
    /\ Oldest # <<>> => Oldest[1].seq = 1 /\ Oldest[1].prev_hash = <<>>
Chained == ActiveChained /\ ArchiveChained /\ Joined

\* Rotation loses nothing: as long as nobody altered what is hashed of an entry, the
\* archived segments one after the other, and then the active entries, are one chain of
\* the entries 1, 2, ..., next_seq - 1 (append, maybe_rotate).
OneChain == altered = {} => Chained

\* Rotation keeps the active part within max_entries and never empties it
\* (append unwraps the last entry after it).
ActiveBounded ==
    /\ MaxEntries > 0 => Len(entries) <= MaxEntries
    /\ next_seq > 1 => entries # <<>>

\* An entry altered, in what is hashed of it, behind an entry that is still there is
\* noticed, even when its hash is computed again, and however the log goes on.
AlterationSeen == altered # {} /\ Oldest = entries => ~Verified(entries)

\* A log nobody altered, or only so that the same characters are hashed, verifies
\* until its first rotation, ...
UnrotatedVerifies == altered = {} /\ archived = <<>> => Verified(entries)

\* What verify_chain tells, both ways, until the first rotation: it notices every
\* alteration of what is hashed of an entry with a successor, and no other.
VerificationJudges == AlterationSeen /\ UnrotatedVerifies

\* ... and after it: verify_chain asks for the entire chain.
UntamperedVerifies == altered = {} => Verified(entries)

=============================================================================
