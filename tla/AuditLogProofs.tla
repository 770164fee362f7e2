--------------------------- MODULE AuditLogProofs ---------------------------
(***************************************************************************)
(* Theorems about AuditLog for every choice of its constants.              *)
(***************************************************************************)
EXTENDS AuditLog, SequenceTheorems, TLAPS

\* The entry that append makes follows the last one of the log.
LEMMA NewEntryType ==
    ASSUME TypeOK, NEW b \in Bodies, next_seq <= MaxAppends
    PROVE  /\ NewEntry(b) \in Entry
           /\ NewEntry(b).seq = next_seq
           /\ NewEntry(b).prev_hash = IF entries = <<>> THEN <<>> ELSE LastOf(entries).hash
  <1> DEFINE prev == IF entries = <<>> THEN <<>> ELSE LastOf(entries).hash
             c == HashedOf([seq |-> next_seq, day |-> today, body |-> b])
  <1>1. c \in Content
    BY RotationAssumption DEF TypeOK, Content, HashedOf
  <1>2. prev \in Digest
    <2>1. CASE entries = <<>>
      BY <2>1 DEF Digest
    <2>2. CASE entries # <<>>
      <3>1. LastOf(entries) \in Entry
        BY <2>2, EmptySeq, ElementOfSeq DEF TypeOK, LastOf
      <3>. QED  BY <2>2, <3>1 DEF Entry
    <2>. QED  BY <2>1, <2>2
  <1>3. Append(prev, c) \in Digest \ {<<>>}
    <2>. HIDE DEF prev, c
    <2>. QED  BY <1>1, <1>2, AppendProperties DEF Digest
  <1>4. NewEntry(b) = [seq |-> next_seq, day |-> today, body |-> b, prev_hash |-> prev,
                       hash |-> Append(prev, c)]
    BY DEF NewEntry, EntryAfter, Sha256
  <1>5. next_seq \in 1..MaxAppends /\ today \in 0..MaxDays
    BY RotationAssumption DEF TypeOK
  <1>. HIDE DEF prev, c
  <1>6. NewEntry(b) \in Entry
    BY <1>2, <1>3, <1>4, <1>5 DEF Entry
  <1>. QED  BY <1>4, <1>6 DEF prev

\* What rotation cuts off is shorter than the log, and what is left fits.
LEMMA CutBounds ==
    ASSUME NEW S, NEW s \in Seq(S), s # <<>>
    PROVE  /\ Cut(s) \in Nat /\ Cut(s) < Len(s)
           /\ MaxEntries > 0 /\ Len(s) <= MaxEntries + 1 => Len(s) - Cut(s) <= MaxEntries
  <1>1. Len(s) \in Nat /\ Len(s) > 0
    BY EmptySeq
  <1>. QED  BY <1>1, RotationAssumption DEF Cut

\* Types and the bound on the active part, of the log with one more entry.
LEMMA AppendType ==
    ASSUME TypeOK, NEW b \in Bodies, append(b)
    PROVE  TypeOK'
  <1> DEFINE all == Append(entries, NewEntry(b))
             n == Cut(all)
  <1>1. all \in Seq(Entry) /\ Len(all) = Len(entries) + 1
    BY NewEntryType, AppendProperties DEF TypeOK, append
  <1>2. all # <<>>
    BY <1>1, EmptySeq DEF TypeOK
  <1>3. n \in Nat /\ n < Len(all)
    BY <1>1, <1>2, CutBounds
  <1>. HIDE DEF all, n
  <1>4. \A i \in 1..Len(all) : all[i] \in Entry
    BY <1>1, ElementOfSeq
  <1>5. Len(all) \in Nat
    BY <1>1
  <1>6. SubSeq(all, n + 1, Len(all)) \in Seq(Entry)
    BY <1>3, <1>4, <1>5, SubSeqProperties
  <1>7. SubSeq(all, 1, n) \in Seq(Entry)
    BY <1>3, <1>4, <1>5, SubSeqProperties
  <1>8. /\ entries' = SubSeq(all, n + 1, Len(all))
        /\ archived' = IF n = 0 THEN archived ELSE Append(archived, SubSeq(all, 1, n))
        /\ next_seq <= MaxAppends /\ next_seq' = next_seq + 1
        /\ UNCHANGED <<today, altered>>
    BY DEF append, all, n
  <1>9. archived' \in Seq(Seq(Entry))
    BY <1>7, <1>8, AppendProperties DEF TypeOK
  <1>. QED  BY <1>6, <1>8, <1>9, RotationAssumption DEF TypeOK

\* An alteration leaves an entry.
LEMMA AlterType ==
    ASSUME TypeOK, NEW i \in DOMAIN entries, NEW b \in Bodies, NEW rehash \in BOOLEAN,
           Alter(i, b, rehash)
    PROVE  TypeOK'
  <1> DEFINE d == entries[i]
             e == [d EXCEPT !.body = b]
             h == compute_hash(e)
             e1 == [e EXCEPT !.hash = h]
  <1>1. i \in 1..Len(entries) /\ d \in Entry
    BY LenProperties, ElementOfSeq DEF TypeOK
  <1>2. e \in Entry /\ e.prev_hash \in Digest
    <2>. HIDE DEF d
    <2>. QED  BY <1>1 DEF Entry
  <1>3. HashedOf(e) \in Content
    <2>. HIDE DEF e
    <2>. QED  BY <1>2, RotationAssumption DEF Entry, Content, HashedOf
  <1>4. h \in Digest \ {<<>>}
    <2>. HIDE DEF e
    <2>. QED  BY <1>2, <1>3, AppendProperties DEF compute_hash, Sha256, Digest
  <1>5. e1 \in Entry
    <2>. HIDE DEF e, h
    <2>. QED  BY <1>2, <1>4 DEF Entry
  <1>6. entries' = [entries EXCEPT ![i] = e1] \/ entries' = [entries EXCEPT ![i] = e]
    BY DEF Alter
  <1>. HIDE DEF e, e1
  <1>7. entries' \in Seq(Entry)
    <2>1. entries \in Seq(Entry) /\ i \in 1..Len(entries)
      BY <1>1 DEF TypeOK
    <2>2. CASE entries' = [entries EXCEPT ![i] = e1]
      BY <1>5, <2>1, <2>2, ExceptSeq
    <2>3. CASE entries' = [entries EXCEPT ![i] = e]
      BY <1>2, <2>1, <2>3, ExceptSeq
    <2>. QED  BY <1>6, <2>2, <2>3
  <1>8. d.seq \in 1..MaxAppends
    BY <1>1 DEF Entry
  <1>9. altered' \subseteq 1..MaxAppends
    BY <1>8 DEF Alter
  <1>. QED  BY <1>7, <1>9 DEF Alter, TypeOK

\* The log, its archive and their numbering only ever hold values of their
\* declared kinds; in particular every entry has a hash.
THEOREM TypeCorrect == Spec => []TypeOK
  <1>1. Init => TypeOK
    BY RotationAssumption, EmptySeq DEF Init, TypeOK
  <1>2. TypeOK /\ [Next]_vars => TypeOK'
    <2>. SUFFICES ASSUME TypeOK, [Next]_vars PROVE TypeOK'
      OBVIOUS
    <2>1. CASE Tick
      BY <2>1, RotationAssumption DEF Tick, TypeOK
    <2>2. CASE UNCHANGED vars
      BY <2>2 DEF vars, TypeOK
    <2>. QED  BY <2>1, <2>2, AppendType, AlterType DEF Next
  <1>. QED  BY <1>1, <1>2, PTL DEF Spec

-----------------------------------------------------------------------------
(* Rotation.                                                               *)

\* A chain with one more link is a chain.
LEMMA AppendLinked ==
    ASSUME NEW s \in Seq(Entry), Linked(s), NEW e \in Entry,
           s # <<>> => Follows(e, LastOf(s))
    PROVE  Linked(Append(s, e))
  <1> DEFINE t == Append(s, e)
  <1>1. /\ Len(t) = Len(s) + 1 /\ Len(s) \in Nat
        /\ \A i \in 1..Len(s) : t[i] = s[i]
        /\ t[Len(s) + 1] = e
    BY AppendProperties
  <1>2. ASSUME NEW i \in 1..(Len(t) - 1)
        PROVE  Follows(t[i + 1], t[i])
    <2>. HIDE DEF t
    <2>1. CASE i < Len(s)
      BY <1>1, <1>2, <2>1 DEF Linked
    <2>2. CASE i = Len(s)
      <3>1. s # <<>>
        BY <1>1, <2>2, EmptySeq
      <3>. QED  BY <1>1, <2>2, <3>1 DEF LastOf
    <2>. QED  BY <1>1, <2>1, <2>2
  <1>. QED  BY <1>2 DEF Linked

\* Both parts of a chain that is cut are chains, and the second follows the first.
LEMMA CutLinked ==
    ASSUME NEW s \in Seq(Entry), Linked(s), NEW n \in Nat, n < Len(s)
    PROVE  LET old == SubSeq(s, 1, n)
               new == SubSeq(s, n + 1, Len(s))
           IN  /\ Linked(old) /\ Linked(new)
               /\ Len(old) = n /\ Len(new) = Len(s) - n
               /\ new # <<>> /\ LastOf(new) = LastOf(s)
               /\ n > 0 => old # <<>> /\ old[1] = s[1] /\ Follows(new[1], LastOf(old))
               /\ n = 0 => new[1] = s[1]
  <1> DEFINE old == SubSeq(s, 1, n)
             new == SubSeq(s, n + 1, Len(s))
  <1>1. Len(s) \in Nat /\ \A i \in 1..Len(s) : s[i] \in Entry
    BY ElementOfSeq
  <1>2. old \in Seq(Entry) /\ Len(old) = n /\ \A i \in 1..n : old[i] = s[i]
    BY <1>1, SubSeqProperties
  <1>3. /\ new \in Seq(Entry) /\ Len(new) = Len(s) - n
        /\ \A i \in 1..(Len(s) - n) : new[i] = s[n + i]
    <2>1. \A i \in (n + 1)..Len(s) : s[i] \in Entry
      BY <1>1
    <2>2. \A i \in 1..(Len(s) - (n + 1) + 1) : new[i] = s[(n + 1) + i - 1]
      BY <1>1, <2>1, SubSeqProperties
    <2>3. new \in Seq(Entry) /\ Len(new) = Len(s) - n
      BY <1>1, <2>1, SubSeqProperties
    <2>. HIDE DEF new
    <2>. QED  BY <1>1, <2>2, <2>3
  <1>. HIDE DEF old, new
  <1>4. Linked(old) /\ Linked(new)
    <2>1. ASSUME NEW i \in 1..(Len(old) - 1)
          PROVE  Follows(old[i + 1], old[i])
      <3>1. old[i] = s[i] /\ old[i + 1] = s[i + 1]
        BY <1>2
      <3>2. i \in 1..(Len(s) - 1)
        BY <1>1, <1>2
      <3>. QED  BY <3>1, <3>2 DEF Linked
    <2>2. ASSUME NEW i \in 1..(Len(new) - 1)
          PROVE  Follows(new[i + 1], new[i])
      <3>1. new[i] = s[n + i] /\ new[i + 1] = s[n + (i + 1)]
        <4>1. i \in 1..(Len(s) - n) /\ i + 1 \in 1..(Len(s) - n)
          BY <1>1, <1>3
        <4>. QED  BY <1>3, <4>1
      <3>2. n + i \in 1..(Len(s) - 1) /\ n + (i + 1) = (n + i) + 1
        BY <1>1, <1>3
      <3>3. Follows(s[(n + i) + 1], s[n + i])
        BY <3>2 DEF Linked
      <3>. QED  BY <3>1, <3>2, <3>3
    <2>. QED  BY <2>1, <2>2 DEF Linked
  <1>5. new # <<>> /\ LastOf(new) = LastOf(s)
    BY <1>1, <1>3, EmptySeq DEF LastOf
  <1>6. ASSUME n > 0
        PROVE  old # <<>> /\ old[1] = s[1] /\ Follows(new[1], LastOf(old))
    BY <1>1, <1>2, <1>3, <1>6, EmptySeq DEF LastOf, Linked
  <1>7. n = 0 => new[1] = s[1]
    BY <1>1, <1>3
  <1>. QED  BY <1>2, <1>3, <1>4, <1>5, <1>6, <1>7 DEF old, new

\* The log with one more entry, whether or not it is rotated, is one chain.
LEMMA AppendChained ==
    ASSUME TypeOK, Chained, NEW b \in Bodies, append(b)
    PROVE  Chained'
  <1> DEFINE e == NewEntry(b)
             all == Append(entries, e)
             n == Cut(all)
             old == SubSeq(all, 1, n)
             new == SubSeq(all, n + 1, Len(all))
  <1>1. /\ e \in Entry /\ e.seq = next_seq /\ next_seq \in Nat
        /\ e.prev_hash = IF entries = <<>> THEN <<>> ELSE LastOf(entries).hash
    BY NewEntryType DEF append, TypeOK
  <1>2. entries # <<>> => Follows(e, LastOf(entries))
    BY <1>1, RotationAssumption DEF Chained, ActiveChained, Follows, TypeOK
  <1>. HIDE DEF e
  <1>3. /\ all \in Seq(Entry) /\ Len(all) = Len(entries) + 1 /\ all # <<>>
        /\ all[Len(all)] = e
        /\ entries # <<>> => all[1] = entries[1]
        /\ entries = <<>> => all[1] = e
    <2>1. Len(entries) \in Nat /\ (entries # <<>> => Len(entries) > 0)
          /\ (entries = <<>> => Len(entries) = 0)
      BY EmptySeq DEF TypeOK
    <2>. QED  BY <1>1, <2>1, AppendProperties DEF TypeOK
  <1>4. Linked(all)
    BY <1>1, <1>2, AppendLinked DEF TypeOK, Chained, ActiveChained
  <1>5. n \in Nat /\ n < Len(all)
    BY <1>3, CutBounds
  <1>. HIDE DEF all, n
  <1>6. /\ Linked(old) /\ Linked(new)
        /\ new # <<>> /\ LastOf(new) = e
        /\ n > 0 => old # <<>> /\ old[1] = all[1] /\ Follows(new[1], LastOf(old))
        /\ n = 0 => new[1] = all[1]
    BY <1>3, <1>4, <1>5, CutLinked DEF LastOf
  <1>7. /\ entries' = new /\ next_seq' = next_seq + 1
        /\ archived' = IF n = 0 THEN archived ELSE Append(archived, old)
    BY DEF append, all, n, e
  <1>8. old \in Seq(Entry)
    <2>1. \A i \in 1..n : all[i] \in Entry
      BY <1>3, <1>5, ElementOfSeq
    <2>. QED  BY <1>5, <2>1, SubSeqProperties
  <1>. HIDE DEF old, new
  <1>9. ActiveChained'
    BY <1>1, <1>6, <1>7 DEF ActiveChained
  <1>10. \* What all begins with, and what comes before it.
        /\ archived = <<>> => all[1].seq = 1 /\ all[1].prev_hash = <<>>
        /\ archived # <<>> => Follows(all[1], LastOf(LastOf(archived)))
    BY <1>1, <1>3 DEF Chained, ActiveChained, Joined, Oldest
  <1>11. CASE n = 0
    <2>1. ArchiveChained'
      BY <1>7, <1>11 DEF Chained, ArchiveChained
    <2>2. Joined'
      BY <1>6, <1>7, <1>10, <1>11 DEF Chained, Joined, Oldest
    <2>. QED  BY <1>9, <2>1, <2>2 DEF Chained
  <1>12. CASE n # 0
    <2>1. /\ archived \in Seq(Seq(Entry)) /\ archived' \in Seq(Seq(Entry))
          /\ archived' # <<>> /\ Len(archived) \in Nat
          /\ Len(archived') = Len(archived) + 1
          /\ \A k \in 1..Len(archived) : archived'[k] = archived[k]
          /\ archived'[Len(archived) + 1] = old
      BY <1>7, <1>8, <1>12, AppendProperties DEF TypeOK
    <2>2. old # <<>> /\ old[1] = all[1] /\ Follows(new[1], LastOf(old))
      BY <1>5, <1>6, <1>12
    <2>3. archived = <<>> <=> Len(archived) = 0
      BY <2>1, EmptySeq
    <2>4. ArchiveChained'
      <3>1. \A k \in 1..Len(archived') : archived'[k] # <<>> /\ Linked(archived'[k])
        <4>1. ASSUME NEW k \in 1..Len(archived')
              PROVE  archived'[k] # <<>> /\ Linked(archived'[k])
          <5>1. CASE k \in 1..Len(archived)
            BY <2>1, <5>1 DEF Chained, ArchiveChained
          <5>2. CASE k = Len(archived) + 1
            BY <1>6, <2>1, <2>2, <5>2
          <5>. QED  BY <2>1, <4>1, <5>1, <5>2
        <4>. QED  BY <4>1
      <3>2. ASSUME NEW k \in 1..(Len(archived') - 1)
            PROVE  Follows(archived'[k + 1][1], LastOf(archived'[k]))
        <4>1. CASE k < Len(archived)
          <5>1. archived'[k] = archived[k] /\ archived'[k + 1] = archived[k + 1]
            <6>1. k \in 1..Len(archived) /\ k + 1 \in 1..Len(archived)
              BY <2>1, <3>2, <4>1
            <6>. QED  BY <2>1, <6>1
          <5>2. k \in 1..(Len(archived) - 1)
            BY <2>1, <3>2, <4>1
          <5>. QED  BY <5>1, <5>2 DEF Chained, ArchiveChained
        <4>2. CASE k = Len(archived)
          <5>1. archived # <<>> /\ archived'[k] = LastOf(archived) /\ archived'[k + 1] = old
            BY <2>1, <2>3, <3>2, <4>2 DEF LastOf
          <5>. QED  BY <1>10, <2>2, <5>1
        <4>. QED  BY <2>1, <4>1, <4>2
      <3>. QED  BY <3>1, <3>2 DEF ArchiveChained
    <2>5. Joined'
      <3>1. LastOf(archived') = old
        BY <2>1 DEF LastOf
      <3>2. Oldest' = IF archived = <<>> THEN old ELSE archived[1]
        BY <2>1, <2>3 DEF Oldest
      <3>. QED  BY <1>6, <1>7, <1>10, <2>1, <2>2, <3>1, <3>2 DEF Chained, Joined, Oldest
    <2>. QED  BY <1>9, <2>4, <2>5 DEF Chained
  <1>. QED  BY <1>11, <1>12

\* The active part of the log never exceeds max_entries, and append finds the
\* entry it returns still there after the rotation.
THEOREM ActiveStaysBounded == Spec => []ActiveBounded
  <1>1. Init => ActiveBounded
    BY RotationAssumption, EmptySeq DEF Init, ActiveBounded
  <1>2. TypeOK /\ ActiveBounded /\ [Next]_vars => ActiveBounded'
    <2>. SUFFICES ASSUME TypeOK, ActiveBounded, [Next]_vars PROVE ActiveBounded'
      OBVIOUS
    <2>1. CASE UNCHANGED <<entries, next_seq>>
      BY <2>1 DEF ActiveBounded
    <2>2. ASSUME NEW b \in Bodies, append(b)
          PROVE  ActiveBounded'
      <3> DEFINE all == Append(entries, NewEntry(b))
                 n == Cut(all)
      <3>1. NewEntry(b) \in Entry
        BY <2>2, NewEntryType DEF append
      <3>2. /\ all \in Seq(Entry) /\ Len(all) = Len(entries) + 1
            /\ Len(entries) \in Nat /\ all # <<>>
        BY <3>1, AppendProperties DEF TypeOK
      <3>3. /\ n \in Nat /\ n < Len(all)
            /\ MaxEntries > 0 => Len(all) - n <= MaxEntries
        <4>. HIDE DEF all
        <4>1. /\ Cut(all) \in Nat /\ Cut(all) < Len(all)
              /\ MaxEntries > 0 /\ Len(all) <= MaxEntries + 1 => Len(all) - Cut(all) <= MaxEntries
          BY <3>2, CutBounds
        <4>2. MaxEntries > 0 => Len(all) <= MaxEntries + 1
          BY <3>2, RotationAssumption DEF ActiveBounded
        <4>. QED  BY <4>1, <4>2
      <3>4. entries' = SubSeq(all, n + 1, Len(all))
        BY <2>2 DEF append
      <3>. HIDE DEF all, n
      <3>5. \A i \in (n + 1)..Len(all) : all[i] \in Entry
        BY <3>2, <3>3, ElementOfSeq
      <3>6. entries' \in Seq(Entry) /\ Len(entries') = Len(all) - n
        BY <3>2, <3>3, <3>4, <3>5, SubSeqProperties
      <3>. QED  BY <3>2, <3>3, <3>6, EmptySeq DEF ActiveBounded
    <2>3. ASSUME NEW i \in DOMAIN entries, NEW b \in Bodies, NEW rehash \in BOOLEAN,
                 Alter(i, b, rehash)
          PROVE  ActiveBounded'
      <3>1. PICK e : entries' = [entries EXCEPT ![i] = e]
        BY <2>3 DEF Alter
      <3>2. Len(entries') = Len(entries) /\ entries # <<>> /\ next_seq' = next_seq
        BY <2>3, <3>1, EmptySeq DEF Alter, TypeOK
      <3>3. entries' # <<>>
        BY <2>3, <3>2, EmptySeq, AlterType DEF TypeOK
      <3>. QED  BY <3>2, <3>3 DEF ActiveBounded
    <2>. QED  BY <2>1, <2>2, <2>3 DEF Next, Tick, vars
  <1>. QED  BY <1>1, <1>2, TypeCorrect, PTL DEF Spec


-----------------------------------------------------------------------------
(* Verification.                                                           *)

\* Numbers only grow along the log, and no entry is as old as the first one archived.
Ascending(s) == \A i, k \in 1..Len(s) : i < k => s[i].seq < s[k].seq

NumberedInv ==
    /\ Ascending(entries)
    /\ \A i \in 1..Len(entries) : entries[i].seq < next_seq
    /\ archived # <<>> =>
           /\ archived[1] # <<>> /\ archived[1][1].seq < next_seq
           /\ \A i \in 1..Len(entries) : archived[1][1].seq < entries[i].seq

\* An entry is what its hash says, and its successor knows that hash.
Honest(s) == \A i \in 1..Len(s) : s[i].hash = compute_hash(s[i])
Broken(s, i) == s[i].hash # compute_hash(s[i]) \/ s[i + 1].prev_hash # s[i].hash

HashInv ==
    /\ altered = {} => Honest(entries)
    /\ altered # {} /\ archived = <<>> => \E i \in 1..(Len(entries) - 1) : Broken(entries, i)

LogInv == NumberedInv /\ HashInv

\* What append leaves of the entries: those that are not archived, and the new one.
LEMMA Appended ==
    ASSUME TypeOK, NEW b \in Bodies, append(b)
    PROVE  \E n \in 0..Len(entries) :
               /\ Len(entries') = Len(entries) + 1 - n
               /\ \A i \in 1..Len(entries') :
                      entries'[i] = IF n + i <= Len(entries) THEN entries[n + i]
                                    ELSE NewEntry(b)
               /\ n = 0 => archived' = archived
               /\ n # 0 => /\ archived' # <<>>
                           /\ archived # <<>> => archived'[1] = archived[1]
                           /\ archived = <<>> =>
                                  archived'[1] # <<>> /\ archived'[1][1] = entries[1]
  <1> DEFINE e == NewEntry(b)
             all == Append(entries, e)
             n == Cut(all)
             old == SubSeq(all, 1, n)
             new == SubSeq(all, n + 1, Len(all))
  <1>1. e \in Entry
    BY NewEntryType DEF append
  <1>2. /\ all \in Seq(Entry) /\ Len(all) = Len(entries) + 1 /\ Len(entries) \in Nat
        /\ \A i \in 1..Len(entries) : all[i] = entries[i]
        /\ all[Len(entries) + 1] = e /\ all # <<>>
    BY <1>1, AppendProperties DEF TypeOK
  <1>3. /\ entries' = new
        /\ archived' = IF n = 0 THEN archived ELSE Append(archived, old)
    BY DEF append
  <1>. HIDE DEF all, e
  <1>4. n \in Nat /\ n < Len(all)
    BY <1>2, CutBounds
  <1>. HIDE DEF n
  <1>5. \A i \in 1..Len(all) : all[i] \in Entry
    BY <1>2, ElementOfSeq
  <1>6. old \in Seq(Entry) /\ Len(old) = n /\ \A i \in 1..n : old[i] = all[i]
    BY <1>2, <1>4, <1>5, SubSeqProperties
  <1>7. /\ Len(new) = Len(all) - n
        /\ \A i \in 1..(Len(all) - n) : new[i] = all[n + i]
    <2>1. \A i \in (n + 1)..Len(all) : all[i] \in Entry
      BY <1>2, <1>4, <1>5
    <2>2. \A i \in 1..(Len(all) - (n + 1) + 1) : new[i] = all[(n + 1) + i - 1]
      BY <1>2, <1>4, <2>1, SubSeqProperties
    <2>3. new \in Seq(Entry) /\ Len(new) = Len(all) - n
      BY <1>2, <1>4, <2>1, SubSeqProperties
    <2>. HIDE DEF new
    <2>. QED  BY <1>2, <1>4, <2>2, <2>3
  <1>. HIDE DEF old, new
  <1>8. n \in 0..Len(entries) /\ Len(entries') = Len(entries) + 1 - n
    BY <1>2, <1>3, <1>4, <1>7
  <1>9. \A i \in 1..Len(entries') :
            entries'[i] = IF n + i <= Len(entries) THEN entries[n + i] ELSE e
    <2>. SUFFICES ASSUME NEW i \in 1..Len(entries')
                  PROVE  entries'[i] = IF n + i <= Len(entries) THEN entries[n + i] ELSE e
      OBVIOUS
    <2>1. entries'[i] = all[n + i]
      BY <1>2, <1>3, <1>4, <1>7
    <2>2. n + i \in 1..(Len(entries) + 1)
      BY <1>2, <1>3, <1>4, <1>7
    <2>. QED  BY <1>2, <2>1, <2>2
  <1>10. n # 0 =>
            /\ archived' # <<>>
            /\ archived # <<>> => archived'[1] = archived[1]
            /\ archived = <<>> => archived'[1] # <<>> /\ archived'[1][1] = entries[1]
    <2>. SUFFICES ASSUME n # 0
                  PROVE  /\ archived' # <<>>
                         /\ archived # <<>> => archived'[1] = archived[1]
                         /\ archived = <<>> => archived'[1] # <<>> /\ archived'[1][1] = entries[1]
      OBVIOUS
    <2>1. /\ Len(archived) \in Nat /\ archived' # <<>>
          /\ \A k \in 1..Len(archived) : archived'[k] = archived[k]
          /\ archived'[Len(archived) + 1] = old
          /\ archived = <<>> <=> Len(archived) = 0
      BY <1>3, <1>6, AppendProperties, EmptySeq DEF TypeOK
    <2>2. old # <<>> /\ old[1] = entries[1]
      <3>1. 1 \in 1..n /\ 1 \in 1..Len(entries)
        BY <1>2, <1>4
      <3>. QED  BY <1>2, <1>4, <1>6, <3>1, EmptySeq
    <2>. QED  BY <2>1, <2>2
  <1>. QED  BY <1>3, <1>8, <1>9, <1>10 DEF e

\* The numbers and the hashes of the log with one more entry.
LEMMA AppendVerifies ==
    ASSUME TypeOK, NumberedInv, HashInv, NEW b \in Bodies, append(b)
    PROVE  NumberedInv' /\ HashInv'
  <1>1. PICK n \in 0..Len(entries) :
            /\ Len(entries') = Len(entries) + 1 - n
            /\ \A i \in 1..Len(entries') :
                   entries'[i] = IF n + i <= Len(entries) THEN entries[n + i] ELSE NewEntry(b)
            /\ n = 0 => archived' = archived
            /\ n # 0 => /\ archived' # <<>>
                        /\ archived # <<>> => archived'[1] = archived[1]
                        /\ archived = <<>> =>
                               archived'[1] # <<>> /\ archived'[1][1] = entries[1]
    BY Appended
  <1>2. /\ NewEntry(b).seq = next_seq /\ next_seq' = next_seq + 1 /\ UNCHANGED altered
        /\ next_seq \in Nat /\ Len(entries) \in Nat
    BY NewEntryType DEF append, TypeOK
  <1>3. NewEntry(b).hash = compute_hash(NewEntry(b))
    BY DEF NewEntry, EntryAfter, compute_hash, HashedOf
  <1> DEFINE e == NewEntry(b)
  <1>. HIDE DEF e
  <1>4. \A i \in 1..Len(entries) : entries[i].seq \in Nat /\ entries[i].seq < next_seq
    <2>1. \A i \in 1..Len(entries) : entries[i] \in Entry
      BY ElementOfSeq DEF TypeOK
    <2>. QED  BY <2>1 DEF Entry, NumberedInv
  <1>5. Ascending(entries)'
    <2>. SUFFICES ASSUME NEW i \in 1..Len(entries'), NEW k \in 1..Len(entries'), i < k
                  PROVE  entries'[i].seq < entries'[k].seq
      BY DEF Ascending
    <2>1. n + i \in 1..Len(entries) /\ n + k <= Len(entries) + 1 /\ n + i < n + k
      BY <1>1, <1>2
    <2>2. entries'[i] = entries[n + i]
      BY <1>1, <2>1
    <2>3. CASE n + k <= Len(entries)
      <3>1. entries'[k] = entries[n + k] /\ n + k \in 1..Len(entries)
        BY <1>1, <1>2, <2>1, <2>3
      <3>. QED  BY <2>1, <2>2, <3>1 DEF NumberedInv, Ascending
    <2>4. CASE n + k > Len(entries)
      <3>1. entries'[k] = e
        BY <1>1, <1>2, <2>4 DEF e
      <3>. QED  BY <1>2, <1>4, <2>1, <2>2, <3>1 DEF e
    <2>. QED  BY <1>2, <2>3, <2>4
  <1>6. \A i \in 1..Len(entries') : entries'[i].seq < next_seq'
    <2>. SUFFICES ASSUME NEW i \in 1..Len(entries') PROVE entries'[i].seq < next_seq'
      OBVIOUS
    <2>1. CASE n + i <= Len(entries)
      <3>1. n + i \in 1..Len(entries) /\ entries'[i] = entries[n + i]
        BY <1>1, <1>2, <2>1
      <3>. QED  BY <1>2, <1>4, <3>1
    <2>2. CASE n + i > Len(entries)
      <3>1. entries'[i] = e
        BY <1>1, <1>2, <2>2 DEF e
      <3>. QED  BY <1>2, <3>1 DEF e
    <2>. QED  BY <1>1, <1>2, <2>1, <2>2
  <1>7. ASSUME archived' # <<>>
        PROVE  /\ archived'[1] # <<>> /\ archived'[1][1].seq < next_seq'
               /\ \A i \in 1..Len(entries') : archived'[1][1].seq < entries'[i].seq
    <2>1. CASE archived # <<>>
      <3>1. archived'[1] = archived[1]
        BY <1>1, <2>1
      <3>2. archived[1] # <<>> /\ archived[1][1].seq < next_seq /\ archived[1][1].seq \in Nat
        <4>1. archived[1] \in Seq(Entry) /\ archived[1] # <<>>
          BY <2>1, EmptySeq, ElementOfSeq DEF TypeOK, NumberedInv
        <4>2. archived[1][1] \in Entry
          BY <4>1, EmptySeq, ElementOfSeq
        <4>. QED  BY <2>1, <4>1, <4>2 DEF NumberedInv, Entry
      <3>3. ASSUME NEW i \in 1..Len(entries')
            PROVE  archived[1][1].seq < entries'[i].seq
        <4>1. CASE n + i <= Len(entries)
          <5>1. n + i \in 1..Len(entries) /\ entries'[i] = entries[n + i]
            BY <1>1, <1>2, <4>1
          <5>. QED  BY <2>1, <5>1 DEF NumberedInv
        <4>2. CASE n + i > Len(entries)
          <5>1. entries'[i] = e
            BY <1>1, <1>2, <4>2 DEF e
          <5>. QED  BY <1>2, <3>2, <5>1 DEF e
        <4>. QED  BY <1>1, <1>2, <4>1, <4>2
      <3>. QED  BY <1>2, <3>1, <3>2, <3>3
    <2>2. CASE archived = <<>>
      <3>1. n # 0 /\ archived'[1] # <<>> /\ archived'[1][1] = entries[1] /\ 1 \in 1..Len(entries)
        BY <1>1, <1>2, <1>7, <2>2
      <3>2. ASSUME NEW i \in 1..Len(entries')
            PROVE  entries[1].seq < entries'[i].seq
        <4>1. CASE n + i <= Len(entries)
          <5>1. n + i \in 1..Len(entries) /\ entries'[i] = entries[n + i] /\ 1 < n + i
            BY <1>1, <1>2, <3>1, <4>1
          <5>. QED  BY <3>1, <5>1 DEF NumberedInv, Ascending
        <4>2. CASE n + i > Len(entries)
          <5>1. entries'[i] = e
            BY <1>1, <1>2, <4>2 DEF e
          <5>. QED  BY <1>2, <1>4, <3>1, <5>1 DEF e
        <4>. QED  BY <1>1, <1>2, <4>1, <4>2
      <3>. QED  BY <1>2, <1>4, <3>1, <3>2
    <2>. QED  BY <2>1, <2>2
  <1>8. ASSUME altered' = {}, NEW i \in 1..Len(entries')
        PROVE  entries'[i].hash = compute_hash(entries'[i])
    <2>1. CASE n + i <= Len(entries)
      <3>1. n + i \in 1..Len(entries) /\ entries'[i] = entries[n + i]
        BY <1>1, <1>2, <2>1
      <3>. QED  BY <1>2, <1>8, <3>1 DEF HashInv, Honest
    <2>2. CASE n + i > Len(entries)
      BY <1>1, <1>2, <1>3, <2>2
    <2>. QED  BY <1>1, <1>2, <2>1, <2>2
  <1>9. ASSUME altered' # {}, archived' = <<>>
        PROVE  \E i \in 1..(Len(entries') - 1) : Broken(entries', i)
    <2>1. n = 0 /\ archived = <<>>
      BY <1>1, <1>9
    <2>2. PICK i \in 1..(Len(entries) - 1) : Broken(entries, i)
      BY <1>2, <1>9, <2>1 DEF HashInv
    <2>3. /\ i \in 1..(Len(entries') - 1)
          /\ entries'[i] = entries[i] /\ entries'[i + 1] = entries[i + 1]
      BY <1>1, <1>2, <2>1
    <2>. QED  BY <2>2, <2>3 DEF Broken
  <1>10. NumberedInv'
    BY <1>5, <1>6, <1>7 DEF NumberedInv
  <1>11. HashInv'
    <2>1. Honest(entries') \/ altered' # {}
      BY <1>8 DEF Honest
    <2>2. altered' = {} => Honest(entries)'
      BY <2>1 DEF Honest, compute_hash, Sha256, HashedOf
    <2>3. \A i \in 1..(Len(entries') - 1) : Broken(entries', i) => Broken(entries, i)'
      BY DEF Broken, compute_hash, Sha256, HashedOf
    <2>. QED  BY <1>9, <2>2, <2>3 DEF HashInv
  <1>. QED  BY <1>10, <1>11

\* What links the entries is not in their bodies.
LEMMA LinksKept ==
    ASSUME Chained, UNCHANGED <<archived, next_seq>>, Len(entries) \in Nat,
           Len(entries') = Len(entries), entries' # <<>>,
           \A k \in 1..Len(entries) :
               /\ entries'[k].seq = entries[k].seq
               /\ entries'[k].prev_hash = entries[k].prev_hash
               /\ entries'[k].hash = entries[k].hash,
           entries # <<>>, Len(entries) > 0
    PROVE  Chained'
  <1>1. \A k \in 1..(Len(entries) - 1) :
            Follows(entries'[k + 1], entries'[k]) <=> Follows(entries[k + 1], entries[k])
    BY DEF Follows
  <1>2. Linked(entries)' /\ LastOf(entries').seq = LastOf(entries).seq
    BY <1>1 DEF Linked, LastOf, Chained, ActiveChained
  <1>3. ActiveChained'
    BY <1>2 DEF Chained, ActiveChained
  <1>4. ArchiveChained'
    BY DEF Chained, ArchiveChained
  <1>5. \A d : Follows(entries'[1], d) <=> Follows(entries[1], d)
    BY DEF Follows
  <1>6. Joined'
    BY <1>5 DEF Chained, Joined, Oldest
  <1>. QED  BY <1>3, <1>4, <1>6 DEF Chained

\* An alteration of what is hashed breaks the entry, or the link behind it; any other
\* leaves entry and links as they are.
LEMMA AlterBreaks ==
    ASSUME TypeOK, OneChain, NumberedInv, HashInv,
           NEW i \in DOMAIN entries, NEW b \in Bodies, NEW rehash \in BOOLEAN,
           Alter(i, b, rehash)
    PROVE  OneChain' /\ NumberedInv' /\ HashInv'
  <1> DEFINE d == entries[i]
             e == [d EXCEPT !.body = b]
             h == compute_hash(e)
             e1 == [e EXCEPT !.hash = h]
  <1>1. /\ i \in 1..Len(entries) /\ i < Len(entries) /\ Len(entries) \in Nat
        /\ d \in Entry /\ altered = {}
        /\ UNCHANGED <<archived, next_seq>>
        /\ altered' = IF HashedOf(e) = HashedOf(d) THEN {} ELSE {d.seq}
    BY LenProperties, ElementOfSeq DEF TypeOK, Alter
  <1>2. PICK r : /\ r \in {e, e1} /\ entries' = [entries EXCEPT ![i] = r]
    BY DEF Alter
  <1>3. /\ e.seq = d.seq /\ e.hash = d.hash /\ e.day = d.day /\ e.body = b
        /\ e.prev_hash = d.prev_hash
        /\ e1.seq = d.seq /\ e1.hash = h /\ e1.day = d.day /\ e1.body = b
        /\ e1.prev_hash = d.prev_hash
    <2>. HIDE DEF d, h
    <2>. QED  BY <1>1 DEF Entry
  <1>4. h = d.hash <=> HashedOf(e) = HashedOf(d)
    <2> DEFINE c1 == HashedOf(d)
               c2 == HashedOf(e)
    <2>1. d.hash = Append(d.prev_hash, c1)
      BY <1>1 DEF HashInv, Honest, compute_hash, Sha256
    <2>2. h = Append(d.prev_hash, c2)
      <3>. HIDE DEF d, e
      <3>. QED  BY <1>3 DEF compute_hash, Sha256
    <2>3. c1 \in Content /\ c2 \in Content /\ d.prev_hash \in Seq(Content)
      <3>. HIDE DEF d, e
      <3>. QED  BY <1>1, <1>3, RotationAssumption DEF Entry, Content, Digest, HashedOf
    <2>. HIDE DEF c1, c2
    <2>4. /\ Append(d.prev_hash, c1)[Len(d.prev_hash) + 1] = c1
          /\ Append(d.prev_hash, c2)[Len(d.prev_hash) + 1] = c2
      BY <2>3, AppendProperties
    <2>. QED  BY <2>1, <2>2, <2>3, <2>4 DEF c1, c2
  <1>5. entries[i + 1].prev_hash = d.hash
    BY <1>1 DEF OneChain, Chained, ActiveChained, Linked, Follows
  <1>6. compute_hash(r) = h
    <2>. HIDE DEF d, e, e1, h
    <2>1. compute_hash(e1) = compute_hash(e)
      BY <1>3 DEF compute_hash, HashedOf
    <2>. QED  BY <1>2, <2>1 DEF h
  <1>. HIDE DEF e, e1, h
  <1>7. /\ Len(entries') = Len(entries) /\ entries'[i] = r
        /\ \A k \in 1..Len(entries) : k # i => entries'[k] = entries[k]
    BY <1>1, <1>2 DEF TypeOK
  <1>8. \A k \in 1..Len(entries) : entries'[k].seq = entries[k].seq
    BY <1>2, <1>3, <1>7
  <1>9. NumberedInv'
    BY <1>1, <1>7, <1>8 DEF NumberedInv, Ascending
  <1>10. CASE HashedOf(e) = HashedOf(d)
    <2>1. r.hash = d.hash /\ compute_hash(r) = d.hash
      BY <1>2, <1>3, <1>4, <1>6, <1>10
    <2>2. Honest(entries')
      <3>1. Honest(entries)
        BY <1>1 DEF HashInv
      <3>. QED  BY <1>1, <1>7, <2>1, <3>1 DEF Honest
    <2>3. HashInv'
      BY <1>1, <1>10, <2>2 DEF HashInv, Honest, compute_hash, Sha256, HashedOf
    <2>4. Chained'
      <3>1. \A k \in 1..Len(entries) :
               /\ entries'[k].seq = entries[k].seq
               /\ entries'[k].prev_hash = entries[k].prev_hash
               /\ entries'[k].hash = entries[k].hash
        BY <1>2, <1>3, <1>7, <1>8, <2>1
      <3>2. entries # <<>> /\ entries' # <<>> /\ Len(entries) > 0
        <4>1. entries' \in Seq(Entry)
          BY AlterType DEF TypeOK
        <4>. QED  BY <1>1, <1>7, <4>1, EmptySeq
      <3>3. Chained
        BY <1>1 DEF OneChain
      <3>. QED  BY <1>1, <1>7, <3>1, <3>2, <3>3, LinksKept
    <2>. QED  BY <1>9, <2>3, <2>4 DEF OneChain
  <1>11. CASE HashedOf(e) # HashedOf(d)
    <2>1. r.hash # compute_hash(r) \/ entries'[i + 1].prev_hash # r.hash
      <3>1. i + 1 \in 1..Len(entries) /\ i + 1 # i
        BY <1>1
      <3>2. entries'[i + 1] = entries[i + 1]
        BY <1>7, <3>1
      <3>3. CASE r = e
        BY <1>3, <1>4, <1>6, <1>11, <3>3
      <3>4. CASE r = e1
        BY <1>3, <1>4, <1>5, <1>11, <3>2, <3>4
      <3>. QED  BY <1>2, <3>3, <3>4
    <2>2. HashInv'
      <3>1. i \in 1..(Len(entries') - 1)
        BY <1>1, <1>7
      <3>. QED  BY <1>1, <1>7, <1>11, <2>1, <3>1
                DEF HashInv, Broken, compute_hash, Sha256, HashedOf
    <2>. QED  BY <1>1, <1>9, <1>11, <2>2 DEF OneChain
  <1>. QED  BY <1>10, <1>11

\* The links, the numbers and the hashes, together.
LEMMA HistoryAndHashes == Spec => [](OneChain /\ LogInv)
  <1>1. Init => OneChain /\ LogInv
    <2>. SUFFICES ASSUME Init PROVE OneChain /\ LogInv
      OBVIOUS
    <2>1. Len(entries) = 0
      BY EmptySeq DEF Init
    <2>2. OneChain
      BY DEF Init, OneChain, Chained, ActiveChained, ArchiveChained, Joined, Oldest, Linked
    <2>. QED  BY <2>1, <2>2 DEF LogInv, Init, NumberedInv, HashInv, Ascending, Honest
  <1>2. TypeOK /\ OneChain /\ LogInv /\ [Next]_vars => OneChain' /\ LogInv'
    <2>. SUFFICES ASSUME TypeOK, OneChain, LogInv, [Next]_vars PROVE OneChain' /\ LogInv'
      OBVIOUS
    <2>1. CASE UNCHANGED <<entries, archived, next_seq, altered>>
      <3>1. LogInv'
        BY <2>1 DEF LogInv, NumberedInv, HashInv, Ascending, Honest, Broken, compute_hash,
                    Sha256, HashedOf
      <3>2. OneChain'
        BY <2>1
           DEF OneChain, Chained, ActiveChained, ArchiveChained, Joined, Oldest, Linked
      <3>. QED  BY <3>1, <3>2
    <2>2. ASSUME NEW b \in Bodies, append(b)
          PROVE  OneChain' /\ LogInv'
      <3>1. OneChain'
        BY <2>2, AppendChained DEF OneChain, append
      <3>. QED  BY <2>2, <3>1, AppendVerifies DEF LogInv
    <2>. QED  BY <2>1, <2>2, AlterBreaks DEF LogInv, Next, Tick, vars
  <1>. QED  BY <1>1, <1>2, TypeCorrect, PTL DEF Spec

\* Rotation loses and reorders nothing, however often it happens: archive and active
\* entries are one chain of all entries ever appended, until somebody alters what is
\* hashed of one (audit.rs, append and maybe_rotate).
THEOREM HistoryIsOneChain == Spec => []OneChain
  BY HistoryAndHashes, PTL

\* Numbers ascend and hashes say what they cover, unless an entry was altered.
LEMMA NumbersAndHashes == Spec => []LogInv
  BY HistoryAndHashes, PTL

\* verify_chain judges a log that was never rotated by what is hashed of its entries: it
\* notices for good when somebody changes that of an entry that has a successor, even
\* with a hash that is computed again, and it accepts every other log, also one in
\* which characters were moved from a field of an entry to the next.
THEOREM VerificationIsRight == Spec => []VerificationJudges
  <1>1. TypeOK /\ OneChain /\ LogInv => VerificationJudges
    <2>. SUFFICES ASSUME TypeOK, OneChain, LogInv PROVE VerificationJudges
      OBVIOUS
    <2>0. DOMAIN entries = 1..Len(entries) /\ Len(entries) \in Nat
      BY LenProperties DEF TypeOK
    <2>1. ASSUME altered # {}, Oldest = entries, Verified(entries)
          PROVE  FALSE
      <3>1. CASE archived = <<>>
        <4>1. PICK i \in 1..(Len(entries) - 1) : Broken(entries, i)
          BY <2>1, <3>1 DEF LogInv, HashInv
        <4>2. i \in 1..Len(entries) /\ i + 1 \in 1..Len(entries) /\ i + 1 # 1 /\ (i + 1) - 1 = i
          BY <2>0
        <4>3. entries[i].hash = compute_hash(entries[i])
              /\ entries[i + 1].prev_hash = entries[(i + 1) - 1].hash
          BY <2>0, <2>1, <4>2 DEF Verified
        <4>. QED  BY <4>1, <4>2, <4>3 DEF Broken
      <3>2. CASE archived # <<>>
        <4>1. archived[1] = entries /\ entries # <<>>
          BY <2>1, <3>2 DEF LogInv, Oldest, NumberedInv
        <4>2. 1 \in 1..Len(entries) /\ entries[1] \in Entry
          BY <2>0, <4>1, EmptySeq, ElementOfSeq DEF TypeOK
        <4>3. entries[1].seq < entries[1].seq /\ entries[1].seq \in Nat
          BY <3>2, <4>1, <4>2 DEF LogInv, NumberedInv, Entry
        <4>. QED  BY <4>3
      <3>. QED  BY <3>1, <3>2
    <2>2. ASSUME altered = {}, archived = <<>>
          PROVE  Verified(entries)
      <3>1. Chained /\ Honest(entries)
        BY <2>2 DEF LogInv, OneChain, HashInv
      <3>2. ASSUME NEW i \in 1..Len(entries)
            PROVE  entries[i].prev_hash = IF i = 1 THEN <<>> ELSE entries[i - 1].hash
        <4>1. CASE i = 1
          <5>1. entries # <<>>
            BY <2>0, <3>2, EmptySeq
          <5>. QED  BY <2>2, <3>1, <4>1, <5>1 DEF Chained, Joined, Oldest
        <4>2. CASE i # 1
          <5>1. i - 1 \in 1..(Len(entries) - 1) /\ (i - 1) + 1 = i
            BY <2>0, <3>2, <4>2
          <5>2. Follows(entries[(i - 1) + 1], entries[i - 1])
            BY <3>1, <5>1 DEF Chained, ActiveChained, Linked
          <5>. QED  BY <4>2, <5>1, <5>2 DEF Follows
        <4>. QED  BY <4>1, <4>2
      <3>. QED  BY <2>0, <3>1, <3>2 DEF Verified, Honest
    <2>. QED  BY <2>1, <2>2 DEF VerificationJudges, AlterationSeen, UnrotatedVerifies
  <1>. QED  BY <1>1, NumbersAndHashes, TypeCorrect, HistoryIsOneChain, PTL

=============================================================================
