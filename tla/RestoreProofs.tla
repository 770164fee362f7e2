---------------------------- MODULE RestoreProofs ----------------------------
(***************************************************************************)
(* Theorems about Restore for every choice of its constants.               *)
(***************************************************************************)
EXTENDS Restore, TLAPS

USE DEF keys, vault, bounds

AtHand(r) == IF r.file = None THEN {} ELSE {r.file}

Placed(r) == {e[1] : e \in r.placed}

\* Each file asked for is to do, at hand, placed or among the errors, and only one of these.
Partition(r) ==
    /\ r.filter = r.todo \cup AtHand(r) \cup Placed(r) \cup r.errors
    /\ (r.todo \cup AtHand(r)) \cap (Placed(r) \cup r.errors) = {}
    /\ r.todo \cap AtHand(r) = {} /\ Placed(r) \cap r.errors = {}

\* What a restore placed and nobody changed is in the target t, and verified.
Kept(r, t) ==
    /\ r.strategy = "overwrite" => \A e \in r.placed : e[1] = e[2]
    /\ \A e \in r.placed \ r.late :
          t[e[2]] # None /\ (r.verify => t[e[2]] = Original[e[1]])

\* The path at hand is none that holds what the restore placed, and it is free unless
\* the strategy is to overwrite; what is about to be written is verified.
PathFree(r, t) ==
    /\ r.pc \in {"next", "done"} => r.file = None
    /\ r.pc = "done" => r.todo = {}
    /\ r.pc \in {"fetch", "open", "write"} =>
          /\ r.file # None /\ r.path # None
          /\ r.strategy = "overwrite" => r.path = r.file
          /\ \A e \in r.placed \ r.late : e[2] # r.path
    /\ r.pc \in {"open", "write"} =>
          r.buf # None /\ (r.verify => r.buf = Original[r.file])
    /\ r.pc \in {"fetch", "open"} /\ ~r.raced =>
          r.strategy = "overwrite" \/ t[r.path] = None

Sound(r, t) == r \in Active /\ Partition(r) /\ Kept(r, t) /\ PathFree(r, t)

JobsSound == \A j \in Jobs : job[j] # Idle => Sound(job[j], target)

RestoreInv == TypeOK /\ JobsSound

\* The fields of a restore that was started.
LEMMA ActiveFields ==
    ASSUME NEW r \in Active
    PROVE  /\ r # Idle /\ r.pc # "idle"
           /\ r.pc \in {"next", "fetch", "open", "write", "done"}
           /\ r.strategy \in Strategies /\ r.verify \in BOOLEAN
           /\ r.crypto \in DataKey \cup {None}
           /\ r.filter \in SUBSET Files /\ r.todo \in SUBSET Files
           /\ r.file \in Files \cup {None} /\ r.path \in Paths \cup {None}
           /\ r.buf \in Data \cup {None}
           /\ r.placed \in SUBSET (Files \X Paths) /\ r.errors \in SUBSET Files
           /\ r.late \in SUBSET (Files \X Paths) /\ r.raced \in BOOLEAN
  <1>1. r.pc # "idle"
    BY DEF Active
  <1>. QED  BY <1>1 DEF Active, Idle

\* A restore after the loop went on.
LEMMA EndedFields ==
    ASSUME NEW r \in Active
    PROVE  LET n == Ended(r) IN
           /\ n \in Active /\ n.pc = "next" /\ n.file = None /\ n.raced = FALSE
           /\ n.strategy = r.strategy /\ n.verify = r.verify /\ n.filter = r.filter
           /\ n.todo = r.todo /\ n.placed = r.placed /\ n.errors = r.errors
           /\ n.late = r.late
  BY ZenonT(40) DEF Active, Ended

\* A restore whose path, or what it placed, others changed.
LEMMA DisturbedFields ==
    ASSUME NEW r \in Active, NEW p \in Paths
    PROVE  LET n == Disturbed(r, p) IN
           /\ n \in Active /\ n.pc = r.pc /\ n.file = r.file /\ n.path = r.path
           /\ n.buf = r.buf /\ n.raced = (r.raced \/ r.path = p)
           /\ n.strategy = r.strategy /\ n.verify = r.verify /\ n.filter = r.filter
           /\ n.todo = r.todo /\ n.placed = r.placed /\ n.errors = r.errors
           /\ n.late = r.late \cup {e \in r.placed : e[2] = p}
  <1>1. r.pc # "idle"
    BY ActiveFields
  <1>2. r.late \cup {e \in r.placed : e[2] = p} \in SUBSET (Files \X Paths)
    BY ActiveFields
  <1>3. (r.raced \/ r.path = p) \in BOOLEAN
    OBVIOUS
  <1>. DEFINE l == r.late \cup {e \in r.placed : e[2] = p}
             b == (r.raced \/ r.path = p)
  <1>4. Disturbed(r, p) = [r EXCEPT !.late = l, !.raced = b]
    BY <1>1 DEF Disturbed
  <1>5. l \in SUBSET (Files \X Paths) /\ b \in BOOLEAN
    BY <1>2, <1>3
  <1>. HIDE DEF l, b
  <1>6. LET n == [r EXCEPT !.late = l, !.raced = b] IN
           /\ n \in Active /\ n.pc = r.pc /\ n.file = r.file /\ n.path = r.path
           /\ n.buf = r.buf /\ n.raced = b
           /\ n.strategy = r.strategy /\ n.verify = r.verify /\ n.filter = r.filter
           /\ n.todo = r.todo /\ n.placed = r.placed /\ n.errors = r.errors
           /\ n.late = l
    BY <1>5, ZenonT(40) DEF Active
  <1>. QED  BY <1>4, <1>6 DEF l, b

\* Others change the path p of the target.
LEMMA DisturbedSound ==
    ASSUME NEW t \in [Paths -> Data \cup {None, Torn}], NEW d, NEW p \in Paths,
           NEW r, Sound(r, t)
    PROVE  Sound(Disturbed(r, p), [t EXCEPT ![p] = d])
  <1> DEFINE n == Disturbed(r, p)
             u == [t EXCEPT ![p] = d]
  <1>1. r \in Active
    BY DEF Sound
  <1>2. /\ n \in Active /\ n.pc = r.pc /\ n.file = r.file /\ n.path = r.path
        /\ n.buf = r.buf /\ n.raced = (r.raced \/ r.path = p)
        /\ n.strategy = r.strategy /\ n.verify = r.verify /\ n.filter = r.filter
        /\ n.todo = r.todo /\ n.placed = r.placed /\ n.errors = r.errors
        /\ n.late = r.late \cup {e \in r.placed : e[2] = p}
    BY <1>1, DisturbedFields
  <1>3. \A q \in Paths : q # p => u[q] = t[q]
    OBVIOUS
  <1>4. r.placed \in SUBSET (Files \X Paths) /\ r.path \in Paths \cup {None}
    BY <1>1, ActiveFields
  <1>. HIDE DEF n, u
  <1>5. Partition(n)
    BY <1>2 DEF Sound, Partition, AtHand, Placed
  <1>6. Kept(n, u)
    BY <1>2, <1>3, <1>4 DEF Sound, Kept
  <1>7. PathFree(n, u)
    <2>1. n.pc \in {"fetch", "open"} /\ ~n.raced =>
             n.strategy = "overwrite" \/ u[n.path] = None
      BY <1>2, <1>3, <1>4 DEF Sound, PathFree
    <2>. QED  BY <1>2, <1>4, <2>1 DEF Sound, PathFree
  <1>. QED  BY <1>2, <1>5, <1>6, <1>7 DEF Sound, n, u

\* The entry at hand becomes an error.
LEMMA ErrorSound ==
    ASSUME NEW t, NEW r \in Active, r.file # None, Partition(r), Kept(r, t)
    PROVE  Sound(Error(r), t)
  <1> DEFINE m == [r EXCEPT !.errors = @ \cup {r.file}]
             n == Ended(m)
  <1>1. r.file \in Files /\ r.errors \cup {r.file} \in SUBSET Files
    BY ActiveFields
  <1>2. /\ m \in Active /\ m.errors = r.errors \cup {r.file} /\ m.file = r.file
        /\ m.strategy = r.strategy /\ m.verify = r.verify /\ m.filter = r.filter
        /\ m.todo = r.todo /\ m.placed = r.placed /\ m.late = r.late
    BY <1>1, ZenonT(40) DEF Active
  <1>. HIDE DEF m
  <1>3. /\ n \in Active /\ n.pc = "next" /\ n.file = None
        /\ n.strategy = m.strategy /\ n.verify = m.verify /\ n.filter = m.filter
        /\ n.todo = m.todo /\ n.placed = m.placed /\ n.errors = m.errors
        /\ n.late = m.late
    BY <1>2, EndedFields
  <1>. HIDE DEF n
  <1>4. Partition(n)
    BY <1>2, <1>3 DEF Partition, AtHand, Placed
  <1>5. Kept(n, t)
    BY <1>2, <1>3 DEF Kept
  <1>6. PathFree(n, t)
    BY <1>3 DEF PathFree
  <1>. QED  BY <1>3, <1>4, <1>5, <1>6 DEF Sound, Error, n, m

\* The path resolve_conflict chooses.
LEMMA ResolvedPath ==
    ASSUME RestoreAssumption, NEW f \in Files, NEW s, NEW p \in Resolved(f, s)
    PROVE  /\ p \in Paths
           /\ s = "overwrite" => p = f
           /\ s # "overwrite" => target[p] = None
  <1>1. f \in Paths /\ Renames[f] \in Seq(Paths)
    BY DEF RestoreAssumption
  <1>2. CASE ~Exists(f) \/ s = "overwrite"
    BY <1>1, <1>2 DEF Resolved, Exists
  <1>3. CASE ~(~Exists(f) \/ s = "overwrite") /\ s = "rename"
    <2>1. PICK i \in DOMAIN Renames[f] : p = Renames[f][i] /\ ~Exists(Renames[f][i])
      BY <1>3 DEF Resolved
    <2>2. p \in Paths
      BY <1>1, <2>1
    <2>. QED  BY <1>3, <2>1, <2>2 DEF Exists
  <1>4. CASE ~(~Exists(f) \/ s = "overwrite") /\ s # "rename"
    BY <1>4 DEF Resolved
  <1>. QED  BY <1>2, <1>3, <1>4

\* Beginning with an entry.
LEMMA ResolveSound ==
    ASSUME RestoreAssumption, NEW j \in Jobs, NEW f \in Files,
           job \in [Jobs -> Job], Sound(job[j], target), Resolve(j, f)
    PROVE  \E n : job' = [job EXCEPT ![j] = n] /\ Sound(n, target)
  <1> DEFINE r == job[j]
             at == Resolved(f, r.strategy)
             m == [r EXCEPT !.file = f, !.todo = @ \ {f}]
             q == CHOOSE p \in at : TRUE
             n == [m EXCEPT !.pc = "fetch", !.path = q, !.raced = FALSE]
  <1>1. r \in Active /\ Partition(r) /\ Kept(r, target) /\ PathFree(r, target)
        /\ r.pc = "next" /\ r.file = None /\ f \in r.todo
    BY DEF Resolve, Sound, PathFree
  <1>2. r.todo \ {f} \in SUBSET Files
    BY <1>1, ActiveFields
  <1>3. f # None
    BY DEF RestoreAssumption
  <1>4. job' = [job EXCEPT ![j] = IF at = {} THEN Error(m) ELSE n]
    BY DEF Resolve
  <1>. HIDE DEF at
  <1>5. /\ m \in Active /\ m.file = f /\ m.todo = r.todo \ {f} /\ m.errors = r.errors
        /\ m.strategy = r.strategy /\ m.verify = r.verify /\ m.filter = r.filter
        /\ m.placed = r.placed /\ m.late = r.late
    <2>. HIDE DEF r
    <2>. QED  BY <1>1, <1>2, ZenonT(40) DEF Active
  <1>. HIDE DEF m
  <1>6. Partition(m) /\ Kept(m, target)
    <2>. HIDE DEF r
    <2>1. Partition(m)
      BY <1>1, <1>3, <1>5 DEF Partition, AtHand, Placed
    <2>. QED  BY <2>1, <1>1, <1>5 DEF Kept
  <1>7. CASE at = {}
    <2>1. Sound(Error(m), target)
      BY <1>3, <1>5, <1>6, ErrorSound
    <2>. QED  BY <1>4, <1>7, <2>1
  <1>8. CASE at # {}
    <2>1. q \in Paths /\ (r.strategy = "overwrite" => q = f)
          /\ (r.strategy # "overwrite" => target[q] = None)
      BY <1>8, ResolvedPath DEF at
    <2>2. q # None
      BY <2>1 DEF RestoreAssumption
    <2>. HIDE DEF q
    <2>3. /\ n \in Active /\ n.pc = "fetch" /\ n.path = q /\ n.raced = FALSE
          /\ n.file = m.file /\ n.todo = m.todo /\ n.errors = m.errors
          /\ n.strategy = m.strategy /\ n.verify = m.verify /\ n.filter = m.filter
          /\ n.placed = m.placed /\ n.late = m.late
      BY <1>5, <2>1, ZenonT(40) DEF Active
    <2>. HIDE DEF n, r
    <2>4. Partition(n)
      BY <1>6, <2>3 DEF Partition, AtHand, Placed
    <2>5. Kept(n, target)
      BY <1>6, <2>3 DEF Kept
    <2>6. \A e \in n.placed \ n.late : e[2] # q
      <3>1. CASE r.strategy = "overwrite"
        <4>1. f \notin Placed(r)
          BY <1>1 DEF Partition
        <4>. QED  BY <1>1, <1>5, <2>1, <2>3, <3>1, <4>1 DEF Kept, Placed
      <3>2. CASE r.strategy # "overwrite"
        BY <1>1, <1>5, <2>1, <2>3, <3>2 DEF Kept
      <3>. QED  BY <3>1, <3>2
    <2>7. PathFree(n, target)
      BY <1>3, <1>5, <2>1, <2>2, <2>3, <2>6 DEF PathFree
    <2>8. Sound(n, target)
      BY <2>3, <2>4, <2>5, <2>7 DEF Sound
    <2>. QED  BY <1>4, <1>8, <2>8
  <1>. QED  BY <1>7, <1>8

\* Reading an entry from the vault.
LEMMA FetchSound ==
    ASSUME RestoreAssumption, NEW j \in Jobs, blob \in [Files -> Blob \cup {None}],
           job \in [Jobs -> Job], Sound(job[j], target), Fetch(j)
    PROVE  \E n : job' = [job EXCEPT ![j] = n] /\ Sound(n, target)
  <1> DEFINE r == job[j]
  <1>1. r \in Active /\ Partition(r) /\ Kept(r, target) /\ PathFree(r, target)
        /\ r.pc = "fetch" /\ r.file # None
    BY DEF Fetch, Sound, PathFree
  <1>2. CASE job' = [job EXCEPT ![j] = Error(r)]
    <2>1. Sound(Error(r), target)
      BY <1>1, ErrorSound
    <2>. QED  BY <1>2, <2>1
  <1>3. ASSUME NEW d \in Reads(r.crypto, blob[r.file]), Accepted(r, d),
               job' = [job EXCEPT ![j] = [r EXCEPT !.pc = "open", !.buf = d]]
        PROVE  \E n : job' = [job EXCEPT ![j] = n] /\ Sound(n, target)
    <2> DEFINE n == [r EXCEPT !.pc = "open", !.buf = d]
    <2>1. r.file \in Files
      BY <1>1, ActiveFields
    <2>2. blob[r.file] = None \/ blob[r.file].content \in Data
      BY <2>1 DEF Blob, Data
    <2>3. d \in Data
      BY <1>3, <2>2 DEF Reads, Data
    <2>4. d # None
      BY <2>3 DEF Data, RestoreAssumption
    <2>5. r.verify => d = Original[r.file]
      BY <1>3 DEF Accepted
    <2>. HIDE DEF r
    <2>6. /\ n \in Active /\ n.pc = "open" /\ n.buf = d /\ n.path = r.path
          /\ n.raced = r.raced /\ n.file = r.file /\ n.todo = r.todo
          /\ n.errors = r.errors /\ n.strategy = r.strategy /\ n.verify = r.verify
          /\ n.filter = r.filter /\ n.placed = r.placed /\ n.late = r.late
      BY <1>1, <2>3, ZenonT(40) DEF Active
    <2>. HIDE DEF n
    <2>7. Partition(n)
      BY <1>1, <2>6 DEF Partition, AtHand, Placed
    <2>8. Kept(n, target)
      BY <1>1, <2>6 DEF Kept
    <2>9. PathFree(n, target)
      BY <1>1, <2>4, <2>5, <2>6 DEF PathFree
    <2>10. Sound(n, target)
      BY <2>6, <2>7, <2>8, <2>9 DEF Sound
    <2>. QED  BY <1>3, <2>10 DEF n, r
  <1>. QED  BY <1>2, <1>3 DEF Fetch

\* Emptying the file: nothing this restore placed and nobody changed is there.
LEMMA OpenSound ==
    ASSUME RestoreAssumption, target \in [Paths -> Data \cup {None, Torn}],
           NEW r, Sound(r, target), r.pc = "open"
    PROVE  Sound([r EXCEPT !.pc = "write", !.raced = FALSE],
                 [target EXCEPT ![r.path] = Torn])
  <1> DEFINE n == [r EXCEPT !.pc = "write", !.raced = FALSE]
             u == [target EXCEPT ![r.path] = Torn]
  <1>1. r \in Active /\ Partition(r) /\ Kept(r, target) /\ PathFree(r, target)
    BY DEF Sound
  <1>2. /\ n \in Active /\ n.pc = "write" /\ n.buf = r.buf /\ n.path = r.path
        /\ n.raced = FALSE /\ n.file = r.file /\ n.todo = r.todo
        /\ n.errors = r.errors /\ n.strategy = r.strategy /\ n.verify = r.verify
        /\ n.filter = r.filter /\ n.placed = r.placed /\ n.late = r.late
    BY <1>1, ZenonT(40) DEF Active
  <1>3. \A q \in Paths : q # r.path => u[q] = target[q]
    OBVIOUS
  <1>4. r.placed \in SUBSET (Files \X Paths)
    BY <1>1, ActiveFields
  <1>. HIDE DEF n, u
  <1>5. Partition(n)
    BY <1>1, <1>2 DEF Partition, AtHand, Placed
  <1>6. \A e \in r.placed \ r.late : e[2] # r.path
    BY <1>1 DEF PathFree
  <1>7. Kept(n, u)
    BY <1>1, <1>2, <1>3, <1>4, <1>6 DEF Kept
  <1>8. PathFree(n, u)
    BY <1>1, <1>2 DEF PathFree
  <1>. QED  BY <1>2, <1>5, <1>7, <1>8 DEF Sound, n, u

\* Filling the file, d being what it then holds.
LEMMA WriteSound ==
    ASSUME RestoreAssumption, target \in [Paths -> Data \cup {None, Torn}],
           NEW r, Sound(r, target), r.pc = "write", NEW d, r.raced \/ d = r.buf
    PROVE  Sound(Ended([r EXCEPT !.placed = @ \cup {<<r.file, r.path>>},
                        !.late = IF r.raced THEN @ \cup {<<r.file, r.path>>} ELSE @]),
                 [target EXCEPT ![r.path] = d])
  <1> DEFINE x == <<r.file, r.path>>
             l == IF r.raced THEN r.late \cup {x} ELSE r.late
             m == [r EXCEPT !.placed = @ \cup {x}, !.late = l]
             n == Ended(m)
             u == [target EXCEPT ![r.path] = d]
  <1>1. r \in Active /\ Partition(r) /\ Kept(r, target) /\ PathFree(r, target)
    BY DEF Sound
  <1>2. /\ r.placed \in SUBSET (Files \X Paths) /\ r.late \in SUBSET (Files \X Paths)
        /\ r.file \in Files /\ r.path \in Paths /\ r.file # None
        /\ r.strategy = "overwrite" => r.path = r.file
        /\ r.buf # None /\ (r.verify => r.buf = Original[r.file])
        /\ \A e \in r.placed \ r.late : e[2] # r.path
    BY <1>1, ActiveFields DEF PathFree
  <1>3. l \in SUBSET (Files \X Paths) /\ r.placed \cup {x} \in SUBSET (Files \X Paths)
    BY <1>2
  <1>4. u[r.path] = d /\ \A q \in Paths : q # r.path => u[q] = target[q]
    BY <1>2
  <1>5. x[1] = r.file /\ x[2] = r.path
    OBVIOUS
  <1>6. r.late \subseteq l /\ (r.raced => x \in l)
    OBVIOUS
  <1>. HIDE DEF l, x
  <1>7. /\ m \in Active /\ m.placed = r.placed \cup {x} /\ m.late = l
        /\ m.strategy = r.strategy /\ m.verify = r.verify /\ m.filter = r.filter
        /\ m.todo = r.todo /\ m.errors = r.errors
    BY <1>1, <1>3, ZenonT(40) DEF Active
  <1>. HIDE DEF m
  <1>8. /\ n \in Active /\ n.pc = "next" /\ n.file = None
        /\ n.strategy = r.strategy /\ n.verify = r.verify /\ n.filter = r.filter
        /\ n.todo = r.todo /\ n.placed = r.placed \cup {x} /\ n.errors = r.errors
        /\ n.late = l
    BY <1>7, EndedFields
  <1>. HIDE DEF n, u
  <1>9. Partition(n)
    <2>1. Placed(n) = Placed(r) \cup {r.file}
      BY <1>5, <1>8 DEF Placed
    <2>2. AtHand(r) = {r.file} /\ AtHand(n) = {}
      BY <1>2, <1>8 DEF AtHand
    <2>. QED  BY <1>1, <1>8, <2>1, <2>2 DEF Partition
  <1>10. Kept(n, u)
    <2>1. ASSUME r.strategy = "overwrite", NEW e \in n.placed
          PROVE  e[1] = e[2]
      BY <1>1, <1>2, <1>5, <1>8, <2>1 DEF Kept
    <2>2. ASSUME NEW e \in n.placed \ n.late
          PROVE  u[e[2]] # None /\ (r.verify => u[e[2]] = Original[e[1]])
      <3>1. CASE e = x
        BY <1>2, <1>4, <1>5, <1>6, <1>8, <2>2, <3>1
      <3>2. CASE e # x
        <4>1. e \in r.placed \ r.late
          BY <1>6, <1>8, <2>2, <3>2
        <4>2. e[2] \in Paths /\ e[2] # r.path
          BY <1>2, <4>1
        <4>. QED  BY <1>1, <1>4, <4>1, <4>2 DEF Kept
      <3>. QED  BY <3>1, <3>2
    <2>. QED  BY <1>8, <2>1, <2>2 DEF Kept
  <1>11. PathFree(n, u)
    BY <1>8 DEF PathFree
  <1>. QED  BY <1>8, <1>9, <1>10, <1>11 DEF Sound, n, u, m, l, x

\* The restore has begun.
LEMMA StartSound ==
    ASSUME RestoreAssumption, TypeOK, NEW j \in Jobs, NEW o \in Options, Start(j, o)
    PROVE  \E n : job' = [job EXCEPT ![j] = n] /\ Sound(n, target)
  <1> DEFINE n == [pc |-> "next", strategy |-> o.strategy, verify |-> o.verify,
                   crypto |-> opened, filter |-> o.filter, todo |-> o.filter,
                   file |-> None, path |-> None, buf |-> None,
                   placed |-> {}, errors |-> {}, late |-> {}, raced |-> FALSE]
  <1>1. o \in RestoreOptions
    BY DEF RestoreAssumption
  <1>2. n \in Active
    BY <1>1 DEF Active, RestoreOptions, TypeOK
  <1>3. Partition(n)
    BY DEF Partition, AtHand, Placed
  <1>4. Kept(n, target)
    BY DEF Kept
  <1>5. PathFree(n, target)
    BY DEF PathFree
  <1>6. job' = [job EXCEPT ![j] = n]
    BY DEF Start
  <1>. QED  BY <1>2, <1>3, <1>4, <1>5, <1>6 DEF Sound

\* The restore has ended.
LEMMA DoneSound ==
    ASSUME NEW j \in Jobs, job \in [Jobs -> Job], Sound(job[j], target), Done(j)
    PROVE  \E n : job' = [job EXCEPT ![j] = n] /\ Sound(n, target)
  <1> DEFINE r == job[j]
             n == [r EXCEPT !.pc = "done"]
  <1>1. r \in Active /\ Partition(r) /\ Kept(r, target) /\ PathFree(r, target)
        /\ r.pc = "next" /\ r.todo = {}
    BY DEF Done, Sound
  <1>2. job' = [job EXCEPT ![j] = n]
    BY DEF Done
  <1>. HIDE DEF r
  <1>3. /\ n \in Active /\ n.pc = "done" /\ n.file = r.file /\ n.todo = r.todo
        /\ n.errors = r.errors /\ n.strategy = r.strategy /\ n.verify = r.verify
        /\ n.filter = r.filter /\ n.placed = r.placed /\ n.late = r.late
    BY <1>1, ZenonT(40) DEF Active
  <1>. HIDE DEF n
  <1>4. Partition(n) /\ Kept(n, target)
    BY <1>1, <1>3 DEF Partition, AtHand, Placed, Kept
  <1>5. PathFree(n, target)
    BY <1>1, <1>3 DEF PathFree
  <1>6. Sound(n, target)
    BY <1>3, <1>4, <1>5 DEF Sound
  <1>. QED  BY <1>2, <1>6

\* A step of one restore that leaves the target alone.
LEMMA OneJob ==
    ASSUME RestoreInv, UNCHANGED target, NEW j \in Jobs, NEW n,
           job' = [job EXCEPT ![j] = n], n = Idle \/ Sound(n, target)
    PROVE  job' \in [Jobs -> Job] /\ JobsSound'
  <1>1. n \in Job
    BY DEF Job, Sound
  <1>2. job' \in [Jobs -> Job]
    BY <1>1 DEF RestoreInv, TypeOK
  <1>3. ASSUME NEW i \in Jobs, job'[i] # Idle
        PROVE  Sound(job'[i], target)
    BY <1>3 DEF RestoreInv, TypeOK, JobsSound
  <1>. QED  BY <1>2, <1>3 DEF JobsSound, Sound, Partition, Kept, PathFree, AtHand, Placed

\* A change of the path p of the target by the restores in S, or by nobody of them.
LEMMA TargetChange ==
    ASSUME RestoreInv, NEW p \in Paths, NEW d \in Data \cup {None, Torn},
           target' = [target EXCEPT ![p] = d], NEW S \in SUBSET Jobs, NEW n,
           job' = [i \in Jobs |-> IF i \in S THEN n ELSE Disturbed(job[i], p)],
           S # {} => Sound(n, target')
    PROVE  job' \in [Jobs -> Job] /\ target' \in [Paths -> Data \cup {None, Torn}]
           /\ JobsSound'
  <1>1. target' \in [Paths -> Data \cup {None, Torn}]
    BY DEF RestoreInv, TypeOK
  <1>2. ASSUME NEW i \in Jobs
        PROVE  job'[i] = Idle \/ Sound(job'[i], target')
    <2>1. CASE i \in S
      BY <2>1
    <2>2. CASE i \notin S /\ job[i] = Idle
      BY <2>2 DEF Disturbed, Idle
    <2>3. CASE i \notin S /\ job[i] # Idle
      <3>1. Sound(job[i], target) /\ target \in [Paths -> Data \cup {None, Torn}]
        BY <2>3 DEF RestoreInv, JobsSound, TypeOK
      <3>2. Sound(Disturbed(job[i], p), target')
        BY <3>1, DisturbedSound
      <3>. QED  BY <2>3, <3>2
    <2>. QED  BY <2>1, <2>2, <2>3
  <1>3. ASSUME NEW i \in Jobs
        PROVE  job'[i] \in Job
    BY <1>2 DEF Job, Sound
  <1>4. job' \in [Jobs -> Job]
    BY <1>3
  <1>5. JobsSound'
    BY <1>2 DEF JobsSound, Sound, Partition, Kept, PathFree, AtHand, Placed
  <1>. QED  BY <1>1, <1>4, <1>5

\* The key manager keeps its type.
LEMMA KeysType ==
    ASSUME KeyAssumption, KeysTypeOK
    PROVE  /\ \A k \in Masters : rotate_master_key(k) \/ Restarted(k) => KeysTypeOK'
           /\ \A c \in Contexts : /\ KeyFor(c) \in DataKey
                                  /\ derive_data_key(c) => KeysTypeOK'
  <1>1. NoKeys \in [Contexts -> DataKey \cup {None}]
    BY DEF NoKeys
  <1>2. ASSUME NEW k \in Masters, rotate_master_key(k) \/ Restarted(k)
        PROVE  KeysTypeOK'
    <2>1. master_key' \in Masters /\ master_key_version' \in 1..MaxVersion
      BY <1>2 DEF KeysTypeOK, KeyAssumption, rotate_master_key, Restarted
    <2>2. data_keys' \in [Contexts -> DataKey \cup {None}]
      BY <1>1, <1>2 DEF rotate_master_key, Restarted
    <2>3. old_master_keys' \subseteq (1..MaxVersion) \X Masters
      BY <1>2 DEF KeysTypeOK, rotate_master_key, Restarted
    <2>. QED  BY <2>1, <2>2, <2>3 DEF KeysTypeOK, DataKey
  <1>3. ASSUME NEW c \in Contexts
        PROVE  KeyFor(c) \in DataKey
    BY DEF KeysTypeOK, KeyFor, Derived, DataKey
  <1>4. ASSUME NEW c \in Contexts, derive_data_key(c)
        PROVE  KeysTypeOK'
    BY <1>3, <1>4 DEF KeysTypeOK, derive_data_key, DataKey
  <1>. QED  BY <1>2, <1>3, <1>4

\* The vault and the keys change: the restores do not notice.
LEMMA VaultStep ==
    ASSUME RestoreInv, UNCHANGED <<target, job>>
    PROVE  JobsSound'
  BY DEF RestoreInv, JobsSound, Sound, Partition, Kept, PathFree, AtHand, Placed

\* At first nothing is restored.
LEMMA InitInv == Init => RestoreInv
  <1>. SUFFICES ASSUME Init PROVE RestoreInv
    OBVIOUS
  <1>1. KeysTypeOK
    BY KeyAssumption DEF Init, New, NoKeys, KeysTypeOK
  <1>2. job \in [Jobs -> Job]
    BY DEF Init, Job
  <1>3. restores \in 0..MaxRestores /\ events \in 0..MaxEvents
    BY RestoreAssumption DEF Init
  <1>4. TypeOK
    BY <1>1, <1>2, <1>3 DEF Init, TypeOK
  <1>5. JobsSound
    BY DEF Init, JobsSound
  <1>. QED  BY <1>4, <1>5 DEF RestoreInv

\* The keys, the storage, the vault and the process.
LEMMA EnvironmentKeepsInv ==
    ASSUME RestoreInv
    PROVE  /\ \A k \in Masters : Rotate(k) \/ Restart(k) => RestoreInv'
           /\ \A c \in Contexts : OpenStorage(c) => RestoreInv'
           /\ Take => RestoreInv'
           /\ \A f \in Files : Damage(f) \/ Lose(f) => RestoreInv'
  <1>. TypeOK /\ KeysTypeOK
    BY DEF RestoreInv, TypeOK
  <1>1. ASSUME NEW k \in Masters, Rotate(k)
        PROVE  RestoreInv'
    <2>1. KeysTypeOK'
      BY <1>1, KeysType, KeyAssumption DEF Rotate
    <2>2. TypeOK'
      BY <1>1, <2>1 DEF Rotate, TypeOK, DataKey, Blob, Job, Active
    <2>. QED  BY <1>1, <2>2, VaultStep DEF Rotate, RestoreInv
  <1>2. ASSUME NEW k \in Masters, Restart(k)
        PROVE  RestoreInv'
    <2>1. KeysTypeOK'
      BY <1>2, KeysType, KeyAssumption DEF Restart
    <2>2. job' \in [Jobs -> Job]
      BY <1>2 DEF Restart, Job
    <2>3. events' \in 0..MaxEvents
      BY <1>2, RestoreAssumption DEF Restart, Event, TypeOK
    <2>4. TypeOK'
      BY <1>2, <2>1, <2>2, <2>3 DEF Restart, TypeOK
    <2>5. JobsSound'
      BY <1>2 DEF Restart, JobsSound
    <2>. QED  BY <2>4, <2>5 DEF RestoreInv
  <1>3. ASSUME NEW c \in Contexts, OpenStorage(c)
        PROVE  RestoreInv'
    <2>1. KeysTypeOK' /\ opened' \in DataKey
      BY <1>3, KeysType, KeyAssumption DEF OpenStorage
    <2>2. TypeOK'
      BY <1>3, <2>1 DEF OpenStorage, TypeOK
    <2>. QED  BY <1>3, <2>2, VaultStep DEF OpenStorage, RestoreInv
  <1>4. ASSUME Take
        PROVE  RestoreInv'
    <2>1. blob' \in [Files -> Blob \cup {None}]
      BY <1>4, RestoreAssumption DEF Take, TypeOK, Blob
    <2>2. TypeOK'
      BY <1>4, <2>1 DEF Take, TypeOK, KeysTypeOK
    <2>. QED  BY <1>4, <2>2, VaultStep DEF Take, RestoreInv
  <1>5. ASSUME NEW f \in Files, NEW b \in Blob \cup {None}, Fault(f, b)
        PROVE  RestoreInv'
    <2>1. TypeOK'
      BY <1>5, RestoreAssumption DEF Fault, Event, TypeOK, KeysTypeOK
    <2>. QED  BY <1>5, <2>1, VaultStep DEF Fault, RestoreInv
  <1>6. ASSUME NEW f \in Files, Damage(f)
        PROVE  RestoreInv'
    <2>1. blob[f] \in Blob
      BY <1>6 DEF Damage, TypeOK
    <2>2. [blob[f] EXCEPT !.content = Damaged] \in Blob
      BY <2>1 DEF Blob
    <2>3. \A c \in Contents : [key |-> None, content |-> c] \in Blob
      BY DEF Blob
    <2>. QED  BY <1>5, <1>6, <2>2, <2>3 DEF Damage
  <1>7. ASSUME NEW f \in Files, Lose(f)
        PROVE  RestoreInv'
    BY <1>5, <1>7 DEF Lose
  <1>. QED  BY <1>1, <1>2, <1>3, <1>4, <1>6, <1>7

\* The steps of a restore.
LEMMA RestoreKeepsInv ==
    ASSUME RestoreInv, NEW j \in Jobs
    PROVE  /\ \A o \in Options : Start(j, o) => RestoreInv'
           /\ Step(j) \/ WriteFails(j) => RestoreInv'
  <1>. TypeOK /\ KeysTypeOK /\ JobsSound /\ job \in [Jobs -> Job]
       /\ target \in [Paths -> Data \cup {None, Torn}]
    BY DEF RestoreInv, TypeOK
  <1>0. job[j].pc \in {"next", "fetch", "open", "write", "done"} =>
          job[j] \in Active /\ Sound(job[j], target)
    BY DEF JobsSound, Sound, Idle
  <1>1. ASSUME NEW n, job' = [job EXCEPT ![j] = n], Sound(n, target),
               UNCHANGED <<keys, vault, target>>,
               restores' \in 0..MaxRestores, events' \in 0..MaxEvents
        PROVE  RestoreInv'
    <2>1. job' \in [Jobs -> Job] /\ JobsSound'
      BY <1>1, OneJob
    <2>. QED  BY <1>1, <2>1 DEF RestoreInv, TypeOK, KeysTypeOK
  <1>2. ASSUME NEW p \in Paths, target' \in [Paths -> Data \cup {None, Torn}],
               job' \in [Jobs -> Job], JobsSound', UNCHANGED <<keys, vault>>,
               restores' \in 0..MaxRestores, events' \in 0..MaxEvents
        PROVE  RestoreInv'
    BY <1>2 DEF RestoreInv, TypeOK, KeysTypeOK
  <1>3. restores \in 0..MaxRestores /\ events \in 0..MaxEvents
    BY DEF TypeOK
  <1>4. ASSUME NEW o \in Options, Start(j, o)
        PROVE  RestoreInv'
    <2>1. PICK n : job' = [job EXCEPT ![j] = n] /\ Sound(n, target)
      BY <1>4, StartSound, RestoreAssumption
    <2>2. restores' \in 0..MaxRestores
      BY <1>3, <1>4, RestoreAssumption DEF Start
    <2>. QED  BY <1>1, <1>3, <1>4, <2>1, <2>2 DEF Start
  <1>5. ASSUME NEW f \in Files, Resolve(j, f)
        PROVE  RestoreInv'
    <2>1. PICK n : job' = [job EXCEPT ![j] = n] /\ Sound(n, target)
      BY <1>0, <1>5, ResolveSound, RestoreAssumption DEF Resolve
    <2>. QED  BY <1>1, <1>3, <1>5, <2>1 DEF Resolve
  <1>6. ASSUME Fetch(j)
        PROVE  RestoreInv'
    <2>1. blob \in [Files -> Blob \cup {None}] /\ Sound(job[j], target)
      BY <1>0, <1>6 DEF Fetch, TypeOK
    <2>2. PICK n : job' = [job EXCEPT ![j] = n] /\ Sound(n, target)
      BY <1>6, <2>1, FetchSound, RestoreAssumption
    <2>. QED  BY <1>1, <1>3, <1>6, <2>2 DEF Fetch
  <1>7. ASSUME Open(j)
        PROVE  RestoreInv'
    <2> DEFINE r == job[j]
               n == [r EXCEPT !.pc = "write", !.raced = FALSE]
    <2>1. Sound(r, target) /\ r \in Active /\ r.pc = "open"
      BY <1>0, <1>7 DEF Open
    <2>2. r.path \in Paths
      BY <2>1, ActiveFields DEF Sound, PathFree
    <2>3. target' = [target EXCEPT ![r.path] = Torn]
      BY <1>7 DEF Open
    <2>4. Sound(n, target')
      BY <2>1, <2>3, OpenSound, RestoreAssumption
    <2>5. job' = [i \in Jobs |-> IF i \in {j} THEN n ELSE Disturbed(job[i], r.path)]
      BY <1>7 DEF Open
    <2>. HIDE DEF n, r
    <2>6. job' \in [Jobs -> Job] /\ target' \in [Paths -> Data \cup {None, Torn}]
          /\ JobsSound'
      BY <2>2, <2>3, <2>4, <2>5, TargetChange
    <2>. QED  BY <1>2, <1>3, <1>7, <2>2, <2>6 DEF Open
  <1>8. ASSUME Write(j)
        PROVE  RestoreInv'
    <2> DEFINE r == job[j]
               n == Ended([r EXCEPT !.placed = @ \cup {<<r.file, r.path>>},
                      !.late = IF r.raced THEN @ \cup {<<r.file, r.path>>} ELSE @])
    <2>1. Sound(r, target) /\ r \in Active /\ r.pc = "write"
      BY <1>0, <1>8 DEF Write
    <2>2. r.path \in Paths /\ r.buf \in Data
      BY <2>1, ActiveFields DEF Sound, PathFree
    <2>3. PICK d \in {r.buf} \cup (IF r.raced THEN {Torn, target[r.path]} ELSE {}) :
             target' = [target EXCEPT ![r.path] = d]
      BY <1>8 DEF Write
    <2>4. d \in Data \cup {None, Torn} /\ (r.raced \/ d = r.buf)
      BY <2>2, <2>3
    <2>5. Sound(n, target')
      BY <2>1, <2>3, <2>4, WriteSound, RestoreAssumption
    <2>6. job' = [i \in Jobs |-> IF i \in {j} THEN n ELSE Disturbed(job[i], r.path)]
      BY <1>8 DEF Write
    <2>. HIDE DEF n, r
    <2>7. job' \in [Jobs -> Job] /\ target' \in [Paths -> Data \cup {None, Torn}]
          /\ JobsSound'
      BY <2>2, <2>3, <2>4, <2>5, <2>6, TargetChange
    <2>. QED  BY <1>2, <1>3, <1>8, <2>2, <2>7 DEF Write
  <1>9. ASSUME Done(j)
        PROVE  RestoreInv'
    <2>1. PICK n : job' = [job EXCEPT ![j] = n] /\ Sound(n, target)
      BY <1>0, <1>9, DoneSound DEF Done
    <2>. QED  BY <1>1, <1>3, <1>9, <2>1 DEF Done
  <1>10. ASSUME WriteFails(j)
         PROVE  RestoreInv'
    <2>1. Sound(job[j], target)
      BY <1>0, <1>10 DEF WriteFails
    <2>2. Sound(Error(job[j]), target)
      BY <1>10, <2>1, ErrorSound DEF Sound, PathFree, WriteFails
    <2>. QED  BY <1>1, <1>3, <1>10, <2>2 DEF WriteFails
  <1>. QED  BY <1>4, <1>5, <1>6, <1>7, <1>8, <1>9, <1>10 DEF Step

\* A user in the target.
LEMMA TouchKeepsInv ==
    ASSUME RestoreInv, NEW p \in Paths, NEW c \in Contents \cup {None}, Touch(p, c)
    PROVE  RestoreInv'
  <1>1. job' = [i \in Jobs |-> IF i \in {} THEN Idle ELSE Disturbed(job[i], p)]
    BY DEF Touch
  <1>2. c \in Data \cup {None, Torn}
    BY DEF Data
  <1>3. target' = [target EXCEPT ![p] = c]
    BY DEF Touch
  <1> DEFINE S == {}
  <1>4. S \in SUBSET Jobs /\ (S # {} => Sound(Idle, target'))
    OBVIOUS
  <1>5. job' = [i \in Jobs |-> IF i \in S THEN Idle ELSE Disturbed(job[i], p)]
    BY <1>1
  <1>. HIDE DEF S
  <1>6. job' \in [Jobs -> Job] /\ target' \in [Paths -> Data \cup {None, Torn}]
        /\ JobsSound'
    BY <1>2, <1>3, <1>4, <1>5, TargetChange
  <1>7. events' \in 0..MaxEvents
    BY RestoreAssumption DEF RestoreInv, TypeOK, Touch, Event
  <1>. QED  BY <1>6, <1>7 DEF RestoreInv, TypeOK, KeysTypeOK, Touch

\* Every step keeps the invariant.
LEMMA StepKeepsInv == RestoreInv /\ [Next]_vars => RestoreInv'
  <1>. SUFFICES ASSUME RestoreInv, [Next]_vars PROVE RestoreInv'
    OBVIOUS
  <1>1. CASE UNCHANGED vars
    <2>1. TypeOK'
      BY <1>1 DEF RestoreInv, TypeOK, KeysTypeOK, vars
    <2>. QED  BY <1>1, <2>1, VaultStep DEF RestoreInv, vars
  <1>2. CASE Next
    BY <1>2, EnvironmentKeepsInv, RestoreKeepsInv, TouchKeepsInv DEF Next
  <1>. QED  BY <1>1, <1>2

\* Every restore is sound at every step.
LEMMA Invariance == Spec => []RestoreInv
  BY InitInv, StepKeepsInv, PTL DEF Spec

\* Every part holds values of its kind at every step, for every vault, target, set of
\* options and bounds.
THEOREM TypeCorrect == Spec => []TypeOK
  <1>1. RestoreInv => TypeOK
    BY DEF RestoreInv
  <1>. QED  BY <1>1, Invariance, PTL

\* What verifying restores wrote, and nobody changed since, is what was backed up.
THEOREM RestoresOriginals == Spec => []RestoredIsOriginal
  <1>1. RestoreInv => RestoredIsOriginal
    BY DEF RestoreInv, JobsSound, Sound, Kept, RestoredIsOriginal, Idle
  <1>. QED  BY <1>1, Invariance, PTL

\* A restore that ends accounts for each file asked for once.
THEOREM ReportIsComplete == Spec => []EndAccountsForAll
  <1>1. ASSUME RestoreInv, NEW j \in Jobs, job[j].pc = "done"
        PROVE  Placed(job[j]) \cup job[j].errors = job[j].filter
               /\ Placed(job[j]) \cap job[j].errors = {}
    <2>1. Sound(job[j], target)
      BY <1>1 DEF RestoreInv, JobsSound, Idle
    <2>. QED  BY <1>1, <2>1 DEF Sound, Partition, PathFree, AtHand
  <1>2. RestoreInv => EndAccountsForAll
    BY <1>1 DEF EndAccountsForAll, Placed
  <1>. QED  BY <1>2, Invariance, PTL

\* No strategy but overwrite empties a file that was there when its path was chosen.
THEOREM ConflictsAreKept == Spec => OthersKept
  <1>1. ASSUME RestoreInv, NEW j \in Jobs,
               job[j].pc = "open", target[job[j].path] # None
        PROVE  job[j].strategy = "overwrite" \/ job[j].raced
    <2>1. Sound(job[j], target)
      BY <1>1 DEF RestoreInv, JobsSound, Idle
    <2>. QED  BY <1>1, <2>1 DEF Sound, PathFree
  <1>2. RestoreInv =>
          \A j \in Jobs :
             job[j].pc = "open" /\ job'[j].pc = "write" /\ target[job[j].path] # None
               => job[j].strategy = "overwrite" \/ job[j].raced
    BY <1>1
  <1>. QED  BY <1>2, Invariance, PTL DEF OthersKept

\* At first no data key is remembered, and one that is follows the master key.
LEMMA KeysInductive ==
    /\ Init => KeysFollowMaster
    /\ KeysFollowMaster /\ [Next]_vars => KeysFollowMaster'
  <1>1. Init => KeysFollowMaster
    BY DEF Init, New, NoKeys, KeysFollowMaster, KeyFor
  <1>2. ASSUME KeysFollowMaster, UNCHANGED keys
        PROVE  KeysFollowMaster'
    BY <1>2 DEF KeysFollowMaster, KeyFor, Derived
  <1>3. ASSUME KeysFollowMaster, NEW k, rotate_master_key(k) \/ Restarted(k)
        PROVE  KeysFollowMaster'
    BY <1>3 DEF KeysFollowMaster, KeyFor, NoKeys, rotate_master_key, Restarted, Derived
  <1>4. ASSUME KeysFollowMaster, NEW c \in Contexts, derive_data_key(c)
        PROVE  KeysFollowMaster'
    BY <1>4 DEF KeysFollowMaster, KeyFor, Derived, derive_data_key
  <1>5. ASSUME KeysFollowMaster, Next
        PROVE  KeysFollowMaster'
    <2>1. ASSUME NEW j \in Jobs, Step(j) \/ WriteFails(j) \/ \E o \in Options : Start(j, o)
          PROVE  UNCHANGED keys
      <3>1. (\E f \in Files : Resolve(j, f)) \/ (\E o \in Options : Start(j, o))
              => UNCHANGED keys
        BY DEF Resolve, Start
      <3>2. Fetch(j) => UNCHANGED keys
        BY DEF Fetch
      <3>3. Open(j) \/ Write(j) => UNCHANGED keys
        BY DEF Open, Write
      <3>4. Done(j) \/ WriteFails(j) => UNCHANGED keys
        BY DEF Done, WriteFails
      <3>. QED  BY <2>1, <3>1, <3>2, <3>3, <3>4 DEF Step
    <2>2. ASSUME NEW f \in Files, Damage(f) \/ Lose(f)
          PROVE  UNCHANGED keys
      BY <2>2 DEF Damage, Lose, Fault
    <2>3. Take => UNCHANGED keys
      BY DEF Take
    <2>4. ASSUME NEW p, NEW c, Touch(p, c)
          PROVE  UNCHANGED keys
      BY <2>4 DEF Touch
    <2>5. ASSUME NEW k \in Masters, Rotate(k) \/ Restart(k)
          PROVE  KeysFollowMaster'
      BY <1>3, <1>5, <2>5 DEF Rotate, Restart
    <2>6. ASSUME NEW c \in Contexts, OpenStorage(c)
          PROVE  KeysFollowMaster'
      BY <1>4, <1>5, <2>6 DEF OpenStorage
    <2>7. CASE UNCHANGED keys
      BY <1>2, <1>5, <2>7
    <2>. QED  BY <1>5, <2>1, <2>2, <2>3, <2>4, <2>5, <2>6, <2>7 DEF Next
  <1>. QED  BY <1>1, <1>2, <1>5 DEF vars

\* No data key of a replaced master key is handed out.
THEOREM FreshKeys == Spec => []KeysFollowMaster
  BY KeysInductive, PTL DEF Spec

=============================================================================
