--------------------------- MODULE IntegrityCheck ---------------------------
(***************************************************************************)
(* The integrity engine: files on a disk are checked one after the other   *)
(* against a list of checksums and sizes, first the size and then, in a    *)
(* second look at the file, the checksum.                                  *)
(***************************************************************************)
EXTENDS ServerClock, Integers, FiniteSets, SequencesExt

CONSTANTS CheckedFiles, \* paths below the storage base
          Versions,     \* contents of a file: [size, sum]
          MaxTampers    \* bound on changes of the files

ASSUME IntegrityAssumption ==
    /\ MaxTampers \in Nat
    /\ Versions \subseteq [size : Nat, sum : Nat]
    /\ Nothing \notin Versions

VARIABLES storage,  \* [CheckedFiles -> Versions or Nothing]
          listed,   \* the entries to verify, in order: path and version
          done,     \* how many of them are judged
          sized,    \* whether the current one passed the size check, and with
                    \* which size
          checks,   \* IntegrityReport: ok, failed, bytes, checks
          tampered, \* files that changed since the verification began
          unreadable    \* the entries whose file was there and could not be read

integrityVars == <<storage, listed, done, sized, checks, tampered, unreadable>>

Report == [ok : Nat, failed : Nat, bytes : Nat, list : Seq(BOOLEAN)]

IntegrityTypeOK ==
    /\ storage \in [CheckedFiles -> Versions \cup {Nothing}]
    /\ listed \in Seq([path : CheckedFiles, version : Versions])
    /\ done \in 0..Len(listed)
    /\ sized \in Nat \cup {Nothing}
    /\ checks \in Report
    /\ tampered \subseteq CheckedFiles
    /\ unreadable \subseteq 1..Len(listed)

IntegrityInit ==
    /\ storage \in [CheckedFiles -> Versions \cup {Nothing}]
    /\ listed \in {[i \in 1..2 |-> [path |-> fs[i], version |-> vs[i]]] :
                      fs \in [1..2 -> CheckedFiles], vs \in [1..2 -> Versions]}
    /\ done = 0
    /\ sized = Nothing
    /\ checks = [ok |-> 0, failed |-> 0, bytes |-> 0, list |-> <<>>]
    /\ tampered = {}
    /\ unreadable = {}

\* Somebody writes or deletes a file.
Tamper(f) ==
    /\ served < MaxTampers
    /\ served' = served + 1
    /\ \E v \in Versions \cup {Nothing} :
          /\ v # storage[f]
          /\ storage' = [storage EXCEPT ![f] = v]
    /\ tampered' = tampered \cup {f}
    /\ UNCHANGED <<clock, listed, done, sized, checks, unreadable>>

\* add_check
Added(passed, bytes) ==
    [ok |-> checks.ok + (IF passed THEN 1 ELSE 0),
     failed |-> checks.failed + (IF passed THEN 0 ELSE 1),
     bytes |-> checks.bytes + bytes,
     list |-> Append(checks.list, passed)]

Current == listed[done + 1]

\* Mutant: a wrong size is reported, and the file is read all the same.
SizeCheckedOnly ==
    /\ done < Len(listed)
    /\ sized = Nothing
    /\ LET v == storage[Current.path]
       IN  IF v = Nothing
           THEN /\ checks' = Added(FALSE, 0)
                /\ done' = done + 1
                /\ UNCHANGED sized
           ELSE /\ sized' = v.size
                /\ checks' = IF v.size # Current.version.size
                             THEN Added(FALSE, v.size) ELSE checks
                /\ UNCHANGED done
    /\ UNCHANGED <<clockVars, storage, listed, tampered, unreadable>>

\* A file that is missing, or has another size, has failed; one whose metadata
\* cannot be read counts as missing.
CheckSize ==
    /\ done < Len(listed)
    /\ sized = Nothing
    /\ LET v == storage[Current.path]
       IN  \/ /\ v = Nothing
              /\ checks' = Added(FALSE, 0)
              /\ done' = done + 1
              /\ UNCHANGED <<sized, unreadable>>
           \/ /\ v # Nothing
              /\ checks' = Added(FALSE, 0)
              /\ unreadable' = unreadable \cup {done + 1}
              /\ done' = done + 1
              /\ UNCHANGED sized
           \/ /\ v # Nothing /\ v.size # Current.version.size
              /\ checks' = Added(FALSE, v.size)
              /\ done' = done + 1
              /\ UNCHANGED <<sized, unreadable>>
           \/ /\ v # Nothing /\ v.size = Current.version.size
              /\ sized' = v.size
              /\ UNCHANGED <<checks, done, unreadable>>
    /\ UNCHANGED <<clockVars, storage, listed, tampered>>

\* The file is opened anew: it may be another one, or gone, and what is there may
\* not be readable to its end.  Either failed; the bytes counted are those of the
\* first look, and none when there is no checksum.
CheckSum ==
    /\ sized # Nothing
    /\ LET v == storage[Current.path]
       IN  \/ /\ v = Nothing
              /\ checks' = Added(FALSE, 0)
              /\ UNCHANGED unreadable
           \/ /\ v # Nothing
              /\ checks' = Added(FALSE, 0)
              /\ unreadable' = unreadable \cup {done + 1}
           \/ /\ v # Nothing
              /\ checks' = Added(v.sum = Current.version.sum, sized)
              /\ UNCHANGED unreadable
    /\ sized' = Nothing
    /\ done' = done + 1
    /\ UNCHANGED <<clockVars, storage, listed, tampered>>

IntegrityNext ==
    \/ \E f \in CheckedFiles : Tamper(f)
    \/ CheckSize
    \/ CheckSum

IntegritySpec == ClockInit /\ IntegrityInit /\ [][IntegrityNext]_<<clockVars, integrityVars>>

-----------------------------------------------------------------------------
(* Properties *)

\* The report accounts for every entry once, in order, and judges the files
\* nobody touched meanwhile by what they hold: those pass that have the checksum
\* and the size of their entry, all others fail.  A file that is there and cannot
\* be read has failed, whatever it holds.
ReportTrue ==
    /\ checks.ok + checks.failed = Len(checks.list)
    /\ Len(checks.list) = done
    /\ \A i \in 1..done :
          listed[i].path \notin tampered =>
              (checks.list[i] <=>
                  i \notin unreadable /\ storage[listed[i].path] = listed[i].version)

=============================================================================
