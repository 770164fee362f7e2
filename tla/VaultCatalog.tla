---------------------------- MODULE VaultCatalog ----------------------------
(***************************************************************************)
(* What a vault promises to whoever lists and loads its snapshots: every   *)
(* snapshot id goes through one life, free -> reserved -> published ->     *)
(* gone (or reserved -> gone when the backup fails), it becomes visible in *)
(* one step together with all its files, its files never change while it   *)
(* is visible, and an id that is gone is never seen again.                 *)
(***************************************************************************)
CONSTANTS Ids,      \* snapshot identifiers
          Files,    \* relative paths
          Contents, \* what a file can hold
          None      \* "this snapshot does not hold this path"

VARIABLES life,     \* [Ids -> Life]
          holds     \* [Ids -> [Files -> Contents \cup {None}]], of published ids

vars == <<life, holds>>

Life == {"free", "reserved", "published", "gone"}

Nothing == [f \in Files |-> None]

Init ==
    /\ life = [x \in Ids |-> "free"]
    /\ holds = [x \in Ids |-> Nothing]

Reserve(x) ==
    /\ life[x] = "free"
    /\ life' = [life EXCEPT ![x] = "reserved"]
    /\ UNCHANGED holds

Publish(x) ==
    /\ life[x] = "reserved"
    /\ life' = [life EXCEPT ![x] = "published"]
    /\ \E files \in [Files -> Contents \cup {None}] :
           holds' = [holds EXCEPT ![x] = files]

Abandon(x) ==
    /\ life[x] = "reserved"
    /\ life' = [life EXCEPT ![x] = "gone"]
    /\ UNCHANGED holds

Remove(x) ==
    /\ life[x] = "published"
    /\ life' = [life EXCEPT ![x] = "gone"]
    /\ holds' = [holds EXCEPT ![x] = Nothing]

Next == \E x \in Ids : Reserve(x) \/ Publish(x) \/ Abandon(x) \/ Remove(x)

Spec == Init /\ [][Next]_vars

=============================================================================
