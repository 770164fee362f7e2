----------------------------- MODULE KeyManager -----------------------------
(***************************************************************************)
(* The key hierarchy of one process (KeyManager in                         *)
(* openvault-core/src/crypto.rs): a master key, and one data key per       *)
(* context derived from it.  The hash over the master key, the context and *)
(* the version is as good as the triple: equal only for equal inputs.      *)
(***************************************************************************)
EXTENDS Integers

CONSTANTS
    Masters,      \* master keys
    Contexts,     \* what data keys are derived for
    None,
    MaxVersion    \* bound: rotations of one process, plus one

ASSUME KeyAssumption ==
    /\ MaxVersion \in Nat \ {0}
    /\ None \notin [master : Masters, context : Contexts, version : 1..MaxVersion]

DataKey == [master : Masters, context : Contexts, version : 1..MaxVersion]

VARIABLES
    master_key, master_key_version,
    data_keys,       \* per context: the data key derived, if any
    old_master_keys  \* the master keys replaced, with their versions

keys == <<master_key, master_key_version, data_keys, old_master_keys>>

KeysTypeOK ==
    /\ master_key \in Masters /\ master_key_version \in 1..MaxVersion
    /\ data_keys \in [Contexts -> DataKey \cup {None}]
    /\ old_master_keys \subseteq (1..MaxVersion) \X Masters

NoKeys == [c \in Contexts |-> None]

\* KeyManager::new.
New(k) ==
    /\ master_key = k /\ master_key_version = 1
    /\ data_keys = NoKeys /\ old_master_keys = {}

Derived(c) == [master |-> master_key, context |-> c, version |-> master_key_version]

\* What derive_data_key, and so create_crypto, returns.
KeyFor(c) == IF data_keys[c] = None THEN Derived(c) ELSE data_keys[c]

derive_data_key(c) ==
    /\ data_keys' = [data_keys EXCEPT ![c] = KeyFor(c)]
    /\ UNCHANGED <<master_key, master_key_version, old_master_keys>>

\* Mutant: the data keys of the old master key stay.
rotate_master_key_only(k) ==
    /\ master_key_version < MaxVersion
    /\ old_master_keys' = old_master_keys \cup {<<master_key_version, master_key>>}
    /\ master_key' = k
    /\ master_key_version' = master_key_version + 1
    /\ UNCHANGED data_keys

rotate_master_key(k) ==
    /\ master_key_version < MaxVersion
    /\ old_master_keys' = old_master_keys \cup {<<master_key_version, master_key>>}
    /\ master_key' = k
    /\ master_key_version' = master_key_version + 1
    /\ data_keys' = NoKeys

\* The process is started again and given the master key k.
Restarted(k) ==
    /\ master_key' = k /\ master_key_version' = 1
    /\ data_keys' = NoKeys /\ old_master_keys' = {}

=============================================================================
