----------------------------- MODULE Classifier -----------------------------
(***************************************************************************)
(* The file classifier: custom rules first, then built-in heuristics over  *)
(* the directories, the name and the extension of a path.                  *)
(***************************************************************************)
EXTENDS ServerClock, Integers, FiniteSets, SequencesExt, Selection

CONSTANTS FilePaths,     \* paths: inTemp, built, extension, logName
          CustomRules,   \* rules: name, enabled, valid, paths, category, priority
          ExtensionClass \* a class of extensions: [class -> category]

VARIABLES customRules, \* FileClassifier.custom_rules
          classified   \* the last classification

classifierVars == <<customRules, classified>>

Categories == {"code", "config", "document", "image", "video", "audio", "data",
               "temp", "log", "other"}

ASSUME ClassifierAssumption ==
    \A p \in FilePaths :
        p.extension \in DOMAIN ExtensionClass \cup {"none"}

ClassifierInit ==
    /\ customRules = <<>>
    /\ classified = Nothing

\* 0 (not backed up) .. 3 (high).
DefaultPriority(category) ==
    CASE category \in {"code", "config", "image", "data"} -> 3
      [] category \in {"document", "other"} -> 2
      [] category \in {"video", "audio", "log"} -> 1
      [] category = "temp" -> 0

BackupMode(category) ==
    CASE category \in {"code", "config", "data"} -> "realtime"
      [] category = "temp" -> "none"
      [] OTHER -> "scheduled"

\* Directories before extensions, temporary files before logs, logs before the
\* tables of extensions.  No name both starts with a dot and has none, so that
\* a dotfile is a configuration file only by its extension.
BuiltinCategory(path) ==
    IF path.inTemp \/ path.built \/ path.extension = "temporary" THEN "temp"
    ELSE IF path.logName \/ path.extension = "log" THEN "log"
    ELSE IF path.extension = "none" THEN "other"
    ELSE ExtensionClass[path.extension]

\* A rule that is switched off, or whose pattern does not compile, is passed over.
Decides(rule, path) == rule.enabled /\ rule.valid /\ path \in rule.paths

\* Mutant: an invalid pattern ends the search.
DecidingUpToInvalid(list, path) ==
    {i \in DOMAIN list : Decides(list[i], path) /\ \A j \in 1..i : list[j].valid}

Deciding(list, path) == {i \in DOMAIN list : Decides(list[i], path)}

\* The first rule that decides; else the heuristics.
Classify(list, path) ==
    IF Deciding(list, path) = {}
    THEN [category |-> BuiltinCategory(path),
          priority |-> DefaultPriority(BuiltinCategory(path)),
          mode |-> BackupMode(BuiltinCategory(path)), rule |-> Nothing]
    ELSE LET i == CHOOSE i \in Deciding(list, path) :
                      \A j \in Deciding(list, path) : i <= j
         IN  [category |-> list[i].category, priority |-> list[i].priority,
              mode |-> BackupMode(list[i].category), rule |-> list[i].name]

AddCustomRule(rule) ==
    /\ Request
    /\ customRules' = Append(customRules, rule)
    /\ UNCHANGED classified

\* Every rule of the name goes.
RemoveCustomRule(name) ==
    /\ Request
    /\ customRules' = Picked(customRules,
                           {i \in DOMAIN customRules : customRules[i].name # name})
    /\ UNCHANGED classified

ClassifyPath(path) ==
    /\ Request
    /\ classified' = [path |-> path, as |-> Classify(customRules, path)]
    /\ UNCHANGED customRules

ClassifierNext ==
    \/ \E rule \in CustomRules : AddCustomRule(rule) \/ RemoveCustomRule(rule.name)
    \/ \E path \in FilePaths : ClassifyPath(path)

ClassifierSpec ==
    ClockInit /\ ClassifierInit /\ [][ClassifierNext]_<<clockVars, classifierVars>>

-----------------------------------------------------------------------------
(* Properties *)

\* A broken rule costs nothing but itself: every path is classified as if the
\* rules that are switched off or do not compile had never been added.
BrokenRulesHarmless ==
    LET effective == Picked(customRules, {i \in DOMAIN customRules :
                                 customRules[i].enabled /\ customRules[i].valid})
    IN  \A path \in FilePaths :
            Classify(customRules, path) = Classify(effective, path)

=============================================================================
