----------------------------- MODULE Compliance -----------------------------
(***************************************************************************)
(* Compliance rules and the two parts that read them: the checker, which   *)
(* judges a backup policy for a path, and the retention manager, which     *)
(* finds the records that have expired.  Time is counted in days.          *)
(***************************************************************************)
EXTENDS ServerClock, Integers, FiniteSets, SequencesExt, Selection

CONSTANTS DataPaths,   \* paths, each with its class and the regions it lies in
          RuleSet,     \* the rules that are added
          DaysPerYear, \* 365 in the code
          Retentions   \* retention days of backup policies

ASSUME ComplianceAssumption ==
    /\ DaysPerYear \in Nat
    /\ Retentions \subseteq Nat
    /\ \A r \in RuleSet :
          /\ r.retention.kind \in {"all", "years", "until", "unparsed", "custom"}
          /\ r.retention.kind = "years" => r.retention.years \in Nat
          /\ r.retention.kind = "until" => r.retention.date \in Nat

VARIABLES ruleList, \* ComplianceChecker.rules
          kept,     \* RetentionManager.rules, a copy made when it is built
          records,  \* the retention records a sweep is given
          verdict   \* the last compliance report

complianceVars == <<ruleList, kept, records, verdict>>

\* Public, Internal, Confidential, Restricted
Classification == 0..3

ComplianceInit ==
    /\ ruleList = <<>>
    /\ kept = <<>>
    /\ records = {}
    /\ verdict = Nothing

-----------------------------------------------------------------------------
(* Rules.  patterns is the set of paths the glob patterns match; a rule     *)
(* without patterns matches every path.                                     *)

MatchesPath(rule, path) == rule.patterns = {} \/ path \in rule.patterns

IsRegionCompliant(rule, region) == rule.regions = {} \/ region \in rule.regions

AddRule(rule) ==
    /\ Request
    /\ ruleList' = Append(ruleList, rule)
    /\ UNCHANGED <<kept, records, verdict>>

DropRule(id) ==
    /\ Request
    /\ ruleList' = Picked(ruleList, {i \in DOMAIN ruleList : ruleList[i].id # id})
    /\ UNCHANGED <<kept, records, verdict>>

-----------------------------------------------------------------------------
(* The checker *)

\* Mutant: the policy may be a day short.
AlmostLongEnough(retention, days) ==
    retention.kind = "years" => days + 1 >= retention.years * DaysPerYear

\* Only a number of years asks anything of a policy's retention.
RetentionMet(retention, days) ==
    retention.kind = "years" => days >= retention.years * DaysPerYear

\* A rule for data of a higher class than the path's passes at once.
TooHigh(rule, path) == rule.class > path.class

\* The findings of a rule for a path; the expiry of a date only informs.
RuleFindings(rule, path, region, days) ==
    IF TooHigh(rule, path) THEN {}
    ELSE (IF IsRegionCompliant(rule, region) THEN {} ELSE {"critical"})
         \cup (IF RetentionMet(rule.retention, days) THEN {} ELSE {"warning"})
         \cup (IF rule.retention.kind = "until" /\ clock > rule.retention.date
               THEN {"info"} ELSE {})

RulePassed(rule, path, region, days) ==
    RuleFindings(rule, path, region, days) \subseteq {"info"}

ApplyingRules(path) ==
    {i \in DOMAIN ruleList : ruleList[i].enabled /\ MatchesPath(ruleList[i], path)}

FailedRules(path, region, days) ==
    {i \in ApplyingRules(path) : ~RulePassed(ruleList[i], path, region, days)}

\* No rule checked, no failure.
Compliant(path, region, days) == FailedRules(path, region, days) = {}

CheckCompliance(path, region, days) ==
    /\ Request
    /\ verdict' = [passes |-> Compliant(path, region, days),
                   checked |-> Cardinality(ApplyingRules(path)),
                   failed |-> Cardinality(FailedRules(path, region, days))]
    /\ UNCHANGED <<ruleList, kept, records>>

-----------------------------------------------------------------------------
(* The retention manager *)

NewManager ==
    /\ Request
    /\ kept' = ruleList
    /\ UNCHANGED <<ruleList, records, verdict>>

StoreRecord(path) ==
    /\ Request
    /\ records' = records \cup {[path |-> path, created |-> clock]}
    /\ UNCHANGED <<ruleList, kept, verdict>>

\* A date that does not parse retains nothing; a custom rule retains for ever.
Retains(rule, r) ==
    CASE rule.retention.kind = "all" -> TRUE
      [] rule.retention.kind = "years" ->
             clock < r.created + rule.retention.years * DaysPerYear
      [] rule.retention.kind = "until" -> clock <= rule.retention.date
      [] rule.retention.kind = "unparsed" -> FALSE
      [] rule.retention.kind = "custom" -> TRUE

Applicable(list, path) ==
    {i \in DOMAIN list : list[i].enabled /\ MatchesPath(list[i], path)}

\* No rule, no expiry; with rules, none of them may still retain the record.
IsExpired(r) ==
    /\ Applicable(kept, r.path) # {}
    /\ \A i \in Applicable(kept, r.path) : ~Retains(kept[i], r)

\* A sweep reports; whoever owns the records deletes what is expired.
Sweep ==
    /\ Request
    /\ records' = {r \in records : ~IsExpired(r)}
    /\ UNCHANGED <<ruleList, kept, verdict>>

ComplianceNext ==
    \/ \E rule \in RuleSet : AddRule(rule) \/ DropRule(rule.id)
    \/ \E path \in DataPaths, days \in Retentions :
          \E region \in path.regions : CheckCompliance(path, region, days)
    \/ NewManager
    \/ \E path \in DataPaths : StoreRecord(path)
    \/ Sweep
    \/ Passes /\ UNCHANGED complianceVars

ComplianceSpec ==
    ClockInit /\ ComplianceInit /\ [][ComplianceNext]_<<clockVars, complianceVars>>

-----------------------------------------------------------------------------
(* Properties *)

\* The checker and the retention manager agree, where the checker holds a policy to
\* a rule at all: under a policy it passes for a path, a record of that path that is
\* old enough for the policy to delete is retained by a rule for the path's class only
\* when the rule keeps all, or is a custom one, or keeps until a date that the checker
\* does not report as passed.  Of those three kinds, and of rules for a higher class,
\* the checker asks nothing, so that what they retain may well be deleted.
CompliantDeletions ==
    \A r \in records, days \in Retentions :
        \A region \in r.path.regions :
            Compliant(r.path, region, days) /\ clock - r.created >= days =>
                \A i \in Applicable(ruleList, r.path) :
                    ~TooHigh(ruleList[i], r.path) /\ Retains(ruleList[i], r) =>
                        \/ ruleList[i].retention.kind \in {"all", "custom"}
                        \/ /\ ruleList[i].retention.kind = "until"
                           /\ "info" \notin RuleFindings(ruleList[i], r.path, region, days)

=============================================================================
