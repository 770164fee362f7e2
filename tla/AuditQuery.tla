----------------------------- MODULE AuditQuery -----------------------------
(***************************************************************************)
(* Reading the audit log page by page, while other requests append to it   *)
(* and rotate it.                                                          *)
(***************************************************************************)
EXTENDS AuditLog, FiniteSets, SequencesExt, Selection

CONSTANTS Readers, \* callers of GET /audit
          PerPage, \* AuditQuery.per_page
          AnyBody, \* no filter
          Filters  \* the filters they use

\* A filter on what an entry records, and one on its time.
ASSUME QueryAssumption ==
    /\ PerPage \in Nat \ {0}
    /\ Filters \subseteq
           [body : Bodies \cup {AnyBody}, start_day : 0..MaxDays, end_day : 0..MaxDays]

VARIABLES reading, \* the query of each reader, and how far it got
          report   \* the last query read to its end

queryVars == <<reading, report>>

QueryInit ==
    /\ reading = [r \in Readers |-> AnyBody]
    /\ report = AnyBody

\* AuditQuery::matches
MatchesQuery(q, e) ==
    /\ q.start_day <= e.day
    /\ e.day <= q.end_day
    /\ q.body \in {AnyBody, e.body}

\* The active entries that match.
MatchesOf(q) == {i \in DOMAIN entries : MatchesQuery(q, entries[i])}

\* Mutant: oldest first.
FilteredOldest(q) == Picked(entries, MatchesOf(q))

\* They are shown newest first.
Filtered(q) == Reverse(Picked(entries, MatchesOf(q)))

SeqsOf(s) == {s[i].seq : i \in DOMAIN s}

\* query: the items of a page; beyond the last entry a page is empty.
PageOf(q, page) ==
    LET filtered == Filtered(q)
        end == (page + 1) * PerPage
    IN  SubSeq(filtered, page * PerPage + 1,
               IF end < Len(filtered) THEN end ELSE Len(filtered))

\* A reader asks for the first page.  What matches then is history.
BeginQuery(r, q) ==
    /\ reading[r] = AnyBody
    /\ reading' = [reading EXCEPT ![r] =
           [q |-> q, page |-> 0, seen |-> {}, matched |-> SeqsOf(Filtered(q))]]
    /\ UNCHANGED <<vars, report>>

\* A reader goes on to the next page until one is empty.
ReadPage(r) ==
    /\ reading[r] # AnyBody
    /\ LET items == SeqsOf(PageOf(reading[r].q, reading[r].page))
       IN  IF items = {}
           THEN /\ report' = [seen |-> reading[r].seen,
                              active |-> reading[r].matched \cap SeqsOf(entries)]
                /\ reading' = [reading EXCEPT ![r] = AnyBody]
           ELSE /\ reading' = [reading EXCEPT ![r].page = @ + 1, ![r].seen = @ \cup items]
                /\ UNCHANGED report
    /\ UNCHANGED vars

\* export_json and export_csv: all matching entries under one lock.
ExportMatching(q) ==
    /\ report' = [seen |-> SeqsOf(Filtered(q)), active |-> SeqsOf(Filtered(q))]
    /\ UNCHANGED <<vars, reading>>

QueryNext ==
    \/ \E q \in Filters : ExportMatching(q) \/ \E r \in Readers : BeginQuery(r, q)
    \/ \E r \in Readers : ReadPage(r)
    \/ Next /\ UNCHANGED queryVars

QuerySpec == Init /\ QueryInit /\ [][QueryNext]_<<vars, queryVars>>

-----------------------------------------------------------------------------
(* Properties *)

\* Paging by offset through a log that changes loses nothing: an entry that
\* matches and is active from the first page to the empty one is in some page,
\* since new entries push the others to later pages and rotation takes the last.
PagesMissNothing == report # AnyBody => report.active \subseteq report.seen

=============================================================================
