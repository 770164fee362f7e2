----------------------------- MODULE FileSearch -----------------------------
(***************************************************************************)
(* The file index and its searches.  A keyword is a value; an entry says   *)
(* which keywords its path, its file name, its tags, and its summary       *)
(* contain.                                                                *)
(***************************************************************************)
EXTENDS ServerClock, Integers, Sequences, FiniteSets, FiniteSetsExt

CONSTANTS IndexPaths,  \* paths
          Keywords,    \* search terms
          IndexEntries,\* entries: inPath, inName, inTags, inSummary
          ResultLimit  \* limit of the semantic search

ASSUME SearchAssumption ==
    /\ IsFiniteSet(IndexPaths)
    /\ ResultLimit \in Nat
    /\ \A e \in IndexEntries : e.inName \subseteq e.inPath

VARIABLES index,    \* FileIndex.entries
          snapshot, \* the index a KeywordSemanticSearch was made with
          results   \* the last search: keyword, sequence of paths, limit

searchVars == <<index, snapshot, results>>

SearchInit ==
    /\ index = [p \in IndexPaths |-> Nothing]
    /\ snapshot = [p \in IndexPaths |-> Nothing]
    /\ results = Nothing

Upsert(p, entry) ==
    /\ Request
    /\ index' = [index EXCEPT ![p] = entry]
    /\ UNCHANGED <<snapshot, results>>

RemoveEntry(p) ==
    /\ Request
    /\ index' = [index EXCEPT ![p] = Nothing]
    /\ UNCHANGED <<snapshot, results>>

\* The semantic search owns a copy; index_document and remove_document do nothing.
NewSearch ==
    /\ Request
    /\ snapshot' = index
    /\ UNCHANGED <<index, results>>

\* The extension is part of the path, so that it adds no match.
MatchesKeyword(entry, keyword) ==
    keyword \in entry.inPath \cup entry.inTags \cup entry.inSummary

Score(points, set, keyword) == IF keyword \in set THEN points ELSE 0

\* In tenths; a path, its name, a tag and the summary together make 13.
Relevance(entry, keyword) ==
    Score(5, entry.inPath, keyword) + Score(3, entry.inName, keyword)
        + Score(3, entry.inTags, keyword) + Score(2, entry.inSummary, keyword)

Matching(idx, keyword) ==
    {p \in IndexPaths : idx[p] # Nothing /\ MatchesKeyword(idx[p], keyword)}

\* Mutant: the limit is applied before the order.
CutThenSorted(idx, keyword, limit) ==
    LET n == IF limit < Cardinality(Matching(idx, keyword))
             THEN limit ELSE Cardinality(Matching(idx, keyword))
    IN  UNION {{s \in [1..n -> kept] :
                   /\ \A i, j \in 1..n : i # j => s[i] # s[j]
                   /\ \A i, j \in 1..n : i < j =>
                         Relevance(idx[s[i]], keyword) >= Relevance(idx[s[j]], keyword)} :
               kept \in kSubset(n, Matching(idx, keyword))}

\* Results are ordered by relevance, equal ones in any order, and then cut.
Ranked(idx, keyword, limit) ==
    LET found == Matching(idx, keyword)
        n == Cardinality(found)
        orders == {s \in [1..n -> found] :
                      /\ \A i, j \in 1..n : i # j => s[i] # s[j]
                      /\ \A i, j \in 1..n : i < j =>
                            Relevance(idx[s[i]], keyword) >= Relevance(idx[s[j]], keyword)}
    IN  {[i \in 1..(IF limit < n THEN limit ELSE n) |-> s[i]] : s \in orders}

SearchKeyword(keyword) ==
    /\ Request
    /\ \E s \in Ranked(index, keyword, Cardinality(IndexPaths)) :
          results' = [keyword |-> keyword, from |-> index, paths |-> s,
                      limit |-> Cardinality(IndexPaths)]
    /\ UNCHANGED <<index, snapshot>>

SemanticSearch(keyword) ==
    /\ Request
    /\ \E s \in Ranked(snapshot, keyword, ResultLimit) :
          results' = [keyword |-> keyword, from |-> snapshot, paths |-> s,
                      limit |-> ResultLimit]
    /\ UNCHANGED <<index, snapshot>>

SearchNext ==
    \/ \E p \in IndexPaths :
          \/ \E entry \in IndexEntries : Upsert(p, entry)
          \/ RemoveEntry(p)
    \/ NewSearch
    \/ \E keyword \in Keywords : SearchKeyword(keyword) \/ SemanticSearch(keyword)

SearchSpec ==
    ClockInit /\ SearchInit /\ [][SearchNext]_<<clockVars, searchVars>>

-----------------------------------------------------------------------------
(* Properties *)

ResultPaths == {results.paths[i] : i \in DOMAIN results.paths}

\* A search returns the best matches, and as many of them as there are room and
\* matches for: nothing it leaves out is more relevant than what it returns.
BestMatches ==
    results # Nothing =>
        LET found == Matching(results.from, results.keyword)
        IN  /\ ResultPaths \subseteq found
            /\ Len(results.paths) = Min({results.limit, Cardinality(found)})
            /\ \A p \in found \ ResultPaths, q \in ResultPaths :
                  Relevance(results.from[q], results.keyword)
                      >= Relevance(results.from[p], results.keyword)

=============================================================================
