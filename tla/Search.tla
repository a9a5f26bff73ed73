-------------------------------- MODULE Search --------------------------------
(***************************************************************************)
(* CommandSearch and store/SearchFilter: a client pages through the results*)
(* of a text search.  The index keeps every version of an item, so that    *)
(* the hits of one item, next to each other as a rule, are one result.     *)
(***************************************************************************)
EXTENDS Paging, SequencesExt

CONSTANTS
    Uri,           \* the items that hits are of
    MaxHits        \* bound: hits of the query

VARIABLES
    hits,          \* the index's answer to the query: a sequence of items
    answers,       \* the pages got so far, each a sequence of results
    searching      \* "yes", "done" or "failed"

searchVars == <<hits, answers, searching>>

SearchInit(index) == hits = index /\ answers = <<>> /\ searching = "yes"

\* LuceneIndex.search: a window on the hits.
indexSearch(offset, length) == listWindow(hits, offset, length)

\* One batch of hits: a hit of another item than the last result is a result;
\* those after the offset are kept.  The rest of the batch is dropped once
\* there are maxResults results, the skipped ones included.
scanBatch_AnyHit(acc, batch, offset, maxResults) ==
    FoldLeft(LAMBDA a, hit :
               IF a.stop THEN a
               ELSE [found |-> a.found + 1, lastURI |-> hit, stop |-> a.found + 1 >= maxResults,
                     results |-> IF a.found >= offset THEN Append(a.results, hit) ELSE a.results],
             [acc EXCEPT !.stop = FALSE], batch)

scanBatch(acc, batch, offset, maxResults) ==
    FoldLeft(LAMBDA a, hit :
               IF a.stop \/ hit = a.lastURI THEN a
               ELSE [found |-> a.found + 1, lastURI |-> hit, stop |-> a.found + 1 >= maxResults,
                     results |-> IF a.found >= offset THEN Append(a.results, hit) ELSE a.results],
             [acc EXCEPT !.stop = FALSE], batch)

\* SearchFilter.search: batches are taken until there are enough results or no
\* more hits.  The array has maxResults places, those not filled are null; it
\* is cut to the number of results, the skipped ones included, if that is less.
search(offset, maxResults) ==
    LET batches == [b \in 1..(Len(hits) \div maxResults + 1) |-> indexSearch((b - 1) * maxResults, maxResults)]
        end == FoldLeft(LAMBDA acc, batch :
                          IF acc.found < offset + maxResults THEN scanBatch(acc, batch, offset, maxResults) ELSE acc,
                        [found |-> 0, lastURI |-> Null, stop |-> FALSE, results |-> <<>>], batches)
    IN  [i \in 1..(IF end.found < maxResults THEN end.found ELSE maxResults) |->
            IF i <= Len(end.results) THEN end.results[i] ELSE Null]

\* CommandSearch: a null result is an exception, and a full page has a link to
\* the next one.
SearchPage ==
    LET answer == search(Len(answers) * PageSize, PageSize)
    IN  /\ searching = "yes"
        /\ IF Contains(answer, Null)
           THEN searching' = "failed" /\ UNCHANGED answers
           ELSE /\ answers' = Append(answers, answer)
                /\ searching' = IF Len(answer) = PageSize THEN "yes" ELSE "done"
        /\ UNCHANGED hits

------------------------------------------------------------------------------
(* Properties *)

\* The results: hits of one item that follow each other are one.
Compressed ==
    FoldLeft(LAMBDA s, hit : IF s # <<>> /\ Last(s) = hit THEN s ELSE Append(s, hit), <<>>, hits)

Listed == FlattenSeq(answers)

\* s can be got from t by leaving elements out.
IsSubsequence(s, t) ==
    FoldLeft(LAMBDA n, x : IF n < Len(s) /\ s[n + 1] = x THEN n + 1 ELSE n, 0, t) = Len(s)

\* The first page has the first results.  The pages together list results in
\* their order and none twice, but results after the first page are lost, and
\* a client that follows the links fails at the end unless the first page was
\* the last (SearchFilter.search counts the results it skips).
SearchedInOrder ==
    /\ answers # <<>> =>
          answers[1] = listWindow(Compressed, 0, PageSize)
    /\ IsSubsequence(Listed, Compressed)
    /\ searching = "done" <=> answers # <<>> /\ Len(answers[1]) < PageSize
    /\ searching = "failed" => answers # <<>> /\ Len(answers[1]) = PageSize
===============================================================================
