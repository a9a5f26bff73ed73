------------------------------- MODULE Qonsole -------------------------------
(***************************************************************************)
(* The SPARQL query page of the browser (webapp/ui/js/qonsole.js).  A text *)
(* is a sequence of lines: a prefix that the line declares, Blank, or the  *)
(* body of an example.  Queries run asynchronously and are answered in any *)
(* order.  Layout, wording and the counting of rows are left out.          *)
(***************************************************************************)
EXTENDS Naturals, Sequences, SequencesExt

CONSTANTS
    Prefix,       \* the prefixes of the configuration
    Config,       \* the entries of qonfig.json: [name, prefixes (a sequence), query]
    Formats,      \* the values of data-format, "tsv" among them
    Blank, None,
    MaxQueries    \* bound: queries in flight

ASSUME QonsoleAssumption ==
    /\ "tsv" \in Formats
    /\ Blank \notin Prefix
    /\ Config \in Seq([name : STRING, prefixes : Seq(Prefix), query : STRING])
    /\ \A i \in DOMAIN Config : Config[i].query \notin Prefix \cup {Blank}
    /\ None \notin [query : STRING, output : Formats, as : Formats \cup {"error"}, overtaken : BOOLEAN]
    /\ MaxQueries \in Nat

VARIABLES
    examples,  \* _config: the entries offered as radio buttons
    current,   \* _current_query: an entry or None
    boxes,     \* #prefixes: the prefixes in the list, in order
    checked,   \* the boxes that are checked
    lines,     \* the text in the editor
    format,    \* the active button of #format-choice
    running,   \* queries in flight
    result,    \* what #results shows
    timeTaken  \* whether #timeTaken is shown

qonsoleVars == <<examples, current, boxes, checked, lines, format, running, result, timeTaken>>

defaults == SelectSeq(Config, LAMBDA e : e.name = "default")

\* splice(_config, 1) takes the first entry away wherever the default entry stands.
offered == IF defaults = <<>> THEN Config ELSE Tail(Config)

loadPrefixes(e) == (IF defaults = <<>> THEN <<>> ELSE Last(defaults).prefixes) \o e.prefixes

\* As in qonfig.json: an example does not repeat a prefix, nor one of the defaults.
ASSUME PrefixesAssumption ==
    \A i \in DOMAIN offered :
        LET p == loadPrefixes(offered[i])
        IN  p \in Seq(Prefix) /\ \A j, k \in DOMAIN p : p[j] = p[k] => j = k

QonsoleInit ==
    /\ examples = <<>> /\ current = None
    /\ boxes = <<>> /\ checked = {} /\ lines = <<>>
    /\ format = "tsv"
    /\ running = {} /\ result = None /\ timeTaken = FALSE

\* selectQuery: loadPrefixes (all boxes checked), loadQuery, clearResults.
\* A query in flight is not cancelled.
selectQuery_ResultsKept(e) ==
    /\ current' = e
    /\ boxes' = loadPrefixes(e)
    /\ checked' = ToSet(boxes')
    /\ lines' = boxes' \o <<Blank, e.query>>
    /\ running' = {[q EXCEPT !.overtaken = TRUE] : q \in running}
    /\ UNCHANGED <<result, timeTaken>>

selectQuery(e) ==
    /\ current' = e
    /\ boxes' = loadPrefixes(e)
    /\ checked' = ToSet(boxes')
    /\ lines' = boxes' \o <<Blank, e.query>>
    /\ running' = {[q EXCEPT !.overtaken = TRUE] : q \in running}
    /\ result' = None
    /\ timeTaken' = FALSE

\* onConfigLoaded, showQueries.
onConfigLoaded ==
    /\ current = None
    /\ examples' = offered
    /\ examples' # <<>>
    /\ selectQuery(examples'[1])
    /\ UNCHANGED format

Select ==
    /\ \E i \in DOMAIN examples : selectQuery(examples[i])
    /\ UNCHANGED <<examples, format>>

declares(p) == {i \in DOMAIN lines : lines[i] = p}
otherLines == {i \in DOMAIN lines : lines[i] \notin Prefix}
First(S) == CHOOSE i \in S : \A j \in S : i <= j

\* The new text: the first declaration of p is removed, or one is added
\* before the first line that is not a declaration, if there is such a line.
addPrefixDeclaration_LineAfter(p, add) ==
    CASE ~add /\ declares(p) # {} -> RemoveAt(lines, First(declares(p)))
      [] add /\ declares(p) = {} /\ otherLines # {} -> InsertAt(lines, First(otherLines) + 1, p)
      [] OTHER -> lines

addPrefixDeclaration(p, add) ==
    CASE ~add /\ declares(p) # {} -> RemoveAt(lines, First(declares(p)))
      [] add /\ declares(p) = {} /\ otherLines # {} -> InsertAt(lines, First(otherLines), p)
      [] OTHER -> lines

\* A click on a box (addOrRemovePrefix) has just changed it.
ClickPrefix ==
    \E p \in ToSet(boxes) :
        /\ checked' = IF p \in checked THEN checked \ {p} ELSE checked \cup {p}
        /\ lines' = addPrefixDeclaration(p, p \in checked')
        /\ UNCHANGED <<examples, current, boxes, format, running, result, timeTaken>>

\* The user deletes a line in the editor.
DeleteLine ==
    \E i \in DOMAIN lines :
        /\ lines' = RemoveAt(lines, i)
        /\ UNCHANGED <<examples, current, boxes, checked, format, running, result, timeTaken>>

ChooseFormat ==
    \E f \in Formats \ {format} :
        /\ format' = f
        /\ running' = {[q EXCEPT !.overtaken = TRUE] : q \in running}
        /\ UNCHANGED <<examples, current, boxes, checked, lines, result, timeTaken>>

\* overtaken is history: since the request the user has selected an example,
\* chosen a format or run another query.
runQuery ==
    \E id \in 1..MaxQueries :
        /\ current # None
        /\ \A q \in running : q.id # id
        /\ running' = {[q EXCEPT !.overtaken = TRUE] : q \in running}
                      \cup {[id |-> id, query |-> current.name, output |-> format, overtaken |-> FALSE]}
        /\ timeTaken' = FALSE
        /\ UNCHANGED <<examples, current, boxes, checked, lines, format, result>>

Shown(q, as) == [query |-> q.query, output |-> q.output, as |-> as, overtaken |-> q.overtaken]

\* onQuerySuccess renders in the format selected now.  Drawing a table from a
\* text in another format may throw, which leaves the page as it was.
onQuerySuccess(q) ==
    /\ running' = running \ {q}
    /\ \/ result' = Shown(q, format) /\ timeTaken' = TRUE
       \/ format = "tsv" /\ q.output # "tsv" /\ UNCHANGED <<result, timeTaken>>
    /\ UNCHANGED <<examples, current, boxes, checked, lines, format>>

\* An error is shown as plain text in place of the result.
onQueryFail(q) ==
    /\ running' = running \ {q}
    /\ result' = Shown(q, "error") /\ timeTaken' = TRUE
    /\ UNCHANGED <<examples, current, boxes, checked, lines, format>>

QonsoleNext ==
    \/ onConfigLoaded
    \/ Select
    \/ ClickPrefix
    \/ DeleteLine
    \/ ChooseFormat
    \/ runQuery
    \/ \E q \in running : onQuerySuccess(q) \/ onQueryFail(q)

------------------------------------------------------------------------------
(* Properties *)

\* Whatever boxes are clicked, lines deleted and examples selected: no prefix
\* is declared twice, the declarations stand before the query, and the prefix
\* of a box that is not checked is not declared (addPrefixDeclaration; the
\* configuration declares a prefix once, as qonfig.json does).
PrefixesFollowBoxes ==
    /\ \A i, j \in DOMAIN lines :
          /\ lines[i] \in Prefix /\ lines[i] = lines[j] => i = j
          /\ lines[j] \in Prefix /\ i < j => lines[i] \in Prefix
    /\ \A p \in ToSet(boxes) \ checked : declares(p) = {}

\* The result shown answers a query of the example selected, and is rendered
\* in the format it was asked in, unless a click came between the
\* request and the answer; the time is shown only with a result.
ResultBelongsUnlessOvertaken ==
    /\ timeTaken => result # None
    /\ result # None /\ ~result.overtaken =>
          /\ result.query = current.name
          /\ result.as \in {result.output, "error"}
==============================================================================
