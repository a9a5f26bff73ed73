------------------------------- MODULE EditForm -------------------------------
(***************************************************************************)
(* The edit page of the browser (webapp/ui/js/ui.js, edit-form.vm): a      *)
(* table with a row per value.  A row has an id, which its buttons name; a *)
(* new row's id is the id of the row it is added to with a counter written *)
(* after it.  Ids are sequences of characters: the digits after "edit-",   *)
(* or NewRow and the digits after "edit-table-newrow-".                    *)
(***************************************************************************)
EXTENDS Naturals, Sequences, SequencesExt

CONSTANTS
    TableSizes,  \* the numbers of rows the page may be opened with
    MaxEdits,    \* bound: rows added and removed; from the twelfth row added
                 \* on, ids can meet ("1" with "12" and "11" with "2")
    MaxSaves     \* bound: saves in flight

ASSUME EditFormAssumption ==
    /\ TableSizes \subseteq 1..99
    /\ MaxEdits \in 0..11
    /\ MaxSaves \in Nat

VARIABLES
    tableSize,  \* the rows the page came with
    table,      \* the rows in order: id, element (its identity), handlers
    idcount,
    edits,      \* rows added and removed so far: names the table's content
    saves,      \* saves in flight: the content each sends
    stored,     \* the content the server stored last
    msg,        \* the message shown
    misses,     \* history: clicks that acted on another row, or not once
    lastSent,   \* history: the content of the last save clicked
    overlapped  \* history: a save was clicked while another was in flight

editVars == <<tableSize, table, idcount, edits, saves, stored, msg, misses,
              lastSent, overlapped>>

\* Stands for "table-newrow-", which is no digit.
NewRow == 10

\* A number below 100 as a string.
digits(n) == IF n < 10 THEN <<n>> ELSE <<n \div 10, n % 10>>

EditInit(n) ==
    /\ tableSize = n
    /\ table = [i \in 1..n |-> [id |-> digits(i - 1), element |-> i - 1, handlers |-> 1]]
    /\ idcount = 1
    /\ edits = 0
    /\ saves = {} /\ stored = 0 /\ msg = "none"
    /\ misses = 0 /\ lastSent = 0 /\ overlapped = FALSE

\* $("#id") is the first row with the id.
find(t, id) == SelectInSeq(t, LAMBDA r : r.id = id)

\* installEditRow: the row is put after the position, and the handlers are
\* bound to whatever $("#id") finds.
installEditRow(t, position, id, element) ==
    LET new == [id |-> id, element |-> element, handlers |-> 0]
        added == InsertAt(t, position + 1, new)
    IN  [added EXCEPT ![find(added, id)].handlers = @ + 1]

\* One call of editAddAction for the row with the id: the new row goes after
\* the row that $("#id") finds.
editAddAction_CountOnly(t, id, count) ==
    installEditRow(t, find(t, id), digits(count), 100 + count)

editAddAction(t, id, count) ==
    installEditRow(t, find(t, id), id \o digits(count), 100 + count)

\* A click on a row's plus runs each handler bound to it.
AddRow(i) ==
    LET r == table[i]
        step[k \in 0..r.handlers] ==
            IF k = 0 THEN table ELSE editAddAction(step[k - 1], r.id, idcount + k - 1)
    IN  /\ edits < MaxEdits
        /\ table' = step[r.handlers]
        /\ idcount' = idcount + r.handlers
        /\ edits' = edits + 1
        /\ misses' = misses + IF r.handlers = 1 /\ find(table, r.id) = i THEN 0 ELSE 1
        /\ UNCHANGED <<tableSize, saves, stored, msg, lastSent, overlapped>>

\* editAddNewAction: after the last row of the table, if it has one.
AddNewRow ==
    /\ edits < MaxEdits
    /\ table' = IF table = <<>> THEN table
                ELSE installEditRow(table, Len(table), <<NewRow>> \o digits(idcount), 100 + idcount)
    /\ idcount' = idcount + 1
    /\ edits' = edits + 1
    /\ UNCHANGED <<tableSize, saves, stored, msg, misses, lastSent, overlapped>>

\* editRemoveAction removes the row that $("#id") finds, if there is one.
editRemoveAction(t, id) ==
    IF find(t, id) = 0 THEN t ELSE RemoveAt(t, find(t, id))

RemoveRow(i) ==
    LET r == table[i]
        step[k \in 0..r.handlers] ==
            IF k = 0 THEN table ELSE editRemoveAction(step[k - 1], r.id)
    IN  /\ edits < MaxEdits
        /\ table' = step[r.handlers]
        /\ edits' = edits + 1
        /\ misses' = misses + IF r.handlers = 1 /\ find(table, r.id) = i THEN 0 ELSE 1
        /\ UNCHANGED <<tableSize, idcount, saves, stored, msg, lastSent, overlapped>>

\* A click on .edit-table-save sends the whole table; a second click does not
\* wait for the first answer.
Save_AsOpened ==
    \E id \in 1..MaxSaves :
        /\ \A s \in saves : s.id # id
        /\ saves' = saves \cup {[id |-> id, content |-> 0, done |-> FALSE]}
        /\ lastSent' = edits
        /\ overlapped' = (overlapped \/ \E s \in saves : ~s.done)
        /\ UNCHANGED <<tableSize, table, idcount, edits, stored, msg, misses>>

Save ==
    \E id \in 1..MaxSaves :
        /\ \A s \in saves : s.id # id
        /\ saves' = saves \cup {[id |-> id, content |-> edits, done |-> FALSE]}
        /\ lastSent' = edits
        /\ overlapped' = (overlapped \/ \E s \in saves : ~s.done)
        /\ UNCHANGED <<tableSize, table, idcount, edits, stored, msg, misses>>

\* The server stores a save; those in flight together come in any order.
Stored(s) ==
    /\ ~s.done
    /\ stored' = s.content
    /\ saves' = (saves \ {s}) \cup {[s EXCEPT !.done = TRUE]}
    /\ UNCHANGED <<tableSize, table, idcount, edits, msg, misses, lastSent, overlapped>>

SaveFailed(s) ==
    /\ ~s.done
    /\ saves' = saves \ {s}
    /\ msg' = "failed"
    /\ UNCHANGED <<tableSize, table, idcount, edits, stored, misses, lastSent, overlapped>>

EditNext ==
    \/ \E i \in DOMAIN table : AddRow(i) \/ RemoveRow(i)
    \/ AddNewRow
    \/ Save
    \/ \E s \in saves : Stored(s) \/ SaveFailed(s)

------------------------------------------------------------------------------
(* Properties *)

\* In a table opened with at most eleven rows every button acts once and on
\* its own row: no two rows have one id, and every row has its handlers
\* (editAddAction, installEditRow, editRemoveAction).  With twelve rows, the row added to "edit-1" first is a
\* second "edit-11".
ButtonsActOnTheirRow ==
    tableSize <= 11 =>
        /\ misses = 0
        /\ \A i, j \in DOMAIN table : table[i].id = table[j].id => i = j
        /\ \A i \in DOMAIN table : table[i].handlers = 1

\* Once every save is answered, the server has the table as the last click on
\* the button sent it, unless two saves were in flight together (nothing
\* disables the button, and the server may take them in either order) or one
\* failed.
LastSaveStored ==
    (\A s \in saves : s.done) /\ msg = "none" /\ ~overlapped => stored = lastSent
==============================================================================
