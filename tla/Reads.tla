--------------------------------- MODULE Reads ---------------------------------
(***************************************************************************)
(* The requests that only read: a behaviour is either of clients that read *)
(* a register while it is written to, or of a client that searches.        *)
(***************************************************************************)
EXTENDS RegisterRead, Search

VARIABLE request

readsVars == <<request, readVars, searchVars>>

ReadsInit ==
    \/ request = "register" /\ ReadInit /\ SearchInit(<<>>)
    \/ /\ request = "search"
       /\ \E index \in BoundedSeq(Uri, MaxHits) : SearchInit(index)
       /\ ReadInit /\ ~delegated /\ status = [i \in Item |-> "none"]

ReadsNext ==
    \/ request = "register" /\ ReadNext /\ UNCHANGED <<request, searchVars>>
    \/ request = "search" /\ SearchPage /\ UNCHANGED <<request, readVars>>

ReadsSpec == ReadsInit /\ [][ReadsNext]_readsVars
===============================================================================
