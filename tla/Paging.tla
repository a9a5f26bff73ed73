-------------------------------- MODULE Paging --------------------------------
(***************************************************************************)
(* Pages of results: the page number times the page size is the offset.    *)
(***************************************************************************)
EXTENDS Naturals, Sequences

CONSTANTS
    PageSize,      \* Registry.getPageSize
    Null

ASSUME PagingAssumption == PageSize \in Nat \ {0}

\* Util.listWindow
listWindow(list, offset, length) ==
    SubSeq(list, offset + 1, IF offset + length < Len(list) THEN offset + length ELSE Len(list))
===============================================================================
