------------------------------ MODULE MCBrowser ------------------------------
(* A small instance of Browser. *)
EXTENDS Browser

CONSTANTS d1, d2, d3, rdf, own

MCLinksets == {<<d1, d2>>, <<d2, d1>>, <<d1, d3>>, <<d3, d2>>}

MCConfig == <<[name |-> "default", prefixes |-> <<rdf>>, query |-> "none"],
              [name |-> "core-1", prefixes |-> <<>>, query |-> "body1"],
              [name |-> "core-2", prefixes |-> <<own>>, query |-> "body2"]>>
==============================================================================
