-------------------------------- MODULE Trie --------------------------------
(***************************************************************************)
(* util/Trie: a tree of path segments.  A node is a branch, which maps     *)
(* segments to nodes, or a terminal, which holds a record and stands at    *)
(* the end of a path.  A path is the sequence that split makes of it.      *)
(***************************************************************************)
EXTENDS Naturals, Sequences

Terminal(r) == [kind |-> "terminal", match |-> r]
Branch(f) == [kind |-> "branch", branches |-> f]
root == Branch(<<>>)

Put(node, segment, child) ==
    Branch([s \in DOMAIN node.branches \cup {segment} |->
                IF s = segment THEN child ELSE node.branches[s]])

\* TrieBranch.register and TrieTerminal.register
RECURSIVE register(_, _, _, _)
register(node, path, index, r) ==
    IF node.kind = "terminal" THEN node
    ELSE LET segment == path[index]
         IN  IF index >= Len(path) THEN Put(node, segment, Terminal(r))
             ELSE LET next == IF segment \in DOMAIN node.branches
                              THEN node.branches[segment] ELSE root
                  IN  Put(node, segment, register(next, path, index + 1, r))

\* TrieBranch.unregister and TrieTerminal.unregister
RECURSIVE unregister(_, _, _)
unregister(node, path, index) ==
    IF node.kind = "terminal" THEN node
    ELSE LET segment == path[index]
         IN  IF segment \notin DOMAIN node.branches THEN node
             ELSE IF index >= Len(path)
                  THEN Branch([s \in DOMAIN node.branches \ {segment} |-> node.branches[s]])
                  ELSE Put(node, segment, unregister(node.branches[segment], path, index + 1))

\* match: at most one record, with the rest of the path.
RECURSIVE match(_, _, _)
match_NoRemainder(node, path, index) ==
    IF node.kind = "terminal" THEN {[match |-> node.match, remainder |-> <<>>]}
    ELSE IF index > Len(path) \/ path[index] \notin DOMAIN node.branches THEN {}
         ELSE match(node.branches[path[index]], path, index + 1)

match(node, path, index) ==
    IF node.kind = "terminal"
    THEN {[match |-> node.match, remainder |-> SubSeq(path, index, Len(path))]}
    ELSE IF index > Len(path) \/ path[index] \notin DOMAIN node.branches THEN {}
         ELSE match(node.branches[path[index]], path, index + 1)

\* findAll: the records of the type at the path or below it, and the record one segment
\* above it, if there is one.
RECURSIVE findAll(_, _, _, _)
findAll(node, path, index, type) ==
    IF node.kind = "terminal"
    THEN IF index >= Len(path) THEN {r \in {node.match} : r.type = type} ELSE {}
    ELSE IF index <= Len(path)
         THEN IF path[index] \notin DOMAIN node.branches THEN {}
              ELSE findAll(node.branches[path[index]], path, index + 1, type)
         ELSE UNION {findAll(node.branches[s], path, index, type) : s \in DOMAIN node.branches}
==============================================================================
