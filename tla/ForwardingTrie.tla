--------------------------- MODULE ForwardingTrie ---------------------------
(***************************************************************************)
(* The forwarding service with the trie of util/Trie beside the table of   *)
(* paths that Forwarding takes it for.                                     *)
(***************************************************************************)
EXTENDS Forwarding

CONSTANT Requested   \* paths that are looked up

VARIABLE trie

T == INSTANCE Trie

trieVars == <<fwdVars, trie>>

\* What the calls of the service do to the trie.
Registered(i, r) == trie' = T!register(trie, PathOf[i], 1, r)
Unregistered(i) == trie' = T!unregister(trie, PathOf[i], 1)

TrieInit == FwdInit /\ trie = T!root

TrieNext ==
    \/ \E t \in Thread, i \in Item, accepted \in BOOLEAN, r \in Record : \E locks \in Locks(i) :
          Write(t, i, accepted, r, locks) /\ UNCHANGED trie
    \/ \E i \in Item : \E locks \in Locks(i) : Delete(i, locks) /\ UNCHANGED trie
    \/ \E t \in Thread :
          \/ /\ Update(t)
             /\ IF job[t].accepted THEN Registered(job[t].item, job[t].record)
                                   ELSE Unregistered(job[t].item)
          \/ Config(t) /\ UNCHANGED trie
    \/ Restart /\ trie' = T!root
    \/ \E i \in Item : Load(i) /\ Registered(i, stored[i].record)
    \/ Loaded /\ UNCHANGED trie

TrieSpec == TrieInit /\ [][TrieNext]_trieVars

\* The answers of match and listDelegations, from the table of paths.
MatchIn(t, path) ==
    {[match |-> t[p], remainder |-> SubSeq(path, Len(p) + 1, Len(path))] :
        p \in {q \in DOMAIN t : Covers(q, path)}}

FindIn(t, path) ==
    {t[p] : p \in {q \in DOMAIN t :
        /\ t[q].type = "DELEGATE"
        /\ Covers(path, q) \/ (Covers(q, path) /\ Len(q) + 1 = Len(path))}}

\* After any sequence of registrations and unregistrations, nested paths and
\* restarts included, Trie.match gives the one record whose path covers the
\* requested one, with the rest of it, and Trie.findAll the delegations at or
\* below it (and one segment above, which "below the given path" in
\* core/ForwardingService.java:53 does not mention).
TrieIsTable ==
    \A path \in Requested :
        /\ T!match(trie, path, 1) = MatchIn(table, path)
        /\ T!findAll(trie, path, 1, "DELEGATE") = FindIn(table, path)
==============================================================================
