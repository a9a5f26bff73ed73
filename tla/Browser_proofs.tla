---------------------------- MODULE Browser_proofs ----------------------------
(***************************************************************************)
(* Theorems about the pages of the user interface, for any datasets and    *)
(* links, any configuration of the query console and any number of         *)
(* requests in flight.                                                     *)
(***************************************************************************)
EXTENDS Browser, SequenceTheorems, TLAPS

------------------------------------------------------------------------------
(* The dataset explorer *)

\* A request in flight and the bag of them.
Request == [outbound : BOOLEAN, node : Datasets, linkedDS : Datasets]
Link(g) == Directed(g.outbound, g.node, g.linkedDS)
Requests(b) == b \in [DOMAIN b -> Nat \ {0}] /\ DOMAIN b \subseteq Request
Once(b, g) == b[g] = 1

\* Bag c is b with a set of requests added (gets (+) SetToBag(S)), or with one
\* request answered (gets (-) SetToBag({g})).
Sent(b, S, c) ==
    c = [e \in DOMAIN b \cup S |-> (IF e \in DOMAIN b THEN b[e] ELSE 0) + (IF e \in S THEN 1 ELSE 0)]
Less(b, g) == [e \in DOMAIN b |-> IF e = g THEN b[e] - 1 ELSE b[e]]
Received(b, g, c) == c = [e \in {d \in DOMAIN b : Less(b, g)[d] > 0} |-> Less(b, g)[e]]

\* Sending some requests and receiving an answer keep a bag of requests, and a
\* request that is sent once is in it once.
LEMMA BagOfRequests ==
    /\ \A b, S, c : Sent(b, S, c) /\ Requests(b) /\ S \subseteq Request =>
          /\ Requests(c)
          /\ DOMAIN c = DOMAIN b \cup S
          /\ \A e \in DOMAIN c : e \notin DOMAIN b \/ (e \notin S /\ Once(b, e)) => Once(c, e)
    /\ \A b, g, c : Received(b, g, c) /\ Requests(b) =>
          /\ Requests(c)
          /\ DOMAIN c \subseteq DOMAIN b
          /\ \A e \in DOMAIN c : e # g /\ Once(b, e) => Once(c, e)
          /\ Once(b, g) => g \notin DOMAIN c
<1>1. ASSUME NEW b, NEW S, NEW c, Sent(b, S, c), Requests(b), S \subseteq Request
      PROVE  /\ Requests(c)
             /\ DOMAIN c = DOMAIN b \cup S
             /\ \A e \in DOMAIN c : e \notin DOMAIN b \/ (e \notin S /\ Once(b, e)) => Once(c, e)
  <2>1. \A e \in DOMAIN b : b[e] \in Nat \ {0}
    BY <1>1 DEF Requests
  <2>2. c = [e \in DOMAIN b \cup S |->
                (IF e \in DOMAIN b THEN b[e] ELSE 0) + (IF e \in S THEN 1 ELSE 0)]
    BY <1>1 DEF Sent
  <2>3. DOMAIN c = DOMAIN b \cup S
    BY <2>2
  <2>4. \A e \in DOMAIN c : c[e] \in Nat \ {0}
    BY <2>1, <2>2, <2>3
  <2>5. \A e \in DOMAIN c : e \notin DOMAIN b => Once(c, e)
    BY <2>2, <2>3 DEF Once
  <2>6. \A e \in DOMAIN c : e \in DOMAIN b /\ e \notin S /\ Once(b, e) => Once(c, e)
    BY <2>1, <2>2, <2>3 DEF Once
  <2>7. c \in [DOMAIN c -> Nat \ {0}]
    BY <2>2, <2>4
  <2>8. DOMAIN c \subseteq Request
    BY <1>1, <2>3 DEF Requests
  <2> QED
    BY <2>3, <2>5, <2>6, <2>7, <2>8 DEF Requests
<1>2. ASSUME NEW b, NEW g, NEW c, Received(b, g, c), Requests(b)
      PROVE  /\ Requests(c)
             /\ DOMAIN c \subseteq DOMAIN b
             /\ \A e \in DOMAIN c : e # g /\ Once(b, e) => Once(c, e)
             /\ Once(b, g) => g \notin DOMAIN c
  <2> DEFINE m == Less(b, g)
  <2>1. \A e \in DOMAIN b : b[e] \in Nat \ {0}
    BY <1>2 DEF Requests
  <2>2. \A e \in DOMAIN b : m[e] \in Nat /\ (e # g => m[e] = b[e]) /\ (e = g => m[e] = b[e] - 1)
    BY <2>1 DEF Less
  <2>3. c = [e \in {d \in DOMAIN b : m[d] > 0} |-> m[e]]
    BY <1>2 DEF Received
  <2> HIDE DEF m
  <2>4. DOMAIN c \subseteq DOMAIN b /\ \A e \in DOMAIN c : m[e] > 0 /\ c[e] = m[e]
    BY <2>3
  <2>5. Once(b, g) => g \notin DOMAIN c
    BY <2>2, <2>4 DEF Once
  <2>6. c \in [DOMAIN c -> Nat \ {0}]
    BY <2>2, <2>3, <2>4
  <2>7. DOMAIN c \subseteq Request
    BY <1>2, <2>4 DEF Requests
  <2>8. \A e \in DOMAIN c : e # g /\ Once(b, e) => Once(c, e)
    BY <2>2, <2>4 DEF Once
  <2> QED
    BY <2>4, <2>5, <2>6, <2>7, <2>8 DEF Requests
<1> QED
  BY <1>1, <1>2

NodeEntry == [visible : BOOLEAN, springyNode : {"none", "current", "earlier"}]

ExplorerTypeOK ==
    /\ DOMAIN nodeState \subseteq Datasets /\ nodeState \in [DOMAIN nodeState -> NodeEntry]
    /\ elements \in [Datasets -> [shown : Nat, hidden : Nat]]
    /\ DOMAIN linkState \subseteq Linksets /\ linkState \in [DOMAIN linkState -> BOOLEAN]
    /\ Requests(gets)

\* A dataset is registered exactly if it has an element, and visible exactly
\* if one is shown.
ElementsInv ==
    \A n \in Datasets :
        /\ n \in DOMAIN nodeState <=> elements[n].shown + elements[n].hidden > 0
        /\ isVisible(n) <=> elements[n].shown > 0

\* A request in flight goes along a known link from a registered dataset.
\* Its ends are shown, if they are registered, or were closed meanwhile.
GetsInv ==
    \A g \in DOMAIN gets :
        /\ Link(g) \in DOMAIN linkState
        /\ g.node \in DOMAIN nodeState
        /\ isVisible(g.node) \/ g.node \in closedEarly
        /\ g.linkedDS \in DOMAIN nodeState => isVisible(g.linkedDS) \/ g.linkedDS \in closedEarly

\* A dataset that was not asked for twice has one element or one request.
AskedInv ==
    \A n \in Datasets \ askedTwice :
        /\ elements[n].shown + elements[n].hidden <= 1
        /\ n \in DOMAIN nodeState => \A g \in DOMAIN gets : g.linkedDS # n
        /\ \A g, h \in DOMAIN gets : g.linkedDS = n /\ h.linkedDS = n => g = h /\ Once(gets, g)

ExplorerInv ==
    /\ ExplorerTypeOK
    /\ LinksMatchCanvas /\ HiddenEndOnlyIfClosedEarly
    /\ ElementsInv /\ GetsInv /\ AskedInv

\* Every event handler and every answer keeps ExplorerInv.
LEMMA ExplorerStep == ExplorerInv /\ [ExplorerNext]_explorerVars => ExplorerInv'
<1> SUFFICES ASSUME ExplorerInv, [ExplorerNext]_explorerVars PROVE ExplorerInv'
  OBVIOUS
<1> USE ExplorerAssumption
<1>0. /\ \A n \in DOMAIN nodeState : nodeState[n] \in NodeEntry
      /\ \A n \in Datasets : elements[n].shown \in Nat /\ elements[n].hidden \in Nat
      /\ \A l \in DOMAIN linkState : linkState[l] \in BOOLEAN
      /\ \A g \in DOMAIN gets : g \in Request
  BY DEF ExplorerInv, ExplorerTypeOK, Requests
<1>1. ASSUME NEW node \in Datasets, NEW outbound \in BOOLEAN, AddNodes(node, outbound)
      PROVE  ExplorerInv'
  <2> DEFINE targets == {n \in Datasets : Directed(outbound, node, n) \in DOMAIN linkState}
             known == targets \cap DOMAIN nodeState
             unknown == targets \ known
             asked == [outbound : {outbound}, node : {node}, linkedDS : unknown]
             drawn == {Directed(outbound, node, n) : n \in known}
  <2>1. /\ elements[node].shown > 0
        /\ nodeState' = [n \in DOMAIN nodeState |->
                            IF n \in known THEN [nodeState[n] EXCEPT !.visible = TRUE] ELSE nodeState[n]]
        /\ elements' = showNodes(elements, known)
        /\ addConnections(drawn)
        /\ Sent(gets, asked, gets')
        /\ askedTwice' = askedTwice \cup {n \in unknown : Asked(n)}
        /\ laidOut' = laidOut /\ closedEarly' = closedEarly
    BY <1>1 DEF AddNodes, Sent, SetToBag, (+)
  <2>2. /\ known \subseteq DOMAIN nodeState /\ unknown \cap DOMAIN nodeState = {}
        /\ known \subseteq Datasets /\ unknown \subseteq Datasets
    OBVIOUS
  <2>drawn. /\ drawn \subseteq DOMAIN linkState
            /\ \A l \in drawn : \A e \in Ends(l) : e = node \/ e \in known
    <3>1. ASSUME NEW n \in known
          PROVE  /\ Directed(outbound, node, n) \in DOMAIN linkState
                 /\ \A e \in Ends(Directed(outbound, node, n)) : e = node \/ e = n
      BY DEF Directed, Ends
    <3> QED
      BY <3>1
  <2>asked. /\ asked \subseteq Request
            /\ \A g \in asked : g.node = node /\ g.linkedDS \in unknown /\ Link(g) \in DOMAIN linkState
            /\ \A g, h \in asked : g.linkedDS = h.linkedDS => g = h
    <3>1. asked \subseteq Request
      BY <2>2 DEF Request
    <3>2. \A g \in asked : g.outbound = outbound /\ g.node = node /\ g.linkedDS \in unknown
      OBVIOUS
    <3>3. \A g \in asked : Link(g) \in DOMAIN linkState
      BY <3>2 DEF Link
    <3>4. \A g, h \in asked : g.linkedDS = h.linkedDS => g = h
      OBVIOUS
    <3> QED
      BY <3>1, <3>2, <3>3, <3>4
  <2> HIDE DEF targets, known, unknown, asked, drawn
  <2>3. isVisible(node) /\ node \in DOMAIN nodeState
    BY <2>1 DEF ExplorerInv, ElementsInv, isVisible
  <2>4. /\ DOMAIN nodeState' = DOMAIN nodeState
        /\ \A n \in DOMAIN nodeState : nodeState'[n] \in NodeEntry /\ (nodeState'[n].visible <=> nodeState[n].visible \/ n \in known)
        /\ nodeState' \in [DOMAIN nodeState' -> NodeEntry]
    BY <1>0, <2>1 DEF NodeEntry
  <2>5. \A n : isVisible(n)' <=> isVisible(n) \/ n \in known
    BY <2>2, <2>4 DEF isVisible
  <2>6. /\ elements' \in [Datasets -> [shown : Nat, hidden : Nat]]
        /\ \A n \in Datasets : n \notin known => elements'[n] = elements[n]
        /\ \A n \in known : elements'[n].shown = elements[n].shown + elements[n].hidden /\ elements'[n].hidden = 0
    BY <1>0, <2>1, <2>2 DEF showNodes, ExplorerInv, ExplorerTypeOK
  <2>7. /\ DOMAIN linkState' = DOMAIN linkState
        /\ linkState' \in [DOMAIN linkState' -> BOOLEAN]
        /\ \A l \in DOMAIN linkState : linkState'[l] <=> linkState[l] \/ l \in drawn
    BY <1>0, <2>1, <2>drawn DEF addConnections
  <2>8. connections' = connections \cup {l \in drawn : ~linkState[l]}
    BY <2>1, <2>drawn DEF addConnections
  <2>9. /\ Requests(gets') /\ DOMAIN gets' = DOMAIN gets \cup asked
        /\ \A e \in DOMAIN gets' : e \notin DOMAIN gets \/ (e \notin asked /\ Once(gets, e)) => Once(gets', e)
    <3>1. Requests(gets)
      BY DEF ExplorerInv, ExplorerTypeOK
    <3>2. Sent(gets, asked, gets')
      BY <2>1
    <3>3. asked \subseteq Request
      BY <2>asked
    <3> QED
      BY <3>1, <3>2, <3>3, BagOfRequests
  <2>10. ExplorerTypeOK'
    BY <2>4, <2>6, <2>7, <2>9 DEF ExplorerInv, ExplorerTypeOK
  <2>11. LinksMatchCanvas'
    BY <1>0, <2>2, <2>drawn, <2>3, <2>4, <2>7, <2>8 DEF ExplorerInv, LinksMatchCanvas
  <2>12. HiddenEndOnlyIfClosedEarly'
    BY <2>1, <2>drawn, <2>3, <2>5, <2>8 DEF ExplorerInv, HiddenEndOnlyIfClosedEarly
  <2>13. ElementsInv'
    BY <1>0, <2>2, <2>4, <2>5, <2>6 DEF ExplorerInv, ElementsInv
  <2>14. GetsInv'
    BY <2>1, <2>2, <2>asked, <2>3, <2>4, <2>5, <2>7, <2>9 DEF ExplorerInv, GetsInv
  <2>15. AskedInv'
    <3> SUFFICES ASSUME NEW n \in Datasets \ askedTwice'
                 PROVE  /\ elements'[n].shown + elements'[n].hidden <= 1
                        /\ n \in DOMAIN nodeState' => \A g \in DOMAIN gets' : g.linkedDS # n
                        /\ \A g, h \in DOMAIN gets' : g.linkedDS = n /\ h.linkedDS = n => g = h /\ Once(gets', g)
      BY DEF AskedInv
    <3>1. n \notin askedTwice /\ (n \in unknown => \A g \in DOMAIN gets : g.linkedDS # n)
      BY <2>1 DEF Asked, BagToSet
    <3>2. elements'[n].shown + elements'[n].hidden <= 1
      BY <1>0, <2>2, <2>6, <3>1 DEF ExplorerInv, AskedInv
    <3>3. n \in DOMAIN nodeState' => \A g \in DOMAIN gets' : g.linkedDS # n
      BY <2>2, <2>asked, <2>4, <2>9, <3>1 DEF ExplorerInv, AskedInv
    <3>4. ASSUME NEW g \in DOMAIN gets', NEW h \in DOMAIN gets', g.linkedDS = n, h.linkedDS = n
          PROVE  g = h /\ Once(gets', g)
      BY <2>asked, <2>9, <3>1, <3>4 DEF ExplorerInv, AskedInv
    <3> QED
      BY <3>2, <3>3, <3>4
  <2> QED
    BY <2>10, <2>11, <2>12, <2>13, <2>14, <2>15 DEF ExplorerInv
<1>2. ASSUME NEW node \in Datasets, CloseNode(node)
      PROVE  ExplorerInv'
  <2>1. /\ elements[node].shown > 0
        /\ connections' = {l \in connections : node \notin Ends(l)}
        /\ linkState' = [l \in DOMAIN linkState |-> linkState[l] /\ node \notin Ends(l)]
        /\ elements' = [elements EXCEPT ![node] = [shown |-> 0, hidden |-> elements[node].shown + elements[node].hidden]]
        /\ nodeState' = [nodeState EXCEPT ![node].visible = FALSE]
        /\ gets' = gets /\ laidOut' = laidOut /\ askedTwice' = askedTwice
        /\ closedEarly \subseteq closedEarly'
        /\ \A g \in DOMAIN gets : node \in {g.node, g.linkedDS} => node \in closedEarly'
    BY <1>2 DEF CloseNode, hideNode, BagToSet
  <2>2. node \in DOMAIN nodeState
    BY <2>1 DEF ExplorerInv, ElementsInv, isVisible
  <2>3. /\ DOMAIN nodeState' = DOMAIN nodeState
        /\ nodeState' \in [DOMAIN nodeState' -> NodeEntry]
        /\ ~nodeState'[node].visible
        /\ \A n \in DOMAIN nodeState : n # node => nodeState'[n] = nodeState[n]
    BY <1>0, <2>1, <2>2 DEF NodeEntry, ExplorerInv, ExplorerTypeOK
  <2>4. \A n : isVisible(n)' <=> isVisible(n) /\ n # node
    BY <2>3 DEF isVisible
  <2>5. /\ elements' \in [Datasets -> [shown : Nat, hidden : Nat]]
        /\ \A n \in Datasets : n # node => elements'[n] = elements[n]
        /\ elements'[node].shown = 0
        /\ elements'[node].hidden = elements[node].shown + elements[node].hidden
    BY <1>0, <2>1 DEF ExplorerInv, ExplorerTypeOK
  <2>6. /\ DOMAIN linkState' = DOMAIN linkState
        /\ linkState' \in [DOMAIN linkState' -> BOOLEAN]
        /\ \A l \in DOMAIN linkState : linkState'[l] <=> linkState[l] /\ node \notin Ends(l)
    BY <1>0, <2>1
  <2>7. ExplorerTypeOK'
    BY <2>1, <2>3, <2>5, <2>6 DEF ExplorerInv, ExplorerTypeOK
  <2>8. LinksMatchCanvas'
    BY <2>1, <2>3, <2>6 DEF ExplorerInv, LinksMatchCanvas
  <2>9. HiddenEndOnlyIfClosedEarly'
    BY <2>1, <2>4 DEF ExplorerInv, HiddenEndOnlyIfClosedEarly
  <2>10. ElementsInv'
    BY <1>0, <2>1, <2>3, <2>4, <2>5 DEF ExplorerInv, ElementsInv
  <2>11. GetsInv'
    BY <2>1, <2>3, <2>4, <2>6 DEF ExplorerInv, GetsInv
  <2>12. AskedInv'
    BY <1>0, <2>1, <2>3, <2>5 DEF ExplorerInv, AskedInv
  <2> QED
    BY <2>7, <2>8, <2>9, <2>10, <2>11, <2>12 DEF ExplorerInv
<1>3. ASSUME NEW g \in DOMAIN gets, Answered(g)
      PROVE  ExplorerInv'
  <2> DEFINE n == g.linkedDS
             known == register(linkState, n)
  <2>1. /\ Received(gets, g, gets')
        /\ nodeState' = registerNode(nodeState, n)
        /\ elements' = [elements EXCEPT ![n].shown = @ + 1]
        /\ linkState' = [k \in DOMAIN known |-> known[k] \/ k = Link(g)]
        /\ connections' = connections \cup {Link(g)}
        /\ laidOut' = laidOut /\ askedTwice' = askedTwice /\ closedEarly' = closedEarly
    BY <1>3 DEF Answered, append, Received, Less, Link, SetToBag, (-)
  <2>2. n \in Datasets /\ g.node \in Datasets /\ g \in Request
    BY <1>0 DEF Request
  <2>3. /\ Link(g) \in DOMAIN linkState /\ g.node \in DOMAIN nodeState
        /\ isVisible(g.node) \/ g.node \in closedEarly
    BY DEF ExplorerInv, GetsInv
  <2>4. \A e \in Ends(Link(g)) : e = g.node \/ e = n
    BY DEF Ends, Link, Directed
  <2>5. /\ DOMAIN known = DOMAIN linkState \cup LinksOf(n)
        /\ \A k \in DOMAIN known : known[k] \in BOOLEAN /\ (known[k] <=> k \in DOMAIN linkState /\ linkState[k])
        /\ LinksOf(n) \subseteq Linksets
    BY <1>0 DEF register, LinksOf
  <2> HIDE DEF known
  <2>6. /\ DOMAIN linkState' = DOMAIN linkState \cup LinksOf(n)
        /\ linkState' \in [DOMAIN linkState' -> BOOLEAN]
        /\ \A l \in DOMAIN linkState' : linkState'[l] <=> (l \in DOMAIN linkState /\ linkState[l]) \/ l = Link(g)
    BY <2>1, <2>5
  <2>7. /\ DOMAIN nodeState' = DOMAIN nodeState \cup {n}
        /\ nodeState' \in [DOMAIN nodeState' -> NodeEntry]
        /\ nodeState'[n].visible
        /\ \A m \in DOMAIN nodeState : m # n => nodeState'[m] = nodeState[m]
    BY <1>0, <2>1 DEF registerNode, NodeEntry
  <2>8. \A m : isVisible(m)' <=> isVisible(m) \/ m = n
    BY <2>7 DEF isVisible
  <2>9. /\ elements' \in [Datasets -> [shown : Nat, hidden : Nat]]
        /\ \A m \in Datasets : m # n => elements'[m] = elements[m]
        /\ elements'[n].shown = elements[n].shown + 1
        /\ elements'[n].hidden = elements[n].hidden
    BY <1>0, <2>1, <2>2 DEF ExplorerInv, ExplorerTypeOK
  <2>10. /\ Requests(gets') /\ DOMAIN gets' \subseteq DOMAIN gets
         /\ \A e \in DOMAIN gets' : e # g /\ Once(gets, e) => Once(gets', e)
         /\ Once(gets, g) => g \notin DOMAIN gets'
    <3>1. Requests(gets)
      BY DEF ExplorerInv, ExplorerTypeOK
    <3>2. Received(gets, g, gets')
      BY <2>1
    <3> QED
      BY <3>1, <3>2, BagOfRequests
  <2>11. ExplorerTypeOK'
    BY <2>2, <2>5, <2>6, <2>7, <2>9, <2>10 DEF ExplorerInv, ExplorerTypeOK
  <2>12. LinksMatchCanvas'
    BY <2>1, <2>3, <2>4, <2>6, <2>7 DEF ExplorerInv, LinksMatchCanvas
  <2>13. HiddenEndOnlyIfClosedEarly'
    BY <2>1, <2>3, <2>4, <2>8 DEF ExplorerInv, HiddenEndOnlyIfClosedEarly
  <2>14. ElementsInv'
    BY <1>0, <2>2, <2>7, <2>8, <2>9 DEF ExplorerInv, ElementsInv
  <2>15. GetsInv'
    BY <2>1, <2>6, <2>7, <2>8, <2>10 DEF ExplorerInv, GetsInv
  <2>16. AskedInv'
    <3> SUFFICES ASSUME NEW m \in Datasets \ askedTwice
                 PROVE  /\ elements'[m].shown + elements'[m].hidden <= 1
                        /\ m \in DOMAIN nodeState' => \A h \in DOMAIN gets' : h.linkedDS # m
                        /\ \A h, k \in DOMAIN gets' : h.linkedDS = m /\ k.linkedDS = m => h = k /\ Once(gets', h)
      BY <2>1 DEF AskedInv
    <3>1. CASE m # n
      <4>1. elements'[m].shown + elements'[m].hidden <= 1
        BY <2>9, <3>1 DEF ExplorerInv, AskedInv
      <4>2. m \in DOMAIN nodeState' => \A h \in DOMAIN gets' : h.linkedDS # m
        BY <2>7, <2>10, <3>1 DEF ExplorerInv, AskedInv
      <4>3. \A h \in DOMAIN gets' : h.linkedDS = m => h # g
        BY <3>1
      <4>4. \A h, k \in DOMAIN gets' : h.linkedDS = m /\ k.linkedDS = m => h = k /\ Once(gets', h)
        BY <2>10, <4>3 DEF ExplorerInv, AskedInv
      <4> QED
        BY <4>1, <4>2, <4>4
    <3>2. CASE m = n
      <4>1. n \notin DOMAIN nodeState /\ Once(gets, g) /\ \A h \in DOMAIN gets : h.linkedDS = n => h = g
        BY <3>2 DEF ExplorerInv, AskedInv
      <4>2. \A h \in DOMAIN gets' : h.linkedDS # n
        BY <2>10, <4>1
      <4>3. elements[n].shown + elements[n].hidden = 0
        BY <1>0, <2>2, <4>1 DEF ExplorerInv, ElementsInv
      <4>4. elements'[n].shown + elements'[n].hidden <= 1
        BY <1>0, <2>2, <2>9, <4>3
      <4> QED
        BY <3>2, <4>2, <4>4
    <3> QED
      BY <3>1, <3>2
  <2> QED
    BY <2>11, <2>12, <2>13, <2>14, <2>15, <2>16 DEF ExplorerInv
<1>4. ASSUME NEW g \in DOMAIN gets, AnsweredEmpty(g) \/ GetFailed(g)
      PROVE  ExplorerInv'
  <2> DEFINE l == Link(g)
  <2>1. /\ Received(gets, g, gets')
        /\ UNCHANGED <<nodeState, elements, laidOut, closedEarly, askedTwice>>
        /\ \/ g.linkedDS \in DOMAIN nodeState /\ addConnections({l})
           \/ UNCHANGED <<linkState, connections>>
    BY <1>4 DEF AnsweredEmpty, GetFailed, Received, Less, Link, SetToBag, (-)
  <2>2. l \in DOMAIN linkState /\ g.node \in DOMAIN nodeState
        /\ (isVisible(g.node) \/ g.node \in closedEarly)
        /\ (g.linkedDS \in DOMAIN nodeState => isVisible(g.linkedDS) \/ g.linkedDS \in closedEarly)
    BY DEF ExplorerInv, GetsInv
  <2>3. \A e \in Ends(l) : e = g.node \/ e = g.linkedDS
    BY DEF Ends, Link, Directed
  <2> HIDE DEF l
  <2>4. /\ Requests(gets') /\ DOMAIN gets' \subseteq DOMAIN gets
        /\ \A e \in DOMAIN gets' : e # g /\ Once(gets, e) => Once(gets', e)
        /\ Once(gets, g) => g \notin DOMAIN gets'
    <3>1. Requests(gets)
      BY DEF ExplorerInv, ExplorerTypeOK
    <3>2. Received(gets, g, gets')
      BY <2>1
    <3> QED
      BY <3>1, <3>2, BagOfRequests
  <2>5. \A n : isVisible(n)' <=> isVisible(n)
    BY <2>1 DEF isVisible
  <2>6. AskedInv'
    <3> SUFFICES ASSUME NEW m \in Datasets \ askedTwice
                 PROVE  /\ m \in DOMAIN nodeState => \A h \in DOMAIN gets' : h.linkedDS # m
                        /\ \A h, k \in DOMAIN gets' : h.linkedDS = m /\ k.linkedDS = m => h = k /\ Once(gets', h)
      BY <2>1 DEF ExplorerInv, AskedInv
    <3> QED
      BY <2>4 DEF ExplorerInv, AskedInv
  <2>7. ElementsInv' /\ (laidOut # "ok" => closedEarly # {})
    BY <2>1, <2>5 DEF ExplorerInv, ElementsInv, HiddenEndOnlyIfClosedEarly
  <2>8. CASE UNCHANGED <<linkState, connections>>
    <3>1. ExplorerTypeOK' /\ LinksMatchCanvas'
      BY <2>1, <2>4, <2>8 DEF ExplorerInv, ExplorerTypeOK, LinksMatchCanvas
    <3>2. HiddenEndOnlyIfClosedEarly'
      BY <2>1, <2>5, <2>7, <2>8 DEF ExplorerInv, HiddenEndOnlyIfClosedEarly
    <3>3. GetsInv'
      BY <2>1, <2>4, <2>5, <2>8 DEF ExplorerInv, GetsInv
    <3> QED
      BY <2>6, <2>7, <3>1, <3>2, <3>3 DEF ExplorerInv
  <2>9. CASE g.linkedDS \in DOMAIN nodeState /\ addConnections({l})
    <3>1. /\ DOMAIN linkState' = DOMAIN linkState
          /\ linkState' \in [DOMAIN linkState' -> BOOLEAN]
          /\ \A k \in DOMAIN linkState : linkState'[k] <=> linkState[k] \/ k = l
          /\ connections' = connections \cup {k \in {l} : ~linkState[k]}
      BY <1>0, <2>2, <2>9 DEF addConnections
    <3>2. ExplorerTypeOK'
      BY <2>1, <2>4, <3>1 DEF ExplorerInv, ExplorerTypeOK
    <3>3. LinksMatchCanvas'
      BY <2>1, <2>2, <2>3, <2>9, <3>1 DEF ExplorerInv, LinksMatchCanvas
    <3>4. HiddenEndOnlyIfClosedEarly'
      BY <2>1, <2>2, <2>3, <2>5, <2>7, <2>9, <3>1 DEF ExplorerInv, HiddenEndOnlyIfClosedEarly
    <3>5. GetsInv'
      BY <2>1, <2>4, <2>5, <3>1 DEF ExplorerInv, GetsInv
    <3> QED
      BY <2>6, <2>7, <3>2, <3>3, <3>4, <3>5 DEF ExplorerInv
  <2> QED
    BY <2>1, <2>8, <2>9
<1>5. ASSUME relayout
      PROVE  ExplorerInv'
  <2> DEFINE ns == [n \in DOMAIN nodeState |->
                       IF nodeState[n].visible
                       THEN [nodeState[n] EXCEPT !.springyNode = "current"]
                       ELSE [nodeState[n] EXCEPT !.springyNode = IF @ = "current" THEN "earlier" ELSE @]]
             nodesOfEdges == {ns[e].springyNode : e \in UNION {Ends(l) : l \in {k \in DOMAIN linkState : linkState[k]}}}
  <2>1. /\ nodeState' = ns
        /\ laidOut' = CASE "none" \in nodesOfEdges -> "aborted"
                        [] "earlier" \in nodesOfEdges -> "wrong"
                        [] OTHER -> "ok"
        /\ UNCHANGED <<elements, linkState, connections, gets, closedEarly, askedTwice>>
    BY <1>5 DEF relayout
  <2>2. \A n \in DOMAIN nodeState : /\ ns[n] \in NodeEntry /\ ns[n].visible = nodeState[n].visible
                                    /\ nodeState[n].visible => ns[n].springyNode = "current"
    BY <1>0 DEF NodeEntry
  <2>3. DOMAIN ns = DOMAIN nodeState /\ ns \in [DOMAIN nodeState -> NodeEntry]
    BY <2>2
  <2> HIDE DEF ns
  <2>4. \A x \in nodesOfEdges : \E l \in connections : \E e \in Ends(l) : x = ns[e].springyNode
    BY DEF ExplorerInv, LinksMatchCanvas
  <2>5. \A x \in nodesOfEdges : x = "current" \/ closedEarly # {}
    <3> SUFFICES ASSUME NEW l \in connections, NEW e \in Ends(l), ns[e].springyNode # "current"
                 PROVE  closedEarly # {}
      BY <2>4
    <3>1. e \in DOMAIN nodeState
      BY DEF ExplorerInv, LinksMatchCanvas
    <3>2. ~isVisible(e)
      BY <2>2, <3>1 DEF isVisible
    <3> QED
      BY <3>2 DEF ExplorerInv, HiddenEndOnlyIfClosedEarly
  <2> HIDE DEF nodesOfEdges
  <2>6. laidOut' # "ok" => closedEarly # {}
    <3>1. CASE "none" \in nodesOfEdges
      BY <2>5, <3>1
    <3>2. CASE "earlier" \in nodesOfEdges
      BY <2>5, <3>2
    <3>3. CASE "none" \notin nodesOfEdges /\ "earlier" \notin nodesOfEdges
      BY <2>1, <3>3
    <3> QED
      BY <3>1, <3>2, <3>3
  <2>7. \A n : isVisible(n)' <=> isVisible(n)
    BY <2>1, <2>2, <2>3 DEF isVisible
  <2>8. ExplorerTypeOK' /\ LinksMatchCanvas'
    BY <2>1, <2>3 DEF ExplorerInv, ExplorerTypeOK, LinksMatchCanvas
  <2>9. HiddenEndOnlyIfClosedEarly'
    BY <2>1, <2>6, <2>7 DEF ExplorerInv, HiddenEndOnlyIfClosedEarly
  <2>10. ElementsInv'
    BY <2>1, <2>3, <2>7 DEF ExplorerInv, ElementsInv
  <2>11. GetsInv'
    BY <2>1, <2>3, <2>7 DEF ExplorerInv, GetsInv
  <2>12. AskedInv'
    BY <2>1, <2>3 DEF ExplorerInv, AskedInv
  <2> QED
    BY <2>8, <2>9, <2>10, <2>11, <2>12 DEF ExplorerInv
<1>6. CASE UNCHANGED explorerVars
  BY <1>6 DEF explorerVars, ExplorerInv, ExplorerTypeOK, LinksMatchCanvas, HiddenEndOnlyIfClosedEarly,
              ElementsInv, GetsInv, AskedInv, isVisible
<1> QED
  BY <1>1, <1>2, <1>3, <1>4, <1>5, <1>6 DEF ExplorerNext, BagToSet

------------------------------------------------------------------------------
(* The query console *)

Lines == Prefix \cup {Blank} \cup STRING

\* A text whose first k lines, and no others, declare a prefix, each another one.
Text(s, k) ==
    /\ s \in Seq(Lines) /\ k \in 0..Len(s)
    /\ \A i \in 1..Len(s) : s[i] \in Prefix <=> i <= k
    /\ \A i, j \in 1..Len(s) : s[i] \in Prefix /\ s[i] = s[j] => i = j

Tidy(s) == \E k \in 0..Len(s) : Text(s, k)

\* What taking a line away, and adding a declaration after the others, does to
\* a text (addPrefixDeclaration).
LEMMA TextEdited ==
    ASSUME NEW s, NEW k, Text(s, k)
    PROVE  /\ \A i \in 1..Len(s) :
                 /\ Tidy(RemoveAt(s, i))
                 /\ ToSet(RemoveAt(s, i)) \subseteq ToSet(s)
                 /\ s[i] \in Prefix => s[i] \notin ToSet(RemoveAt(s, i))
           /\ \A p \in Prefix \ ToSet(s) : k < Len(s) =>
                 /\ Tidy(InsertAt(s, k + 1, p))
                 /\ ToSet(InsertAt(s, k + 1, p)) \subseteq ToSet(s) \cup {p}
<1>0. /\ s \in Seq(Lines) /\ k \in 0..Len(s) /\ Len(s) \in Nat
      /\ DOMAIN s = 1..Len(s) /\ \A i \in 1..Len(s) : s[i] \in Lines
  BY LenProperties DEF Text
<1>1. ASSUME NEW i \in 1..Len(s)
      PROVE  /\ Tidy(RemoveAt(s, i))
             /\ ToSet(RemoveAt(s, i)) \subseteq ToSet(s)
             /\ s[i] \in Prefix => s[i] \notin ToSet(RemoveAt(s, i))
  <2> DEFINE a == SubSeq(s, 1, i - 1)
             b == SubSeq(s, i + 1, Len(s))
             r == RemoveAt(s, i)
             n == IF i <= k THEN k - 1 ELSE k
  <2>1. a \in Seq(Lines) /\ Len(a) = i - 1 /\ \A j \in 1..(i - 1) : a[j] = s[j]
    BY <1>0, SubSeqProperties
  <2>2. b \in Seq(Lines) /\ Len(b) = Len(s) - i /\ \A j \in 1..(Len(s) - i) : b[j] = s[i + j]
    <3>1. /\ i + 1 \in Int /\ Len(s) \in Int
          /\ \A j \in (i + 1)..Len(s) : s[j] \in Lines
      BY <1>0
    <3>2. /\ b \in Seq(Lines)
          /\ Len(b) = IF i + 1 <= Len(s) THEN Len(s) - (i + 1) + 1 ELSE 0
          /\ \A j \in 1..(Len(s) - (i + 1) + 1) : b[j] = s[(i + 1) + j - 1]
      BY <3>1, SubSeqProperties
    <3>3. Len(s) - (i + 1) + 1 = Len(s) - i /\ \A j \in 1..(Len(s) - i) : (i + 1) + j - 1 = i + j
      BY <1>0
    <3> HIDE DEF b
    <3>4. Len(b) = Len(s) - i
      <4>1. CASE i + 1 <= Len(s)
        BY <3>2, <3>3, <4>1
      <4>2. CASE ~(i + 1 <= Len(s))
        <5>1. Len(b) = 0
          BY <3>2, <4>2
        <5>2. Len(s) \in Nat /\ i \in Nat /\ i <= Len(s)
          BY <1>0
        <5>3. Len(s) - i = 0
          BY <4>2, <5>2
        <5> QED
          BY <5>1, <5>3
      <4> QED
        BY <4>1, <4>2
    <3>5. \A j \in 1..(Len(s) - i) : b[j] = s[i + j]
      BY <3>2, <3>3
    <3> QED
      BY <3>2, <3>4, <3>5
  <2>3. r = a \o b
    BY DEF RemoveAt
  <2> HIDE DEF a, b, r
  <2>4. /\ r \in Seq(Lines) /\ Len(r) = Len(s) - 1
        /\ \A j \in 1..Len(r) : r[j] = IF j < i THEN s[j] ELSE s[j + 1]
    <3>1. /\ r \in Seq(Lines) /\ Len(r) = Len(a) + Len(b)
          /\ \A j \in 1..(Len(a) + Len(b)) : r[j] = IF j <= Len(a) THEN a[j] ELSE b[j - Len(a)]
      BY <2>1, <2>2, <2>3, ConcatProperties
    <3>2. Len(a) + Len(b) = Len(s) - 1
      BY <1>0, <2>1, <2>2
    <3>3. ASSUME NEW j \in 1..(Len(s) - 1)
          PROVE  r[j] = IF j < i THEN s[j] ELSE s[j + 1]
      <4>1. CASE j < i
        BY <1>0, <2>1, <3>1, <3>2, <4>1
      <4>2. CASE j >= i
        <5>1. r[j] = b[j - (i - 1)] /\ j - (i - 1) \in 1..(Len(s) - i)
          BY <1>0, <2>1, <3>1, <3>2, <4>2
        <5>2. b[j - (i - 1)] = s[i + (j - (i - 1))] /\ i + (j - (i - 1)) = j + 1
          BY <1>0, <2>2, <5>1
        <5> QED
          BY <4>2, <5>1, <5>2
      <4> QED
        BY <1>0, <4>1, <4>2
    <3> QED
      BY <3>1, <3>2, <3>3
  <2>5. DOMAIN r = 1..Len(r)
    BY <2>4, LenProperties
  <2>6. Text(r, n)
    BY <1>0, <2>4 DEF Text
  <2>7. ToSet(r) \subseteq ToSet(s)
    BY <1>0, <2>4, <2>5 DEF ToSet
  <2>8. s[i] \in Prefix => s[i] \notin ToSet(r)
    BY <1>0, <2>4, <2>5 DEF ToSet, Text
  <2> QED
    BY <2>6, <2>7, <2>8 DEF r, Tidy, Text
<1>2. ASSUME NEW p \in Prefix \ ToSet(s), k < Len(s)
      PROVE  /\ Tidy(InsertAt(s, k + 1, p))
             /\ ToSet(InsertAt(s, k + 1, p)) \subseteq ToSet(s) \cup {p}
  <2> DEFINE a == SubSeq(s, 1, k)
             b == SubSeq(s, k + 1, Len(s))
             r == InsertAt(s, k + 1, p)
  <2>1. a \in Seq(Lines) /\ Len(a) = k /\ \A j \in 1..k : a[j] = s[j]
    BY <1>0, SubSeqProperties
  <2>2. b \in Seq(Lines) /\ Len(b) = Len(s) - k /\ \A j \in 1..(Len(s) - k) : b[j] = s[k + j]
    <3>1. /\ k + 1 \in Int /\ Len(s) \in Int
          /\ \A j \in (k + 1)..Len(s) : s[j] \in Lines
      BY <1>0
    <3>2. /\ b \in Seq(Lines)
          /\ Len(b) = IF k + 1 <= Len(s) THEN Len(s) - (k + 1) + 1 ELSE 0
          /\ \A j \in 1..(Len(s) - (k + 1) + 1) : b[j] = s[(k + 1) + j - 1]
      BY <3>1, SubSeqProperties
    <3>3. Len(s) - (k + 1) + 1 = Len(s) - k /\ \A j \in 1..(Len(s) - k) : (k + 1) + j - 1 = k + j
      BY <1>0
    <3> HIDE DEF b
    <3>4. Len(b) = Len(s) - k
      <4>1. CASE k + 1 <= Len(s)
        BY <3>2, <3>3, <4>1
      <4>2. CASE ~(k + 1 <= Len(s))
        <5>1. Len(b) = 0
          BY <3>2, <4>2
        <5>2. Len(s) \in Nat /\ k \in Nat /\ k <= Len(s)
          BY <1>0
        <5>3. Len(s) - k = 0
          BY <4>2, <5>2
        <5> QED
          BY <5>1, <5>3
      <4> QED
        BY <4>1, <4>2
    <3>5. \A j \in 1..(Len(s) - k) : b[j] = s[k + j]
      BY <3>2, <3>3
    <3> QED
      BY <3>2, <3>4, <3>5
  <2>3. r = (a \o <<p>>) \o b
    <3>1. (k + 1) - 1 = k
      BY <1>0
    <3> QED
      BY <3>1 DEF InsertAt
  <2>4. <<p>> \in Seq(Lines) /\ Len(<<p>>) = 1 /\ <<p>>[1] = p
    BY DEF Lines
  <2> HIDE DEF a, b, r
  <2>5. /\ a \o <<p>> \in Seq(Lines) /\ Len(a \o <<p>>) = k + 1
        /\ \A j \in 1..(k + 1) : (a \o <<p>>)[j] = IF j <= k THEN s[j] ELSE p
    BY <1>0, <2>1, <2>4, ConcatProperties
  <2>6. /\ r \in Seq(Lines) /\ Len(r) = Len(s) + 1
        /\ \A j \in 1..Len(r) : r[j] = IF j <= k THEN s[j] ELSE IF j = k + 1 THEN p ELSE s[j - 1]
    <3> DEFINE c == a \o <<p>>
    <3>1. c \in Seq(Lines) /\ Len(c) = k + 1 /\ \A j \in 1..(k + 1) : c[j] = IF j <= k THEN s[j] ELSE p
      BY <2>5
    <3>2. r = c \o b
      BY <2>3
    <3> HIDE DEF c
    <3>3. /\ r \in Seq(Lines) /\ Len(r) = Len(c) + Len(b)
          /\ \A j \in 1..(Len(c) + Len(b)) : r[j] = IF j <= Len(c) THEN c[j] ELSE b[j - Len(c)]
      BY <2>2, <3>1, <3>2, ConcatProperties
    <3>4. Len(c) + Len(b) = Len(s) + 1
      BY <1>0, <2>2, <3>1
    <3>5. ASSUME NEW j \in 1..(Len(s) + 1)
          PROVE  r[j] = IF j <= k THEN s[j] ELSE IF j = k + 1 THEN p ELSE s[j - 1]
      <4>1. CASE j <= k + 1
        BY <1>0, <3>1, <3>3, <3>4, <4>1
      <4>2. CASE j > k + 1
        <5>1. r[j] = b[j - (k + 1)] /\ j - (k + 1) \in 1..(Len(s) - k)
          BY <1>0, <3>1, <3>3, <3>4, <4>2
        <5>2. b[j - (k + 1)] = s[k + (j - (k + 1))] /\ k + (j - (k + 1)) = j - 1
          BY <1>0, <2>2, <5>1
        <5> QED
          BY <1>0, <4>2, <5>1, <5>2
      <4> QED
        BY <1>0, <4>1, <4>2
    <3> QED
      BY <3>3, <3>4, <3>5
  <2>7. DOMAIN r = 1..Len(r)
    BY <2>6, LenProperties
  <2>8. \A j \in 1..Len(s) : s[j] # p
    BY <1>0 DEF ToSet
  <2>9. Text(r, k + 1)
    <3>1. \A j \in 1..Len(r) : r[j] \in Prefix <=> j <= k + 1
      BY <1>0, <1>2, <2>6 DEF Text
    <3>2. ASSUME NEW i \in 1..Len(r), NEW j \in 1..Len(r), r[i] \in Prefix, r[i] = r[j]
          PROVE  i = j
      <4>1. i <= k + 1 /\ j <= k + 1
        BY <3>1, <3>2
      <4>2. CASE i <= k /\ j <= k
        BY <1>0, <2>6, <3>2, <4>2 DEF Text
      <4>3. CASE i = k + 1 \/ j = k + 1
        BY <1>0, <2>6, <2>8, <3>2, <4>1, <4>3
      <4> QED
        BY <1>0, <4>1, <4>2, <4>3
    <3> QED
      BY <1>0, <2>6, <3>1, <3>2 DEF Text
  <2>10. ToSet(r) \subseteq ToSet(s) \cup {p}
    BY <1>0, <2>6, <2>7 DEF ToSet
  <2> QED
    BY <2>9, <2>10 DEF r, Tidy, Text
<1> QED
  BY <1>1, <1>2

Query == [id : 1..MaxQueries, query : STRING, output : Formats, overtaken : BOOLEAN]
Result == [query : STRING, output : Formats, as : Formats \cup {"error"}, overtaken : BOOLEAN]

\* The boxes and the text belong together, and a query in flight that was not
\* overtaken is one of the example selected, in the format chosen.
QonsoleInv ==
    /\ examples \in {<<>>, offered}
    /\ current # None => current.name \in STRING
    /\ format \in Formats /\ timeTaken \in BOOLEAN
    /\ running \subseteq Query
    /\ result \in Result \cup {None}
    /\ ToSet(boxes) \subseteq Prefix
    /\ Tidy(lines)
    /\ \A p \in ToSet(boxes) \ checked : p \notin ToSet(lines)
    /\ \A q \in running : ~q.overtaken => q.query = current.name /\ q.output = format
    /\ ResultBelongsUnlessOvertaken

\* Every event and answer of the query console keeps QonsoleInv.
LEMMA QonsoleStep == QonsoleInv /\ [QonsoleNext]_qonsoleVars => QonsoleInv'
<1> SUFFICES ASSUME QonsoleInv, [QonsoleNext]_qonsoleVars PROVE QonsoleInv'
  OBVIOUS
<1>entry. \A i \in DOMAIN offered :
            /\ offered[i].name \in STRING /\ offered[i].query \in STRING /\ offered[i].query \notin Prefix
            /\ loadPrefixes(offered[i]) \in Seq(Prefix)
            /\ \A j, k \in DOMAIN loadPrefixes(offered[i]) :
                  loadPrefixes(offered[i])[j] = loadPrefixes(offered[i])[k] => j = k
  <2> SUFFICES ASSUME NEW i \in DOMAIN offered
               PROVE  offered[i].name \in STRING /\ offered[i].query \in STRING /\ offered[i].query \notin Prefix
    BY PrefixesAssumption
  <2>1. \E j \in DOMAIN Config : offered[i] = Config[j]
    <3>1. CASE defaults = <<>>
      BY <3>1 DEF offered
    <3>2. CASE defaults # <<>>
      <4>1. offered = Tail(Config)
        BY <3>2 DEF offered
      <4> QED
        BY <4>1, QonsoleAssumption
    <3> QED
      BY <3>1, <3>2
  <2>2. PICK j \in DOMAIN Config : offered[i] = Config[j]
    BY <2>1
  <2>3. Config[j] \in [name : STRING, prefixes : Seq(Prefix), query : STRING]
    <3> DEFINE Entry == [name : STRING, prefixes : Seq(Prefix), query : STRING]
    <3>1. Config \in Seq(Entry)
      BY QonsoleAssumption
    <3> HIDE DEF Entry
    <3>2. Config[j] \in Entry
      BY <3>1
    <3> QED
      BY <3>2 DEF Entry
  <2>4. Config[j].query \notin Prefix
    BY QonsoleAssumption
  <2>5. Config[j].name \in STRING /\ Config[j].query \in STRING
    BY <2>3
  <2> QED
    BY <2>2, <2>4, <2>5
<1>overtaken. ASSUME running' = {[q EXCEPT !.overtaken = TRUE] : q \in running}
              PROVE  running' \subseteq Query /\ \A q \in running' : q.overtaken
  BY <1>overtaken DEF QonsoleInv, Query
<1>select. ASSUME NEW i \in DOMAIN offered, selectQuery(offered[i]), examples' = offered, format' = format
           PROVE  QonsoleInv'
  <2> DEFINE e == offered[i]
             p == loadPrefixes(e)
             t == p \o <<Blank, e.query>>
  <2>1. /\ current' = e /\ boxes' = p /\ checked' = ToSet(p) /\ lines' = t
        /\ running' = {[q EXCEPT !.overtaken = TRUE] : q \in running}
        /\ result' = None /\ timeTaken' = FALSE
    BY <1>select DEF selectQuery
  <2>2. /\ e.name \in STRING /\ e.query \in STRING /\ e.query \notin Prefix
        /\ p \in Seq(Prefix) /\ \A j, k \in DOMAIN p : p[j] = p[k] => j = k
    BY <1>entry
  <2> HIDE DEF e, p
  <2>3. /\ Len(p) \in Nat /\ DOMAIN p = 1..Len(p) /\ \A j \in 1..Len(p) : p[j] \in Prefix
        /\ p \in Seq(Lines)
    BY <2>2, LenProperties DEF Lines
  <2>4. /\ <<Blank, e.query>> \in Seq(Lines) /\ Len(<<Blank, e.query>>) = 2
        /\ \A j \in 1..2 : <<Blank, e.query>>[j] \notin Prefix
    BY <2>2, QonsoleAssumption DEF Lines
  <2>5. /\ t \in Seq(Lines) /\ Len(t) = Len(p) + 2
        /\ \A j \in 1..(Len(p) + 2) : t[j] = IF j <= Len(p) THEN p[j] ELSE <<Blank, e.query>>[j - Len(p)]
    BY <2>3, <2>4, ConcatProperties
  <2> HIDE DEF t
  <2>6. \A j \in 1..Len(t) : t[j] \in Prefix <=> j <= Len(p)
    <3> SUFFICES ASSUME NEW j \in 1..Len(t) PROVE t[j] \in Prefix <=> j <= Len(p)
      OBVIOUS
    <3>1. CASE j <= Len(p)
      BY <2>3, <2>5, <3>1
    <3>2. CASE ~(j <= Len(p))
      <4>1. j - Len(p) \in 1..2
        BY <2>3, <2>5, <3>2
      <4> QED
        BY <2>4, <2>5, <3>2, <4>1
    <3> QED
      BY <3>1, <3>2
  <2>7. \A j, k \in 1..Len(t) : t[j] \in Prefix /\ t[j] = t[k] => j = k
    BY <2>2, <2>3, <2>5, <2>6
  <2>8. Tidy(t)
    <3>1. Text(t, Len(p)) /\ Len(p) \in 0..Len(t)
      BY <2>3, <2>5, <2>6, <2>7 DEF Text
    <3> QED
      BY <3>1 DEF Tidy
  <2>9. ToSet(p) \subseteq Prefix
    BY <2>3 DEF ToSet
  <2> QED
    BY <1>select, <1>overtaken, <2>1, <2>2, <2>8, <2>9 DEF QonsoleInv, ResultBelongsUnlessOvertaken
<1>1. CASE onConfigLoaded
  <2>1. /\ examples' = offered /\ format' = format
        /\ offered # <<>> /\ selectQuery(offered[1])
    BY <1>1 DEF onConfigLoaded
  <2>2. 1 \in DOMAIN offered
    <3>1. offered \in Seq([name : STRING, prefixes : Seq(Prefix), query : STRING])
      BY <2>1, QonsoleAssumption DEF offered
    <3> QED
      BY <2>1, <3>1
  <2> QED
    BY <1>select, <2>1, <2>2
<1>2. CASE Select
  <2>1. PICK i \in DOMAIN examples : selectQuery(examples[i])
    BY <1>2 DEF Select
  <2>2. examples = offered /\ examples' = examples /\ format' = format
    BY <1>2, <2>1 DEF Select, QonsoleInv
  <2> QED
    BY <1>select, <2>1, <2>2
<1>text. ASSUME Tidy(lines'), ToSet(boxes) \subseteq Prefix,
                UNCHANGED <<examples, current, boxes, format, running, result, timeTaken>>,
                \A p \in ToSet(boxes) \ checked' : p \notin ToSet(lines')
         PROVE  QonsoleInv'
  BY <1>text DEF QonsoleInv, ResultBelongsUnlessOvertaken
<1>3. CASE ClickPrefix
  <2>1. PICK p \in ToSet(boxes) :
          /\ checked' = IF p \in checked THEN checked \ {p} ELSE checked \cup {p}
          /\ lines' = addPrefixDeclaration(p, p \in checked')
          /\ UNCHANGED <<examples, current, boxes, format, running, result, timeTaken>>
    BY <1>3 DEF ClickPrefix
  <2>2. PICK k \in 0..Len(lines) : Text(lines, k)
    BY DEF QonsoleInv, Tidy
  <2>3. /\ p \in Prefix /\ ToSet(boxes) \subseteq Prefix /\ Tidy(lines)
        /\ DOMAIN lines = 1..Len(lines) /\ Len(lines) \in Nat /\ k \in 0..Len(lines)
        /\ \A j \in 1..Len(lines) : lines[j] \in Prefix <=> j <= k
        /\ \A q \in ToSet(boxes) \ checked : q \notin ToSet(lines)
    BY <2>2, LenProperties DEF QonsoleInv, Text
  <2>4. CASE p \in checked
    <3>1. checked' = checked \ {p} /\ p \notin checked'
      BY <2>1, <2>4
    <3>2. CASE declares(p) = {}
      <4>1. lines' = lines /\ p \notin ToSet(lines)
        BY <2>1, <3>1, <3>2 DEF addPrefixDeclaration, declares, ToSet
      <4> QED
        BY <1>text, <2>1, <2>3, <3>1, <4>1
    <3>3. CASE declares(p) # {}
      <4>1. PICK i \in declares(p) : TRUE
        BY <3>3
      <4>2. i \in 1..Len(lines) /\ lines[i] = p /\ declares(p) = {i}
        BY <2>2, <2>3, <4>1 DEF declares, Text
      <4>3. First(declares(p)) = i
        BY <2>3, <4>2 DEF First
      <4>4. lines' = RemoveAt(lines, i)
        BY <2>1, <3>1, <3>3, <4>3 DEF addPrefixDeclaration
      <4>5. /\ Tidy(lines')
            /\ ToSet(lines') \subseteq ToSet(lines) /\ p \notin ToSet(lines')
        BY <2>2, <2>3, <4>2, <4>4, TextEdited
      <4> QED
        BY <1>text, <2>1, <2>3, <3>1, <4>5
    <3> QED
      BY <3>2, <3>3
  <2>5. CASE p \notin checked
    <3>1. checked' = checked \cup {p} /\ p \in checked' /\ p \notin ToSet(lines)
      BY <2>1, <2>3, <2>5
    <3>2. declares(p) = {}
      BY <3>1 DEF declares, ToSet
    <3>3. CASE otherLines = {}
      <4>1. lines' = lines
        BY <2>1, <3>1, <3>2, <3>3 DEF addPrefixDeclaration
      <4> QED
        BY <1>text, <2>1, <2>3, <3>1, <4>1
    <3>4. CASE otherLines # {}
      <4>1. otherLines = {j \in 1..Len(lines) : j > k} /\ k < Len(lines)
        BY <2>3, <3>4 DEF otherLines
      <4>2. k + 1 \in otherLines /\ \A j \in otherLines : k + 1 <= j
        BY <2>3, <4>1
      <4>3. First(otherLines) = k + 1
        <5>1. otherLines \subseteq Nat
          BY <4>1
        <5>2. \A i \in otherLines : (\A j \in otherLines : i <= j) => i = k + 1
          BY <2>3, <4>2, <5>1
        <5> QED
          BY <4>2, <5>2 DEF First
      <4>4. lines' = InsertAt(lines, k + 1, p)
        BY <2>1, <3>1, <3>2, <3>4, <4>3 DEF addPrefixDeclaration
      <4>5. /\ Tidy(lines')
            /\ ToSet(lines') \subseteq ToSet(lines) \cup {p}
        BY <2>2, <2>3, <3>1, <4>1, <4>4, TextEdited
      <4> QED
        BY <1>text, <2>1, <2>3, <3>1, <4>5
    <3> QED
      BY <3>3, <3>4
  <2> QED
    BY <2>4, <2>5
<1>4. CASE DeleteLine
  <2>1. PICK i \in DOMAIN lines : lines' = RemoveAt(lines, i)
    BY <1>4 DEF DeleteLine
  <2>2. PICK k \in 0..Len(lines) : Text(lines, k)
    BY DEF QonsoleInv, Tidy
  <2>3. i \in 1..Len(lines)
    BY <2>2, LenProperties DEF Text
  <2>4. Tidy(lines') /\ ToSet(lines') \subseteq ToSet(lines)
    BY <2>1, <2>2, <2>3, TextEdited
  <2>5. /\ UNCHANGED <<examples, current, boxes, checked, format, running, result, timeTaken>>
        /\ ToSet(boxes) \subseteq Prefix
        /\ \A p \in ToSet(boxes) \ checked : p \notin ToSet(lines)
    BY <1>4 DEF DeleteLine, QonsoleInv
  <2> QED
    BY <1>text, <2>4, <2>5
<1>5. CASE ChooseFormat
  <2>1. /\ format' \in Formats
        /\ running' = {[q EXCEPT !.overtaken = TRUE] : q \in running}
        /\ UNCHANGED <<examples, current, boxes, checked, lines, result, timeTaken>>
    BY <1>5 DEF ChooseFormat
  <2> QED
    BY <1>overtaken, <2>1 DEF QonsoleInv, ResultBelongsUnlessOvertaken
<1>6. CASE runQuery
  <2> DEFINE old == {[q EXCEPT !.overtaken = TRUE] : q \in running}
  <2>1. PICK id \in 1..MaxQueries :
          /\ current # None
          /\ running' = old \cup {[id |-> id, query |-> current.name, output |-> format, overtaken |-> FALSE]}
          /\ timeTaken' = FALSE
          /\ UNCHANGED <<examples, current, boxes, checked, lines, format, result>>
    BY <1>6 DEF runQuery
  <2>2. old \subseteq Query /\ \A q \in old : q.overtaken
    BY DEF QonsoleInv, Query
  <2>3. [id |-> id, query |-> current.name, output |-> format, overtaken |-> FALSE] \in Query
    BY <2>1 DEF QonsoleInv, Query
  <2> HIDE DEF old
  <2>4. running' \subseteq Query
    BY <2>1, <2>2, <2>3
  <2>5. \A q \in running' : ~q.overtaken => q.query = current.name /\ q.output = format
    BY <2>1, <2>2
  <2>6. ResultBelongsUnlessOvertaken'
    BY <2>1 DEF QonsoleInv, ResultBelongsUnlessOvertaken
  <2> QED
    BY <2>1, <2>4, <2>5, <2>6 DEF QonsoleInv
<1>7. ASSUME NEW q \in running, onQuerySuccess(q) \/ onQueryFail(q)
      PROVE  QonsoleInv'
  <2>1. /\ running' = running \ {q}
        /\ UNCHANGED <<examples, current, boxes, checked, lines, format>>
    BY <1>7 DEF onQuerySuccess, onQueryFail
  <2>2. \/ UNCHANGED <<result, timeTaken>>
        \/ \E as \in {format, "error"} : result' = Shown(q, as) /\ timeTaken' = TRUE
    BY <1>7 DEF onQuerySuccess, onQueryFail
  <2>3. q \in Query /\ format \in Formats /\ (~q.overtaken => q.query = current.name /\ q.output = format)
    BY DEF QonsoleInv
  <2>4. CASE UNCHANGED <<result, timeTaken>>
    BY <2>1, <2>4 DEF QonsoleInv, ResultBelongsUnlessOvertaken
  <2>5. ASSUME NEW as \in {format, "error"}, result' = Shown(q, as), timeTaken' = TRUE
        PROVE  QonsoleInv'
    <3>1. /\ result' \in Result
          /\ result'.query = q.query /\ result'.output = q.output /\ result'.as = as /\ result'.overtaken = q.overtaken
      BY <2>3, <2>5 DEF Shown, Result, Query
    <3>2. result' # None
      BY <3>1, QonsoleAssumption DEF Result
    <3>3. ResultBelongsUnlessOvertaken'
      BY <2>1, <2>3, <3>1, <3>2 DEF ResultBelongsUnlessOvertaken
    <3> QED
      BY <2>1, <2>5, <3>1, <3>3 DEF QonsoleInv
  <2> QED
    BY <2>2, <2>4, <2>5
<1>8. CASE UNCHANGED qonsoleVars
  BY <1>8 DEF qonsoleVars, QonsoleInv, ResultBelongsUnlessOvertaken
<1> QED
  BY <1>1, <1>2, <1>3, <1>4, <1>5, <1>6, <1>7, <1>8 DEF QonsoleNext

------------------------------------------------------------------------------
(* The rows of the edit table *)

\* A row's id, and a row.
RowId == Seq(0..10)
TableRow == [id : RowId, element : Nat, handlers : Nat]

\* No two rows have one id, and every row has its handlers.
Buttons(t) ==
    /\ t \in Seq(TableRow)
    /\ \A i, j \in DOMAIN t : t[i].id = t[j].id => i = j
    /\ \A i \in DOMAIN t : t[i].handlers = 1

\* The ids the page came with; the ids of rows added with the count.
Original(id) == Len(id) = 1 \/ id = <<1, 0>>
AddedWith(id, count) ==
    /\ count <= 9 => Len(id) >= 2 /\ id[Len(id)] = count
    /\ count >= 10 => Len(id) >= 3 /\ id[Len(id) - 1] = 1 /\ id[Len(id)] = count - 10
    /\ count = 1 => Len(id) = 2 \/ id[Len(id) - 1] = 0
Named(id, count) == Original(id) \/ \E c \in 1..11 : c < count /\ AddedWith(id, c)
Names(t, count) == \A i \in DOMAIN t : Named(t[i].id, count)

\* $("#id") finds the row, if no other row has the id.
LEMMA FindRow ==
    ASSUME NEW t \in Seq(TableRow), NEW i \in DOMAIN t,
           \A j \in DOMAIN t : t[j].id = t[i].id => j = i
    PROVE  find(t, t[i].id) = i
<1> DEFINE I == {j \in 1..Len(t) : t[j].id = t[i].id}
<1>1. DOMAIN t = 1..Len(t) /\ Len(t) \in Nat
  BY LenProperties
<1>2. I = {i}
  BY <1>1
<1>3. find(t, t[i].id) = IF I # {} THEN Min(I) ELSE 0
  BY DEF find, SelectInSeq
<1>4. \A x : (x \in {i} /\ \A y \in {i} : x <= y) <=> x = i
  BY <1>1
<1>5. Min({i}) = i
  BY <1>4 DEF Min
<1> QED
  BY <1>2, <1>3, <1>5

\* Table u is rows m to n of t; u is a followed by b.
Part(t, m, n, u) ==
    /\ u \in Seq(TableRow) /\ Len(u) = n - m + 1
    /\ \A i \in 1..(n - m + 1) : u[i] = t[m + i - 1]
Joined(S, a, b, u) ==
    /\ u \in Seq(S) /\ Len(u) = Len(a) + Len(b)
    /\ \A i \in 1..Len(a) : u[i] = a[i]
    /\ \A i \in 1..Len(b) : u[Len(a) + i] = b[i]

\* A part of the table, by SubSeq.
LEMMA PartOf ==
    ASSUME NEW t \in Seq(TableRow), NEW m \in 1..(Len(t) + 1), NEW n \in (m - 1)..Len(t)
    PROVE  Part(t, m, n, SubSeq(t, m, n))
<1>1. Len(t) \in Nat /\ \A i \in 1..Len(t) : t[i] \in TableRow
  BY LenProperties, ElementOfSeq
<1>2. m \in Int /\ n \in Int /\ \A i \in m..n : t[i] \in TableRow
  BY <1>1
<1>3. /\ SubSeq(t, m, n) \in Seq(TableRow)
      /\ Len(SubSeq(t, m, n)) = IF m <= n THEN n - m + 1 ELSE 0
      /\ \A i \in 1..(n - m + 1) : SubSeq(t, m, n)[i] = t[m + i - 1]
  BY <1>2, SubSeqProperties
<1>4. (IF m <= n THEN n - m + 1 ELSE 0) = n - m + 1
  BY <1>1
<1> QED
  BY <1>3, <1>4 DEF Part

\* Two sequences, one after the other.
LEMMA JoinOf ==
    ASSUME NEW S, NEW a \in Seq(S), NEW b \in Seq(S)
    PROVE  Joined(S, a, b, a \o b)
<1>1. Len(a) \in Nat /\ Len(b) \in Nat
  BY LenProperties
<1>2. /\ a \o b \in Seq(S) /\ Len(a \o b) = Len(a) + Len(b)
      /\ \A i \in 1..(Len(a) + Len(b)) : (a \o b)[i] = IF i <= Len(a) THEN a[i] ELSE b[i - Len(a)]
  BY ConcatProperties
<1>3. ASSUME NEW i \in 1..Len(a) PROVE (a \o b)[i] = a[i]
  BY <1>1, <1>2
<1>4. ASSUME NEW i \in 1..Len(b) PROVE (a \o b)[Len(a) + i] = b[i]
  <2>1. Len(a) + i \in 1..(Len(a) + Len(b)) /\ ~(Len(a) + i <= Len(a)) /\ Len(a) + i - Len(a) = i
    BY <1>1
  <2> QED
    BY <1>2, <2>1
<1> QED
  BY <1>2, <1>3, <1>4 DEF Joined

\* Table u is t with row r put after row p.
Inserted(t, p, r, u) ==
    /\ u \in Seq(TableRow) /\ Len(u) = Len(t) + 1
    /\ \A i \in 1..p : u[i] = t[i]
    /\ u[p + 1] = r
    /\ \A i \in (p + 1)..Len(t) : u[i + 1] = t[i]

\* A row is put after the first p rows.
LEMMA RowInserted ==
    ASSUME NEW t \in Seq(TableRow), NEW p \in 0..Len(t), NEW r \in TableRow
    PROVE  Inserted(t, p, r, InsertAt(t, p + 1, r))
<1>1. Len(t) \in Nat /\ p \in Nat /\ p <= Len(t)
  BY LenProperties
<1>2. ASSUME NEW front, NEW one, NEW back, NEW head, NEW u,
             Part(t, 1, p, front), Part(t, p + 1, Len(t), back),
             Len(one) = 1, one[1] = r, Joined(TableRow, front, one, head), Joined(TableRow, head, back, u)
      PROVE  Inserted(t, p, r, u)
  <2>1. /\ Len(front) = p /\ Len(head) = p + 1 /\ Len(back) = Len(t) - p
        /\ u \in Seq(TableRow) /\ Len(u) = Len(t) + 1
    BY <1>1, <1>2 DEF Part, Joined
  <2>2. ASSUME NEW i \in 1..p PROVE u[i] = t[i]
    <3>1. i \in 1..(p + 1) /\ 1 + i - 1 = i /\ p - 1 + 1 = p
      BY <1>1
    <3> QED
      BY <1>2, <2>1, <3>1 DEF Part, Joined
  <2>3. u[p + 1] = r
    <3>1. 1 \in 1..1 /\ p + 1 \in 1..(p + 1)
      BY <1>1
    <3>2. head[p + 1] = one[1]
      BY <1>2, <2>1, <3>1 DEF Joined
    <3> QED
      BY <1>2, <2>1, <3>1, <3>2 DEF Joined
  <2>4. ASSUME NEW i \in (p + 1)..Len(t) PROVE u[i + 1] = t[i]
    <3>1. /\ i - p \in 1..(Len(t) - p) /\ Len(t) - (p + 1) + 1 = Len(t) - p
          /\ p + 1 + (i - p) = i + 1 /\ p + 1 + (i - p) - 1 = i
      BY <1>1
    <3>2. u[p + 1 + (i - p)] = back[i - p]
      BY <1>2, <2>1, <3>1 DEF Joined
    <3>3. back[i - p] = t[p + 1 + (i - p) - 1]
      BY <1>2, <3>1 DEF Part
    <3> QED
      BY <3>1, <3>2, <3>3
  <2> QED
    BY <2>1, <2>2, <2>3, <2>4 DEF Inserted
<1> DEFINE front == SubSeq(t, 1, p)
           back  == SubSeq(t, p + 1, Len(t))
           one   == <<r>>
<1>3. Part(t, 1, p, front) /\ Part(t, p + 1, Len(t), back)
  <2>1. 1 \in 1..(Len(t) + 1) /\ p \in (1 - 1)..Len(t)
    BY <1>1
  <2>2. p + 1 \in 1..(Len(t) + 1) /\ Len(t) \in (p + 1 - 1)..Len(t)
    BY <1>1
  <2> QED
    BY <2>1, <2>2, PartOf
<1>4. one \in Seq(TableRow) /\ Len(one) = 1 /\ one[1] = r
  OBVIOUS
<1>5. InsertAt(t, p + 1, r) = (front \o one) \o back
  <2>1. \A q, m : q - 1 = m => InsertAt(t, q, r) = (SubSeq(t, 1, m) \o <<r>>) \o SubSeq(t, q, Len(t))
    BY Zenon DEF InsertAt
  <2>2. (p + 1) - 1 = p
    BY <1>1
  <2>3. InsertAt(t, p + 1, r) = (SubSeq(t, 1, p) \o <<r>>) \o SubSeq(t, p + 1, Len(t))
    <3> HIDE DEF front, back, one
    <3> QED
      BY <2>1, <2>2
  <2> QED
    BY <2>3
<1> HIDE DEF front, back, one
<1>6. Joined(TableRow, front, one, front \o one)
  BY <1>3, <1>4, JoinOf DEF Part
<1>7. Joined(TableRow, front \o one, back, (front \o one) \o back)
  <2>1. front \o one \in Seq(TableRow) /\ back \in Seq(TableRow)
    BY <1>3, <1>6 DEF Part, Joined
  <2> QED
    BY <2>1, JoinOf
<1> QED
  BY <1>2, <1>3, <1>4, <1>5, <1>6, <1>7

\* Table u is t without row i.
Dropped(t, i, u) ==
    /\ u \in Seq(TableRow) /\ Len(u) = Len(t) - 1
    /\ \A j \in 1..(i - 1) : u[j] = t[j]
    /\ \A j \in i..(Len(t) - 1) : u[j] = t[j + 1]

\* Row i is taken out.
LEMMA RowDropped ==
    ASSUME NEW t \in Seq(TableRow), NEW i \in 1..Len(t)
    PROVE  Dropped(t, i, RemoveAt(t, i))
<1>1. Len(t) \in Nat /\ i \in Nat /\ 1 <= i /\ i <= Len(t)
  BY LenProperties
<1>2. ASSUME NEW front, NEW back, NEW u,
             Part(t, 1, i - 1, front), Part(t, i + 1, Len(t), back), Joined(TableRow, front, back, u)
      PROVE  Dropped(t, i, u)
  <2>1. /\ Len(front) = i - 1 /\ Len(back) = Len(t) - i
        /\ u \in Seq(TableRow) /\ Len(u) = Len(t) - 1
    BY <1>1, <1>2 DEF Part, Joined
  <2>2. ASSUME NEW j \in 1..(i - 1) PROVE u[j] = t[j]
    <3>1. 1 + j - 1 = j /\ i - 1 - 1 + 1 = i - 1
      BY <1>1
    <3> QED
      BY <1>2, <2>1, <3>1 DEF Part, Joined
  <2>3. ASSUME NEW j \in i..(Len(t) - 1) PROVE u[j] = t[j + 1]
    <3>1. /\ j - i + 1 \in 1..(Len(t) - i) /\ Len(t) - (i + 1) + 1 = Len(t) - i
          /\ i - 1 + (j - i + 1) = j /\ i + 1 + (j - i + 1) - 1 = j + 1
      BY <1>1
    <3>2. u[i - 1 + (j - i + 1)] = back[j - i + 1]
      BY <1>2, <2>1, <3>1 DEF Joined
    <3>3. back[j - i + 1] = t[i + 1 + (j - i + 1) - 1]
      BY <1>2, <3>1 DEF Part
    <3> QED
      BY <3>1, <3>2, <3>3
  <2> QED
    BY <2>1, <2>2, <2>3 DEF Dropped
<1> DEFINE front == SubSeq(t, 1, i - 1)
           back  == SubSeq(t, i + 1, Len(t))
<1>3. Part(t, 1, i - 1, front) /\ Part(t, i + 1, Len(t), back)
  <2>1. 1 \in 1..(Len(t) + 1) /\ i - 1 \in (1 - 1)..Len(t)
    BY <1>1
  <2>2. i + 1 \in 1..(Len(t) + 1) /\ Len(t) \in (i + 1 - 1)..Len(t)
    BY <1>1
  <2> QED
    BY <2>1, <2>2, PartOf
<1>4. RemoveAt(t, i) = front \o back
  BY DEF RemoveAt
<1> HIDE DEF front, back
<1>5. Joined(TableRow, front, back, front \o back)
  BY <1>3, JoinOf DEF Part
<1> QED
  BY <1>2, <1>3, <1>4, <1>5

\* installEditRow puts a row with its handlers after row p, if the id is new.
LEMMA RowInstalled ==
    ASSUME NEW t \in Seq(TableRow), NEW p \in 0..Len(t), NEW id \in RowId, NEW e \in Nat,
           \A i \in DOMAIN t : t[i].id # id
    PROVE  Inserted(t, p, [id |-> id, element |-> e, handlers |-> 1], installEditRow(t, p, id, e))
<1> DEFINE new == [id |-> id, element |-> e, handlers |-> 0]
           row == [id |-> id, element |-> e, handlers |-> 1]
           added == InsertAt(t, p + 1, new)
           u == [added EXCEPT ![p + 1] = row]
<1>1. /\ Len(t) \in Nat /\ p \in Nat /\ p <= Len(t)
      /\ DOMAIN t = 1..Len(t) /\ new \in TableRow /\ row \in TableRow /\ new.id = id
  BY LenProperties DEF TableRow
<1>2. Inserted(t, p, new, added)
  BY <1>1, RowInserted
<1>3. added \in Seq(TableRow) /\ DOMAIN added = 1..(Len(t) + 1)
  BY <1>2, LenProperties DEF Inserted
<1>4. installEditRow(t, p, id, e) = [added EXCEPT ![find(added, id)].handlers = @ + 1]
  BY DEF installEditRow
<1> HIDE DEF added
<1>5. p + 1 \in DOMAIN added /\ added[p + 1] = new
  BY <1>1, <1>2, <1>3 DEF Inserted
<1>6. ASSUME NEW j \in DOMAIN added, j # p + 1 PROVE added[j].id # id
  <2>1. CASE j \in 1..p
    BY <1>1, <1>2, <2>1 DEF Inserted
  <2>2. CASE j \notin 1..p
    <3>1. j - 1 \in (p + 1)..Len(t) /\ (j - 1) + 1 = j /\ j - 1 \in DOMAIN t
      BY <1>1, <1>3, <1>6, <2>2
    <3>2. added[j] = t[j - 1]
      BY <1>2, <3>1 DEF Inserted
    <3> QED
      BY <3>1, <3>2
  <2> QED
    BY <2>1, <2>2
<1>7. find(added, id) = p + 1
  BY <1>1, <1>3, <1>5, <1>6, FindRow
<1>8. [added EXCEPT ![p + 1].handlers = @ + 1] = u
  <2>1. [added[p + 1] EXCEPT !.handlers = @ + 1] = row
    BY <1>5
  <2> QED
    BY <2>1
<1> HIDE DEF new, row
<1>9. /\ u \in Seq(TableRow) /\ Len(u) = Len(added)
      /\ \A j \in 1..Len(added) : u[j] = IF j = p + 1 THEN row ELSE added[j]
  <2>1. p + 1 \in 1..Len(added)
    BY <1>1, <1>2 DEF Inserted
  <2> QED
    BY <1>1, <1>3, <2>1, ExceptSeq
<1> HIDE DEF u
<1>10. Inserted(t, p, row, u)
  <2>1. Len(u) = Len(t) + 1 /\ Len(added) = Len(t) + 1
    BY <1>2, <1>9 DEF Inserted
  <2>2. u[p + 1] = row
    BY <1>1, <1>9, <2>1
  <2>3. ASSUME NEW i \in 1..p PROVE u[i] = t[i]
    <3>1. i \in 1..Len(added) /\ i # p + 1
      BY <1>1, <2>1
    <3> QED
      BY <1>2, <1>9, <3>1 DEF Inserted
  <2>4. ASSUME NEW i \in (p + 1)..Len(t) PROVE u[i + 1] = t[i]
    <3>1. i + 1 \in 1..Len(added) /\ i + 1 # p + 1
      BY <1>1, <2>1
    <3> QED
      BY <1>2, <1>9, <3>1 DEF Inserted
  <2> QED
    BY <1>9, <2>1, <2>2, <2>3, <2>4 DEF Inserted
<1> QED
  BY <1>4, <1>7, <1>8, <1>10 DEF row

\* A name made with the count; it is a new one.
LEMMA NewName ==
    ASSUME NEW id \in RowId, NEW count \in 1..11, Len(id) >= 1,
           count = 1 => Original(id) \/ id = <<NewRow>>
    PROVE  /\ id \o digits(count) \in RowId
           /\ AddedWith(id \o digits(count), count)
<1>1. Len(id) \in Nat
  BY LenProperties DEF RowId
<1> DEFINE d == digits(count)
           new == id \o d
<1>2. CASE count <= 9
  <2>1. d = <<count>>
    BY <1>2 DEF digits
  <2>2. d \in RowId /\ Len(d) = 1 /\ d[1] = count
    BY <1>2, <2>1 DEF RowId
  <2> HIDE DEF d
  <2>3. Joined(0..10, id, d, new)
    BY <2>2, JoinOf DEF RowId
  <2> HIDE DEF new
  <2>4. new \in RowId /\ Len(new) = Len(id) + 1 /\ new[Len(id) + 1] = count /\ new[Len(id)] = id[Len(id)]
    <3>1. Len(id) \in 1..Len(id) /\ 1 \in 1..1
      BY <1>1
    <3> QED
      BY <2>2, <2>3, <3>1 DEF Joined, RowId
  <2>5. count = 1 => Len(new) = 2 \/ new[Len(new) - 1] = 0
    <3>1. CASE Len(id) = 1
      BY <2>4, <3>1
    <3>2. CASE id = <<1, 0>>
      <4>1. Len(id) = 2 /\ id[2] = 0
        BY <3>2
      <4> QED
        BY <2>4, <4>1
    <3>3. id = <<NewRow>> => Len(id) = 1
      OBVIOUS
    <3> QED
      BY <3>1, <3>2, <3>3 DEF Original
  <2> QED
    BY <1>1, <1>2, <2>4, <2>5 DEF AddedWith, new, d
<1>3. CASE count >= 10
  <2>1. d = <<1, count - 10>>
    <3>1. count = 10 \/ count = 11
      BY <1>3
    <3>2. digits(10) = <<1, 0>> /\ digits(11) = <<1, 1>>
      BY DEF digits
    <3> QED
      BY <3>1, <3>2
  <2>2. d \in RowId /\ Len(d) = 2 /\ d[1] = 1 /\ d[2] = count - 10
    BY <1>3, <2>1 DEF RowId
  <2> HIDE DEF d
  <2>3. Joined(0..10, id, d, new)
    BY <2>2, JoinOf DEF RowId
  <2> HIDE DEF new
  <2>4. new \in RowId /\ Len(new) = Len(id) + 2 /\ new[Len(id) + 1] = 1 /\ new[Len(id) + 2] = count - 10
    <3>1. 1 \in 1..2 /\ 2 \in 1..2
      OBVIOUS
    <3> QED
      BY <2>2, <2>3, <3>1 DEF Joined, RowId
  <2>5. Len(new) - 1 = Len(id) + 1 /\ Len(new) >= 3 /\ ~(count <= 9) /\ count # 1
    BY <1>1, <1>3, <2>4
  <2> QED
    BY <2>4, <2>5 DEF AddedWith, new, d
<1> QED
  BY <1>2, <1>3

\* No row in the table has the name that is made with the count.
LEMMA NewNameIsFresh ==
    ASSUME NEW id \in RowId, NEW old \in RowId, NEW count \in 1..11,
           AddedWith(id, count), Named(old, count)
    PROVE  id # old
<1>1. SUFFICES ASSUME id = old PROVE FALSE
  OBVIOUS
<1>2. Len(id) \in Nat
  BY LenProperties DEF RowId
<1>3. CASE Original(id)
  <2>1. Len(id) >= 2
    BY <1>2 DEF AddedWith
  <2>2. id = <<1, 0>>
    <3>1. \A l \in Nat : l >= 2 => l # 1
      OBVIOUS
    <3>2. Len(id) # 1
      BY <1>2, <2>1, <3>1, Zenon
    <3> QED
      BY <1>3, <3>2, Zenon DEF Original
  <2>3. Len(id) = 2 /\ id[2] = 0
    BY <2>2
  <2> QED
    BY <2>3 DEF AddedWith
<1>4. ASSUME NEW c \in 1..11, c < count, AddedWith(id, c) PROVE FALSE
  <2> DEFINE l == Len(id)
             a == id[l]
             b == id[l - 1]
  <2>1. /\ count <= 9 => a = count
        /\ count >= 10 => l >= 3 /\ b = 1 /\ a = count - 10
    BY DEF AddedWith
  <2>2. /\ c <= 9 => a = c
        /\ c >= 10 => a = c - 10
        /\ c = 1 => l = 2 \/ b = 0
    BY <1>4 DEF AddedWith
  <2>3. c \in Nat /\ count \in Nat /\ 1 <= c /\ c < count /\ count <= 11
    BY <1>4
  <2> HIDE DEF l, a, b
  <2>4. CASE count <= 9
    BY <2>1, <2>2, <2>3, <2>4
  <2>5. CASE count = 10
    BY <2>1, <2>2, <2>3, <2>5
  <2>6. CASE count = 11
    <3>1. a = 1 /\ b = 1 /\ l >= 3
      BY <2>1, <2>6
    <3>2. c = 1
      BY <2>2, <2>3, <2>6, <3>1
    <3> QED
      BY <2>2, <3>1, <3>2
  <2> QED
    BY <2>3, <2>4, <2>5, <2>6
<1> QED
  BY <1>1, <1>3, <1>4 DEF Named

\* A row with a name made with the count is put after row p.
Adds(t, p, id, count, u) ==
    /\ count \in 1..11 /\ p \in 0..Len(t)
    /\ Buttons(t) /\ Names(t, count)
    /\ id \in RowId /\ AddedWith(id, count)
    /\ u = installEditRow(t, p, id, 100 + count)

\* Adding a row and removing one keep the buttons and the names.
LEMMA AddedRow ==
    ASSUME NEW t, NEW p, NEW id, NEW count, NEW u, Adds(t, p, id, count, u)
    PROVE  Buttons(u) /\ Names(u, count + 1)
<1> DEFINE e == 100 + count
<1>1. /\ count \in 1..11 /\ p \in 0..Len(t) /\ Buttons(t) /\ Names(t, count)
      /\ id \in RowId /\ AddedWith(id, count) /\ e \in Nat
      /\ u = installEditRow(t, p, id, e)
  BY DEF Adds
<1> HIDE DEF e
<1> DEFINE row == [id |-> id, element |-> e, handlers |-> 1]
<1>2. /\ t \in Seq(TableRow) /\ Len(t) \in Nat /\ p \in Nat /\ p <= Len(t) /\ DOMAIN t = 1..Len(t)
      /\ \A i \in DOMAIN t : t[i].id \in RowId
  <2>1. t \in Seq(TableRow)
    BY <1>1 DEF Buttons
  <2>2. Len(t) \in Nat /\ DOMAIN t = 1..Len(t) /\ \A i \in 1..Len(t) : t[i] \in TableRow
    BY <2>1, LenProperties, ElementOfSeq
  <2>3. \A r \in TableRow : r.id \in RowId
    BY DEF TableRow
  <2> QED
    BY <1>1, <2>1, <2>2, <2>3
<1>3. \A i \in DOMAIN t : t[i].id # id
  BY <1>1, <1>2, NewNameIsFresh DEF Names
<1>4. Inserted(t, p, row, u)
  BY <1>1, <1>2, <1>3, RowInstalled
<1>5. row.id = id /\ row.handlers = 1
  OBVIOUS
<1> HIDE DEF row
<1>6. u \in Seq(TableRow) /\ DOMAIN u = 1..(Len(t) + 1) /\ u[p + 1] = row
  BY <1>4, LenProperties DEF Inserted
<1> DEFINE from(j) == IF j <= p THEN j ELSE j - 1
<1>7. ASSUME NEW j \in DOMAIN u, j # p + 1
      PROVE  from(j) \in DOMAIN t /\ u[j] = t[from(j)]
  <2>1. CASE j <= p
    BY <1>2, <1>4, <1>6, <2>1 DEF Inserted
  <2>2. CASE ~(j <= p)
    <3>1. j - 1 \in (p + 1)..Len(t) /\ (j - 1) + 1 = j /\ j - 1 \in DOMAIN t
      BY <1>2, <1>6, <1>7, <2>2
    <3>2. u[j] = t[j - 1]
      BY <1>4, <3>1 DEF Inserted
    <3> QED
      BY <2>2, <3>1, <3>2
  <2> QED
    BY <2>1, <2>2
<1>8. ASSUME NEW j \in DOMAIN u, NEW k \in DOMAIN u, j # p + 1, k # p + 1, from(j) = from(k)
      PROVE  j = k
  BY <1>2, <1>6, <1>8
<1> HIDE DEF from
<1>9. \A j, k \in DOMAIN u : u[j].id = u[k].id => j = k
  BY <1>1, <1>3, <1>5, <1>6, <1>7, <1>8 DEF Buttons
<1>20. \A j \in DOMAIN u : u[j].handlers = 1
  BY <1>1, <1>5, <1>6, <1>7 DEF Buttons
<1>21. \A j \in DOMAIN u : Named(u[j].id, count + 1)
  <2>1. ASSUME NEW j \in DOMAIN u, j # p + 1 PROVE Named(u[j].id, count + 1)
    <3>1. Named(u[j].id, count)
      BY <1>1, <1>7, <2>1 DEF Names
    <3>2. \A c \in 1..11 : c < count => c < count + 1
      BY <1>1
    <3> QED
      BY <3>1, <3>2, Zenon DEF Named
  <2>2. Named(id, count + 1)
    <3>1. count < count + 1
      BY <1>1
    <3> QED
      BY <1>1, <3>1, Zenon DEF Named
  <2> QED
    BY <1>5, <1>6, <2>1, <2>2
<1> QED
  BY <1>6, <1>9, <1>20, <1>21 DEF Buttons, Names

\* editRemoveAction takes out the row whose button was pressed, and no other.
LEMMA RemovedRow ==
    ASSUME NEW t, NEW u, NEW i, NEW count, Buttons(t), Names(t, count), i \in DOMAIN t,
           u = editRemoveAction(t, t[i].id)
    PROVE  Buttons(u) /\ Names(u, count)
<1>1. t \in Seq(TableRow) /\ Len(t) \in Nat /\ DOMAIN t = 1..Len(t) /\ i \in Nat /\ 1 <= i /\ i <= Len(t)
  BY LenProperties DEF Buttons
<1>2. find(t, t[i].id) = i
  BY <1>1, FindRow DEF Buttons
<1>3. u = RemoveAt(t, i)
  <2>1. i # 0
    BY <1>1
  <2> QED
    BY <1>2, <2>1, Zenon DEF editRemoveAction
<1>4. Dropped(t, i, u)
  BY <1>1, <1>3, RowDropped
<1>5. u \in Seq(TableRow) /\ DOMAIN u = 1..(Len(t) - 1)
  BY <1>4, LenProperties DEF Dropped
<1> DEFINE from(j) == IF j < i THEN j ELSE j + 1
<1>6. ASSUME NEW j \in DOMAIN u
      PROVE  from(j) \in DOMAIN t /\ u[j] = t[from(j)]
  <2>1. CASE j < i
    <3>1. j \in 1..(i - 1) /\ j \in DOMAIN t
      BY <1>1, <1>5, <2>1
    <3>2. u[j] = t[j]
      BY <1>4, <3>1 DEF Dropped
    <3> QED
      BY <2>1, <3>1, <3>2
  <2>2. CASE ~(j < i)
    <3>1. j \in i..(Len(t) - 1) /\ j + 1 \in DOMAIN t
      BY <1>1, <1>5, <2>2
    <3>2. u[j] = t[j + 1]
      BY <1>4, <3>1 DEF Dropped
    <3> QED
      BY <2>2, <3>1, <3>2
  <2> QED
    BY <2>1, <2>2
<1>7. ASSUME NEW j \in DOMAIN u, NEW k \in DOMAIN u, from(j) = from(k)
      PROVE  j = k
  BY <1>1, <1>5, <1>7
<1> HIDE DEF from
<1> QED
  BY <1>5, <1>6, <1>7 DEF Buttons, Names

\* In a table opened with at most eleven rows.
TableInv ==
    tableSize <= 11 =>
        /\ idcount \in 1..(edits + 1) /\ misses = 0
        /\ Buttons(table) /\ Names(table, idcount)

\* A table as the page shows it, of up to 11 rows.
LEMMA TableOpened ==
    ASSUME NEW n \in TableSizes, EditInit(n)
    PROVE  TableInv
<1> SUFFICES ASSUME n <= 11
             PROVE  /\ idcount \in 1..(edits + 1) /\ misses = 0
                    /\ Buttons(table) /\ Names(table, idcount)
  BY DEF EditInit, TableInv
<1>1. n \in 1..11
  BY EditFormAssumption
<1>2. table = [i \in 1..n |-> [id |-> digits(i - 1), element |-> i - 1, handlers |-> 1]]
  BY DEF EditInit
<1>3. idcount = 1 /\ edits = 0 /\ misses = 0
  BY DEF EditInit
<1>4. ASSUME NEW k \in 0..10
      PROVE  digits(k) \in RowId /\ digits(k) = IF k = 10 THEN <<1, 0>> ELSE <<k>>
  <2>1. CASE k = 10
    <3>1. 10 \div 10 = 1 /\ 10 % 10 = 0
      OBVIOUS
    <3> QED
      BY <2>1, <3>1 DEF digits, RowId
  <2>2. CASE k < 10
    BY <2>2 DEF digits, RowId
  <2> QED
    BY <2>1, <2>2
<1>5. ASSUME NEW i \in 1..n
      PROVE  /\ i - 1 \in 0..10
             /\ table[i] = [id |-> digits(i - 1), element |-> i - 1, handlers |-> 1]
             /\ table[i] \in TableRow
             /\ table[i].id = digits(i - 1) /\ table[i].handlers = 1
  <2>1. i - 1 \in 0..10
    BY <1>1
  <2>2. digits(i - 1) \in RowId
    BY <1>4, <2>1
  <2>3. table[i] = [id |-> digits(i - 1), element |-> i - 1, handlers |-> 1]
    BY <1>2
  <2> QED
    BY <2>1, <2>2, <2>3 DEF TableRow
<1>6. table \in Seq(TableRow) /\ DOMAIN table = 1..n
  <2>1. table \in [1..n -> TableRow]
    BY <1>2, <1>5
  <2> QED
    BY <1>1, <2>1
<1>7. \A i \in DOMAIN table : Original(table[i].id)
  <2> SUFFICES ASSUME NEW i \in 1..n PROVE Original(digits(i - 1))
    BY <1>5, <1>6
  <2>1. digits(i - 1) = <<1, 0>> \/ digits(i - 1) = <<i - 1>>
    BY <1>4, <1>5
  <2>2. Len(<<i - 1>>) = 1
    OBVIOUS
  <2> QED
    BY <2>1, <2>2 DEF Original
<1>8. \A i, j \in DOMAIN table : table[i].id = table[j].id => i = j
  <2> SUFFICES ASSUME NEW i \in 1..n, NEW j \in 1..n, digits(i - 1) = digits(j - 1) PROVE i = j
    BY <1>5, <1>6
  <2>1. ASSUME NEW k \in 0..10, NEW m \in 0..10, digits(k) = digits(m) PROVE k = m
    BY <1>4, <2>1
  <2>2. i - 1 = j - 1
    BY <1>5, <2>1
  <2> QED
    BY <1>1, <2>2
<1> QED
  BY <1>3, <1>5, <1>6, <1>7, <1>8 DEF Buttons, Names, Named

\* A row with one handler acts once: the recursion over its handlers ends with
\* the first call.
LEMMA OneAdd ==
    ASSUME NEW i \in DOMAIN table, table[i].handlers = 1, idcount \in Nat, AddRow(i)
    PROVE  table' = editAddAction(table, table[i].id, idcount)
<1> DEFINE call(t, k) == editAddAction(t, table[i].id, idcount + k - 1)
           step == CHOOSE f : f = [k \in 0..1 |-> IF k = 0 THEN table ELSE call(f[k - 1], k)]
           g == [k \in 0..1 |-> IF k = 0 THEN table ELSE call(table, k)]
<1>1. table' = step[1]
  BY DEF AddRow
<1> HIDE DEF call
<1>2. g = [k \in 0..1 |-> IF k = 0 THEN table ELSE call(g[k - 1], k)]
  <2>1. \A k \in 0..1 : k # 0 => g[k - 1] = table
    OBVIOUS
  <2> HIDE DEF g
  <2> QED
    BY <2>1 DEF g
<1> HIDE DEF g
<1>3. step = [k \in 0..1 |-> IF k = 0 THEN table ELSE call(step[k - 1], k)]
  BY <1>2
<1> HIDE DEF step
<1>4. step[0] = table
  BY <1>3
<1>5. step[1] = call(step[0], 1)
  BY <1>3
<1>6. idcount + 1 - 1 = idcount
  OBVIOUS
<1> QED
  BY <1>1, <1>4, <1>5, <1>6 DEF call

\* A row with one handler is removed by one call.
LEMMA OneRemove ==
    ASSUME NEW i \in DOMAIN table, table[i].handlers = 1, RemoveRow(i)
    PROVE  table' = editRemoveAction(table, table[i].id)
<1> DEFINE call(t) == editRemoveAction(t, table[i].id)
           step == CHOOSE f : f = [k \in 0..1 |-> IF k = 0 THEN table ELSE call(f[k - 1])]
           g == [k \in 0..1 |-> IF k = 0 THEN table ELSE call(table)]
<1>1. table' = step[1]
  BY DEF RemoveRow
<1> HIDE DEF call
<1>2. g = [k \in 0..1 |-> IF k = 0 THEN table ELSE call(g[k - 1])]
  <2>1. \A k \in 0..1 : k # 0 => g[k - 1] = table
    OBVIOUS
  <2> HIDE DEF g
  <2> QED
    BY <2>1 DEF g
<1> HIDE DEF g
<1>3. step = [k \in 0..1 |-> IF k = 0 THEN table ELSE call(step[k - 1])]
  BY <1>2
<1> HIDE DEF step
<1>4. step[0] = table
  BY <1>3
<1>5. step[1] = call(step[0])
  BY <1>3
<1> QED
  BY <1>1, <1>4, <1>5 DEF call

\* Every event of the edit page keeps TableInv.
LEMMA TableStep ==
    ASSUME TableInv, edits \in 0..MaxEdits, [EditNext]_editVars
    PROVE  TableInv'
<1>1. CASE UNCHANGED <<tableSize, table, idcount, edits, misses>>
  BY <1>1 DEF TableInv
<1>2. Save \/ UNCHANGED editVars \/ (\E s \in saves : Stored(s) \/ SaveFailed(s))
      => UNCHANGED <<tableSize, table, idcount, edits, misses>>
  BY DEF Save, Stored, SaveFailed, editVars
<1>3. ASSUME tableSize <= 11
      PROVE  /\ Buttons(table) /\ Names(table, idcount) /\ misses = 0
             /\ idcount \in 1..(edits + 1) /\ edits \in Nat
             /\ edits < MaxEdits => idcount \in 1..11 /\ edits + 1 \in Nat
             /\ table \in Seq(TableRow) /\ Len(table) \in Nat /\ DOMAIN table = 1..Len(table)
  <2>1. /\ Buttons(table) /\ Names(table, idcount) /\ misses = 0 /\ idcount \in 1..(edits + 1)
    BY <1>3 DEF TableInv
  <2>2. table \in Seq(TableRow)
    BY <2>1 DEF Buttons
  <2>3. Len(table) \in Nat /\ DOMAIN table = 1..Len(table)
    BY <2>2, LenProperties
  <2>4. edits \in Nat /\ (edits < MaxEdits => idcount \in 1..11 /\ edits + 1 \in Nat)
    BY <2>1, EditFormAssumption
  <2> QED
    BY <2>1, <2>2, <2>3, <2>4
<1>4. ASSUME tableSize <= 11, NEW i \in DOMAIN table
      PROVE  /\ table[i] \in TableRow /\ table[i].id \in RowId /\ Len(table[i].id) >= 1
             /\ table[i].handlers = 1 /\ find(table, table[i].id) = i
             /\ Named(table[i].id, idcount)
  <2>1. table[i] \in TableRow
    BY <1>3, <1>4, ElementOfSeq
  <2>2. table[i].id \in RowId
    BY <2>1 DEF TableRow
  <2>3. table[i].handlers = 1 /\ find(table, table[i].id) = i /\ Named(table[i].id, idcount)
    BY <1>3, <1>4, FindRow DEF Buttons, Names
  <2>4. Len(table[i].id) >= 1
    <3> DEFINE id == table[i].id
    <3>1. Len(id) \in Nat
      BY <2>2, LenProperties DEF RowId
    <3> HIDE DEF id
    <3>2. ASSUME NEW c \in 1..11, AddedWith(id, c) PROVE Len(id) >= 1
      BY <3>1, <3>2 DEF AddedWith
    <3>3. ASSUME Original(id) PROVE Len(id) >= 1
      <4>1. Len(<<1, 0>>) = 2
        OBVIOUS
      <4> QED
        BY <3>1, <3>3, <4>1 DEF Original
    <3>4. Named(id, idcount)
      BY <2>3 DEF id
    <3> QED
      BY <3>2, <3>3, <3>4 DEF Named, id
  <2> QED
    BY <2>1, <2>2, <2>3, <2>4
<1>5. ASSUME NEW i \in DOMAIN table, AddRow(i) PROVE TableInv'
  <2>1. edits < MaxEdits /\ edits' = edits + 1 /\ idcount' = idcount + table[i].handlers /\ tableSize' = tableSize
    BY <1>5 DEF AddRow
  <2> SUFFICES ASSUME tableSize <= 11
               PROVE  /\ idcount' \in 1..(edits' + 1) /\ misses' = 0
                      /\ Buttons(table') /\ Names(table', idcount')
    BY <2>1 DEF TableInv, Buttons, Names
  <2> DEFINE id == table[i].id
             new == id \o digits(idcount)
  <2>2. /\ id \in RowId /\ Len(id) >= 1 /\ table[i].handlers = 1 /\ find(table, id) = i
        /\ Named(id, idcount) /\ idcount \in 1..11
    BY <1>3, <1>4, <2>1
  <2>3. misses' = 0
    BY <1>3, <1>5, <2>2 DEF AddRow
  <2>4. table' = installEditRow(table, i, new, 100 + idcount)
    <3>1. table' = editAddAction(table, id, idcount)
      BY <1>5, <2>2, OneAdd
    <3> QED
      BY <2>2, <3>1, Zenon DEF editAddAction
  <2> HIDE DEF id
  <2>5. new \in RowId /\ AddedWith(new, idcount)
    <3>1. idcount = 1 => Original(id)
      BY <2>2 DEF Named
    <3> QED
      BY <2>2, <3>1, NewName
  <2> HIDE DEF new
  <2>6. i \in 0..Len(table) /\ idcount' = idcount + 1
    BY <1>3, <2>1, <2>2
  <2>7. Adds(table, i, new, idcount, table')
    BY <1>3, <2>2, <2>4, <2>5, <2>6 DEF Adds
  <2>8. Buttons(table') /\ Names(table', idcount + 1)
    BY <2>7, AddedRow
  <2> QED
    BY <1>3, <2>1, <2>3, <2>6, <2>8
<1>6. ASSUME NEW i \in DOMAIN table, RemoveRow(i) PROVE TableInv'
  <2>1. edits < MaxEdits /\ edits' = edits + 1 /\ idcount' = idcount /\ tableSize' = tableSize
    BY <1>6 DEF RemoveRow
  <2> SUFFICES ASSUME tableSize <= 11
               PROVE  /\ idcount' \in 1..(edits' + 1) /\ misses' = 0
                      /\ Buttons(table') /\ Names(table', idcount')
    BY <2>1 DEF TableInv, Buttons, Names
  <2>2. table[i].handlers = 1 /\ find(table, table[i].id) = i
    BY <1>4
  <2>3. misses' = 0
    BY <1>3, <1>6, <2>2 DEF RemoveRow
  <2>4. table' = editRemoveAction(table, table[i].id)
    BY <1>6, <2>2, OneRemove
  <2>5. Buttons(table') /\ Names(table', idcount)
    BY <1>3, <2>4, RemovedRow
  <2> QED
    BY <1>3, <2>1, <2>3, <2>5
<1>7. CASE AddNewRow
  <2>1. /\ edits < MaxEdits /\ edits' = edits + 1 /\ idcount' = idcount + 1
        /\ tableSize' = tableSize /\ misses' = misses
    BY <1>7 DEF AddNewRow
  <2> SUFFICES ASSUME tableSize <= 11
               PROVE  /\ idcount' \in 1..(edits' + 1) /\ misses' = 0
                      /\ Buttons(table') /\ Names(table', idcount')
    BY <2>1 DEF TableInv, Buttons, Names
  <2>2. idcount' \in 1..(edits' + 1) /\ misses' = 0 /\ idcount \in 1..11
    BY <1>3, <2>1
  <2>3. CASE table = <<>>
    <3>1. table' = table /\ DOMAIN table = {}
      BY <1>7, <2>3 DEF AddNewRow
    <3> QED
      BY <1>3, <2>2, <3>1 DEF Buttons, Names
  <2>4. CASE table # <<>>
    <3> DEFINE new == <<NewRow>> \o digits(idcount)
    <3>1. table' = installEditRow(table, Len(table), new, 100 + idcount)
      BY <1>7, <2>4, Zenon DEF AddNewRow
    <3>2. new \in RowId /\ AddedWith(new, idcount)
      <4>1. <<NewRow>> \in RowId /\ Len(<<NewRow>>) >= 1
        BY DEF RowId, NewRow
      <4> QED
        BY <2>2, <4>1, NewName
    <3> HIDE DEF new
    <3>3. /\ Len(table) \in 0..Len(table)
          /\ Buttons(table) /\ Names(table, idcount)
      BY <1>3
    <3>4. Adds(table, Len(table), new, idcount, table')
      BY <2>2, <3>1, <3>2, <3>3 DEF Adds
    <3>5. Buttons(table') /\ Names(table', idcount + 1)
      BY <3>4, AddedRow
    <3> QED
      BY <2>1, <2>2, <3>5
  <2> QED
    BY <2>3, <2>4
<1> QED
  BY <1>1, <1>2, <1>5, <1>6, <1>7 DEF EditNext

------------------------------------------------------------------------------
(* The edit table and the tab *)

SaveRequest == [id : 1..MaxSaves, content : 0..MaxEdits, done : BOOLEAN]

\* As long as saves do not overlap and none has failed, at most one is in
\* flight, and it is the last one sent.
EditInv ==
    /\ edits \in 0..MaxEdits /\ saves \subseteq SaveRequest
    /\ msg = "none" /\ ~overlapped =>
          \/ (\A s \in saves : s.done) /\ stored = lastSent
          \/ \E s \in saves : ~s.done /\ s.content = lastSent /\ \A u \in saves : u # s => u.done

BrowserInv == ExplorerInv /\ QonsoleInv /\ EditInv /\ TableInv

\* Whatever page is opened, every event and answer keeps the invariant of its
\* script (ds-explore.js, qonsole.js, ui.js).
THEOREM BrowserInvariant == BrowserSpec => []BrowserInv
<1>1. BrowserInit => BrowserInv
  <2> SUFFICES ASSUME BrowserInit PROVE BrowserInv
    OBVIOUS
  <2> USE ExplorerAssumption
  <2>1. ExplorerInv
    <3>1. /\ nodeState = [m \in {Start} |-> [visible |-> TRUE, springyNode |-> "none"]]
          /\ linkState = [l \in LinksOf(Start) |-> FALSE]
          /\ elements = [n \in Datasets |-> [shown |-> IF n = Start THEN 1 ELSE 0, hidden |-> 0]]
          /\ DOMAIN gets = {} /\ gets = [e \in {} |-> 1]
          /\ connections = {} /\ laidOut = "ok"
      <4>1. DOMAIN <<>> = {}
        OBVIOUS
      <4>2. registerNode(<<>>, Start) = [m \in {Start} |-> [visible |-> TRUE, springyNode |-> "none"]]
        BY <4>1 DEF registerNode
      <4>3. register(<<>>, Start) = [l \in LinksOf(Start) |-> FALSE]
        BY <4>1 DEF register
      <4> QED
        BY <4>2, <4>3 DEF BrowserInit, ExplorerInit, EmptyBag, SetToBag
    <3>2. Requests(gets)
      BY <3>1 DEF Requests
    <3>3. ExplorerTypeOK
      BY <3>1, <3>2 DEF ExplorerTypeOK, NodeEntry, LinksOf
    <3>4. \A n \in Datasets : isVisible(n) <=> n = Start
      BY <3>1 DEF isVisible
    <3>5. ElementsInv
      BY <3>1, <3>4 DEF ElementsInv
    <3>6. LinksMatchCanvas /\ HiddenEndOnlyIfClosedEarly /\ GetsInv
      BY <3>1 DEF LinksMatchCanvas, HiddenEndOnlyIfClosedEarly, GetsInv
    <3>7. AskedInv
      BY <3>1 DEF AskedInv
    <3> QED
      BY <3>3, <3>5, <3>6, <3>7 DEF ExplorerInv
  <2>2. QonsoleInv
    <3>1. /\ examples = <<>> /\ current = None /\ boxes = <<>> /\ lines = <<>> /\ format = "tsv"
          /\ running = {} /\ result = None /\ timeTaken = FALSE
      BY DEF BrowserInit, QonsoleInit
    <3>2. <<>> \in Seq(Lines) /\ Len(<<>>) = 0 /\ DOMAIN <<>> = {}
      OBVIOUS
    <3>3. Text(lines, 0)
      BY <3>1, <3>2 DEF Text
    <3>4. Tidy(lines)
      BY <3>1, <3>2, <3>3 DEF Tidy
    <3>5. ToSet(boxes) = {}
      BY <3>1, <3>2 DEF ToSet
    <3> QED
      BY <3>1, <3>4, <3>5, QonsoleAssumption DEF QonsoleInv, ResultBelongsUnlessOvertaken
  <2>3. EditInv
    BY EditFormAssumption DEF BrowserInit, EditInit, EditInv
  <2>4. TableInv
    BY TableOpened DEF BrowserInit
  <2> QED
    BY <2>1, <2>2, <2>3, <2>4 DEF BrowserInv
<1>2. BrowserInv /\ [BrowserNext]_browserVars => BrowserInv'
  <2> SUFFICES ASSUME BrowserInv, [BrowserNext]_browserVars PROVE BrowserInv'
    OBVIOUS
  <2>1. [ExplorerNext]_explorerVars /\ [QonsoleNext]_qonsoleVars /\ [EditNext]_editVars
    BY DEF BrowserNext, SavedAndLeft, browserVars
  <2>2. ExplorerInv'
    BY <2>1, ExplorerStep DEF BrowserInv
  <2>3. QonsoleInv'
    BY <2>1, QonsoleStep DEF BrowserInv
  <2>4. EditInv'
    <3>1. CASE Save
      <4>1. PICK id \in 1..MaxSaves :
              /\ saves' = saves \cup {[id |-> id, content |-> edits, done |-> FALSE]}
              /\ lastSent' = edits
              /\ overlapped' = (overlapped \/ \E s \in saves : ~s.done)
              /\ UNCHANGED <<stored, msg, edits>>
        BY <3>1 DEF Save
      <4> DEFINE new == [id |-> id, content |-> edits, done |-> FALSE]
      <4>2. new \in SaveRequest /\ ~new.done /\ new.content = edits
        BY DEF BrowserInv, EditInv, SaveRequest
      <4> HIDE DEF new
      <4>3. saves' = saves \cup {new}
        BY <4>1 DEF new
      <4>4. msg' = "none" /\ ~overlapped' => \A u \in saves' : u # new => u.done
        BY <4>1, <4>3
      <4> QED
        BY <4>1, <4>2, <4>3, <4>4 DEF BrowserInv, EditInv
    <3>2. ASSUME NEW s \in saves, Stored(s)
          PROVE  EditInv'
      <4> DEFINE new == [s EXCEPT !.done = TRUE]
      <4>1. /\ ~s.done /\ stored' = s.content /\ saves' = (saves \ {s}) \cup {new}
            /\ UNCHANGED <<msg, lastSent, overlapped, edits>>
        BY <3>2 DEF Stored
      <4>2. new \in SaveRequest /\ new.done
        BY DEF BrowserInv, EditInv, SaveRequest
      <4> HIDE DEF new
      <4>3. msg = "none" /\ ~overlapped => s.content = lastSent /\ \A u \in saves : u # s => u.done
        BY <4>1 DEF BrowserInv, EditInv
      <4> QED
        BY <4>1, <4>2, <4>3 DEF BrowserInv, EditInv
    <3>3. ASSUME NEW s \in saves, SaveFailed(s)
          PROVE  EditInv'
      BY <3>3 DEF SaveFailed, BrowserInv, EditInv
    <3>4. CASE edits' \in 0..MaxEdits /\ UNCHANGED <<saves, stored, msg, lastSent, overlapped>>
      BY <3>4 DEF BrowserInv, EditInv
    <3>5. (AddNewRow \/ UNCHANGED editVars \/ \E i \in DOMAIN table : AddRow(i) \/ RemoveRow(i))
          => edits' \in 0..MaxEdits /\ UNCHANGED <<saves, stored, msg, lastSent, overlapped>>
      <4>1. ASSUME edits < MaxEdits, edits' = edits + 1 PROVE edits' \in 0..MaxEdits
        BY <4>1, EditFormAssumption DEF BrowserInv, EditInv
      <4>2. ASSUME NEW i \in DOMAIN table, AddRow(i) \/ RemoveRow(i)
            PROVE  edits' \in 0..MaxEdits /\ UNCHANGED <<saves, stored, msg, lastSent, overlapped>>
        BY <4>1, <4>2 DEF AddRow, RemoveRow
      <4>3. CASE AddNewRow
        BY <4>1, <4>3 DEF AddNewRow
      <4>4. CASE UNCHANGED editVars
        BY <4>4 DEF editVars, BrowserInv, EditInv
      <4> QED
        BY <4>2, <4>3, <4>4
    <3> QED
      BY <2>1, <3>1, <3>2, <3>3, <3>4, <3>5 DEF EditNext
  <2>5. TableInv'
    <3>1. TableInv /\ edits \in 0..MaxEdits
      BY DEF BrowserInv, EditInv
    <3> QED
      BY <2>1, <3>1, TableStep
  <2> QED
    BY <2>2, <2>3, <2>4, <2>5 DEF BrowserInv
<1> QED
  BY <1>1, <1>2, PTL DEF BrowserSpec

------------------------------------------------------------------------------
(* What the user sees *)

\* The links drawn are those whose flag is set, and they join registered
\* datasets (addConnection, removeConnections in ds-explore.js).
THEOREM LinksDrawn == BrowserSpec => []LinksMatchCanvas
<1>1. BrowserInv => LinksMatchCanvas
  BY DEF BrowserInv, ExplorerInv
<1> QED
  BY <1>1, BrowserInvariant, PTL

\* A drawn link has a hidden end, and a layout fails, only if a dataset was
\* closed while a request named it (addNodeFn in ds-explore.js).
THEOREM HiddenEnds == BrowserSpec => []HiddenEndOnlyIfClosedEarly
<1>1. BrowserInv => HiddenEndOnlyIfClosedEarly
  BY DEF BrowserInv, ExplorerInv
<1> QED
  BY <1>1, BrowserInvariant, PTL

\* A dataset has one element, if it is registered, and else none, unless it
\* was asked for twice (addNodes in ds-explore.js).
THEOREM OneElement == BrowserSpec => []OneElementUnlessAskedTwice
<1>1. BrowserInv => OneElementUnlessAskedTwice
  <2> SUFFICES ASSUME BrowserInv, NEW n \in Datasets \ askedTwice
               PROVE  /\ elements[n].shown + elements[n].hidden = IF n \in DOMAIN nodeState THEN 1 ELSE 0
                      /\ isVisible(n) <=> elements[n].shown = 1
    BY DEF OneElementUnlessAskedTwice
  <2>1. elements[n].shown \in Nat /\ elements[n].hidden \in Nat
    BY DEF BrowserInv, ExplorerInv, ExplorerTypeOK
  <2>2. /\ n \in DOMAIN nodeState <=> elements[n].shown + elements[n].hidden > 0
        /\ isVisible(n) <=> elements[n].shown > 0
    BY DEF BrowserInv, ExplorerInv, ElementsInv
  <2>3. elements[n].shown + elements[n].hidden <= 1
    BY DEF BrowserInv, ExplorerInv, AskedInv
  <2> QED
    BY <2>1, <2>2, <2>3
<1> QED
  BY <1>1, BrowserInvariant, PTL

\* Whatever boxes are clicked and lines deleted, no prefix is declared twice,
\* declarations come first and unchecked prefixes are not declared
\* (addPrefixDeclaration in qonsole.js).
THEOREM PrefixesDeclared == BrowserSpec => []PrefixesFollowBoxes
<1>1. BrowserInv => PrefixesFollowBoxes
  <2> SUFFICES ASSUME BrowserInv PROVE PrefixesFollowBoxes
    OBVIOUS
  <2>1. PICK k \in 0..Len(lines) : Text(lines, k)
    BY DEF BrowserInv, QonsoleInv, Tidy
  <2>2. DOMAIN lines = 1..Len(lines) /\ Len(lines) \in Nat
    BY <2>1, LenProperties DEF Text
  <2>3. \A i, j \in DOMAIN lines :
          /\ lines[i] \in Prefix /\ lines[i] = lines[j] => i = j
          /\ lines[j] \in Prefix /\ i < j => lines[i] \in Prefix
    BY <2>1, <2>2 DEF Text
  <2>4. \A p \in ToSet(boxes) \ checked : declares(p) = {}
    BY DEF BrowserInv, QonsoleInv, declares, ToSet
  <2> QED
    BY <2>3, <2>4 DEF PrefixesFollowBoxes
<1> QED
  BY <1>1, BrowserInvariant, PTL

\* The result shown belongs to the example selected and has the format it was
\* asked in, unless the user clicked between the request and the answer
\* (onQuerySuccess in qonsole.js).
THEOREM ResultBelongs == BrowserSpec => []ResultBelongsUnlessOvertaken
<1>1. BrowserInv => ResultBelongsUnlessOvertaken
  BY DEF BrowserInv, QonsoleInv
<1> QED
  BY <1>1, BrowserInvariant, PTL

\* Once every save is answered the server has what the last click sent, unless
\* saves overlapped or one failed (the save handler in ui.js).
THEOREM LastSave == BrowserSpec => []LastSaveStored
<1>1. BrowserInv => LastSaveStored
  BY DEF BrowserInv, EditInv, LastSaveStored
<1> QED
  BY <1>1, BrowserInvariant, PTL

\* In a table opened with at most eleven rows every button acts once and on
\* its own row, whatever rows are added to it and removed, up to eleven
\* (editAddAction, editAddNewAction, installEditRow, editRemoveAction in
\* ui.js).
THEOREM ButtonsAct == BrowserSpec => []ButtonsActOnTheirRow
<1>1. BrowserInv => ButtonsActOnTheirRow
  BY DEF BrowserInv, TableInv, Buttons, ButtonsActOnTheirRow
<1> QED
  BY <1>1, BrowserInvariant, PTL
==============================================================================
