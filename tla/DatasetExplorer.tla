--------------------------- MODULE DatasetExplorer ---------------------------
(***************************************************************************)
(* The dataset explorer of the browser (webapp/ui/js/ds-explore.js): a     *)
(* diagram of datasets and the links between them.  A click on a node asks *)
(* the server for each linked dataset that is not in the diagram; the      *)
(* answer is an element with a script that registers the dataset and its   *)
(* links.  Script code runs to its end before the next event, so an action *)
(* is one event handler; answers come in any order.                        *)
(***************************************************************************)
EXTENDS Naturals, FiniteSets, Bags

CONSTANTS
    Datasets,   \* the datasets the server knows
    Linksets,   \* pairs <<src, dest>>: what dataset-browse-element.vm registers
    Start,      \* the dataset the page was opened for
    MaxGets     \* bound: requests in flight

ASSUME ExplorerAssumption ==
    /\ Linksets \subseteq (Datasets \X Datasets)
    /\ \A l \in Linksets : l[1] # l[2]
    /\ Start \in Datasets
    /\ MaxGets \in Nat

VARIABLES
    nodeState,   \* registered dataset -> its visible flag and its springyNode
    elements,    \* dataset -> number of its elements on the canvas: shown, hidden
    linkState,   \* known link -> its visible flag (invLinkState shares the object)
    connections, \* the connections jsPlumb has drawn
    gets,        \* bag of requests in flight
    laidOut,     \* how the last relayout ended
    closedEarly, \* history: closed while a request named them
    askedTwice   \* history: asked for again before the answer

explorerVars == <<nodeState, elements, linkState, connections, gets, laidOut,
                  closedEarly, askedTwice>>

Ends(l) == {l[1], l[2]}

\* What an element's script calls register for.
LinksOf(n) == {l \in Linksets : n \in Ends(l)}

isVisible(n) == n \in DOMAIN nodeState /\ nodeState[n].visible

registerNode(ns, n) ==
    [m \in DOMAIN ns \cup {n} |->
        IF m = n THEN [visible |-> TRUE, springyNode |-> "none"] ELSE ns[m]]

register(ls, n) ==
    [l \in DOMAIN ls \cup LinksOf(n) |-> l \in DOMAIN ls /\ ls[l]]

hideNode(el, n) ==
    [el EXCEPT ![n] = [shown |-> 0, hidden |-> el[n].shown + el[n].hidden]]

showNodes(el, S) ==
    [n \in Datasets |->
        IF n \in S THEN [shown |-> el[n].shown + el[n].hidden, hidden |-> 0] ELSE el[n]]

\* $("#canvas").append: jQuery inserts the element and then runs its script.
append(el, n) == [el EXCEPT ![n].shown = @ + 1]

\* Links that addDirectionalConnections would draw from or to node.
Directed(outbound, node, other) ==
    IF outbound THEN <<node, other>> ELSE <<other, node>>

\* addConnection for each link of L: a link that is drawn is left alone.
addConnections(L) ==
    LET new == {l \in L \cap DOMAIN linkState : ~linkState[l]}
    IN  /\ linkState' = [l \in DOMAIN linkState |-> linkState[l] \/ l \in new]
        /\ connections' = connections \cup new

ExplorerInit ==
    /\ nodeState = registerNode(<<>>, Start)
    /\ elements = [n \in Datasets |-> [shown |-> IF n = Start THEN 1 ELSE 0, hidden |-> 0]]
    /\ linkState = register(<<>>, Start)
    /\ connections = {}
    /\ gets = EmptyBag
    /\ laidOut = "ok"
    /\ closedEarly = {} /\ askedTwice = {}

Asked(n) == \E g \in BagToSet(gets) : g.linkedDS = n

\* A click on .add-out or .add-in of a node: every known target is shown and
\* connected, every unknown one is asked for.
AddNodes_AlwaysAsks(node, outbound) ==
    LET targets == {n \in Datasets : Directed(outbound, node, n) \in DOMAIN linkState}
    IN  /\ elements[node].shown > 0
        /\ BagCardinality(gets) + Cardinality(targets) <= MaxGets
        /\ gets' = gets (+) SetToBag([outbound : {outbound}, node : {node}, linkedDS : targets])
        /\ UNCHANGED <<nodeState, elements, linkState, connections, laidOut, closedEarly, askedTwice>>

AddNodes(node, outbound) ==
    LET targets == {n \in Datasets : Directed(outbound, node, n) \in DOMAIN linkState}
        known == targets \cap DOMAIN nodeState
        unknown == targets \ known
    IN  /\ elements[node].shown > 0
        /\ BagCardinality(gets) + Cardinality(unknown) <= MaxGets
        /\ nodeState' = [n \in DOMAIN nodeState |->
                            IF n \in known THEN [nodeState[n] EXCEPT !.visible = TRUE]
                                           ELSE nodeState[n]]
        /\ elements' = showNodes(elements, known)
        /\ addConnections({Directed(outbound, node, n) : n \in known})
        /\ gets' = gets (+) SetToBag([outbound : {outbound}, node : {node}, linkedDS : unknown])
        /\ askedTwice' = askedTwice \cup {n \in unknown : Asked(n)}
        /\ UNCHANGED <<laidOut, closedEarly>>

\* The answer holds an element: it is appended, its script registers the
\* dataset (again) and its links, and the link asked along is drawn.
Answered(g) ==
    /\ BagIn(g, gets)
    /\ gets' = gets (-) SetToBag({g})
    /\ nodeState' = registerNode(nodeState, g.linkedDS)
    /\ elements' = append(elements, g.linkedDS)
    /\ LET known == register(linkState, g.linkedDS)
           l == Directed(g.outbound, g.node, g.linkedDS)
       IN  /\ linkState' = [k \in DOMAIN known |-> known[k] \/ k = l]
           /\ connections' = connections \cup {l}
    /\ UNCHANGED <<laidOut, closedEarly, askedTwice>>

\* The template found no dataset and the answer is empty: randomPlacement
\* throws for an unregistered dataset, so that nothing is drawn to it.
AnsweredEmpty(g) ==
    /\ BagIn(g, gets)
    /\ gets' = gets (-) SetToBag({g})
    /\ IF g.linkedDS \in DOMAIN nodeState
       THEN addConnections({Directed(g.outbound, g.node, g.linkedDS)})
       ELSE UNCHANGED <<linkState, connections>>
    /\ UNCHANGED <<nodeState, elements, laidOut, closedEarly, askedTwice>>

\* $.get has no error callback.
GetFailed(g) ==
    /\ BagIn(g, gets)
    /\ gets' = gets (-) SetToBag({g})
    /\ UNCHANGED <<nodeState, elements, linkState, connections, laidOut, closedEarly, askedTwice>>

\* A click on .close-node: removeConnections, hideNode.
CloseNode_OutOnly(node) ==
    /\ elements[node].shown > 0
    /\ connections' = {l \in connections : node \notin Ends(l)}
    /\ linkState' = [l \in DOMAIN linkState |-> linkState[l] /\ node # l[1]]
    /\ elements' = hideNode(elements, node)
    /\ nodeState' = [nodeState EXCEPT ![node].visible = FALSE]
    /\ closedEarly' = closedEarly \cup {n \in {node} : \E g \in BagToSet(gets) : n \in {g.node, g.linkedDS}}
    /\ UNCHANGED <<gets, laidOut, askedTwice>>

CloseNode_KeepsConnections(node) ==
    /\ elements[node].shown > 0
    /\ elements' = hideNode(elements, node)
    /\ nodeState' = [nodeState EXCEPT ![node].visible = FALSE]
    /\ closedEarly' = closedEarly \cup {n \in {node} : \E g \in BagToSet(gets) : n \in {g.node, g.linkedDS}}
    /\ UNCHANGED <<linkState, connections, gets, laidOut, askedTwice>>

CloseNode(node) ==
    /\ elements[node].shown > 0
    /\ connections' = {l \in connections : node \notin Ends(l)}
    /\ linkState' = [l \in DOMAIN linkState |-> linkState[l] /\ node \notin Ends(l)]
    /\ elements' = hideNode(elements, node)
    /\ nodeState' = [nodeState EXCEPT ![node].visible = FALSE]
    /\ closedEarly' = closedEarly \cup {n \in {node} : \E g \in BagToSet(gets) : n \in {g.node, g.linkedDS}}
    /\ UNCHANGED <<gets, laidOut, askedTwice>>

\* relayout makes a springy node for every visible dataset and an edge for
\* every visible link.  newEdge throws for an end without a springy node; an
\* end that kept one from an earlier layout gives an edge to a node that is
\* not in the graph.
relayout ==
    LET ns == [n \in DOMAIN nodeState |->
                  IF nodeState[n].visible
                  THEN [nodeState[n] EXCEPT !.springyNode = "current"]
                  ELSE [nodeState[n] EXCEPT !.springyNode =
                            IF @ = "current" THEN "earlier" ELSE @]]
        nodesOfEdges == {ns[e].springyNode : e \in UNION {Ends(l) : l \in {k \in DOMAIN linkState : linkState[k]}}}
    IN  /\ nodeState' = ns
        /\ laidOut' = CASE "none" \in nodesOfEdges -> "aborted"
                        [] "earlier" \in nodesOfEdges -> "wrong"
                        [] OTHER -> "ok"
        /\ UNCHANGED <<elements, linkState, connections, gets, closedEarly, askedTwice>>

ExplorerNext ==
    \/ \E n \in Datasets : \E outbound \in BOOLEAN : AddNodes(n, outbound)
    \/ \E n \in Datasets : CloseNode(n)
    \/ \E g \in BagToSet(gets) : Answered(g) \/ AnsweredEmpty(g) \/ GetFailed(g)
    \/ relayout

------------------------------------------------------------------------------
(* Properties *)

\* The visible flags of the links (linkState, invLinkState) are what is drawn,
\* and a drawn link joins registered datasets, although links are registered
\* before their far ends are and answers may be empty (addConnection,
\* removeConnections, randomPlacement).
LinksMatchCanvas ==
    /\ connections = {l \in DOMAIN linkState : linkState[l]}
    /\ \A l \in connections : Ends(l) \subseteq DOMAIN nodeState

\* A drawn link has a hidden end, and relayout fails or draws a wrong edge,
\* only if a dataset was closed while a request that names it was in flight:
\* the callback of addNodeFn connects its node without looking whether it is
\* still shown.
HiddenEndOnlyIfClosedEarly ==
    /\ \A l \in connections : \A e \in Ends(l) : isVisible(e) \/ e \in closedEarly
    /\ laidOut # "ok" => closedEarly # {}

\* A dataset has two elements on the canvas only if it was asked for again
\* before the first answer; showing and hiding keep the elements and the flag
\* in nodeState together otherwise.
OneElementUnlessAskedTwice ==
    \A n \in Datasets \ askedTwice :
        /\ elements[n].shown + elements[n].hidden = IF n \in DOMAIN nodeState THEN 1 ELSE 0
        /\ isVisible(n) <=> elements[n].shown = 1
==============================================================================
