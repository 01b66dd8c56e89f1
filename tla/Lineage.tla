------------------------------ MODULE Lineage ------------------------------
(***************************************************************************)
(* Who descends from whom, as the report of a search tells it              *)
(* (architectures/lineage.py): a graph is the parent_id of each of its     *)
(* nodes.  A parent that is not a node, and a cycle, end a walk.           *)
(***************************************************************************)
EXTENDS Naturals, Sequences, FiniteSets

CONSTANT NoParent   \* parent_id is None

\* lineage_nodes and LineageGraph.from_nodes: every row of the search, and
\* its parent, taken from the column of that name.
LineageOf(rows, parentOf) == [a \in rows |-> parentOf[a]]

ChildrenOf(graph, a) == {b \in DOMAIN graph : graph[b] = a}

\* The walk of ancestry stands at a node: it has come to a root; or it was
\* there before, has gone too far, or finds no parent.
AtRoot(graph, chain) == graph[chain[Len(chain)]] = NoParent

CutOff(graph, chain, maxDepth) ==
    LET up == graph[chain[Len(chain)]]
    IN /\ up # NoParent
       /\ \/ up \notin DOMAIN graph
          \/ \E i \in DOMAIN chain : chain[i] = up
          \/ Len(chain) >= maxDepth

\* The chain after n steps up.
Walk(graph, a, maxDepth) ==
    LET chain[n \in Nat] ==
            IF n = 0 THEN <<a>>
            ELSE LET c == chain[n - 1]
                 IN IF AtRoot(graph, c) \/ CutOff(graph, c, maxDepth) THEN c
                    ELSE Append(c, graph[c[Len(c)]])
    IN chain[Cardinality(DOMAIN graph)]

\* LineageGraph.ancestry, from the node to its root; the code reverses it.
\* max_depth is 1000 unless the caller says otherwise.
Ancestry(graph, a, maxDepth) ==
    IF a \notin DOMAIN graph THEN [nodes |-> <<>>, truncated |-> TRUE]
    ELSE LET chain == Walk(graph, a, maxDepth)
         IN [nodes |-> chain, truncated |-> CutOff(graph, chain, maxDepth)]

\* LineageGraph.descendants, each generation with the ones before it.
Descendants(graph, a) ==
    LET reached[n \in Nat] ==
            IF n = 0 THEN ChildrenOf(graph, a)
            ELSE reached[n - 1] \cup
                 UNION {ChildrenOf(graph, b) : b \in reached[n - 1]}
    IN reached[Cardinality(DOMAIN graph)]

Roots(graph) ==
    {a \in DOMAIN graph : graph[a] = NoParent \/ graph[a] \notin DOMAIN graph}

\* What the report says of the best candidate: nothing but that it was
\* sampled, or its chain.
ReportedChain(chain) == IF Len(chain.nodes) <= 1 THEN <<>> ELSE chain.nodes
============================================================================
