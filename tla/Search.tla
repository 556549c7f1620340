-------------------------------- MODULE Search ------------------------------
(***************************************************************************)
(* internal/config/validate.go, checkDerivationCycles: the search for a    *)
(* value that is derived, directly or through others, from itself.  The    *)
(* resources are numbered in the order of the document; the recursion of   *)
(* the code is its stack.                                                  *)
(***************************************************************************)
EXTENDS Naturals, Sequences

VARIABLES
    graph,      \* for each resource, the ones it takes a value from, in order
    root,       \* the resource the search goes on from
    visited,    \* the resources the search has left, or is at
    stack,      \* the resources it is at, each with the edge it follows next
    cyclic      \* whether a cycle was met

searchVars == <<graph, root, visited, stack, cyclic>>

Node == DOMAIN graph
Top == stack[Len(stack)]
Target == graph[Top.node][Top.edge]

SearchBegun ==
    /\ root = 1 /\ stack = << >> /\ cyclic = FALSE
    /\ visited = [i \in Node |-> "unvisited"]
-----------------------------------------------------------------------------
\* The search begins at every resource it has not left yet.
Enter ==
    /\ stack = << >> /\ root \in Node
    /\ root' = root + 1
    /\ IF visited[root] = "done" THEN UNCHANGED <<visited, stack>>
       ELSE visited' = [visited EXCEPT ![root] = "onStack"] /\ stack' = <<[node |-> root, edge |-> 1]>>
    /\ UNCHANGED <<graph, cyclic>>

\* The stack once the next edge of its top has been followed.
Advanced == [stack EXCEPT ![Len(stack)].edge = @ + 1]

\* A slip: a resource met on the way is taken for one that was left.
FollowIgnoresStack ==
    /\ stack # << >> /\ Top.edge <= Len(graph[Top.node])
    /\ IF visited[Target] # "unvisited"
       THEN stack' = Advanced /\ UNCHANGED visited
       ELSE /\ stack' = Append(Advanced, [node |-> Target, edge |-> 1])
            /\ visited' = [visited EXCEPT ![Target] = "onStack"]
    /\ UNCHANGED <<graph, root, cyclic>>

\* A slip: the walk comes back to the edge it has followed.
FollowAgain ==
    /\ stack # << >> /\ Top.edge <= Len(graph[Top.node])
    /\ IF visited[Target] # "unvisited" THEN UNCHANGED <<visited, stack>>
       ELSE /\ stack' = Append(stack, [node |-> Target, edge |-> 1])
            /\ visited' = [visited EXCEPT ![Target] = "onStack"]
    /\ UNCHANGED <<graph, root, cyclic>>

\* The next edge of the resource the search is at.  One that leads back onto the stack is a
\* cycle, and the whole walk returns.
Follow ==
    /\ stack # << >> /\ Top.edge <= Len(graph[Top.node])
    /\ \/ /\ visited[Target] = "onStack"
          /\ cyclic' = TRUE
          /\ visited' = [i \in Node |-> IF visited[i] = "onStack" THEN "done" ELSE visited[i]]
          /\ stack' = << >>
       \/ /\ visited[Target] = "done"
          /\ stack' = Advanced
          /\ UNCHANGED <<visited, cyclic>>
       \/ /\ visited[Target] = "unvisited"
          /\ stack' = Append(Advanced, [node |-> Target, edge |-> 1])
          /\ visited' = [visited EXCEPT ![Target] = "onStack"]
          /\ UNCHANGED cyclic
    /\ UNCHANGED <<graph, root>>

\* A slip: the resource is left on the way.
LeaveUnmarked ==
    /\ stack # << >> /\ Top.edge > Len(graph[Top.node])
    /\ stack' = SubSeq(stack, 1, Len(stack) - 1)
    /\ UNCHANGED <<graph, root, cyclic, visited>>

Leave ==
    /\ stack # << >> /\ Top.edge > Len(graph[Top.node])
    /\ visited' = [visited EXCEPT ![Top.node] = "done"]
    /\ stack' = SubSeq(stack, 1, Len(stack) - 1)
    /\ UNCHANGED <<graph, root, cyclic>>

Searches == Enter \/ Follow \/ Leave

\* A graph of any number of resources.
IsGraph == \E n \in Nat : graph \in [1 .. n -> Seq(1 .. n)]

SearchSpec == IsGraph /\ SearchBegun /\ [][Searches]_searchVars
-----------------------------------------------------------------------------
Searched == stack = << >> /\ root \notin Node

\* The resources of S all take a value from one another.
Circular(S) == S # {} /\ \A i \in S : \E j \in DOMAIN graph[i] : graph[i][j] \in S

\* validate.go checkDerivationCycles: a value derived from itself is reported exactly when
\* there is one, although the walk that meets a cycle gives up on all it was at.
CyclesReported ==
    Searched => cyclic = \E S \in SUBSET {i \in Node : graph[i] # << >>} : Circular(S)
=============================================================================
