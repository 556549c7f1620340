---------------------------- MODULE SearchProofs ----------------------------
(***************************************************************************)
(* The search for cycles is right, for any number of resources and any     *)
(* references among them.                                                  *)
(*                                                                         *)
(* That what it reports is a cycle follows from the stack being a path     *)
(* (Path).  That it misses none needs no induction over paths: no set of   *)
(* resources that were left is circular (Clean), and leaving one more      *)
(* keeps it so, because a resource that was left takes values only from    *)
(* resources that were left before it (Closed, Followed).                  *)
(***************************************************************************)
EXTENDS Search, TLAPS

Places == DOMAIN stack
Left == {k \in Node : visited[k] = "done"}

SearchShape ==
    /\ IsGraph /\ cyclic \in BOOLEAN
    /\ root \in Nat /\ root >= 1
    /\ visited \in [Node -> {"unvisited", "onStack", "done"}]
    /\ stack \in Seq([node : Node, edge : Nat \ {0}])
    /\ \A k \in Node : k < root => visited[k] # "unvisited"

\* The resources the search is at are those on the stack, each once.
OnStack ==
    /\ \A i \in Places : visited[stack[i].node] = "onStack"
    /\ \A k \in Node : visited[k] = "onStack" => \E i \in Places : stack[i].node = k
    /\ \A i, j \in Places : i # j => stack[i].node # stack[j].node

\* Each resource on the stack was reached from the one below by the edge followed last.
Path ==
    \A i \in Places : i + 1 \in Places =>
        /\ stack[i].edge >= 2 /\ stack[i].edge - 1 \in DOMAIN graph[stack[i].node]
        /\ graph[stack[i].node][stack[i].edge - 1] = stack[i + 1].node

\* What was left takes values only from what was left.
Closed == \A k \in Left : \A j \in DOMAIN graph[k] : graph[k][j] \in Left

\* Every edge already followed leads to a resource that was left, but for the last one of a
\* resource the search is beyond.
Followed ==
    \A i \in Places : \A j \in DOMAIN graph[stack[i].node] :
        j < stack[i].edge /\ ~(i + 1 \in Places /\ j = stack[i].edge - 1)
          => graph[stack[i].node][j] \in Left

Clean == \A S \in SUBSET Left : ~Circular(S)

Sound == \E S \in SUBSET Node : Circular(S)

SInv == /\ SearchShape /\ OnStack /\ Path
        /\ cyclic => Sound
        /\ ~cyclic => Closed /\ Followed /\ Clean

\* A graph leads from its nodes to its nodes.
LEMMA GraphEdges ==
    ASSUME IsGraph, NEW k \in Node
    PROVE  /\ graph[k] \in Seq(Node) /\ Len(graph[k]) \in Nat /\ DOMAIN graph[k] = 1 .. Len(graph[k])
           /\ \A j \in DOMAIN graph[k] : graph[k][j] \in Node
           /\ Node \subseteq Nat
<1> PICK n \in Nat : graph \in [1 .. n -> Seq(1 .. n)]
  BY DEF IsGraph
<1>1. Node = 1 .. n
  BY DEF Node
<1> QED
  BY <1>1

\* The search begins with nothing left and nothing on the stack.
LEMMA SearchBegins == IsGraph /\ SearchBegun => SInv
<1> SUFFICES ASSUME IsGraph, SearchBegun PROVE SInv
  OBVIOUS
<1>1. Places = {} /\ Left = {} /\ cyclic = FALSE
  BY DEF SearchBegun, Places, Left
<1>2. SearchShape
  <2>1. Node \subseteq Nat /\ \A k \in Node : k >= 1
    BY DEF IsGraph, Node
  <2>2. visited \in [Node -> {"unvisited", "onStack", "done"}]
    BY DEF SearchBegun
  <2>3. stack \in Seq([node : Node, edge : Nat \ {0}]) /\ root = 1 /\ cyclic \in BOOLEAN
    <3>1. \A T : << >> \in Seq(T)
      OBVIOUS
    <3> QED
      BY <3>1 DEF SearchBegun
  <2>4. \A k \in Node : ~(k < root)
    BY <2>1, <2>3
  <2> QED
    BY <2>2, <2>3, <2>4 DEF SearchShape
<1> QED
  BY <1>1, <1>2 DEF SInv, SearchBegun, OnStack, Path, Closed, Followed, Clean, Circular

\* A walk begins at a resource that was never met: the stack was empty.
LEMMA EnterStep ==
    ASSUME SInv, Enter
    PROVE  SInv'
<1> USE DEF SInv
<1>1. Node' = Node /\ IsGraph' /\ graph' = graph /\ cyclic' = cyclic /\ Places = {} /\ root \in Node
  BY DEF Enter, Node, IsGraph, SearchShape, Places
<1>2. \A k \in Node : visited[k] # "onStack"
  BY <1>1 DEF OnStack
<1>3. CASE visited[root] = "done"
  <2>1. visited' = visited /\ stack' = stack /\ root' = root + 1
    BY <1>3 DEF Enter
  <2>2. SearchShape'
    BY <1>1, <1>2, <1>3, <2>1 DEF SearchShape
  <2>3. Places' = Places /\ Left' = Left
    BY <1>1, <2>1 DEF Places, Left
  <2> QED
    BY <1>1, <2>1, <2>2, <2>3 DEF OnStack, Path, Sound, Closed, Followed, Clean, Circular
<1>4. CASE visited[root] # "done"
  <2>1. /\ visited' = [visited EXCEPT ![root] = "onStack"] /\ root' = root + 1
        /\ stack' = <<[node |-> root, edge |-> 1]>>
    BY <1>4 DEF Enter
  <2>2. Places' = {1} /\ stack'[1].node = root /\ stack'[1].edge = 1
    BY <2>1 DEF Places
  <2>3. \A k \in Node : visited'[k] = IF k = root THEN "onStack" ELSE visited[k]
    BY <2>1 DEF SearchShape
  <2>4. Left' = Left
    BY <1>1, <1>4, <2>3 DEF Left
  <2>5. SearchShape'
    <3>1. stack' \in Seq([node : Node, edge : Nat \ {0}])
      BY <1>1, <2>1
    <3>2. visited' \in [Node -> {"unvisited", "onStack", "done"}]
      BY <2>1 DEF SearchShape
    <3>3. \A k \in Node : k < root' => visited'[k] # "unvisited"
      <4>1. Node \subseteq Nat
        BY <1>1, GraphEdges DEF SearchShape
      <4> QED
        BY <2>1, <2>3, <4>1 DEF SearchShape
    <3> QED
      BY <1>1, <2>1, <3>1, <3>2, <3>3 DEF SearchShape
  <2>6. OnStack' /\ Path'
    BY <1>1, <1>2, <2>2, <2>3 DEF OnStack, Path
  <2>7. Followed'
    BY <1>1, <2>2, GraphEdges DEF Followed, SearchShape
  <2>8. (Sound' <=> Sound) /\ (Closed' <=> Closed) /\ (Clean' <=> Clean)
    BY <1>1, <2>4 DEF Sound, Closed, Clean, Circular
  <2> QED
    BY <1>1, <2>5, <2>6, <2>7, <2>8
<1> QED
  BY <1>3, <1>4

\* What is known of the top of a stack that has one.
LEMMA TopKnown ==
    ASSUME SInv, stack # << >>
    PROVE  /\ Len(stack) \in Places /\ Places = 1 .. Len(stack) /\ Len(stack) \in Nat
           /\ Top \in [node : Node, edge : Nat \ {0}] /\ visited[Top.node] = "onStack"
           /\ \A i \in Places : stack[i] \in [node : Node, edge : Nat \ {0}]
<1>1. stack \in Seq([node : Node, edge : Nat \ {0}])
  BY DEF SInv, SearchShape
<1>2. /\ Places = 1 .. Len(stack) /\ Len(stack) \in Nat /\ Len(stack) # 0
      /\ \A i \in Places : stack[i] \in [node : Node, edge : Nat \ {0}]
  <2>1. ASSUME NEW T, NEW s \in Seq(T), s # << >>
        PROVE  DOMAIN s = 1 .. Len(s) /\ Len(s) \in Nat /\ Len(s) # 0 /\ \A i \in DOMAIN s : s[i] \in T
    BY <2>1
  <2> QED
    BY <1>1, <2>1 DEF Places
<1>3. Len(stack) \in Places
  BY <1>2
<1> QED
  BY <1>2, <1>3 DEF SInv, OnStack, Top

\* The edge met leads back onto the stack: what is on the stack from there on is circular.
LEMMA CycleStep ==
    ASSUME SInv, Follow, visited[Target] = "onStack"
    PROVE  SInv'
<1> USE DEF SInv
<1>1. /\ stack # << >> /\ Top.edge <= Len(graph[Top.node]) /\ cyclic' = TRUE /\ stack' = << >>
      /\ visited' = [i \in Node |-> IF visited[i] = "onStack" THEN "done" ELSE visited[i]]
      /\ graph' = graph /\ root' = root
  BY DEF Follow
<1>2. Node' = Node /\ IsGraph' /\ Places' = {}
  BY <1>1 DEF Node, IsGraph, SearchShape, Places
<1>3. SearchShape' /\ OnStack' /\ Path'
  BY <1>1, <1>2 DEF SearchShape, OnStack, Path
<1>4. Sound
  <2>1. Top.node \in Node /\ Top.edge \in DOMAIN graph[Top.node] /\ Target \in Node
    BY <1>1, TopKnown, GraphEdges DEF SearchShape, Target
  <2>2. PICK m \in Places : stack[m].node = Target
    BY <2>1 DEF OnStack
  <2> DEFINE S == {stack[i].node : i \in {k \in Places : k >= m}}
  <2>3. S \subseteq Node /\ Target \in S
    BY <1>1, <2>2, TopKnown
  <2>4. ASSUME NEW i \in Places, i >= m
        PROVE  \E j \in DOMAIN graph[stack[i].node] : graph[stack[i].node][j] \in S
    <3>1. CASE i = Len(stack)
      BY <2>1, <2>3, <3>1 DEF Top, Target
    <3>2. CASE i # Len(stack)
      <4>1. i + 1 \in Places /\ i + 1 >= m
        BY <1>1, <2>4, <3>2, <2>2, TopKnown
      <4>2. stack[i + 1].node \in S
        BY <4>1
      <4> QED
        BY <4>1, <4>2 DEF Path
    <3> QED
      BY <3>1, <3>2
  <2>5. Circular(S)
    BY <2>3, <2>4 DEF Circular
  <2> QED
    BY <2>3, <2>5 DEF Sound
<1>5. Sound'
  BY <1>1, <1>2, <1>4 DEF Sound, Circular
<1> QED
  BY <1>1, <1>3, <1>5

\* The stack once an edge has been followed differs from the one before in that edge.
LEMMA AdvancedStack ==
    ASSUME SInv, stack # << >>
    PROVE  /\ Advanced \in Seq([node : Node, edge : Nat \ {0}]) /\ Len(Advanced) = Len(stack)
           /\ DOMAIN Advanced = Places
           /\ \A i \in Places : Advanced[i].node = stack[i].node
           /\ \A i \in Places : Advanced[i].edge = IF i = Len(stack) THEN stack[i].edge + 1 ELSE stack[i].edge
<1>1. /\ Len(stack) \in Places /\ Places = 1 .. Len(stack) /\ Len(stack) \in Nat
      /\ \A i \in Places : stack[i] \in [node : Node, edge : Nat \ {0}]
  BY TopKnown
<1>2. /\ DOMAIN Advanced = Places
      /\ \A i \in Places : Advanced[i] = IF i = Len(stack) THEN [stack[i] EXCEPT !.edge = @ + 1] ELSE stack[i]
  BY <1>1 DEF Advanced, Places
<1>3. /\ \A i \in Places : Advanced[i] \in [node : Node, edge : Nat \ {0}]
      /\ \A i \in Places : Advanced[i].node = stack[i].node
      /\ \A i \in Places : Advanced[i].edge = IF i = Len(stack) THEN stack[i].edge + 1 ELSE stack[i].edge
  BY <1>1, <1>2
<1>4. Advanced \in Seq([node : Node, edge : Nat \ {0}]) /\ Len(Advanced) = Len(stack)
  <2>1. Advanced = [i \in 1 .. Len(stack) |-> Advanced[i]]
    BY <1>1, <1>2 DEF Advanced
  <2> QED
    BY <1>1, <1>3, <2>1
<1> QED
  BY <1>2, <1>3, <1>4

\* An edge to a resource that was left is passed over.
LEMMA PassStep ==
    ASSUME SInv, Follow, visited[Target] = "done"
    PROVE  SInv'
<1> USE DEF SInv
<1>1. /\ stack # << >> /\ Top.edge <= Len(graph[Top.node]) /\ cyclic' = cyclic /\ stack' = Advanced
      /\ visited' = visited /\ graph' = graph /\ root' = root
  BY DEF Follow
<1>2. Node' = Node /\ IsGraph' /\ Places' = Places /\ Left' = Left
  BY <1>1, AdvancedStack DEF Node, IsGraph, SearchShape, Places, Left
<1>3. /\ \A i \in Places : stack'[i].node = stack[i].node
      /\ \A i \in Places : stack'[i].edge = IF i = Len(stack) THEN stack[i].edge + 1 ELSE stack[i].edge
      /\ stack' \in Seq([node : Node, edge : Nat \ {0}])
  BY <1>1, AdvancedStack
<1>4. Places = 1 .. Len(stack) /\ Len(stack) \in Nat /\ \A i \in Places : stack[i].edge \in Nat /\ stack[i].node \in Node
  BY <1>1, TopKnown
<1>5. SearchShape' /\ OnStack'
  <2>1. OnStack'
    BY <1>1, <1>2, <1>3 DEF OnStack
  <2>2. SearchShape'
    BY <1>1, <1>2, <1>3 DEF SearchShape
  <2> QED
    BY <2>1, <2>2
<1>6. Path'
  <2> SUFFICES ASSUME NEW i \in Places, i + 1 \in Places
               PROVE  /\ stack'[i].edge >= 2 /\ stack'[i].edge - 1 \in DOMAIN graph[stack'[i].node]
                      /\ graph[stack'[i].node][stack'[i].edge - 1] = stack'[i + 1].node
    BY <1>1, <1>2 DEF Path
  <2>1. i # Len(stack)
    BY <1>4
  <2> QED
    BY <1>3, <2>1 DEF Path
<1>7. Followed => Followed'
  <2> SUFFICES ASSUME Followed, NEW i \in Places, NEW j \in DOMAIN graph[stack[i].node],
                      j < stack'[i].edge, ~(i + 1 \in Places /\ j = stack'[i].edge - 1)
               PROVE  graph[stack[i].node][j] \in Left
    BY <1>1, <1>2, <1>3 DEF Followed
  <2>1. j \in Nat
    BY <1>4, GraphEdges DEF SearchShape
  <2>2. CASE i = Len(stack) /\ j = stack[i].edge
    <3>1. Target \in Node
      BY <1>1, <1>4, TopKnown, GraphEdges DEF Target, SearchShape
    <3> QED
      BY <2>2, <3>1 DEF Target, Top, Left
  <2>3. CASE ~(i = Len(stack) /\ j = stack[i].edge)
    <3>1. CASE i = Len(stack)
      <4>1. j < stack[i].edge /\ i + 1 \notin Places
        BY <1>3, <1>4, <2>1, <2>3, <3>1
      <4> QED
        BY <4>1 DEF Followed
    <3>2. CASE i # Len(stack)
      BY <1>3, <3>2 DEF Followed
    <3> QED
      BY <3>1, <3>2
  <2> QED
    BY <2>2, <2>3
<1>8. (Sound' <=> Sound) /\ (Closed' <=> Closed) /\ (Clean' <=> Clean)
  BY <1>1, <1>2 DEF Sound, Closed, Clean, Circular
<1> QED
  BY <1>1, <1>5, <1>6, <1>7, <1>8

\* An edge to a resource that was never met leads on.
LEMMA DownStep ==
    ASSUME SInv, Follow, visited[Target] = "unvisited"
    PROVE  SInv'
<1> USE DEF SInv
<1> DEFINE n == Len(stack)
<1>1. /\ stack # << >> /\ Top.edge <= Len(graph[Top.node]) /\ cyclic' = cyclic
      /\ stack' = Append(Advanced, [node |-> Target, edge |-> 1])
      /\ visited' = [visited EXCEPT ![Target] = "onStack"] /\ graph' = graph /\ root' = root
  BY DEF Follow
<1>2. /\ n \in Places /\ Places = 1 .. n /\ n \in Nat
      /\ \A i \in Places : stack[i].edge \in Nat /\ stack[i].node \in Node
  BY <1>1, TopKnown
<1>3. Target \in Node /\ Top.edge \in DOMAIN graph[Top.node] /\ Top = stack[n]
  BY <1>1, <1>2, TopKnown, GraphEdges DEF Target, SearchShape, Top
<1>4. /\ stack' \in Seq([node : Node, edge : Nat \ {0}]) /\ Places' = 1 .. n + 1
      /\ stack'[n + 1] = [node |-> Target, edge |-> 1]
      /\ \A i \in Places : stack'[i] = Advanced[i]
  BY <1>1, <1>2, <1>3, AdvancedStack DEF Places
<1>5. /\ \A i \in Places : stack'[i].node = stack[i].node
      /\ \A i \in Places : stack'[i].edge = IF i = n THEN stack[i].edge + 1 ELSE stack[i].edge
      /\ stack'[n + 1].node = Target /\ stack'[n + 1].edge = 1
      /\ Places' = Places \cup {n + 1} /\ n + 1 \notin Places
  BY <1>1, <1>2, <1>4, AdvancedStack
<1>6. Node' = Node /\ IsGraph' /\ \A k \in Node : visited'[k] = IF k = Target THEN "onStack" ELSE visited[k]
  BY <1>1 DEF Node, IsGraph, SearchShape
<1>7. Left' = Left
  BY <1>6 DEF Left
<1>8. SearchShape'
  BY <1>1, <1>3, <1>4, <1>6 DEF SearchShape
<1>9. OnStack'
  <2>1. \A i \in Places : stack[i].node # Target
    BY DEF OnStack
  <2>2. \A i \in Places' : visited'[stack'[i].node] = "onStack"
    BY <1>2, <1>3, <1>5, <1>6 DEF OnStack
  <2>3. \A k \in Node : visited'[k] = "onStack" => \E i \in Places' : stack'[i].node = k
    BY <1>5, <1>6 DEF OnStack
  <2>4. \A i, j \in Places' : i # j => stack'[i].node # stack'[j].node
    BY <1>5, <2>1 DEF OnStack
  <2> QED
    BY <1>6, <2>2, <2>3, <2>4 DEF OnStack
<1>10. Path'
  <2> SUFFICES ASSUME NEW i \in Places', i + 1 \in Places'
               PROVE  /\ stack'[i].edge >= 2 /\ stack'[i].edge - 1 \in DOMAIN graph[stack'[i].node]
                      /\ graph[stack'[i].node][stack'[i].edge - 1] = stack'[i + 1].node
    BY <1>1 DEF Path
  <2>1. CASE i = n
    <3>1. stack'[i].edge = Top.edge + 1 /\ stack'[i].node = Top.node /\ Top.edge \in Nat \ {0}
      BY <1>1, <1>2, <1>3, <1>5, <2>1, TopKnown
    <3> QED
      BY <1>3, <1>5, <2>1, <3>1 DEF Target
  <2>2. CASE i # n
    <3>1. i \in Places /\ i + 1 \in Places
      BY <1>2, <1>4, <2>2
    <3> QED
      BY <1>5, <2>2, <3>1 DEF Path
  <2> QED
    BY <2>1, <2>2
<1>11. Followed => Followed'
  <2> SUFFICES ASSUME Followed, NEW i \in Places', NEW j \in DOMAIN graph[stack'[i].node],
                      j < stack'[i].edge, ~(i + 1 \in Places' /\ j = stack'[i].edge - 1)
               PROVE  graph[stack'[i].node][j] \in Left
    BY <1>1, <1>7 DEF Followed
  <2>1. stack'[i].node \in Node
    BY <1>2, <1>3, <1>5
  <2>2. j \in Nat /\ j >= 1
    BY <2>1, GraphEdges DEF SearchShape
  <2>3. i # n + 1
    BY <1>5, <2>2
  <2>4. i \in Places
    BY <1>5, <2>3
  <2>5. CASE i = n
    <3>1. i + 1 \in Places' /\ stack'[i].edge = stack[i].edge + 1 /\ stack[i].edge \in Nat
      BY <1>2, <1>5, <2>4, <2>5
    <3>2. j < stack[i].edge /\ i + 1 \notin Places
      BY <1>5, <2>2, <2>5, <3>1
    <3> QED
      BY <1>5, <2>4, <3>2 DEF Followed
  <2>6. CASE i # n
    BY <1>5, <2>4, <2>6 DEF Followed
  <2> QED
    BY <2>5, <2>6
<1>12. (Sound' <=> Sound) /\ (Closed' <=> Closed) /\ (Clean' <=> Clean)
  BY <1>1, <1>6, <1>7 DEF Sound, Closed, Clean, Circular
<1> QED
  BY <1>1, <1>8, <1>9, <1>10, <1>11, <1>12

\* A resource is left when all its edges lead to resources that were left: no set that holds
\* it is circular, since without it the set would still be.
LEMMA LeaveStep ==
    ASSUME SInv, Leave
    PROVE  SInv'
<1> USE DEF SInv
<1> DEFINE n == Len(stack)
           v == Top.node
<1>1. /\ stack # << >> /\ Top.edge > Len(graph[v]) /\ cyclic' = cyclic
      /\ stack' = SubSeq(stack, 1, n - 1) /\ visited' = [visited EXCEPT ![v] = "done"]
      /\ graph' = graph /\ root' = root
  BY DEF Leave
<1>2. /\ n \in Places /\ Places = 1 .. n /\ n \in Nat /\ v \in Node /\ Top = stack[n]
      /\ \A i \in Places : stack[i].edge \in Nat /\ stack[i].node \in Node
      /\ visited[v] = "onStack"
  BY <1>1, TopKnown DEF Top
<1>3. /\ stack' \in Seq([node : Node, edge : Nat \ {0}]) /\ Places' = 1 .. n - 1
      /\ \A i \in Places' : stack'[i] = stack[i]
  <2>1. stack \in Seq([node : Node, edge : Nat \ {0}]) /\ n - 1 \in Nat /\ n - 1 <= n
    BY <1>2 DEF SearchShape
  <2>2. stack' = [i \in 1 .. n - 1 |-> stack[i]]
    BY <1>1, <2>1
  <2>3. \A i \in 1 .. n - 1 : stack[i] \in [node : Node, edge : Nat \ {0}]
    BY <1>1, <1>2, TopKnown
  <2>4. stack' \in Seq([node : Node, edge : Nat \ {0}])
    BY <2>1, <2>2, <2>3
  <2> QED
    BY <2>2, <2>4 DEF Places
<1>4. Node' = Node /\ IsGraph' /\ \A k \in Node : visited'[k] = IF k = v THEN "done" ELSE visited[k]
  BY <1>1 DEF Node, IsGraph, SearchShape
<1>5. Left' = Left \cup {v} /\ v \notin Left
  BY <1>2, <1>4 DEF Left
<1>6. Places' = Places \ {n}
  BY <1>2, <1>3
<1>7. SearchShape'
  BY <1>1, <1>3, <1>4 DEF SearchShape
<1>8. OnStack'
  <2>1. \A i \in Places' : i \in Places /\ stack'[i] = stack[i] /\ stack[i].node # v
    BY <1>2, <1>3, <1>6 DEF OnStack
  <2>2. \A i \in Places' : visited'[stack'[i].node] = "onStack"
    BY <1>2, <1>4, <2>1 DEF OnStack
  <2>3. \A k \in Node : visited'[k] = "onStack" => \E i \in Places' : stack'[i].node = k
    <3> SUFFICES ASSUME NEW k \in Node, visited'[k] = "onStack" PROVE \E i \in Places' : stack'[i].node = k
      OBVIOUS
    <3>1. k # v /\ visited[k] = "onStack"
      BY <1>2, <1>4
    <3>2. PICK i \in Places : stack[i].node = k
      BY <3>1 DEF OnStack
    <3>3. i # n
      BY <1>2, <3>1, <3>2
    <3> QED
      BY <1>3, <1>6, <3>2, <3>3
  <2>4. \A i, j \in Places' : i # j => stack'[i].node # stack'[j].node
    BY <2>1 DEF OnStack
  <2> QED
    BY <1>4, <2>2, <2>3, <2>4 DEF OnStack
<1>9. Path'
  BY <1>1, <1>2, <1>3, <1>6 DEF Path
<1>10. ASSUME Followed PROVE \A j \in DOMAIN graph[v] : graph[v][j] \in Left
  <2> SUFFICES ASSUME NEW j \in DOMAIN graph[v] PROVE graph[v][j] \in Left
    OBVIOUS
  <2>1. j \in Nat /\ j < Top.edge /\ n + 1 \notin Places
    <3>1. j \in 1 .. Len(graph[v]) /\ Len(graph[v]) \in Nat /\ Top.edge \in Nat
      BY <1>2, GraphEdges DEF SearchShape
    <3> QED
      BY <1>1, <1>2, <3>1
  <2> QED
    BY <1>2, <1>10, <2>1 DEF Followed
<1>11. ASSUME Closed, Followed PROVE Closed'
  BY <1>1, <1>5, <1>10, <1>11 DEF Closed
<1>12. ASSUME Followed PROVE Followed'
  <2> SUFFICES ASSUME NEW i \in Places', NEW j \in DOMAIN graph[stack[i].node],
                      j < stack[i].edge, ~(i + 1 \in Places' /\ j = stack[i].edge - 1)
               PROVE  graph[stack[i].node][j] \in Left \cup {v}
    BY <1>1, <1>3, <1>5 DEF Followed
  <2>1. CASE i + 1 = n /\ j = stack[i].edge - 1
    BY <1>2, <1>6, <2>1 DEF Path
  <2>2. CASE ~(i + 1 = n /\ j = stack[i].edge - 1)
    BY <1>6, <1>12, <2>2 DEF Followed
  <2> QED
    BY <2>1, <2>2
<1>13. ASSUME Closed, Followed, Clean PROVE Clean'
  <2> SUFFICES ASSUME NEW S \in SUBSET (Left \cup {v}), Circular(S) PROVE FALSE
    BY <1>1, <1>5 DEF Clean, Circular
  <2>1. v \in S
    BY <1>13 DEF Clean
  <2>2. PICK j \in DOMAIN graph[v] : graph[v][j] \in S
    BY <2>1 DEF Circular
  <2>3. graph[v][j] \in Left
    BY <1>10, <1>13
  <2>4. S \ {v} # {}
    BY <1>5, <2>2, <2>3
  <2>5. ASSUME NEW i \in S \ {v} PROVE \E k \in DOMAIN graph[i] : graph[i][k] \in S \ {v}
    <3>1. i \in Left
      BY <2>5
    <3>2. PICK k \in DOMAIN graph[i] : graph[i][k] \in S
      BY <2>5 DEF Circular
    <3>3. graph[i][k] \in Left
      BY <1>13, <3>1 DEF Closed
    <3> QED
      BY <1>5, <3>2, <3>3
  <2>6. Circular(S \ {v}) /\ S \ {v} \subseteq Left
    BY <2>4, <2>5 DEF Circular
  <2> QED
    BY <1>13, <2>6 DEF Clean
<1>14. Sound' <=> Sound
  BY <1>1, <1>4 DEF Sound, Circular
<1> QED
  BY <1>1, <1>7, <1>8, <1>9, <1>11, <1>12, <1>13, <1>14

\* Every step of the search keeps the invariant.
LEMMA SearchKeeps ==
    ASSUME SInv, [Searches]_searchVars
    PROVE  SInv'
<1>1. CASE Follow
  BY <1>1, CycleStep, PassStep, DownStep DEF Follow
<1>2. CASE UNCHANGED searchVars
  <2>1. UNCHANGED <<graph, root, visited, stack, cyclic, Node, Places>>
    BY <1>2 DEF searchVars, Node, Places
  <2>2. UNCHANGED <<IsGraph, Left>>
    BY <2>1 DEF IsGraph, Left
  <2>3. SearchShape' = SearchShape /\ OnStack' = OnStack /\ Path' = Path
    BY <2>1, <2>2 DEF SearchShape, OnStack, Path
  <2>4. Sound' = Sound /\ Closed' = Closed /\ Followed' = Followed /\ Clean' = Clean
    BY <2>1, <2>2 DEF Sound, Closed, Followed, Clean, Circular
  <2> QED
    BY <2>1, <2>3, <2>4 DEF SInv
<1> QED
  BY <1>1, <1>2, EnterStep, LeaveStep DEF Searches

\* At the end of the search everything was left.
LEMMA ReportedWhenDone == SInv => CyclesReported
<1> SUFFICES ASSUME SInv, Searched
             PROVE  cyclic = \E S \in SUBSET {i \in Node : graph[i] # << >>} : Circular(S)
  BY DEF CyclesReported
<1>1. Left = Node
  <2>1. PICK n \in Nat : graph \in [1 .. n -> Seq(1 .. n)]
    BY DEF SInv, SearchShape, IsGraph
  <2>2. Node = 1 .. n /\ root > n
    BY <2>1 DEF Node, Searched, SInv, SearchShape
  <2>3. \A k \in Node : visited[k] # "unvisited" /\ visited[k] # "onStack"
    BY <2>2 DEF SInv, SearchShape, OnStack, Places, Searched
  <2> QED
    BY <2>3 DEF SInv, SearchShape, Left
<1>2. CASE ~cyclic
  BY <1>1, <1>2 DEF SInv, SearchShape, Clean
<1>3. CASE cyclic
  <2>1. PICK S \in SUBSET Node : Circular(S)
    BY <1>3 DEF SInv, Sound
  <2>2. \A i \in S : graph[i] # << >>
    BY <2>1 DEF Circular
  <2> QED
    BY <1>3, <2>1, <2>2 DEF SInv, SearchShape
<1> QED
  BY <1>2, <1>3 DEF SInv, SearchShape

\* validate.go checkDerivationCycles: what is known of the search holds throughout.
LEMMA SearchKnown == SearchSpec => []SInv
  BY SearchBegins, SearchKeeps, PTL DEF SearchSpec

\* validate.go checkDerivationCycles: for every document, a value derived from itself is
\* reported exactly when there is one, however its references are ordered and shared.
THEOREM CyclesFound == SearchSpec => []CyclesReported
  BY SearchKnown, ReportedWhenDone, PTL
=============================================================================
