----------------------- MODULE TopologicalSortingProofs -----------------------
(***************************************************************************)
(* Proofs about Kahn's algorithm for every set of blocks and every set of  *)
(* finite pipe lists: type correctness, parents before children, no block  *)
(* twice in an accepted pipeline, and that the final assertion fails       *)
(* exactly on the cyclic graphs.                                           *)
(***************************************************************************)
EXTENDS TopologicalSorting, PipelineGraphProofs

-----------------------------------------------------------------------------
(* Type correctness: the variables of the sort keep their types. *)
LEMMA TypeInit == Init => TypeOK
<1> SUFFICES ASSUME Init PROVE TypeOK
  OBVIOUS
<1>1. allPipes \in Seq(Pipe)
  BY PipelinesAssumption DEF Init
<1>2. currentNodes \in Seq(Blocks)
  BY <1>1, StartingBlockListsType DEF Init
<1> QED
  BY <1>1, <1>2 DEF Init, TypeOK

LEMMA TypeStep == TypeOK /\ [Next]_vars => TypeOK'
<1> SUFFICES ASSUME TypeOK, [Next]_vars PROVE TypeOK'
  OBVIOUS
<1>1. CASE PopNode
  <2>1. currentNodes' \in Seq(Blocks) /\ sortedNodes' \in Seq(Blocks)
    BY <1>1, PopMembers, AppendMembers DEF PopNode, TypeOK
  <2> QED
    BY <1>1, <2>1 DEF PopNode, TypeOK
<1>2. CASE VisitChild
  <2>1. PICK i \in PendingPipes :
          /\ unvisitedEdges' = unvisitedEdges \ {allPipes[i]}
          /\ currentNodes' = IF NoUnvisitedEdgeTo(allPipes[i].to, unvisitedEdges')
                             THEN Append(currentNodes, allPipes[i].to)
                             ELSE currentNodes
          /\ cursor' = i
    BY <1>2 DEF VisitChild
  <2>2. i \in DOMAIN allPipes /\ i \in Nat /\ allPipes[i].to \in Blocks
    BY PipeListMembers DEF PendingPipes, OutgoingPipes, TypeOK
  <2>3. currentNodes' \in Seq(Blocks)
    BY <2>1, <2>2, AppendMembers DEF TypeOK
  <2> QED
    BY <1>2, <2>1, <2>2, <2>3 DEF VisitChild, TypeOK
<1>3. CASE EndOfChildren
  BY <1>3 DEF EndOfChildren, TypeOK
<1>4. CASE Finish
  BY <1>4 DEF Finish, TypeOK
<1>5. CASE UNCHANGED vars
  BY <1>5 DEF vars, TypeOK
<1> QED
  BY <1>1, <1>2, <1>3, <1>4, <1>5 DEF Next

THEOREM TypeCorrect == Spec => []TypeOK
<1> QED
  BY TypeInit, TypeStep, PTL DEF Spec

-----------------------------------------------------------------------------
(* What a step does to the members of the two lists.  PopNode moves the    *)
(* top of the stack to the end of the result.                              *)
LEMMA PopNodeEffect ==
    ASSUME TypeOK, PopNode
    PROVE  LET last == currentNodes[Len(currentNodes)] IN
           /\ last \in Blocks
           /\ Node' = last
           /\ Listed' = Listed \cup {last}
           /\ Ready = Ready' \cup {last}
           /\ sortedNodes' # << >>
           /\ DOMAIN sortedNodes = 1..Len(sortedNodes)
           /\ DOMAIN sortedNodes' = 1..(Len(sortedNodes) + 1)
           /\ Len(sortedNodes) \in Nat
           /\ \A i \in 1..Len(sortedNodes) : sortedNodes'[i] = sortedNodes[i]
           /\ sortedNodes'[Len(sortedNodes) + 1] = last
           /\ Len(currentNodes) \in Nat \ {0}
           /\ DOMAIN currentNodes = 1..Len(currentNodes)
           /\ DOMAIN currentNodes' = 1..(Len(currentNodes) - 1)
           /\ \A i \in 1..(Len(currentNodes) - 1) : currentNodes'[i] = currentNodes[i]
<1> DEFINE last == currentNodes[Len(currentNodes)]
<1>1. /\ sortedNodes \in Seq(Blocks)
      /\ currentNodes \in Seq(Blocks)
      /\ currentNodes # << >>
      /\ sortedNodes' = Append(sortedNodes, last)
      /\ currentNodes' = SubSeq(currentNodes, 1, Len(currentNodes) - 1)
  BY DEF TypeOK, PopNode
<1>2. /\ Len(currentNodes) \in Nat \ {0}
      /\ last \in Blocks
      /\ DOMAIN currentNodes' = 1..(Len(currentNodes) - 1)
      /\ \A i \in 1..(Len(currentNodes) - 1) : currentNodes'[i] = currentNodes[i]
      /\ Ready = Ready' \cup {last}
  <2> DEFINE popped == SubSeq(currentNodes, 1, Len(currentNodes) - 1)
  <2>1. /\ Len(currentNodes) \in Nat \ {0}
        /\ last \in Blocks
        /\ DOMAIN popped = 1..(Len(currentNodes) - 1)
        /\ \A i \in 1..(Len(currentNodes) - 1) : popped[i] = currentNodes[i]
        /\ Members(currentNodes) = Members(popped) \cup {last}
    BY <1>1, PopMembers
  <2>2. currentNodes' = popped
    BY <1>1
  <2> HIDE DEF popped
  <2> QED
    BY <2>1, <2>2 DEF Ready
<1>3. /\ sortedNodes' \in Seq(Blocks)
      /\ Len(sortedNodes') = Len(sortedNodes) + 1
      /\ DOMAIN sortedNodes' = 1..(Len(sortedNodes) + 1)
      /\ \A i \in 1..Len(sortedNodes) : sortedNodes'[i] = sortedNodes[i]
      /\ sortedNodes'[Len(sortedNodes) + 1] = last
      /\ Listed' = Listed \cup {last}
  <2> DEFINE extended == Append(sortedNodes, last)
  <2>1. /\ extended \in Seq(Blocks)
        /\ Len(extended) = Len(sortedNodes) + 1
        /\ DOMAIN extended = 1..(Len(sortedNodes) + 1)
        /\ \A i \in 1..Len(sortedNodes) : extended[i] = sortedNodes[i]
        /\ extended[Len(sortedNodes) + 1] = last
        /\ Members(extended) = Members(sortedNodes) \cup {last}
    BY <1>1, <1>2, AppendMembers
  <2>2. sortedNodes' = extended
    BY <1>1
  <2> HIDE DEF extended
  <2> QED
    BY <2>1, <2>2 DEF Listed
<1>4. /\ Len(sortedNodes) \in Nat
      /\ DOMAIN sortedNodes = 1..Len(sortedNodes)
      /\ DOMAIN currentNodes = 1..Len(currentNodes)
  BY <1>1
<1>5. sortedNodes' # << >>
  BY <1>3, <1>4
<1>6. Node' = last
  BY <1>3 DEF Node
<1> QED
  BY <1>2, <1>3, <1>4, <1>5, <1>6

(* VisitChild follows the first pending pipe of Node, and its child is the *)
(* only block that can become ready.                                       *)
LEMMA VisitChildEffect ==
    ASSUME TypeOK, VisitChild, sortedNodes # << >>
    PROVE  \E i \in PendingPipes :
              LET child == allPipes[i].to IN
              /\ i \in DOMAIN allPipes
              /\ \A j \in PendingPipes : i <= j
              /\ i \in Nat /\ child \in Blocks
              /\ allPipes[i] \in PipeSet(allPipes)
              /\ allPipes[i].from = Node
              /\ Node \in Listed
              /\ cursor' = i
              /\ unvisitedEdges' = unvisitedEdges \ {allPipes[i]}
              /\ Listed' = Listed /\ Node' = Node
              /\ \/ /\ NoUnvisitedEdgeTo(child, unvisitedEdges')
                    /\ Ready' = Ready \cup {child}
                    /\ currentNodes' = Append(currentNodes, child)
                 \/ /\ ~NoUnvisitedEdgeTo(child, unvisitedEdges')
                    /\ Ready' = Ready
                    /\ currentNodes' = currentNodes
<1>1. PICK i \in PendingPipes :
        /\ \A j \in PendingPipes : i <= j
        /\ unvisitedEdges' = unvisitedEdges \ {allPipes[i]}
        /\ currentNodes' = IF NoUnvisitedEdgeTo(allPipes[i].to, unvisitedEdges')
                           THEN Append(currentNodes, allPipes[i].to)
                           ELSE currentNodes
        /\ cursor' = i
  BY DEF VisitChild
<1>2. i \in DOMAIN allPipes /\ allPipes[i].from = Node
  BY DEF PendingPipes, OutgoingPipes
<1>3. i \in Nat /\ allPipes[i] \in PipeSet(allPipes) /\ allPipes[i].to \in Blocks
  BY <1>2, PipeListMembers DEF TypeOK
<1>4. Node \in Listed
  <2>1. Len(sortedNodes) \in DOMAIN sortedNodes
    BY DEF TypeOK
  <2> QED
    BY <2>1 DEF Node, Listed, Members
<1>5. sortedNodes' = sortedNodes
  BY DEF VisitChild
<1>6. Listed' = Listed /\ Node' = Node
  BY <1>5 DEF Listed, Node
<1>7. CASE NoUnvisitedEdgeTo(allPipes[i].to, unvisitedEdges')
  <2>1. currentNodes' = Append(currentNodes, allPipes[i].to)
    BY <1>1, <1>7
  <2>2. Ready' = Ready \cup {allPipes[i].to}
    <3> DEFINE extended == Append(currentNodes, allPipes[i].to)
    <3>1. currentNodes \in Seq(Blocks)
      BY DEF TypeOK
    <3>2. Members(extended) = Members(currentNodes) \cup {allPipes[i].to}
      BY <1>3, <3>1, AppendMembers
    <3> QED
      BY <2>1, <3>2 DEF Ready
  <2> QED
    BY <1>1, <1>2, <1>3, <1>4, <1>6, <1>7, <2>1, <2>2
<1>8. CASE ~NoUnvisitedEdgeTo(allPipes[i].to, unvisitedEdges')
  <2>1. currentNodes' = currentNodes
    BY <1>1, <1>8
  <2>2. Ready' = Ready
    BY <2>1 DEF Ready
  <2> QED
    BY <1>1, <1>2, <1>3, <1>4, <1>6, <1>8, <2>1, <2>2
<1> QED
  BY <1>7, <1>8

(* The other two actions leave the lists and the edges alone. *)
LEMMA OtherEffect ==
    ASSUME EndOfChildren \/ Finish \/ UNCHANGED vars
    PROVE  /\ allPipes' = allPipes
           /\ sortedNodes' = sortedNodes
           /\ currentNodes' = currentNodes
           /\ unvisitedEdges' = unvisitedEdges
           /\ cursor' = cursor
           /\ Listed' = Listed
           /\ Ready' = Ready
           /\ Node' = Node
<1>1. /\ allPipes' = allPipes
      /\ sortedNodes' = sortedNodes
      /\ currentNodes' = currentNodes
      /\ unvisitedEdges' = unvisitedEdges
      /\ cursor' = cursor
  BY DEF EndOfChildren, Finish, vars
<1> QED
  BY <1>1 DEF Listed, Ready, Node

-----------------------------------------------------------------------------
(* Parents before children.  Inductive: edges are marked only behind a     *)
(* listed block, and only blocks without unmarked ingoing edges are pushed. *)
OrderInv ==
    /\ TypeOK
    /\ NodeIsListed
    /\ VisitedEdgesLeaveListed
    /\ ReadyBlocksAreComplete
    /\ ParentsFirst

LEMMA OrderInit == Init => OrderInv
<1> SUFFICES ASSUME Init PROVE OrderInv
  OBVIOUS
<1>1. TypeOK
  BY TypeInit
<1>2. Listed = {} /\ DOMAIN sortedNodes = {}
  BY DEF Init, Listed, Members
<1>3. Ready = StartingBlocks(allPipes)
  BY <1>1, StartingBlockListsType DEF Init, Ready, TypeOK
<1>4. NodeIsListed
  BY DEF Init, NodeIsListed
<1>5. VisitedEdgesLeaveListed
  BY DEF Init, VisitedEdgesLeaveListed
<1>6. ReadyBlocksAreComplete
  BY <1>2, <1>3
  DEF Init, ReadyBlocksAreComplete, NoUnvisitedEdgeTo, StartingBlocks,
      IngoingPipes, PipeSet, Members
<1>7. ParentsFirst
  BY <1>2 DEF ParentsFirst
<1> QED
  BY <1>1, <1>4, <1>5, <1>6, <1>7 DEF OrderInv

LEMMA OrderStep == OrderInv /\ [Next]_vars => OrderInv'
<1> SUFFICES ASSUME OrderInv, [Next]_vars PROVE OrderInv'
  OBVIOUS
<1> USE DEF OrderInv
<1>1. TypeOK'
  BY TypeStep
<1>2. CASE PopNode
  <2> DEFINE last == currentNodes[Len(currentNodes)]
  <2>1. /\ Listed' = Listed \cup {last}
        /\ Ready = Ready' \cup {last}
        /\ unvisitedEdges' = unvisitedEdges
        /\ allPipes' = allPipes
    BY <1>2, PopNodeEffect DEF PopNode
  <2>2. NodeIsListed'
    BY <1>2, PopNodeEffect DEF NodeIsListed
  <2>3. VisitedEdgesLeaveListed'
    BY <2>1 DEF VisitedEdgesLeaveListed
  <2>4. ReadyBlocksAreComplete'
    BY <2>1 DEF ReadyBlocksAreComplete, NoUnvisitedEdgeTo
  <2>5. ParentsFirst'
    <3> DEFINE n == Len(sortedNodes)
    <3>1. /\ n \in Nat
          /\ DOMAIN sortedNodes = 1..n
          /\ DOMAIN sortedNodes' = 1..(n + 1)
          /\ \A i \in 1..n : sortedNodes'[i] = sortedNodes[i]
          /\ sortedNodes'[n + 1] = last
      BY <1>2, PopNodeEffect
    <3> SUFFICES ASSUME NEW i \in 1..(n + 1), NEW p \in PipeSet(allPipes),
                        p.to = sortedNodes'[i]
                 PROVE  \E j \in 1..(i - 1) : sortedNodes'[j] = p.from
      BY <2>1, <3>1 DEF ParentsFirst
    <3>2. CASE i \in 1..n
      <4>1. \E j \in 1..(i - 1) : sortedNodes[j] = p.from
        BY <3>1, <3>2 DEF ParentsFirst
      <4> QED
        BY <3>1, <3>2, <4>1
    <3>3. CASE i = n + 1
      <4>1. p \notin unvisitedEdges
        BY <2>1, <3>1, <3>3 DEF ReadyBlocksAreComplete, NoUnvisitedEdgeTo
      <4>2. p.from \in Listed
        BY <4>1 DEF VisitedEdgesLeaveListed
      <4>3. PICK j \in 1..n : sortedNodes[j] = p.from
        BY <3>1, <4>2 DEF Listed, Members
      <4> QED
        BY <3>1, <3>3, <4>3
    <3> QED
      BY <3>1, <3>2, <3>3
  <2> QED
    BY <1>1, <2>2, <2>3, <2>4, <2>5
<1>3. CASE VisitChild
  <2>1. /\ sortedNodes # << >>
        /\ allPipes' = allPipes
        /\ sortedNodes' = sortedNodes
    BY <1>3 DEF NodeIsListed, VisitChild
  <2>2. PICK i \in PendingPipes :
          /\ allPipes[i].from = Node
          /\ Node \in Listed
          /\ unvisitedEdges' = unvisitedEdges \ {allPipes[i]}
          /\ Listed' = Listed
          /\ \/ /\ NoUnvisitedEdgeTo(allPipes[i].to, unvisitedEdges')
                /\ Ready' = Ready \cup {allPipes[i].to}
             \/ Ready' = Ready
    BY <1>3, <2>1, VisitChildEffect
  <2>3. NodeIsListed'
    BY <2>1 DEF NodeIsListed
  <2>4. VisitedEdgesLeaveListed'
    BY <2>1, <2>2 DEF VisitedEdgesLeaveListed
  <2>5. ReadyBlocksAreComplete'
    BY <2>2 DEF ReadyBlocksAreComplete, NoUnvisitedEdgeTo
  <2>6. ParentsFirst'
    BY <2>1 DEF ParentsFirst
  <2> QED
    BY <1>1, <2>3, <2>4, <2>5, <2>6
<1>4. CASE EndOfChildren \/ Finish \/ UNCHANGED vars
  <2>1. /\ allPipes' = allPipes
        /\ sortedNodes' = sortedNodes
        /\ unvisitedEdges' = unvisitedEdges
        /\ Listed' = Listed
        /\ Ready' = Ready
    BY <1>4, OtherEffect
  <2>2. NodeIsListed'
    BY <1>4 DEF NodeIsListed, EndOfChildren, Finish, vars
  <2>3. VisitedEdgesLeaveListed'
    BY <2>1 DEF VisitedEdgesLeaveListed
  <2>4. ReadyBlocksAreComplete'
    BY <2>1 DEF ReadyBlocksAreComplete, NoUnvisitedEdgeTo
  <2>5. ParentsFirst'
    BY <2>1 DEF ParentsFirst
  <2> QED
    BY <1>1, <2>2, <2>3, <2>4, <2>5
<1> QED
  BY <1>2, <1>3, <1>4 DEF Next

LEMMA OrderInvariant == Spec => []OrderInv
<1> QED
  BY OrderInit, OrderStep, PTL DEF Spec

(* getBlocksInTopologicalSorting lists every block behind its parents, for *)
(* every pipe list, also a cyclic one or one with repeated pipes.          *)
THEOREM ParentsFirstHolds == Spec => []ParentsFirst
<1>1. OrderInv => ParentsFirst
  BY DEF OrderInv
<1> QED
  BY <1>1, OrderInvariant, PTL

-----------------------------------------------------------------------------
(* The assertion.  On top of the order, no edge of a listed block is left  *)
(* behind and no block whose edges are all marked is forgotten, so what is *)
(* unvisited in the end hangs on a cycle; and a cycle never becomes ready. *)
CycleInv ==
    /\ OrderInv
    /\ UnvisitedEdgesArePending
    /\ CompleteBlocksAreReady
    /\ OnlyPipedBlocks
    /\ CyclesAreNeverReady
    /\ OutcomeMatchesEdges

LEMMA CycleInit == Init => CycleInv
<1> SUFFICES ASSUME Init PROVE CycleInv
  OBVIOUS
<1>1. OrderInv /\ TypeOK
  BY OrderInit DEF OrderInv
<1>2. Listed = {}
  BY DEF Init, Listed, Members
<1>3. /\ Ready = StartingBlocks(allPipes)
      /\ unvisitedEdges = PipeSet(allPipes)
  BY <1>1, StartingBlockListsType DEF Init, Ready, TypeOK
<1>4. UnvisitedEdgesArePending
  BY <1>2 DEF UnvisitedEdgesArePending
<1>5. CompleteBlocksAreReady
  <2> SUFFICES ASSUME NEW b \in PipedBlocks(allPipes),
                      NoUnvisitedEdgeTo(b, unvisitedEdges)
               PROVE  b \in Ready
    BY DEF CompleteBlocksAreReady
  <2>1. \A i \in DOMAIN allPipes : allPipes[i].to # b
    BY <1>3 DEF NoUnvisitedEdgeTo, PipeSet, Members
  <2>2. PICK i \in DOMAIN allPipes : allPipes[i].from = b
    BY <2>1 DEF PipedBlocks, PipeSet, Members
  <2> QED
    BY <1>3, <2>1, <2>2 DEF StartingBlocks, IngoingPipes
<1>6. OnlyPipedBlocks
  BY <1>2, <1>3 DEF OnlyPipedBlocks, PipedBlocks, StartingBlocks, PipeSet, Members
<1>7. CyclesAreNeverReady
  BY <1>2, <1>3
  DEF CyclesAreNeverReady, SelfSupporting, StartingBlocks, IngoingPipes,
      PipeSet, Members
<1>8. OutcomeMatchesEdges
  BY DEF OutcomeMatchesEdges, Init
<1> QED
  BY <1>1, <1>4, <1>5, <1>6, <1>7, <1>8 DEF CycleInv

LEMMA CycleStep == CycleInv /\ [Next]_vars => CycleInv'
<1> SUFFICES ASSUME CycleInv, [Next]_vars PROVE CycleInv'
  OBVIOUS
<1>1. /\ OrderInv /\ OrderInv' /\ TypeOK /\ TypeOK'
      /\ UnvisitedEdgesArePending
      /\ CompleteBlocksAreReady
      /\ OnlyPipedBlocks
      /\ CyclesAreNeverReady
      /\ OutcomeMatchesEdges
  BY OrderStep DEF CycleInv, OrderInv
<1>2. CASE PopNode
  <2> DEFINE last == currentNodes[Len(currentNodes)]
  <2>1. /\ Listed' \cup Ready' = Listed \cup Ready
        /\ Listed' = Listed \cup {last}
        /\ Node' = last
        /\ unvisitedEdges' = unvisitedEdges
        /\ allPipes' = allPipes
        /\ cursor' = 0
        /\ pc = "loop" /\ pc' = "children"
    BY <1>1, <1>2, PopNodeEffect DEF PopNode
  <2>2. UnvisitedEdgesArePending'
    <3> SUFFICES ASSUME NEW p \in unvisitedEdges, p.from \in Listed'
                 PROVE  \E i \in PendingPipes' : allPipes[i] = p
      BY <2>1 DEF UnvisitedEdgesArePending
    <3>1. p.from = last
      BY <1>1, <2>1 DEF UnvisitedEdgesArePending
    <3>2. PICK i \in DOMAIN allPipes : allPipes[i] = p
      BY <1>1 DEF TypeOK, PipeSet, Members
    <3>3. i \in Nat \ {0}
      BY <1>1, <3>2, PipeListMembers DEF TypeOK
    <3>4. i \in PendingPipes'
      BY <2>1, <3>1, <3>2, <3>3 DEF PendingPipes, OutgoingPipes
    <3> QED
      BY <3>2, <3>4
  <2>3. CompleteBlocksAreReady'
    BY <1>1, <2>1 DEF CompleteBlocksAreReady, NoUnvisitedEdgeTo
  <2>4. OnlyPipedBlocks'
    BY <1>1, <2>1 DEF OnlyPipedBlocks
  <2>5. CyclesAreNeverReady'
    BY <1>1, <2>1 DEF CyclesAreNeverReady
  <2>6. OutcomeMatchesEdges'
    BY <2>1 DEF OutcomeMatchesEdges
  <2> QED
    BY <1>1, <2>2, <2>3, <2>4, <2>5, <2>6 DEF CycleInv
<1>3. CASE VisitChild
  <2>1. /\ sortedNodes # << >>
        /\ allPipes' = allPipes
        /\ pc = "children" /\ pc' = pc
    BY <1>1, <1>3 DEF OrderInv, NodeIsListed, VisitChild
  <2>2. PICK i \in PendingPipes :
          /\ i \in DOMAIN allPipes
          /\ \A j \in PendingPipes : i <= j
          /\ i \in Nat
          /\ allPipes[i] \in PipeSet(allPipes)
          /\ allPipes[i].from = Node
          /\ Node \in Listed
          /\ cursor' = i
          /\ unvisitedEdges' = unvisitedEdges \ {allPipes[i]}
          /\ Listed' = Listed /\ Node' = Node
          /\ \/ /\ NoUnvisitedEdgeTo(allPipes[i].to, unvisitedEdges')
                /\ Ready' = Ready \cup {allPipes[i].to}
             \/ /\ ~NoUnvisitedEdgeTo(allPipes[i].to, unvisitedEdges')
                /\ Ready' = Ready
    BY <1>1, <1>3, <2>1, VisitChildEffect
  <2> DEFINE child == allPipes[i].to
  <2>3. UnvisitedEdgesArePending'
    <3> SUFFICES ASSUME NEW p \in unvisitedEdges', p.from \in Listed'
                 PROVE  \E j \in PendingPipes' : allPipes[j] = p
      BY <2>1 DEF UnvisitedEdgesArePending
    <3>1. PICK j \in PendingPipes : allPipes[j] = p
      BY <1>1, <2>2 DEF UnvisitedEdgesArePending
    <3>2. j # i /\ i <= j /\ j \in Nat
      BY <1>1, <2>2, <3>1, PipeListMembers DEF TypeOK, PendingPipes, OutgoingPipes
    <3>3. j \in PendingPipes'
      BY <2>1, <2>2, <3>2 DEF PendingPipes, OutgoingPipes
    <3> QED
      BY <3>1, <3>3
  <2>4. CompleteBlocksAreReady'
    <3> SUFFICES ASSUME NEW b \in PipedBlocks(allPipes),
                        NoUnvisitedEdgeTo(b, unvisitedEdges')
                 PROVE  b \in Listed' \cup Ready'
      BY <2>1 DEF CompleteBlocksAreReady
    <3>1. CASE b = child
      BY <2>2, <3>1
    <3>2. CASE b # child
      <4>1. NoUnvisitedEdgeTo(b, unvisitedEdges)
        BY <2>2, <3>2 DEF NoUnvisitedEdgeTo
      <4> QED
        BY <1>1, <2>2, <4>1 DEF CompleteBlocksAreReady
    <3> QED
      BY <3>1, <3>2
  <2>5. OnlyPipedBlocks'
    <3>1. child \in PipedBlocks(allPipes)
      BY <2>2 DEF PipedBlocks
    <3> QED
      BY <1>1, <2>1, <2>2, <3>1 DEF OnlyPipedBlocks
  <2>6. CyclesAreNeverReady'
    <3> SUFFICES ASSUME NEW S \in SUBSET Blocks, SelfSupporting(allPipes, S),
                        NoUnvisitedEdgeTo(child, unvisitedEdges'), child \in S
                 PROVE  FALSE
      BY <1>1, <2>1, <2>2 DEF CyclesAreNeverReady
    <3>1. PICK p \in PipeSet(allPipes) : p.to = child /\ p.from \in S
      BY DEF SelfSupporting
    <3>2. p \notin unvisitedEdges'
      BY <3>1 DEF NoUnvisitedEdgeTo
    <3>3. p.from \in Listed
      BY <1>1, <2>2, <3>1, <3>2 DEF OrderInv, VisitedEdgesLeaveListed
    <3> QED
      BY <1>1, <3>1, <3>3 DEF CyclesAreNeverReady
  <2>7. OutcomeMatchesEdges'
    BY <2>1 DEF OutcomeMatchesEdges
  <2> QED
    BY <1>1, <2>3, <2>4, <2>5, <2>6, <2>7 DEF CycleInv
<1>4. CASE EndOfChildren \/ Finish \/ UNCHANGED vars
  <2>1. /\ allPipes' = allPipes
        /\ currentNodes' = currentNodes
        /\ unvisitedEdges' = unvisitedEdges
        /\ cursor' = cursor
        /\ Listed' = Listed /\ Ready' = Ready /\ Node' = Node
        /\ PendingPipes' = PendingPipes
    BY <1>4, OtherEffect DEF PendingPipes
  <2>2. UnvisitedEdgesArePending'
    BY <1>1, <1>4, <2>1
    DEF UnvisitedEdgesArePending, EndOfChildren, Finish, vars
  <2>3. CompleteBlocksAreReady'
    BY <1>1, <2>1 DEF CompleteBlocksAreReady, NoUnvisitedEdgeTo
  <2>4. OnlyPipedBlocks'
    BY <1>1, <2>1 DEF OnlyPipedBlocks
  <2>5. CyclesAreNeverReady'
    BY <1>1, <2>1 DEF CyclesAreNeverReady
  <2>6. OutcomeMatchesEdges'
    BY <1>1, <1>4, <2>1 DEF OutcomeMatchesEdges, EndOfChildren, Finish, vars
  <2> QED
    BY <1>1, <2>2, <2>3, <2>4, <2>5, <2>6 DEF CycleInv
<1> QED
  BY <1>2, <1>3, <1>4 DEF Next

(* What the invariant says once the sort has ended. *)
LEMMA CycleOutcome == CycleInv => FailsExactlyOnCycles
<1> SUFFICES ASSUME CycleInv PROVE FailsExactlyOnCycles
  OBVIOUS
<1>1. ASSUME pc = "failed" PROVE Cyclic(allPipes)
  <2> DEFINE S == {p.from : p \in unvisitedEdges}
  <2>1. unvisitedEdges # {} /\ Ready = {}
    BY <1>1 DEF CycleInv, OutcomeMatchesEdges, Ready, Members
  <2>2. S \in SUBSET Blocks /\ S # {}
    <3>1. \A p \in PipeSet(allPipes) : p.from \in Blocks
      BY PipeListMembers DEF PipeSet, Members, CycleInv, OrderInv, TypeOK
    <3> QED
      BY <2>1, <3>1 DEF CycleInv, OrderInv, TypeOK
  <2>3. ASSUME NEW b \in S
        PROVE  \E p \in PipeSet(allPipes) : p.to = b /\ p.from \in S
    <3>1. b \notin Listed
      BY <1>1, <2>3 DEF CycleInv, UnvisitedEdgesArePending
    <3>2. b \in PipedBlocks(allPipes)
      BY <2>3 DEF CycleInv, OrderInv, TypeOK, PipedBlocks
    <3>3. ~NoUnvisitedEdgeTo(b, unvisitedEdges)
      BY <2>1, <3>1, <3>2 DEF CycleInv, CompleteBlocksAreReady
    <3> QED
      BY <3>3 DEF NoUnvisitedEdgeTo, CycleInv, OrderInv, TypeOK
  <2>4. SelfSupporting(allPipes, S)
    BY <2>3 DEF SelfSupporting
  <2> QED
    BY <2>2, <2>4 DEF Cyclic
<1>2. ASSUME pc = "returned"
      PROVE  ~Cyclic(allPipes) /\ Listed = PipedBlocks(allPipes)
  <2>1. unvisitedEdges = {} /\ Ready = {}
    BY <1>2 DEF CycleInv, OutcomeMatchesEdges, Ready, Members
  <2>2. Listed = PipedBlocks(allPipes)
    BY <2>1
    DEF CycleInv, CompleteBlocksAreReady, OnlyPipedBlocks, NoUnvisitedEdgeTo
  <2>3. ASSUME NEW S \in SUBSET Blocks, S # {}, SelfSupporting(allPipes, S)
        PROVE  FALSE
    <3>1. PICK b \in S : b \in PipedBlocks(allPipes)
      BY <2>3 DEF SelfSupporting, PipedBlocks
    <3> QED
      BY <2>2, <2>3, <3>1 DEF CycleInv, CyclesAreNeverReady
  <2> QED
    BY <2>2, <2>3 DEF Cyclic
<1> QED
  BY <1>1, <1>2 DEF FailsExactlyOnCycles

(* The assertion "expected to have no cycles" fails for a cyclic graph and *)
(* for no other, and otherwise all blocks that a pipe touches are listed.  *)
THEOREM FailsExactlyOnCyclesHolds == Spec => []FailsExactlyOnCycles
<1> QED
  BY CycleInit, CycleStep, CycleOutcome, PTL DEF Spec

-----------------------------------------------------------------------------
(* Listing a block once, in accepted pipelines. *)
OnceInv == OrderInv /\ ListsAreRepetitionFree

LEMMA OnceInit == Init => OnceInv
<1> SUFFICES ASSUME Init PROVE OnceInv
  OBVIOUS
<1>1. OrderInv /\ TypeOK
  BY OrderInit DEF OrderInv
<1>2. Listed = {} /\ DOMAIN sortedNodes = {}
  BY DEF Init, Listed, Members
<1>3. /\ Ready = StartingBlocks(allPipes)
      /\ ~Repetition(currentNodes)
  BY <1>1, StartingBlockListsType DEF Init, Ready, TypeOK, Repetition
<1>4. Ready \subseteq Reachable(allPipes)
  BY <1>1, <1>3, ReachableClosed DEF TypeOK
<1>5. ~Repetition(sortedNodes)
  BY <1>2 DEF Repetition
<1>6. ListsAreRepetitionFree
  BY <1>2, <1>3, <1>4, <1>5 DEF ListsAreRepetitionFree, Init
<1> QED
  BY <1>1, <1>6 DEF OnceInv

LEMMA OnceStep == OnceInv /\ [Next]_vars => OnceInv'
<1> SUFFICES ASSUME OnceInv, [Next]_vars PROVE OnceInv'
  OBVIOUS
<1>1. OrderInv /\ OrderInv' /\ TypeOK /\ TypeOK' /\ ListsAreRepetitionFree
  BY OrderStep DEF OnceInv, OrderInv
<1>2. allPipes' = allPipes
  BY DEF Next, PopNode, VisitChild, EndOfChildren, Finish, vars
<1> SUFFICES ASSUME Accepted(allPipes)
             PROVE  ListsAreRepetitionFree'
  BY <1>1, <1>2 DEF OnceInv, ListsAreRepetitionFree
<1>3. /\ Listed \cup Ready \subseteq Reachable(allPipes)
      /\ ~Repetition(sortedNodes)
      /\ ~Repetition(currentNodes)
      /\ Listed \cap Ready = {}
      /\ pc = "children" =>
            \A i \in PendingPipes : allPipes[i] \in unvisitedEdges
  BY <1>1 DEF ListsAreRepetitionFree
<1>4. CASE PopNode
  <2> DEFINE last == currentNodes[Len(currentNodes)]
             n == Len(sortedNodes)
             m == Len(currentNodes)
  <2>1. /\ Listed' = Listed \cup {last}
        /\ Ready = Ready' \cup {last}
        /\ Node' = last
        /\ unvisitedEdges' = unvisitedEdges
        /\ n \in Nat /\ m \in Nat \ {0}
        /\ DOMAIN sortedNodes = 1..n /\ DOMAIN sortedNodes' = 1..(n + 1)
        /\ DOMAIN currentNodes = 1..m /\ DOMAIN currentNodes' = 1..(m - 1)
        /\ \A i \in 1..n : sortedNodes'[i] = sortedNodes[i]
        /\ sortedNodes'[n + 1] = last
        /\ \A i \in 1..(m - 1) : currentNodes'[i] = currentNodes[i]
    BY <1>1, <1>4, PopNodeEffect DEF PopNode
  <2>2. last \notin Listed
    BY <1>3, <2>1
  <2>3. ~Repetition(sortedNodes')
    <3>1. \A i \in 1..n : sortedNodes[i] # last
      BY <2>1, <2>2 DEF Listed, Members
    <3>2. \A i, j \in 1..n : i # j => sortedNodes[i] # sortedNodes[j]
      BY <1>3, <2>1 DEF Repetition
    <3>3. \A i \in 1..(n + 1) : i \in 1..n \/ i = n + 1
      BY <2>1
    <3> QED
      BY <2>1, <3>1, <3>2, <3>3 DEF Repetition
  <2>4. ~Repetition(currentNodes')
    <3>1. \A i \in 1..(m - 1) : i \in 1..m
      BY <2>1
    <3> QED
      BY <1>3, <2>1, <3>1 DEF Repetition
  <2>5. last \notin Ready'
    <3>1. \A i \in 1..(m - 1) : i \in 1..m /\ m \in 1..m /\ i # m
      <4>1. \A k \in Nat \ {0} : \A i \in 1..(k - 1) : i \in 1..k /\ k \in 1..k /\ i # k
        OBVIOUS
      <4> QED
        BY <2>1, <4>1
    <3>2. \A i \in 1..(m - 1) : currentNodes'[i] # last
      BY <1>3, <2>1, <3>1 DEF Repetition
    <3> QED
      BY <2>1, <3>2 DEF Ready, Members
  <2>6. ASSUME NEW i \in PendingPipes'
        PROVE  allPipes[i] \in unvisitedEdges
    <3>1. i \in DOMAIN allPipes /\ allPipes[i].from = last
      BY <1>2, <2>1, <2>6 DEF PendingPipes, OutgoingPipes
    <3>2. allPipes[i] \in PipeSet(allPipes)
      BY <3>1 DEF PipeSet, Members
    <3> QED
      BY <1>1, <2>2, <3>1, <3>2 DEF OrderInv, VisitedEdgesLeaveListed
  <2> QED
    BY <1>2, <1>3, <2>1, <2>2, <2>3, <2>4, <2>5, <2>6 DEF ListsAreRepetitionFree
<1>5. CASE VisitChild
  <2>1. /\ sortedNodes # << >>
        /\ sortedNodes' = sortedNodes
        /\ pc = "children"
    BY <1>1, <1>5 DEF OrderInv, NodeIsListed, VisitChild
  <2>2. PICK i \in PendingPipes :
          /\ i \in DOMAIN allPipes
          /\ \A j \in PendingPipes : i <= j
          /\ i \in Nat /\ allPipes[i].to \in Blocks
          /\ allPipes[i] \in PipeSet(allPipes)
          /\ allPipes[i].from = Node
          /\ Node \in Listed
          /\ cursor' = i
          /\ unvisitedEdges' = unvisitedEdges \ {allPipes[i]}
          /\ Listed' = Listed /\ Node' = Node
          /\ \/ /\ Ready' = Ready \cup {allPipes[i].to}
                /\ currentNodes' = Append(currentNodes, allPipes[i].to)
             \/ /\ Ready' = Ready
                /\ currentNodes' = currentNodes
    BY <1>1, <1>5, <2>1, VisitChildEffect
  <2> DEFINE child == allPipes[i].to
  <2>3. allPipes[i] \in unvisitedEdges
    BY <1>3, <2>1, <2>2
  <2>4. child \notin Listed \cup Ready
    BY <1>1, <2>3 DEF OrderInv, ReadyBlocksAreComplete, NoUnvisitedEdgeTo
  <2>5. child \in Reachable(allPipes)
    BY <1>1, <1>3, <2>2, ReachableClosed DEF TypeOK
  <2>6. ~Repetition(currentNodes')
    <3>1. CASE currentNodes' = currentNodes
      BY <1>3, <3>1
    <3>2. CASE currentNodes' = Append(currentNodes, child)
      <4> DEFINE m == Len(currentNodes)
      <4>1. /\ m \in Nat
            /\ DOMAIN currentNodes = 1..m
        BY <1>1 DEF TypeOK
      <4>2. /\ DOMAIN currentNodes' = 1..(m + 1)
            /\ \A k \in 1..m : currentNodes'[k] = currentNodes[k]
            /\ currentNodes'[m + 1] = child
        BY <1>1, <2>2, <3>2, AppendMembers DEF TypeOK
      <4>3. \A k \in 1..m : currentNodes[k] # child
        BY <2>4, <4>1 DEF Ready, Members
      <4>4. \A k, l \in 1..m : k # l => currentNodes[k] # currentNodes[l]
        BY <1>3, <4>1 DEF Repetition
      <4>5. \A k \in 1..(m + 1) : k \in 1..m \/ k = m + 1
        BY <4>1
      <4> QED
        BY <4>2, <4>3, <4>4, <4>5 DEF Repetition
    <3> QED
      BY <2>2, <3>1, <3>2
  <2>7. ASSUME NEW j \in PendingPipes'
        PROVE  allPipes[j] \in unvisitedEdges'
    <3>1. /\ j \in DOMAIN allPipes /\ allPipes[j].from = Node
          /\ j \in Nat /\ i < j
      BY <1>1, <1>2, <2>2, <2>7, PipeListMembers
      DEF PendingPipes, OutgoingPipes, TypeOK
    <3>2. j \in PendingPipes
      <4>1. cursor < i /\ cursor \in Nat
        BY <1>1 DEF PendingPipes, TypeOK
      <4> QED
        BY <2>2, <3>1, <4>1 DEF PendingPipes, OutgoingPipes
    <3>3. allPipes[j] \in unvisitedEdges
      BY <1>3, <2>1, <3>2
    <3>4. allPipes[j].to # child
      <4>1. \A k, l \in IngoingPipes(allPipes, child) : k = l
        BY <2>5 DEF Accepted, NoMultipleBlockInputs
      <4> QED
        BY <2>2, <3>1, <4>1 DEF IngoingPipes
    <3> QED
      BY <2>2, <3>3, <3>4
  <2> QED
    BY <1>2, <1>3, <2>1, <2>2, <2>4, <2>5, <2>6, <2>7 DEF ListsAreRepetitionFree
<1>6. CASE EndOfChildren \/ Finish \/ UNCHANGED vars
  <2>1. /\ sortedNodes' = sortedNodes
        /\ currentNodes' = currentNodes
        /\ unvisitedEdges' = unvisitedEdges
        /\ Listed' = Listed /\ Ready' = Ready
        /\ PendingPipes' = PendingPipes
    BY <1>6, OtherEffect DEF PendingPipes
  <2>2. pc' = "children" => pc = "children"
    BY <1>6 DEF EndOfChildren, Finish, vars
  <2> QED
    BY <1>2, <1>3, <2>1, <2>2 DEF ListsAreRepetitionFree
<1> QED
  BY <1>4, <1>5, <1>6 DEF Next

(* In a pipeline the validation accepts, getBlocksInTopologicalSorting     *)
(* returns no block twice, so that executeBlocks runs every block once.    *)
THEOREM NoBlockTwiceHolds == Spec => []NoBlockTwice
<1>1. OnceInv => NoBlockTwice
  BY DEF OnceInv, ListsAreRepetitionFree, NoBlockTwice, Repetition
<1> QED
  BY <1>1, OnceInit, OnceStep, PTL DEF Spec

-----------------------------------------------------------------------------
(* What is returned for an accepted pipeline has every block of the pipes   *)
(* once, and every parent before the blocks that it pipes to.               *)
LEMMA ReturnedIsOrder ==
    ASSUME OrderInv, FailsExactlyOnCycles, NoBlockTwice
    PROVE  ReturnsAnOrder
<1> SUFFICES ASSUME pc = "returned", Accepted(allPipes)
             PROVE  sortedNodes \in TopologicalOrders(allPipes)
  BY DEF ReturnsAnOrder
<1> DEFINE n == Len(sortedNodes)
           S == PipedBlocks(allPipes)
<1>1. /\ allPipes \in Seq(Pipe) /\ sortedNodes \in Seq(Blocks)
      /\ Members(sortedNodes) = S
      /\ \A i, j \in DOMAIN sortedNodes : sortedNodes[i] = sortedNodes[j] => i = j
  BY DEF OrderInv, TypeOK, FailsExactlyOnCycles, NoBlockTwice, Listed
<1>2. n \in Nat /\ DOMAIN sortedNodes = 1..n /\ sortedNodes = [i \in 1..n |-> sortedNodes[i]]
  BY <1>1
<1>3. \A i \in 1..n : sortedNodes[i] \in S
  BY <1>1, <1>2 DEF Members
<1>4. sortedNodes \in [1..n -> S]
  BY <1>2, <1>3
<1>5. \A b \in S : \E i \in 1..n : sortedNodes[i] = b
  BY <1>1, <1>2 DEF Members
<1> HIDE DEF n, S
<1>6. sortedNodes \in Bijection(1..n, S)
  <2>1. \A i, j \in 1..n : sortedNodes[i] = sortedNodes[j] => i = j
    BY <1>1, <1>2
  <2>2. sortedNodes \in Injection(1..n, S)
    BY <1>4, <2>1 DEF Injection, IsInjective
  <2>3. sortedNodes \in Surjection(1..n, S)
    BY <1>4, <1>5 DEF Surjection
  <2> QED
    BY <2>2, <2>3 DEF Bijection
<1>7. Cardinality(S) = n
  <2>1. ExistsBijection(1..n, S)
    BY <1>6 DEF ExistsBijection
  <2> QED
    BY <1>2, <2>1, FS_CountingElements
<1>8. ASSUME NEW p \in PipeSet(allPipes), NEW i \in DOMAIN sortedNodes, NEW j \in DOMAIN sortedNodes,
             sortedNodes[i] = p.from, sortedNodes[j] = p.to
      PROVE  i < j
  <2>1. PICK k \in 1..(j - 1) : sortedNodes[k] = p.from
    BY <1>8 DEF OrderInv, ParentsFirst
  <2>2. j \in 1..n
    BY <1>2
  <2>3. k \in 1..n /\ k < j
    BY <1>2, <2>1, <2>2
  <2>4. k = i
    BY <1>1, <1>2, <1>8, <2>1, <2>3
  <2> QED
    BY <2>3, <2>4
<1> QED
  BY <1>1, <1>4, <1>7, <1>8 DEF TopologicalOrders, S

(* getBlocksInTopologicalSorting returns, for every pipeline the validation *)
(* accepts, one of the orders in which BlockExecution executes the blocks.  *)
THEOREM ReturnsAnOrderHolds == Spec => []ReturnsAnOrder
<1>1. OnceInv => NoBlockTwice
  BY DEF OnceInv, ListsAreRepetitionFree, NoBlockTwice, Repetition
<1>2. CycleInv /\ OnceInv => ReturnsAnOrder
  BY <1>1, CycleOutcome, ReturnedIsOrder DEF OnceInv
<1> QED
  BY <1>2, CycleInit, CycleStep, OnceInit, OnceStep, PTL DEF Spec

=============================================================================
