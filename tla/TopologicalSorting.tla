------------------------- MODULE TopologicalSorting -------------------------
(***************************************************************************)
(* PipelineWrapper.getBlocksInTopologicalSorting: Kahn's algorithm with a  *)
(* stack of ready nodes, one action per iteration of each of its two       *)
(* loops.  The pipe list is chosen initially from Pipelines and never      *)
(* changes.  unvisitedEdges is read only through equals and its length, so *)
(* it is kept as a set; an iteration of the inner loop is identified by    *)
(* the index (cursor) of the outgoing pipe whose child it handles.         *)
(***************************************************************************)
EXTENDS PipelineGraph

CONSTANT Pipelines  \* the pipe lists to sort

ASSUME PipelinesAssumption == Pipelines \subseteq Seq(Pipe)

VARIABLES
    allPipes,        \* the pipe list of the wrapped pipeline
    sortedNodes,     \* the result so far
    currentNodes,    \* stack of the blocks whose parents are all listed
    unvisitedEdges,  \* the pipes not followed yet
    cursor,          \* index of the last pipe of Node that was followed
    pc               \* "loop", "children", "returned" or "failed"

vars == <<allPipes, sortedNodes, currentNodes, unvisitedEdges, cursor, pc>>

Init ==
    /\ allPipes \in Pipelines
    /\ sortedNodes = << >>
    /\ currentNodes \in StartingBlockLists(allPipes)
    /\ unvisitedEdges = PipeSet(allPipes)
    /\ cursor = 0
    /\ pc = "loop"

(* The outer loop takes the block pushed last and lists it. *)
PopNode ==
    /\ pc = "loop"
    /\ currentNodes # << >>
    /\ sortedNodes' = Append(sortedNodes, currentNodes[Len(currentNodes)])
    /\ currentNodes' = SubSeq(currentNodes, 1, Len(currentNodes) - 1)
    /\ cursor' = 0
    /\ pc' = "children"
    /\ UNCHANGED <<allPipes, unvisitedEdges>>

(* The block popped last is the one listed last. *)
Node == sortedNodes[Len(sortedNodes)]

(* The outgoing pipes of Node the inner loop has not handled yet. *)
PendingPipes == {i \in OutgoingPipes(allPipes, Node) : cursor < i}

NoUnvisitedEdgeTo(block, edges) == \A e \in edges : e.to # block

(* Mutant: a child is pushed with the first of its edges. *)
VisitChildWithoutCondition ==
    /\ pc = "children"
    /\ \E i \in PendingPipes :
          /\ \A j \in PendingPipes : i <= j
          /\ unvisitedEdges' = unvisitedEdges \ {allPipes[i]}
          /\ currentNodes' = Append(currentNodes, allPipes[i].to)
          /\ cursor' = i
    /\ UNCHANGED <<allPipes, sortedNodes, pc>>

(* The inner loop marks the edges from Node to the next child, and pushes  *)
(* the child when none of its ingoing edges is left unmarked.              *)
VisitChild ==
    /\ pc = "children"
    /\ \E i \in PendingPipes :
          /\ \A j \in PendingPipes : i <= j
          /\ unvisitedEdges' = unvisitedEdges \ {allPipes[i]}
          /\ currentNodes' = IF NoUnvisitedEdgeTo(allPipes[i].to, unvisitedEdges')
                             THEN Append(currentNodes, allPipes[i].to)
                             ELSE currentNodes
          /\ cursor' = i
    /\ UNCHANGED <<allPipes, sortedNodes, pc>>

EndOfChildren ==
    /\ pc = "children"
    /\ PendingPipes = {}
    /\ pc' = "loop"
    /\ UNCHANGED <<allPipes, sortedNodes, currentNodes, unvisitedEdges, cursor>>

(* Mutant: the list is returned without the assertion. *)
FinishWithoutAssertion ==
    /\ pc = "loop"
    /\ currentNodes = << >>
    /\ pc' = "returned"
    /\ UNCHANGED <<allPipes, sortedNodes, currentNodes, unvisitedEdges, cursor>>

(* Mutant: the outer loop goes on until every edge is visited. *)
FinishWhenAllVisited ==
    /\ pc = "loop"
    /\ currentNodes = << >>
    /\ unvisitedEdges = {}
    /\ pc' = "returned"
    /\ UNCHANGED <<allPipes, sortedNodes, currentNodes, unvisitedEdges, cursor>>

(* The assertion that every edge was visited, then the return. *)
Finish ==
    /\ pc = "loop"
    /\ currentNodes = << >>
    /\ pc' = IF unvisitedEdges = {} THEN "returned" ELSE "failed"
    /\ UNCHANGED <<allPipes, sortedNodes, currentNodes, unvisitedEdges, cursor>>

Next == PopNode \/ VisitChild \/ EndOfChildren \/ Finish

(* The loop runs in one synchronous call, which nothing suspends. *)
Spec == Init /\ [][Next]_vars /\ WF_vars(Next)

-----------------------------------------------------------------------------
(* Properties *)

Listed == Members(sortedNodes)

Ready == Members(currentNodes)

(* Every variable has its type, and edges are only ever removed. *)
TypeOK ==
    /\ allPipes \in Seq(Pipe)
    /\ sortedNodes \in Seq(Blocks)
    /\ currentNodes \in Seq(Blocks)
    /\ unvisitedEdges \subseteq PipeSet(allPipes)
    /\ cursor \in Nat
    /\ pc \in {"loop", "children", "returned", "failed"}

(* A block is listed only behind all of its parents, whatever the graph:   *)
(* executeBlocks reads a parent's output before it runs the block.         *)
ParentsFirst ==
    \A i \in DOMAIN sortedNodes :
        \A p \in PipeSet(allPipes) :
            p.to = sortedNodes[i] => \E j \in 1..(i - 1) : sortedNodes[j] = p.from

(* In a pipeline the validation accepts, no block is listed twice, so that *)
(* executeBlocks runs it once.  Two equal pipes would push it twice.       *)
NoBlockTwice ==
    Accepted(allPipes) =>
        \A i, j \in DOMAIN sortedNodes : sortedNodes[i] = sortedNodes[j] => i = j

(* The assertion at the end fails exactly for the graphs with a cycle, and *)
(* a returned list has every block that a pipe touches.                    *)
FailsExactlyOnCycles ==
    /\ pc = "failed" => Cyclic(allPipes)
    /\ pc = "returned" => /\ ~Cyclic(allPipes)
                          /\ Listed = PipedBlocks(allPipes)

(* What executeBlocks relies on: in a pipeline the validation accepts, the  *)
(* list that is returned is one of the orders BlockExecution executes in.   *)
ReturnsAnOrder ==
    pc = "returned" /\ Accepted(allPipes) => sortedNodes \in TopologicalOrders(allPipes)

(* Kahn's loop ends for every graph, cyclic or with repeated pipes. *)
Termination == <>(pc \in {"returned", "failed"})

(* The parts of the inductive invariants: what the algorithm relies on     *)
(* between its steps.                                                      *)

(* An edge is marked only when the block it leaves is listed. *)
VisitedEdgesLeaveListed ==
    \A p \in PipeSet(allPipes) \ unvisitedEdges : p.from \in Listed

(* A listed or ready block has no unvisited ingoing edge. *)
ReadyBlocksAreComplete ==
    \A b \in Listed \cup Ready : NoUnvisitedEdgeTo(b, unvisitedEdges)

NodeIsListed == pc = "children" => sortedNodes # << >>

(* Conversely, an unvisited edge of a listed block is one the inner loop   *)
(* has still to follow, and a block without unvisited ingoing edges has    *)
(* been pushed.                                                            *)
UnvisitedEdgesArePending ==
    \A p \in unvisitedEdges :
        p.from \in Listed =>
            /\ pc = "children"
            /\ \E i \in PendingPipes : allPipes[i] = p

CompleteBlocksAreReady ==
    \A b \in PipedBlocks(allPipes) :
        NoUnvisitedEdgeTo(b, unvisitedEdges) => b \in Listed \cup Ready

OnlyPipedBlocks == Listed \cup Ready \subseteq PipedBlocks(allPipes)

(* No block of a cycle ever becomes ready. *)
CyclesAreNeverReady ==
    \A S \in SUBSET Blocks :
        SelfSupporting(allPipes, S) => S \cap (Listed \cup Ready) = {}

OutcomeMatchesEdges ==
    /\ pc = "failed" => currentNodes = << >> /\ unvisitedEdges # {}
    /\ pc = "returned" => currentNodes = << >> /\ unvisitedEdges = {}

(* In an accepted pipeline both lists are free of repetitions and disjoint, *)
(* hold blocks the validation has seen, and no pending pipe is visited.     *)
Repetition(list) == \E i, j \in DOMAIN list : i # j /\ list[i] = list[j]

ListsAreRepetitionFree ==
    Accepted(allPipes) =>
        /\ Listed \cup Ready \subseteq Reachable(allPipes)
        /\ ~Repetition(sortedNodes)
        /\ ~Repetition(currentNodes)
        /\ Listed \cap Ready = {}
        /\ pc = "children" =>
              \A i \in PendingPipes : allPipes[i] \in unvisitedEdges

=============================================================================
