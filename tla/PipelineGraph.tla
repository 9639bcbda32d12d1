--------------------------- MODULE PipelineGraph ---------------------------
(***************************************************************************)
(* The graph of a pipeline (or of a composite block type): its blocks are  *)
(* the nodes and its pipes the edges.  The pipes are kept as the list      *)
(* PipelineWrapper.allPipes, in source order and with every repetition;    *)
(* the operators below are the queries of that class and what the          *)
(* validation accepts.  A pipe is identified by its index in the list      *)
(* wherever the code distinguishes equal pipes.                            *)
(***************************************************************************)
EXTENDS Integers, Sequences, FiniteSets

CONSTANT Blocks

Pipe == [from : Blocks, to : Blocks]

Members(list) == {list[i] : i \in DOMAIN list}

(* PipeWrapper.equals compares from and to, as equality of Pipe does. *)
PipeSet(pipes) == Members(pipes)

OutgoingPipes(pipes, block) == {i \in DOMAIN pipes : pipes[i].from = block}

IngoingPipes(pipes, block) == {i \in DOMAIN pipes : pipes[i].to = block}

ParentBlocks(pipes, block) == {pipes[i].from : i \in IngoingPipes(pipes, block)}

StartingBlocks(pipes) ==
    {pipes[i].from : i \in {j \in DOMAIN pipes :
                               IngoingPipes(pipes, pipes[j].from) = {}}}

(* Source order of the blocks pipes come from: a Set keeps first insertions. *)
ListedBefore(pipes, a, b) ==
    \E i \in OutgoingPipes(pipes, a) :
        \A j \in OutgoingPipes(pipes, b) : i < j

(* Mutant: getStartingBlocks without the Set, a block for every pipe. *)
StartingBlockListsWithRepetitions(pipes) ==
    LET Starts(p) == p.from \in StartingBlocks(pipes)
        starting  == SelectSeq(pipes, Starts)
    IN  {[i \in DOMAIN starting |-> starting[i].from]}

(* The lists getStartingBlocks can return: exactly one for every pipe list. *)
StartingBlockLists(pipes) ==
    {list \in UNION {[1..n -> StartingBlocks(pipes)] : n \in 0..Len(pipes)} :
        /\ Members(list) = StartingBlocks(pipes)
        /\ \A i, j \in DOMAIN list :
              i < j => ListedBefore(pipes, list[i], list[j])}

-----------------------------------------------------------------------------
(* Validation *)

(* The blocks the recursive check visits: all that a starting block leads to. *)
Reachable(pipes) ==
    {b \in Blocks :
        \A R \in SUBSET Blocks :
            (/\ StartingBlocks(pipes) \subseteq R
             /\ \A p \in PipeSet(pipes) : p.from \in R => p.to \in R)
            => b \in R}

HasStartingBlock(pipes) == StartingBlocks(pipes) # {}

(* checkMultipleBlockInputs raises no error.  Its recursion does not end on *)
(* a cycle it reaches, but then the block where the cycle is entered has    *)
(* two ingoing pipes and the error has been raised.                         *)
NoMultipleBlockInputs(pipes) ==
    \A b \in Reachable(pipes) :
        \A i, j \in IngoingPipes(pipes, b) : i = j

Accepted(pipes) == HasStartingBlock(pipes) /\ NoMultipleBlockInputs(pipes)

-----------------------------------------------------------------------------
(* Notions the properties are stated with *)

PipedBlocks(pipes) ==
    {p.from : p \in PipeSet(pipes)} \cup {p.to : p \in PipeSet(pipes)}

(* A set of blocks each of which has a parent within the set.  In a finite *)
(* graph a nonempty one exists exactly if there is a cycle.                *)
SelfSupporting(pipes, S) ==
    \A b \in S : \E p \in PipeSet(pipes) : p.to = b /\ p.from \in S

Cyclic(pipes) == \E S \in SUBSET Blocks : S # {} /\ SelfSupporting(pipes, S)

(* Mutant: the blocks in any order. *)
UnsortedOrders(pipes) ==
    {order \in [1..Cardinality(PipedBlocks(pipes)) -> PipedBlocks(pipes)] :
        /\ Members(order) = PipedBlocks(pipes)
        /\ \A i, j \in DOMAIN order : order[i] = order[j] => i = j}

(* The lists the topological sorting may return for an acyclic graph: every *)
(* block once, and behind its parents.                                      *)
TopologicalOrders(pipes) ==
    {order \in [1..Cardinality(PipedBlocks(pipes)) -> PipedBlocks(pipes)] :
        /\ Members(order) = PipedBlocks(pipes)
        /\ \A i, j \in DOMAIN order : order[i] = order[j] => i = j
        /\ \A p \in PipeSet(pipes) :
              \A i, j \in DOMAIN order :
                  order[i] = p.from /\ order[j] = p.to => i < j}

=============================================================================
