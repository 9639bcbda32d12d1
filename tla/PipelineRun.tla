----------------------------- MODULE PipelineRun -----------------------------
(***************************************************************************)
(* What executeBlocks promises of a pipeline: every block is executed once *)
(* and after all of its parents; the run succeeds when all blocks have     *)
(* been executed, or fails with the first block that fails, after which    *)
(* nothing is executed any more.                                           *)
(***************************************************************************)
EXTENDS PipelineGraph

VARIABLES
    pipes,   \* the pipes of the pipeline
    done,    \* the blocks that have been executed
    status   \* "running", "success" or "failure"

runVars == <<pipes, done, status>>

Init ==
    /\ pipes \in Seq(Pipe)
    /\ done = {}
    /\ status = "running"

ExecuteBlock(block) ==
    /\ status = "running"
    /\ block \in PipedBlocks(pipes) \ done
    /\ ParentBlocks(pipes, block) \subseteq done
    /\ done' = done \cup {block}
    /\ UNCHANGED <<pipes, status>>

Fail ==
    /\ status = "running"
    /\ done # PipedBlocks(pipes)
    /\ status' = "failure"
    /\ UNCHANGED <<pipes, done>>

Succeed ==
    /\ status = "running"
    /\ done = PipedBlocks(pipes)
    /\ status' = "success"
    /\ UNCHANGED <<pipes, done>>

Next == Fail \/ Succeed \/ \E block \in Blocks : ExecuteBlock(block)

SafeSpec == Init /\ [][Next]_runVars

Spec == SafeSpec /\ WF_runVars(Next)

=============================================================================
