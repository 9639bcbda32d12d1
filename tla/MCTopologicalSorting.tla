------------------------ MODULE MCTopologicalSorting ------------------------
(* All pipe lists of at most MaxPipes pipes between the given blocks.      *)
EXTENDS TopologicalSorting, SequencesExt

CONSTANT MaxPipes

MCPipelines == BoundedSeq(Pipe, MaxPipes)

=============================================================================
