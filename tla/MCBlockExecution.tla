-------------------------- MODULE MCBlockExecution --------------------------
(***************************************************************************)
(* Programs for TLC: a pipeline of the blocks p1, p2, p3 that may be of    *)
(* the composite types C and D, where C holds c1 and c2, which may in turn *)
(* be of type D, and D holds the built-in blocks d1 and d2.                *)
(***************************************************************************)
EXTENDS BlockExecution

CONSTANTS p1, p2, p3, c1, c2, d1, d2, C, D, x, y

To(a, b) == [from |-> a, to |-> b]

PipelinePipes ==
    { <<To(p1, p2), To(p2, p3)>>, <<To(p1, p2), To(p1, p3)>> }

(* The types of p1, p2, p3, c1 and c2. *)
Typings ==
    {t \in [Blocks -> {C, D, BUILTIN}] :
        /\ t[p1] \in {C, BUILTIN} /\ t[p2] \in {C, D, BUILTIN}
        /\ t[p3] = BUILTIN
        /\ t[c1] \in {D, BUILTIN} /\ t[c2] = BUILTIN
        /\ t[d1] = BUILTIN /\ t[d2] = BUILTIN}

ProgramOf(pipes, ofC, ofD, type, propsC, propsD, hasDefault, readC, readD) ==
    [pipes      |-> [c \in Containers |->
                        CASE c = PIPELINE -> pipes [] c = C -> ofC [] c = D -> ofD],
     home       |-> [b \in Blocks |->
                        CASE b \in {p1, p2, p3} -> PIPELINE
                          [] b \in {c1, c2} -> C
                          [] b \in {d1, d2} -> D],
     type       |-> type,
     output     |-> [t \in CompositeTypes |-> IF t = C THEN c2 ELSE d2],
     properties |-> [t \in CompositeTypes |-> IF t = C THEN propsC ELSE propsD],
     default    |-> [t \in CompositeTypes |-> [n \in Names |->
                        IF hasDefault THEN LITERAL ELSE ABSENT]],
     \* c1 hands its own type's first property to the nested block
     assigned   |-> [b \in Blocks |-> [n \in Names |->
                        IF b = c1 THEN propsC[1]
                        ELSE IF hasDefault THEN ABSENT ELSE LITERAL]],
     reads      |-> [b \in Blocks |->
                        CASE b = c2 -> readC [] b = d1 -> readD [] OTHER -> {}],
     nesting    |-> [c \in Containers |->
                        CASE c = PIPELINE -> 0 [] c = C -> 1 [] c = D -> 2]]

(* Both composite types have a pipe of two blocks and properties of names   *)
(* that no nested type uses.                                                *)
DistinctNamePrograms ==
    {ProgramOf(pipes, <<To(c1, c2)>>, <<To(d1, d2)>>, type, <<x>>, <<y>>,
               hasDefault, {x}, {y}) :
        pipes \in PipelinePipes, type \in Typings, hasDefault \in BOOLEAN}

(* As in the documentation's example, the nested type has a property of the *)
(* same name; here the outer type's next block reads it too.                *)
SameNamePrograms ==
    {ProgramOf(pipes, <<To(c1, c2)>>, <<To(d1, d2)>>, type, <<x>>, <<x>>,
               FALSE, {x}, {x}) :
        pipes \in PipelinePipes, type \in Typings}

(* Type D has a pipe of the single block d2, and hence no pipe between two. *)
SingleBlockPrograms ==
    {ProgramOf(pipes, <<To(c1, c2)>>, << >>, type, <<x>>, <<y>>, FALSE, {x}, {}) :
        pipes \in PipelinePipes, type \in Typings}

(* The pipeline has, beside a pipe, a cycle that no starting block leads to. *)
CyclicPrograms ==
    {ProgramOf(<<To(p1, p2), To(p3, p3)>>, <<To(c1, c2)>>, <<To(d1, d2)>>, type,
               <<x>>, <<y>>, FALSE, {x}, {y}) : type \in Typings}

(* Type D has a pipe in which a block occurs twice; a property is missing. *)
FaultyPrograms ==
    SameNamePrograms \cup SingleBlockPrograms \cup CyclicPrograms \cup
    {ProgramOf(pipes, <<To(c1, c2)>>, <<To(d1, d2), To(d2, d1)>>, type,
               <<x>>, <<y>>, FALSE, {x}, {y}) :
        pipes \in PipelinePipes, type \in Typings}
    \cup
    {[prog EXCEPT !.assigned = [b \in Blocks |-> [n \in Names |-> ABSENT]]] :
        prog \in {q \in DistinctNamePrograms : q.default[C][x] = ABSENT}}

AllPrograms == DistinctNamePrograms \cup FaultyPrograms

(* The proofs about programs in which nothing is disturbed apply to these. *)
ASSUME DistinctNamesAreHealthy ==
    Programs = DistinctNamePrograms =>
        \A prog \in Programs : Healthy(prog) /\ HasSingleStarts(prog)

=============================================================================
