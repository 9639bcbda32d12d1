----------------------------- MODULE MCImports -----------------------------
(* Imports and ImportChecks on small workspaces: all import graphs over    *)
(* four files, and all ways to publish an element over two imports.        *)
EXTENDS ImportChecks

CONSTANTS R, A, B, C, NotJayvee, Missing

MCFiles == {R, A, B, C, NotJayvee, Missing}
MCReadable == MCFiles \ {Missing}
MCJayveeFiles == MCFiles \ {NotJayvee}

Empty == [imports |-> <<>>, definitions |-> <<>>, exports |-> <<>>]

UseAll(file) == [path |-> file, useAll |-> TRUE, usedElements |-> <<>>]

Use(file, name, alias) ==
    [path |-> file, useAll |-> FALSE,
     usedElements |-> <<[element |-> name, alias |-> alias]>>]

Importing(files) == [Empty EXCEPT !.imports = MapSeq(files, UseAll)]

(* An import whose path is not there yet, as while it is typed. *)
Incomplete == UseAll(None)

Ordered(S) == SelectSeq(<<R, A, B, C>>, LAMBDA f : f \in S)

(* The root imports one file, or also files that cannot be loaded.         *)
Graphs ==
    {[text |-> [f \in MCFiles |->
                   CASE f = R -> [Empty EXCEPT !.imports = Append(MapSeq(start.first, UseAll), Incomplete)]
                     [] f \in {A, B, C} -> Importing(Ordered(graph[f]))
                     [] OTHER -> Empty],
      open |-> start.open] :
        graph \in [{A, B, C} -> SUBSET {R, A, B, C}],
        start \in {[first |-> <<NotJayvee, Missing, A>>, open |-> <<R>>],
                   [first |-> <<A>>, open |-> <<R, B>>]}}

Definition(name, published) == [name |-> name, isPublished |-> published]
Export(ref, alias) == [ref |-> ref, alias |-> alias]

Definers ==
    {[Empty EXCEPT !.definitions = <<Definition("e", published)>>, !.exports = exports] :
        published \in BOOLEAN,
        exports \in {<<>>, <<Export("e", "x")>>, <<Export("e", None)>>}}

Reexporters ==
    {[imports |-> <<import>>, definitions |-> definitions, exports |-> exports] :
        import \in {UseAll(B), Use(B, "e", None), Use(B, "e", "y"), Use(B, "x", None)},
        definitions \in {<<>>, <<Definition("e", TRUE)>>,
                        <<Definition("x", FALSE)>>, <<Definition("x", TRUE)>>},
        exports \in {<<>>} \cup {<<Export(ref, alias)>> :
                                    ref \in {"e", "x", "y", "z"}, alias \in {None, "x"}}}

Importers ==
    {[Empty EXCEPT !.imports = imports] :
        imports \in {<<UseAll(A)>>, <<Use(A, "e", None)>>, <<Use(A, "x", None)>>,
                     <<Use(A, "x", "e"), Use(B, "e", None)>>}}

Chains ==
    {[text |-> [f \in MCFiles |->
                   CASE f = R -> importer [] f = A -> reexporter [] f = B -> definer
                     [] OTHER -> Empty],
      open |-> <<R, A, B>>] :
        importer \in Importers, reexporter \in Reexporters, definer \in Definers}

MCWorkspaces == Graphs \cup Chains

-----------------------------------------------------------------------------
(* Loading comes to an end unless there is such a cycle.                   *)
LoadingEnds ==
    [](\/ \E f \in Unloaded : OnCycle(f, Unloaded)
       \/ <>Loaded)
=============================================================================
