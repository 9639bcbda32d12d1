---------------------------- MODULE ImportChecks ----------------------------
(***************************************************************************)
(* What the validation reports about imports and exports, what completion  *)
(* suggests for them and where a jump to a definition leads, over the      *)
(* state of Imports.                                                       *)
(***************************************************************************)
EXTENDS Imports

Occurrences(list, Test(_)) == Cardinality({i \in DOMAIN list : Test(list[i])})

-----------------------------------------------------------------------------
(* Import definitions *)

(* Mutant: the names of export definitions are not considered. *)
AllExportsOfDefinitions(file) ==
    {d.name : d \in {x \in Members(text[file].definitions) : x.isPublished}}

(* checkImportedElementsExist computes the published names anew: unlike    *)
(* getExportedElements it does not ask whether the target is exported, and *)
(* takes an alias also when the target is unknown.                         *)
AllExports(file) ==
    {d.name : d \in {x \in Members(text[file].definitions) : x.isPublished}}
    \cup {IF e.alias # None THEN e.alias ELSE Referenced(file, e.ref, AllPublished).name :
             e \in {x \in Members(text[file].exports) :
                       x.alias # None \/ Referenced(file, x.ref, AllPublished) # None}}

ElementsExist(import) ==
    \A named \in Members(import.usedElements) : named.element \in AllExports(import.path)

ElementsOnlyOnce(import) ==
    \A i, j \in DOMAIN import.usedElements :
        import.usedElements[i].element = import.usedElements[j].element => i = j

FileOnlyOnce(file, import) ==
    Occurrences(text[file].imports, LAMBDA i : i.path = import.path) <= 1

(* analyzeImportChain: one set of visited documents serves all branches.   *)
(* Before the import, and deeper down, is known whether there is a cycle   *)
(* and which documents are visited.                                        *)
AnalyzeImport(import, before, deeper) ==
    IF ResolveImport(import) = None THEN before
    ELSE IF import.path \in before.visited THEN [before EXCEPT !.isCyclic = TRUE]
    ELSE LET inner == deeper[import.path][before.visited]
         IN  [inner EXCEPT !.isCyclic = @ \/ before.isCyclic]

(* Mutant: only the first import is followed. *)
AnalyzeFirstImport(file, visited, deeper) ==
    LET before == [isCyclic |-> FALSE, visited |-> visited \cup {file}]
    IN  IF text[file].imports = <<>> THEN before
        ELSE AnalyzeImport(Head(text[file].imports), before, deeper)

AnalyzeImports(file, visited, deeper) ==
    LET after[k \in 0..Len(text[file].imports)] ==
            IF k = 0 THEN [isCyclic |-> FALSE, visited |-> visited \cup {file}]
            ELSE AnalyzeImport(text[file].imports[k], after[k - 1], deeper)
    IN  after[Len(text[file].imports)]

(* Each document is visited once, so that the recursion is no deeper than  *)
(* there are files.                                                        *)
Analysis[n \in Nat] ==
    [file \in Files |-> [visited \in SUBSET Files |->
        IF n = 0 THEN [isCyclic |-> FALSE, visited |-> visited]
        ELSE AnalyzeImports(file, visited, Analysis[n - 1])]]

ReportsCycle(import) ==
    /\ ResolveImport(import) # None
    /\ Analysis[Cardinality(Files)][import.path][{}].isCyclic

(* validateImportDefinition raises no error: the other checks are made     *)
(* only if the path can be resolved.                                       *)
ImportAccepted(file, import) ==
    /\ ResolveImport(import) # None
    /\ ElementsExist(import)
    /\ ~ReportsCycle(import)
    /\ ElementsOnlyOnce(import)
    /\ FileOnlyOnce(file, import)

-----------------------------------------------------------------------------
(* Export definitions and the names of a model *)

NotAlreadyPublished(file, export) ==
    LET target == Referenced(file, export.ref, AllPublished)
    IN  target # None =>
            ~\E d \in Members(text[target.file].definitions) :
                d.name = target.name /\ d.isPublished

AliasUnique(file, export) ==
    export.alias # None =>
        Occurrences(ExportedElements(file, AllPublished),
                    LAMBDA x : x.exportName = export.alias) = 1

(* checkUniqueNames of the root elements, the imported ones included. *)
UniqueRootNames(file) ==
    LET names == MapSeq(text[file].definitions, LAMBDA d : d.name)
                 \o MapSeq(ImportedElements(file, AllPublished), LAMBDA x : x.importName)
    IN  \A i, j \in DOMAIN names : names[i] = names[j] => i = j

(* No error in a file: its references are resolved as well. *)
FileAccepted(file) ==
    /\ \A i \in Members(text[file].imports) : ImportAccepted(file, i)
    /\ \A e \in Members(text[file].exports) :
          /\ Referenced(file, e.ref, AllPublished) # None
          /\ NotAlreadyPublished(file, e)
          /\ AliasUnique(file, e)
    /\ UniqueRootNames(file)

-----------------------------------------------------------------------------
(* The editor *)

(* Names suggested within the braces of an import. *)
SuggestedElements(import) ==
    IF ResolveImport(import) = None THEN {}
    ELSE {x.exportName : x \in Members(ExportedElements(import.path, AllPublished))}

(* The element a jump leads to. *)
ElementTarget(import, named) ==
    IF ResolveImport(import) = None THEN None
    ELSE LET found == FirstMatch(ExportedElements(import.path, AllPublished),
                                 LAMBDA x : x.exportName = named.element)
         IN  IF found = None THEN None ELSE found.element

(* Paths suggested for an import: every other document that is not builtin. *)
SuggestedPaths(file) == documents \ {file}

-----------------------------------------------------------------------------
(* Notions of the properties: what is published when no cache is asked,    *)
(* and what is imported twice                                              *)

Actual[n \in Nat] ==
    [f \in Files |-> IF n = 0 THEN <<>> ELSE ExportedElements(f, Actual[n - 1])]

ActuallyPublished == Actual[Cardinality(Files)]

(* A document two import definitions within what the import leads to name, *)
(* or one of these and the import itself.                                  *)
ImportedTwice(import) ==
    LET reached == Closure({import.path} \cap documents, documents)
    IN  \E f, g \in reached :
            \E i \in DOMAIN text[f].imports, j \in DOMAIN text[g].imports :
                /\ text[f].imports[i].path \in documents
                /\ \/ text[f].imports[i].path = import.path
                   \/ <<f, i>> # <<g, j>> /\ text[f].imports[i].path = text[g].imports[j].path

-----------------------------------------------------------------------------
(* Properties *)

(* An import without errors leads to no cycle.                             *)
CyclesAreReported ==
    Loaded =>
        \A f \in documents : \A i \in Members(text[f].imports) :
            (ResolveImport(i) # None /\ ~ReportsCycle(i))
                => \A g \in Closure({i.path}, documents) : ~OnCycle(g, documents)

(* What the set shared by the branches costs: a cycle is reported exactly  *)
(* if a second import definition leads to a document already visited.      *)
ReportedExactlyIfImportedTwice ==
    Loaded =>
        \A f \in documents : \A i \in Members(text[f].imports) :
            ResolveImport(i) # None => (ReportsCycle(i) <=> ImportedTwice(i))

(* The computations of what a file offers agree where the file has no      *)
(* error: an element the validation lets pass is one the scope provides,   *)
(* and the one that a jump to its definition leads to.                     *)
AcceptedElementsResolve ==
    (Loaded /\ edits = 0) =>
        \A f \in documents : \A i \in Members(text[f].imports) :
            (ImportAccepted(f, i) /\ FileAccepted(i.path) /\ ~i.useAll) =>
                MapSeq(FromDocument(i, AllPublished[i.path]), LAMBDA x : x.element)
                    = MapSeq(i.usedElements, LAMBDA named : ElementTarget(i, named))

(* What completion suggests, the validation accepts.                       *)
SuggestionsAreAccepted ==
    (Loaded /\ edits = 0) =>
        \A f \in documents : \A i \in Members(text[f].imports) :
            /\ ResolveImport(i) # None => SuggestedElements(i) \subseteq AllExports(i.path)
            /\ \A path \in SuggestedPaths(f) : ResolveImport([i EXCEPT !.path = path]) # None

(* A file without errors publishes two elements under one name only if it  *)
(* exports, without an alias, an element it imports under another name.    *)
AmbiguousOnlyByRenaming ==
    Loaded =>
        \A f \in documents :
            FileAccepted(f) =>
                \A x, y \in Members(ExportedElements(f, AllPublished)) :
                    (x.exportName = y.exportName /\ x # y) =>
                        \E e \in Members(text[f].exports) :
                            /\ e.alias = None
                            /\ LET target == Referenced(f, e.ref, AllPublished)
                               IN  target.file # f /\ target.name # e.ref

(* The cache is out of date only for elements of a file that the imports   *)
(* of the cached file lead to: one that was edited after a file exporting  *)
(* its elements had been looked up.                                        *)
StaleElementsAreReexported ==
    \A f \in Files :
        cache[f] # None =>
            \A x \in Members(cache[f]) :
                x.element.version < version[x.element.file] =>
                    x.element.file \in Closure(ImportedFiles(f) \cap documents, documents)

LeadsToNoCycle(f) == \A g \in Closure({f}, documents) : ~OnCycle(g, documents)

(* Without edits it is never out of date: a list computed from some cached *)
(* lists is the one that is computed without a cache.                      *)
UneditedCacheIsUpToDate ==
    edits = 0 =>
        \A f \in Files :
            (cache[f] # None /\ LeadsToNoCycle(f)) => cache[f] = ActuallyPublished[f]

StaleOnlyByReexport == StaleElementsAreReexported /\ UneditedCacheIsUpToDate

(* Validation, scope, completion and jumps to definitions compute what a   *)
(* file offers each in its own way, and agree.                             *)
ElementsAgree ==
    AcceptedElementsResolve /\ SuggestionsAreAccepted /\ AmbiguousOnlyByRenaming

(* The report of cycles misses none, and is known for what it reports else.*)
CycleReportsAreKnown == CyclesAreReported /\ ReportedExactlyIfImportedTwice
=============================================================================
