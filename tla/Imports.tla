------------------------------ MODULE Imports ------------------------------
(***************************************************************************)
(* How the files that a Jayvee model imports get into the workspace, which *)
(* elements an import makes available, and what the validation reports.    *)
(*                                                                         *)
(* Langium builds documents phase by phase and calls its listeners after   *)
(* each phase.  The listener of addDynamicFileImport reads the files that  *)
(* the documents of the build import and that the workspace does not have, *)
(* and builds each of them, which calls the listener again, before it adds *)
(* the document: the nested builds are the stack below.  Afterwards files  *)
(* are edited and their published elements looked up through a cache.      *)
(***************************************************************************)
EXTENDS Naturals, Sequences, FiniteSets

CONSTANTS
    Files,          \* the URIs that occur
    Readable,       \* the files that can be read from the file system
    JayveeFiles,    \* the files whose name ends with a Jayvee extension
    None,           \* no alias, no element
    Workspaces,     \* the workspaces to start from: [text, open]
    MaxNesting,     \* bound on the nested builds
    MaxEdits        \* bound on the edits

ASSUME FilesAssumption ==
    /\ Readable \subseteq Files
    /\ JayveeFiles \subseteq Files
    /\ None \notin Files
    /\ IsFiniteSet(Files)
    /\ MaxNesting \in Nat
    /\ MaxEdits \in Nat

(* What is parsed of a file. *)
UsedElement == [element : STRING, alias : {None} \cup STRING]

Model ==
    [imports     : Seq([path : Files \cup {None}, useAll : BOOLEAN,
                        usedElements : Seq(UsedElement)]),
     definitions : Seq([name : STRING, isPublished : BOOLEAN]),
     exports     : Seq([ref : STRING, alias : {None} \cup STRING])]

(* An element of a file is the AST node of a definition, told apart by its  *)
(* name and by how often the file was parsed anew.                         *)
AstNode == [file : Files, name : STRING, version : Nat]
PublishedElement == [element : AstNode, exportName : STRING]
ImportedElement == [element : AstNode, importName : STRING]

ASSUME NoneAssumption == None \notin PublishedElement

ASSUME WorkspacesAssumption ==
    \A w \in Workspaces : w.text \in [Files -> Model] /\ w.open \in Seq(Files)

VARIABLES
    text,       \* file -> its model: imports, definitions, exports
    documents,  \* the files LangiumDocuments has
    builds,     \* the nested builds, the innermost last
    version,    \* file -> how often it was edited; tells its AST nodes apart
    cache,      \* file -> its cached published elements, None if not cached
    edits

vars == <<text, documents, builds, version, cache, edits>>

Members(list) == {list[i] : i \in DOMAIN list}

MapSeq(list, Op(_)) == [i \in DOMAIN list |-> Op(list[i])]

Flatten(lists) ==
    LET FirstOf[n \in 0..Len(lists)] ==
            IF n = 0 THEN <<>> ELSE FirstOf[n - 1] \o lists[n]
    IN  FirstOf[Len(lists)]

FirstMatch(list, Test(_)) ==
    LET found == {i \in DOMAIN list : Test(list[i])}
    IN  IF found = {} THEN None ELSE list[CHOOSE i \in found : \A j \in found : i <= j]

LastMatch(list, Test(_)) ==
    LET found == {i \in DOMAIN list : Test(list[i])}
    IN  IF found = {} THEN None ELSE list[CHOOSE i \in found : \A j \in found : j <= i]

-----------------------------------------------------------------------------
(* Resolving imports.  The path of an import is the file it denotes, or    *)
(* None when it is missing or empty.                                       *)

ResolveImport(import) ==
    IF import.path # None /\ import.path \in documents THEN import.path ELSE None

(* The paths of some of the imports, in source order and with repetitions: *)
(* the set of the one such list.                                           *)
InSourceOrder(imports, positions) ==
    {[k \in DOMAIN order |-> imports[order[k]].path] :
        order \in {o \in [1..Cardinality(positions) -> positions] :
                      /\ Members(o) = positions
                      /\ \A i, j \in DOMAIN o : i < j => o[i] < o[j]}}

(* Mutant: also the imports whose file the workspace has. *)
FindAllImports(model) ==
    InSourceOrder(model.imports,
                  {i \in DOMAIN model.imports : model.imports[i].path # None})

FindUnresolvedImports(model) ==
    InSourceOrder(model.imports,
                  {i \in DOMAIN model.imports :
                      model.imports[i].path \notin documents \cup {None}})

-----------------------------------------------------------------------------
(* Loading *)

Build(docs, loads) == [docs |-> docs, unresolved |-> <<>>, loads |-> loads]

Top == builds[Len(builds)]
SetTop(build) == [builds EXCEPT ![Len(builds)] = build]
Pop == SubSeq(builds, 1, Len(builds) - 1)

Init ==
    \E w \in Workspaces :
        /\ text = w.text
        /\ documents = Members(w.open)
        /\ builds = <<Build(w.open, None)>>
        /\ version = [f \in Files |-> 0]
        /\ cache = [f \in Files |-> None]
        /\ edits = 0

(* The listener takes the next document of the build. *)
NextDocument ==
    /\ builds # <<>>
    /\ Top.unresolved = <<>>
    /\ Top.docs # <<>>
    /\ \E uris \in FindUnresolvedImports(text[Head(Top.docs)]) :
          builds' = SetTop([Top EXCEPT !.docs = Tail(@), !.unresolved = uris])
    /\ UNCHANGED <<text, documents, version, cache, edits>>

(* Mutant: the document is added without a build of its own. *)
LoadDocumentWithoutBuild ==
    /\ builds # <<>>
    /\ Top.unresolved # <<>>
    /\ LET uri == Head(Top.unresolved)
       IN  documents' = IF uri \in JayveeFiles /\ uri \in Readable
                        THEN documents \cup {uri} ELSE documents
    /\ builds' = SetTop([Top EXCEPT !.unresolved = Tail(@)])
    /\ UNCHANGED <<text, version, cache, edits>>

(* loadDocumentFromFs up to the nested build, or its early returns. *)
LoadDocument ==
    /\ builds # <<>>
    /\ Top.unresolved # <<>>
    /\ Len(builds) < MaxNesting
    /\ LET uri  == Head(Top.unresolved)
           rest == SetTop([Top EXCEPT !.unresolved = Tail(@)])
       IN  builds' = IF uri \in JayveeFiles /\ uri \in Readable
                     THEN Append(rest, Build(<<uri>>, uri))
                     ELSE rest
    /\ UNCHANGED <<text, documents, version, cache, edits>>

(* The build has ended; under the lock of the workspace its document is    *)
(* added unless it is there, and the listener of the outer build goes on.  *)
EndBuild ==
    /\ builds # <<>>
    /\ Top.unresolved = <<>>
    /\ Top.docs = <<>>
    /\ builds' = Pop
    /\ documents' = IF Top.loads = None THEN documents
                    ELSE documents \cup {Top.loads}
    /\ UNCHANGED <<text, version, cache, edits>>

Loaded == builds = <<>>

-----------------------------------------------------------------------------
(* The elements a document publishes.  An element is an AST node: its file *)
(* and name, and the version of the file it was parsed from.               *)

Node(file, name) == [file |-> file, name |-> name, version |-> version[file]]

Local(file, name) == \E d \in Members(text[file].definitions) : d.name = name

(* getImportedElements: what the imports of a file make available, given   *)
(* the published elements of every document.                               *)
FromDocument(import, published) ==
    IF import.useAll
    THEN MapSeq(published, LAMBDA x : [element |-> x.element, importName |-> x.exportName])
    ELSE LET Found(named) == FirstMatch(published, LAMBDA x : x.exportName = named.element)
         IN  Flatten(MapSeq(import.usedElements, LAMBDA named :
                 IF Found(named) = None THEN <<>>
                 ELSE <<[element |-> Found(named).element,
                         importName |-> IF named.alias # None THEN named.alias ELSE named.element]>>))

ImportedElements(file, published) ==
    Flatten(MapSeq(text[file].imports, LAMBDA i :
        IF ResolveImport(i) = None THEN <<>> ELSE FromDocument(i, published[i.path])))

(* The target of a reference: a definition of the same file, else the last *)
(* of the imported elements of that name, as a MapScope keeps it.          *)
Referenced(file, name, published) ==
    IF Local(file, name) THEN Node(file, name)
    ELSE LET found == LastMatch(ImportedElements(file, published),
                                LAMBDA x : x.importName = name)
         IN  IF found = None THEN None ELSE found.element

(* isElementExported: published where it is defined, or by an export       *)
(* definition of that file.                                                *)
ElementExported(node) ==
    \/ \E d \in Members(text[node.file].definitions) : d.name = node.name /\ d.isPublished
    \/ \E e \in Members(text[node.file].exports) : e.ref = node.name

(* getExportedElements *)
ExportedElements(file, published) ==
    LET Target(e) == Referenced(file, e.ref, published)
        IsExported(e) == Target(e) # None /\ ElementExported(Target(e))
    IN  Flatten(MapSeq(text[file].definitions, LAMBDA d :
                    IF ~d.isPublished THEN <<>>
                    ELSE <<[element |-> Node(file, d.name), exportName |-> d.name]>>))
        \o Flatten(MapSeq(text[file].exports, LAMBDA e :
                       IF ~IsExported(e) THEN <<>>
                       ELSE <<[element |-> Target(e),
                               exportName |-> IF e.alias # None THEN e.alias ELSE Target(e).name]>>))

(* Published elements of all documents as the cache answers them: a cached *)
(* list as it is, the others computed from those of the imported files.    *)
Published[n \in Nat] ==
    [f \in Files |->
        IF cache[f] # None THEN cache[f]
        ELSE IF n = 0 THEN <<>>
        ELSE ExportedElements(f, Published[n - 1])]

AllPublished == Published[Cardinality(Files)]

(* The files whose published elements are asked for on the way: resolving  *)
(* an export that the file does not define consults all of its imports.    *)
Consulted[n \in Nat] ==
    [f \in Files |->
        {f} \cup
        IF n > 0 /\ cache[f] = None
              /\ \E e \in Members(text[f].exports) : ~Local(f, e.ref)
        THEN UNION {Consulted[n - 1][i.path] :
                    i \in {j \in Members(text[f].imports) : ResolveImport(j) # None}}
        ELSE {}]

(* Something asks for the published elements of a document. *)
LookUp(f) ==
    /\ Loaded
    /\ f \in documents
    /\ cache[f] = None
    /\ LET consulted == Consulted[Cardinality(Files)][f]
       IN  cache' = [g \in Files |-> IF g \in consulted THEN AllPublished[g] ELSE cache[g]]
    /\ UNCHANGED <<text, documents, builds, version, edits>>

(* Mutant: the cache is not told of the update. *)
EditKeepingCache(f, model) ==
    /\ Loaded
    /\ f \in documents
    /\ edits < MaxEdits
    /\ text' = [text EXCEPT ![f] = model]
    /\ version' = [version EXCEPT ![f] = @ + 1]
    /\ edits' = edits + 1
    /\ UNCHANGED <<documents, builds, cache>>

(* A document is updated: it is parsed anew, and the cached list of this   *)
(* document, and of no other, is dropped.                                  *)
Edit(f, model) ==
    /\ Loaded
    /\ f \in documents
    /\ edits < MaxEdits
    /\ text' = [text EXCEPT ![f] = model]
    /\ version' = [version EXCEPT ![f] = @ + 1]
    /\ cache' = [cache EXCEPT ![f] = None]
    /\ edits' = edits + 1
    /\ UNCHANGED <<documents, builds>>

(* Models that differ from that of the file in what one definition is      *)
(* published as.                                                           *)
Revisions(f) ==
    {[text[f] EXCEPT !.definitions[i].isPublished = ~@] : i \in DOMAIN text[f].definitions}

Next ==
    \/ NextDocument
    \/ LoadDocument
    \/ EndBuild
    \/ \E f \in Files : LookUp(f) \/ (\E model \in Revisions(f) : Edit(f, model))

Spec == Init /\ [][Next]_vars

(* The builds are awaited: each goes on until it has ended. *)
FairSpec == Spec /\ WF_vars(NextDocument \/ LoadDocument \/ EndBuild)

-----------------------------------------------------------------------------
(* Properties of the loading *)

ImportedFiles(f) == {i.path : i \in {j \in Members(text[f].imports) : j.path # None}}

Loadable == JayveeFiles \cap Readable

Unloaded == Loadable \ documents

(* The files of S and those of Within reached from them over files of these. *)
Closure(S, Within) ==
    LET followed == [f \in S \cup Within |-> ImportedFiles(f) \cap Within]
        closed   == {R \in SUBSET (S \cup Within) :
                        S \subseteq R /\ \A f \in R : followed[f] \subseteq R}
    IN  {g \in S \cup Within : \A R \in closed : g \in R}

OnCycle(f, Within) == f \in Closure(ImportedFiles(f) \cap Within, Within)

(* The listener starts a build of a file that is being built only if the   *)
(* file lies on an import cycle none of whose files the workspace has.     *)
OnlyCyclesNest ==
    \A i, j \in DOMAIN builds :
        (i < j /\ builds[i].loads # None /\ builds[i].loads = builds[j].loads)
            => OnCycle(builds[i].loads, Unloaded)

(* Once loading has ended, whatever the documents import is there, however *)
(* deep it was imported, provided that it can be read and is a Jayvee file.*)
EverythingImportedIsLoaded ==
    Loaded => \A f \in documents : ImportedFiles(f) \cap Loadable \subseteq documents

(* Where no files import each other, the recursion of the listener is no    *)
(* deeper than there are files to load.                                     *)
NestingIsBounded ==
    (\A f \in Unloaded : ~OnCycle(f, Unloaded))
        => Len(builds) <= Cardinality(Loadable) + 1

(* Loading brings in exactly what is needed: everything that is imported,  *)
(* and builds within builds only where files import each other.            *)
LoadingIsComplete == OnlyCyclesNest /\ EverythingImportedIsLoaded

-----------------------------------------------------------------------------
(* The inductive invariant the proof of it uses *)

NestedBuild == [docs : Seq(Files), unresolved : Seq(Files), loads : Files \cup {None}]

LoadingTypeOK ==
    /\ text \in [Files -> Model]
    /\ documents \subseteq Files
    /\ builds \in Seq(NestedBuild)

(* The outermost build is that of the workspace; each other one loads a     *)
(* file that the file of the build around it imports.                       *)
BuildsFollowImports ==
    \A i \in DOMAIN builds :
        /\ builds[i].loads = None <=> i = 1
        /\ i # 1 => /\ builds[i].loads \in Loadable
                    /\ Members(builds[i].docs) \subseteq {builds[i].loads}
                    /\ Members(builds[i].unresolved) \subseteq ImportedFiles(builds[i].loads)
        /\ i # 1 /\ i # Len(builds) => builds[i + 1].loads \in ImportedFiles(builds[i].loads)

IsComplete(f) == ImportedFiles(f) \cap Loadable \subseteq documents

(* A file is still to be looked at in the build, or each of its imports is  *)
(* there, still to be loaded, or being loaded right now.                    *)
IsHandledBy(i, f) ==
    \/ f \in Members(builds[i].docs)
    \/ \A g \in ImportedFiles(f) \cap Loadable :
          \/ g \in documents \cup Members(builds[i].unresolved)
          \/ i # Len(builds) /\ builds[i + 1].loads = g

ImportsAreHandled ==
    /\ \A i \in DOMAIN builds : i # 1 => IsHandledBy(i, builds[i].loads)
    /\ \A f \in documents : IsComplete(f) \/ (builds # <<>> /\ IsHandledBy(1, f))

(* What has been loaded since it was found unresolved is complete, and so   *)
(* is a file that is loaded again: its build does not load anything.        *)
LoadedTwiceIsComplete ==
    \A i \in DOMAIN builds :
        /\ \A g \in Members(builds[i].unresolved) : g \in documents => IsComplete(g)
        /\ builds[i].loads \in documents =>
              /\ i = Len(builds)
              /\ IsComplete(builds[i].loads)
              /\ Members(builds[i].unresolved) \cap Loadable = {}

Loading ==
    /\ LoadingTypeOK
    /\ BuildsFollowImports
    /\ ImportsAreHandled
    /\ LoadedTwiceIsComplete
=============================================================================
