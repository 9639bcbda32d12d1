------------------------------ MODULE FileSystem ------------------------------
(***************************************************************************)
(* InMemoryFileSystem: a tree of directories and files.  The nodes are in  *)
(* the order in which they were added, which gives the order of the        *)
(* children of each directory; the path of a node is the list of the names *)
(* from the root to it.  A file and a directory may have the same path.    *)
(***************************************************************************)
EXTENDS Integers, Sequences, SequencesExt

CONSTANTS
    Null,           \* null, for a path or a file
    Directory,      \* what a node is that is not a file
    GivenPaths,     \* paths as they are written, split at the separators
    StoredFiles     \* files, each with its name

ASSUME DirectoryAssumption == Directory \notin StoredFiles /\ Null \notin StoredFiles

VARIABLE nodes

(* One part of a path: . and nothing are skipped, .. leaves a directory.   *)
Resolve(done, part) ==
    IF done = Null \/ part \in {"", "."} THEN done
    ELSE IF part # ".." THEN Append(done, part)
    ELSE IF done = <<>> THEN Null
    ELSE Front(done)

ProcessPath(path) ==
    LET parts == Tail(path)
        Resolved[n \in 0..Len(parts)] ==
            IF n = 0 THEN <<>> ELSE Resolve(Resolved[n - 1], parts[n])
    IN  IF Head(path) \notin {"", "."} THEN Null ELSE Resolved[Len(parts)]

(* A text that is split has one part at least. *)
ASSUME PathAssumption ==
    /\ GivenPaths \subseteq Seq(STRING) \ {<<>>}
    /\ Null \notin Seq(STRING)

Node(path, file) == [path |-> path, file |-> file]

Prefix(parts, n) == SubSeq(parts, 1, n)

HasDirectory(path) ==
    path = <<>> \/ \E i \in DOMAIN nodes : nodes[i].path = path /\ nodes[i].file = Directory

HasFile(path) ==
    \E i \in DOMAIN nodes : nodes[i].path = path /\ nodes[i].file # Directory

(* How far the directories of a path exist. *)
Depth(parts) ==
    Cardinality({n \in 1..Len(parts) - 1 : \A k \in 1..n : HasDirectory(Prefix(parts, k))})

NewDirectories(parts) ==
    [k \in 1..Len(parts) - 1 - Depth(parts) |-> Node(Prefix(parts, Depth(parts) + k), Directory)]

(* putNode: the last part has to be the name of the file. *)
CanPut(parts, file) ==
    /\ parts # <<>>
    /\ file.name = parts[Len(parts)]
    /\ ~HasFile(parts)

(* Mutant: a file that is there is replaced. *)
PutNodeOver(parts, file) ==
    nodes' = IF parts = <<>> THEN nodes
             ELSE IF CanPut(parts, file)
             THEN (nodes \o NewDirectories(parts)) \o <<Node(parts, file)>>
             ELSE [i \in DOMAIN nodes |-> IF nodes[i].path = parts /\ nodes[i].file # Directory
                                          THEN Node(parts, file) ELSE nodes[i]]

(* The directories stay, also if the file cannot be put into the last one. *)
PutNode(parts, file) ==
    nodes' = IF parts = <<>> THEN nodes
             ELSE IF CanPut(parts, file)
             THEN (nodes \o NewDirectories(parts)) \o <<Node(parts, file)>>
             ELSE nodes \o NewDirectories(parts)

PutFile(path, file) ==
    IF ProcessPath(path) = Null THEN UNCHANGED nodes ELSE PutNode(ProcessPath(path), file)

(* Whether putFile answers with the file system. *)
IsPut(path, file) == ProcessPath(path) # Null /\ CanPut(ProcessPath(path), file)

(* getNode gives the first child of that name, file or directory, and      *)
(* getFile answers with it if it is a file.                                *)
GetFile(path) ==
    LET parts == ProcessPath(path)
        found == {i \in DOMAIN nodes : nodes[i].path = parts}
        first == CHOOSE i \in found : \A j \in found : i <= j
    IN  IF parts = Null \/ found = {} \/ nodes[first].file = Directory THEN Null
        ELSE nodes[first].file

Init == nodes = <<>>

Next == \E path \in GivenPaths, file \in StoredFiles : PutFile(path, file)

Spec == Init /\ [][Next]_nodes

-----------------------------------------------------------------------------
(* Every node is in a directory, and a directory has no two directories    *)
(* and no two files of the same name.                                      *)
TreeIsWellFormed ==
    /\ \A i \in DOMAIN nodes : \A k \in 0..Len(nodes[i].path) - 1 :
           HasDirectory(Prefix(nodes[i].path, k))
    /\ \A i, j \in DOMAIN nodes :
           nodes[i].path = nodes[j].path /\ (nodes[i].file = Directory <=> nodes[j].file = Directory)
               => i = j

FilePaths == {nodes[i].path : i \in {j \in DOMAIN nodes : nodes[j].file # Directory}}

FileAt(path) ==
    LET at == CHOOSE i \in DOMAIN nodes : nodes[i].path = path /\ nodes[i].file # Directory
    IN  nodes[at].file

Store == INSTANCE FileStore WITH
    Paths <- {ProcessPath(path) : path \in GivenPaths},
    files <- [path \in FilePaths |-> FileAt(path)]

(* The file system keeps what it is given once: it implements a store.     *)
ImplementsStore == Store!Spec
=============================================================================
