------------------------------ MODULE FileBlocks ------------------------------
(***************************************************************************)
(* The block executors for files: an archive is read entry by entry into a *)
(* file system, a file is picked from it, split into lines, and lines are  *)
(* deleted or selected.  The file may also be a local one.                 *)
(***************************************************************************)
EXTENDS FileSystem, FiniteSets

CONSTANTS
    Archives,       \* lists of entries: path, whether a directory, and content
    Picks,          \* paths to pick
    LocalPaths,     \* paths of local files
    Disk,           \* the local files: a function from such paths to contents
    LineLists,      \* lists of line numbers to delete
    LineRanges,     \* first and last line number to select
    EndOfText,      \* Number.MAX_SAFE_INTEGER, the default of lineTo
    MaxBlocks       \* bound: blocks that work on the text

(* A text that is split has one piece at least; the validation refuses     *)
(* numbers of lines below one.                                             *)
ASSUME LinesAssumption ==
    /\ \A path \in DOMAIN Disk : path \in Seq(STRING) /\ Disk[path] \in Seq(STRING) \ {<<>>}
    /\ LineLists \subseteq Seq(Nat \ {0})
    /\ LineRanges \subseteq [from : Nat \ {0}, to : Nat \ {0}]

VARIABLES
    archive,        \* the entries of the archive, of the names JSZip gives once it is read
    loaded,         \* how many of them have been read
    status,         \* start, loading, loaded, file, text, or err
    file,           \* the file the last block gave
    last,           \* history: the last block, its properties and its input, or that
                    \*   an archive could not be decoded
    blocks          \* history: the number of blocks that worked on the text

vars == <<nodes, archive, loaded, status, file, last, blocks>>

BlocksInit ==
    /\ Init
    /\ archive \in Archives \cup {<<>>}
    /\ loaded = 0
    /\ status = "start"
    /\ file = Null
    /\ last = [block |-> "none"]
    /\ blocks = 0

(* basename: the last part that is not empty, if there is one. *)
BaseName(path) ==
    LET named == {i \in DOMAIN path : path[i] # ""}
    IN  IF named = {} THEN "" ELSE path[CHOOSE i \in named : \A j \in named : j <= i]

CreateFile(entry) == [name |-> BaseName(entry.path), content |-> entry.content]

AbsolutePath(path) == <<"">> \o path

Gives(result, block, properties) ==
    /\ file' = result
    /\ last' = [block |-> block, properties |-> properties, input |-> file]

-----------------------------------------------------------------------------
(* ArchiveInterpreter.  One that is compressed with gzip has one entry, of *)
(* its own name without the extension.                                     *)

(* JSZip resolves the names of an archive on its own: .. at the root stays *)
(* there, and a leading separator is kept.                                 *)
SafePart(path, n, done) ==
    IF path[n] = "." \/ (path[n] = "" /\ n \notin {1, Len(path)}) THEN done
    ELSE IF path[n] # ".." THEN Append(done, path[n])
    ELSE IF done = <<>> THEN <<>>
    ELSE Front(done)

SafeName(path) ==
    LET Safe[n \in 0..Len(path)] ==
            IF n = 0 THEN <<>> ELSE SafePart(path, n, Safe[n - 1])
    IN  IF Safe[Len(path)] = <<>> THEN <<"">> ELSE Safe[Len(path)]

(* The numbers of a finite set in order. *)
Ascending(S) ==
    CHOOSE order \in [1..Cardinality(S) -> S] :
        \A i, j \in DOMAIN order : i < j => order[i] < order[j]

(* The entries by their resolved names, in the order of the first of each  *)
(* name; a later one takes its place.                                      *)
ZipObjects(entries) ==
    LET name == [i \in DOMAIN entries |-> SafeName(entries[i].path)]
        firsts == {i \in DOMAIN entries : \A j \in 1..i - 1 : name[j] # name[i]}
        Latest(i) == CHOOSE j \in DOMAIN entries :
                         /\ name[j] = name[i]
                         /\ \A k \in j + 1..Len(entries) : name[k] # name[i]
    IN  [k \in 1..Cardinality(firsts) |->
            LET i == Ascending(firsts)[k]
            IN  [entries[Latest(i)] EXCEPT !.path = name[i]]]

(* What JSZip finds in an archive: it takes an entry for a directory if    *)
(* its name ends with a separator.                                         *)
ZipEntry ==
    [path : Seq(STRING) \ {<<>>}, dir : {TRUE}]
    \cup {e \in [path : Seq(STRING) \ {<<>>}, dir : {FALSE}, content : Seq(STRING) \ {<<>>}] :
             e.path[Len(e.path)] # "" \/ e.path = <<"">>}

(* The files of an archive are files, put at paths as they are given.      *)
ASSUME ArchivesAssumption ==
    \A entries \in Archives :
        /\ entries \in Seq(ZipEntry)
        /\ \A i \in DOMAIN ZipObjects(entries) :
              LET entry == ZipObjects(entries)[i]
              IN  ~entry.dir => /\ AbsolutePath(entry.path) \in GivenPaths
                                /\ CreateFile(entry) \in StoredFiles

StartArchive ==
    /\ status = "start" /\ archive # <<>>
    /\ status' = "loading"
    /\ archive' = ZipObjects(archive)
    /\ UNCHANGED <<nodes, loaded, file, last, blocks>>

(* Mutant: an entry that cannot be put is passed over. *)
StatusOrPassedOver(entry) == "loading"

(* A file that cannot be put fails the assertion, which is caught. *)
StatusAfter(entry) ==
    IF entry.dir \/ IsPut(AbsolutePath(entry.path), CreateFile(entry)) THEN "loading" ELSE "err"

Counted(entry) == loaded + 1

LoadEntry ==
    /\ status = "loading" /\ loaded < Len(archive)
    /\ LET entry == archive[loaded + 1]
       IN  /\ IF entry.dir THEN UNCHANGED nodes
              ELSE PutFile(AbsolutePath(entry.path), CreateFile(entry))
           /\ status' = StatusAfter(entry)
           /\ loaded' = Counted(entry)
    /\ UNCHANGED <<archive, file, last, blocks>>

FinishArchive ==
    /\ status = "loading" /\ loaded = Len(archive)
    /\ status' = "loaded"
    /\ UNCHANGED <<nodes, archive, loaded, file, last, blocks>>

(* What is no archive or has been damaged makes the libraries throw, which *)
(* is caught: when it is loaded, or when the content of a file is read.    *)
FailToDecode ==
    /\ archive # <<>>
    /\ \/ status = "start"
       \/ /\ status = "loading" /\ loaded < Len(archive)
          /\ ~archive[loaded + 1].dir
    /\ status' = "err"
    /\ last' = [block |-> "undecodable"]
    /\ UNCHANGED <<nodes, archive, loaded, file, blocks>>

PickFile ==
    /\ status = "loaded"
    /\ \E path \in Picks :
        /\ Gives(GetFile(path), "FilePicker", path)
        /\ status' = IF GetFile(path) = Null THEN "err" ELSE "file"
    /\ UNCHANGED <<nodes, archive, loaded, blocks>>

-----------------------------------------------------------------------------
(* The check is of the text of the path, so that a..b is refused as well. *)
ReachesUp(path) == \E i \in DOMAIN path : path[i] \in {"..", "a..b"}

ExtractLocalFile ==
    /\ status = "start" /\ archive = <<>>
    /\ \E path \in LocalPaths :
        IF ReachesUp(path) \/ path \notin DOMAIN Disk
        THEN /\ status' = "err"
             /\ Gives(Null, "LocalFileExtractor", path)
        ELSE /\ status' = "file"
             /\ Gives([name |-> BaseName(path), content |-> Disk[path]], "LocalFileExtractor", path)
    /\ UNCHANGED <<nodes, archive, loaded, blocks>>

-----------------------------------------------------------------------------
(* The content is what splitting at line breaks gives: after a last line   *)
(* break comes an empty line, which is dropped.                            *)
SplitLines(pieces) == IF Last(pieces) = "" THEN Front(pieces) ELSE pieces

InterpretText ==
    /\ status = "file"
    /\ Gives([file EXCEPT !.content = SplitLines(@)], "TextFileInterpreter", <<>>)
    /\ status' = "text"
    /\ UNCHANGED <<nodes, archive, loaded, blocks>>

(* Mutant: repeated numbers are not dropped. *)
DeletionsRepeated(numbers) == SortSeq(numbers, >)

(* The numbers without repetitions, from the last line to the first. *)
Deletions(numbers) == Reverse(Ascending(ToSet(numbers)))

(* newContent.splice for one number after the other. *)
WithoutLine(lines, number) ==
    IF number <= Len(lines) THEN RemoveAt(lines, number) ELSE lines

WithoutLines(lines, numbers) ==
    LET Rest[n \in 0..Len(numbers)] ==
            IF n = 0 THEN lines ELSE WithoutLine(Rest[n - 1], numbers[n])
    IN  Rest[Len(numbers)]

DeleteLines ==
    /\ status = "text" /\ blocks < MaxBlocks
    /\ \E numbers \in LineLists :
        IF \E k \in DOMAIN numbers : numbers[k] > Len(file.content)
        THEN /\ status' = "err"
             /\ Gives(Null, "TextLineDeleter", numbers)
        ELSE /\ status' = "text"
             /\ Gives([file EXCEPT !.content = WithoutLines(@, Deletions(numbers))],
                      "TextLineDeleter", numbers)
    /\ blocks' = blocks + 1
    /\ UNCHANGED <<nodes, archive, loaded>>

(* lines.slice(from - 1, to) *)
Slice(lines, from, to) == SubSeq(lines, from, IF to < Len(lines) THEN to ELSE Len(lines))

SelectLines ==
    /\ status = "text" /\ blocks < MaxBlocks
    /\ \E range \in LineRanges :
        Gives([file EXCEPT !.content = Slice(@, range.from, range.to)], "TextRangeSelector", range)
    /\ blocks' = blocks + 1
    /\ UNCHANGED <<nodes, archive, loaded, status>>

BlocksNext ==
    \/ StartArchive \/ LoadEntry \/ FinishArchive \/ FailToDecode
    \/ PickFile
    \/ ExtractLocalFile
    \/ InterpretText \/ DeleteLines \/ SelectLines

BlocksSpec == BlocksInit /\ [][BlocksNext]_vars

-----------------------------------------------------------------------------
(* Properties of the reading of an archive *)

EntriesRead == {i \in 1..loaded : ~archive[i].dir}
PathOf(i) == ProcessPath(AbsolutePath(archive[i].path))

(* An archive is read as a whole or not at all: each of its files is in    *)
(* the file system, with its name and content, at a path of its own, and   *)
(* no others are.                                                          *)
LoadedArchivesAreWhole ==
    status \notin {"start", "err"} /\ archive # <<>> =>
        /\ \A i \in EntriesRead : \E k \in DOMAIN nodes :
               nodes[k] = Node(PathOf(i), CreateFile(archive[i]))
        /\ \A i, j \in EntriesRead : PathOf(i) = PathOf(j) => i = j
        /\ FilePaths = {PathOf(i) : i \in EntriesRead}

IsInside(path, directory) ==
    Len(path) > Len(directory) /\ Prefix(path, Len(directory)) = directory

(* The picker gives the file of that path, unless there is none, or a      *)
(* directory of the same path was there before it.                         *)
PicksTheEntry ==
    last.block = "FilePicker" /\ status \in {"file", "err"} =>
        LET path   == ProcessPath(last.properties)
            there  == {i \in EntriesRead : PathOf(i) = path}
            inside == {i \in EntriesRead : IsInside(PathOf(i), path)}
        IN  IF path = Null \/ there = {} \/ \E i \in there, j \in inside : j < i
            THEN status = "err"
            ELSE status = "file" /\ \E i \in there : file = CreateFile(archive[i])

(* Whatever the order of the entries of an archive, they make a tree with  *)
(* exactly its files, unless reading it fails, and each can be picked that *)
(* no directory hides.                                                     *)
ArchivesAreReadWhole == TreeIsWellFormed /\ LoadedArchivesAreWhole /\ PicksTheEntry

(* Reading what can be decoded fails only if two entries differ in a       *)
(* separator at the beginning, or an entry has no name at all.             *)
FailsOnlyOnClashes ==
    status = "err" /\ last.block = "none" =>
        LET path == archive[loaded].path
        IN  \/ \E i \in EntriesRead \ {loaded} :
                   \/ archive[i].path = <<"">> \o path
                   \/ path = <<"">> \o archive[i].path
            \/ path = <<"">>

(* The lines of a text at some positions. *)
LinesAt(positions, text) ==
    [k \in 1..Cardinality(positions) |-> text[Ascending(positions)[k]]]

(* Of a text the lines that are named go and no others, in whatever order  *)
(* and however often they are named; a range leaves its lines.             *)
LinesAreWhatIsAsked ==
    LET before == last.input.content
    IN  /\ last.block = "TextLineDeleter" /\ status = "text" =>
               file.content = LinesAt(DOMAIN before \ ToSet(last.properties), before)
        /\ last.block = "TextLineDeleter" =>
               (status = "err" <=> ~(ToSet(last.properties) \subseteq DOMAIN before))
        /\ last.block = "TextRangeSelector" =>
               file.content = LinesAt((last.properties.from .. last.properties.to)
                                          \cap DOMAIN before, before)

(* Reading an archive fails only because it cannot be decoded, two of its  *)
(* files clash or one has no name; the blocks on texts give the lines that *)
(* are asked for.                                                          *)
FileBlocksDoWhatTheySay == FailsOnlyOnClashes /\ LinesAreWhatIsAsked

-----------------------------------------------------------------------------
(* What the proofs use *)

(* The files are in the order of the entries, each behind the directories  *)
(* that it is in, and these are right before the first file inside.        *)
NodesFollowEntries ==
    status \notin {"start", "err"} /\ archive # <<>> =>
        /\ \A k \in DOMAIN nodes : nodes[k].file # Directory =>
               /\ nodes[k].path \in Seq(STRING) /\ nodes[k].path # <<>>
               /\ \E i \in EntriesRead : nodes[k] = Node(PathOf(i), CreateFile(archive[i]))
        /\ \A k, l \in DOMAIN nodes, i, j \in EntriesRead :
               /\ k < l
               /\ nodes[k].file # Directory /\ nodes[k].path = PathOf(i)
               /\ nodes[l].file # Directory /\ nodes[l].path = PathOf(j)
               => i < j
        /\ \A l \in DOMAIN nodes : nodes[l].file # Directory =>
               \A n \in 1..Len(nodes[l].path) - 1 :
                   \E k \in DOMAIN nodes :
                       /\ k < l
                       /\ nodes[k].path = Prefix(nodes[l].path, n) /\ nodes[k].file = Directory
        /\ \A k \in DOMAIN nodes : nodes[k].file = Directory =>
               \E l \in DOMAIN nodes :
                   /\ k < l /\ nodes[l].file # Directory
                   /\ IsInside(nodes[l].path, nodes[k].path)
                   /\ \A m \in k..(l - 1) : nodes[m].file = Directory

PickingFollowsLoading ==
    /\ status \in {"start", "loading", "loaded"} => last.block = "none"
    /\ status \in {"loading", "loaded"} => archive # <<>> /\ loaded <= Len(archive)
=============================================================================
