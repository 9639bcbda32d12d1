------------------------------ MODULE FileStore ------------------------------
(***************************************************************************)
(* What the file system of an archive promises: a file is stored once at a *)
(* path, and stays there as it is.                                         *)
(***************************************************************************)
CONSTANTS
    Paths,      \* paths after the indicators of directories are resolved
    StoredFiles

VARIABLE files  \* the files at the paths where there is one

Init == files = [path \in {} |-> path]

Store(path, file) ==
    /\ path \notin DOMAIN files
    /\ files' = [p \in DOMAIN files \cup {path} |-> IF p = path THEN file ELSE files[p]]

Next == \E path \in Paths, file \in StoredFiles : Store(path, file)

Spec == Init /\ [][Next]_files
=============================================================================
