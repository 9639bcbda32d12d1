------------------------------- MODULE MCFiles -------------------------------
(***************************************************************************)
(* Archives of up to three entries on clashing paths, every path to pick   *)
(* from them, and texts of up to four lines.                               *)
(***************************************************************************)
EXTENDS FileBlocks

Contents == {<<"x">>, <<"x", "y", "">>, <<"x", "y", "z", "y">>, <<"">>}

Entry(path, content) == [path |-> path, dir |-> FALSE, content |-> content]
Folder(path) == [path |-> path, dir |-> TRUE]

(* The names are a and b; entries may be anywhere. *)
EntryPaths ==
    {<<"a">>, <<"b">>, <<"a", "b">>, <<"a", "a">>, <<"b", "a", "b">>, <<"", "a">>,
     <<".", "a">>, <<"b", "..", "a">>, <<"..", "a">>, <<"..">>, <<"a", "", "b">>}

MCEntries ==
    {Entry(path, <<"x", "y", "">>) : path \in EntryPaths}
    \cup {Entry(<<"a">>, <<"x", "y", "z", "y">>), Entry(<<"a", "b">>, <<"">>), Folder(<<"a", "">>)}

MCArchives == UNION {[1..n -> MCEntries] : n \in 1..3}

MCPicks ==
    {<<"">> \o path : path \in EntryPaths \cup {<<"a", ".">>}} \cup
    {<<".", "a">>, <<"a">>, <<"">>, <<"", "a", "b", "..", "b">>}

MCGivenPaths == MCPicks \cup {<<"", "">>}

MCStoredFiles == {[name |-> n, content |-> c] : n \in {"", "a", "b", ".", ".."}, c \in Contents}

MCLocalPaths == {<<"", "a">>, <<"b", "b">>, <<"..", "b">>, <<"a..b">>, <<"c">>}
MCDisk == (<<"", "a">> :> <<"x", "y", "z", "y">>) @@ (<<"b", "b">> :> <<"x", "">>) @@ (<<"a..b">> :> <<"x">>)

MCLineLists == {<<1>>, <<2, 1>>, <<1, 3, 1>>, <<2, 2>>, <<4>>, <<>>}
MCLineRanges == {[from |-> 1, to |-> 1], [from |-> 2, to |-> 3], [from |-> 2, to |-> EndOfText],
                 [from |-> 5, to |-> 9]}

-----------------------------------------------------------------------------
(* What a path stands for: the names that no later .. leaves again.        *)
Meaning(path) ==
    LET steps == SelectSeq(Tail(path), LAMBDA part : part \notin {"", "."})
        depth == [n \in 0..Len(steps) |->
                     2 * Cardinality({i \in 1..n : steps[i] # ".."}) - n]
        kept == {i \in DOMAIN steps : /\ steps[i] # ".."
                                      /\ \A j \in i..Len(steps) : depth[j] >= depth[i]}
    IN  IF path[1] \notin {"", "."} \/ \E n \in DOMAIN depth : depth[n] < 0 THEN Null
        ELSE [k \in 1..Cardinality(kept) |->
                 steps[CHOOSE i \in kept : Cardinality({j \in kept : j <= i}) = k]]

(* Paths are processed to what they stand for. *)
ASSUME PathsAreMeant == \A path \in MCGivenPaths : ProcessPath(path) = Meaning(path)
=============================================================================
