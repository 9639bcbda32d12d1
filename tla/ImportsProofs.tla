--------------------------- MODULE ImportsProofs ---------------------------
(***************************************************************************)
(* Proofs about imported files, for every set of files, every import graph *)
(* over them, every depth of nested builds and every number of edits.      *)
(*                                                                         *)
(* What is imported is loaded, and a build of a file within a build of the *)
(* same file means that the file lies on an import cycle that is not       *)
(* loaded (LoadingIsComplete).  What the report of cycles says follows     *)
(* from the walk it makes: a claim about which import definitions were     *)
(* followed, by induction over the depth (CycleReportsAreKnown).  What the *)
(* cache holds is an invariant of lookups and edits, Caching               *)
(* (StaleOnlyByReexport), from which follows that the computations of what *)
(* a file offers agree (ElementsAgree).                                    *)
(***************************************************************************)
EXTENDS ImportChecks, FiniteSetTheorems, SequenceTheorems, WellFoundedInduction, TLAPS

LEMMA HeadTailMembers ==
    ASSUME NEW S, NEW list \in Seq(S), list # <<>>
    PROVE  /\ Head(list) \in S /\ Tail(list) \in Seq(S)
           /\ Members(list) = {Head(list)} \cup Members(Tail(list))
<1>1. /\ Head(list) \in S /\ Tail(list) \in Seq(S) /\ Len(Tail(list)) = Len(list) - 1
      /\ \A i \in 1..Len(Tail(list)) : Tail(list)[i] = list[i + 1]
  BY HeadTailProperties
<1>2. /\ Len(list) \in Nat \ {0} /\ DOMAIN list = 1..Len(list) /\ Head(list) = list[1]
      /\ DOMAIN Tail(list) = 1..(Len(list) - 1)
  BY <1>1
<1>3. ASSUME NEW i \in DOMAIN list
      PROVE  list[i] \in {Head(list)} \cup Members(Tail(list))
  <2>1. CASE i = 1
    BY <1>2, <2>1
  <2>2. CASE i # 1
    <3>1. i - 1 \in DOMAIN Tail(list) /\ (i - 1) + 1 = i
      BY <1>2, <2>2
    <3>2. Tail(list)[i - 1] = list[i]
      BY <1>1, <1>2, <3>1
    <3> QED
      BY <3>1, <3>2 DEF Members
  <2> QED
    BY <2>1, <2>2
<1>4. ASSUME NEW i \in DOMAIN Tail(list)
      PROVE  Tail(list)[i] \in Members(list)
  <2>1. i + 1 \in DOMAIN list /\ Tail(list)[i] = list[i + 1]
    BY <1>1, <1>2
  <2> QED
    BY <2>1 DEF Members
<1>5. Head(list) \in Members(list)
  BY <1>2 DEF Members
<1> QED
  BY <1>1, <1>3, <1>4, <1>5 DEF Members

LEMMA NoMembers == Members(<<>>) = {}
BY DEF Members

(* Of some positions one comes first. *)
LEMMA FirstPosition ==
    ASSUME NEW I, I \subseteq Nat, I # {}
    PROVE  \E i \in I : \A j \in I : i <= j
<1> DEFINE less == OpToRel(<, Nat)
<1>1. IsWellFoundedOn(less, Nat)
  BY NatLessThanWellFounded
<1>2. \A i, j \in Nat : j < i => <<j, i>> \in less
  BY DEF OpToRel
<1> HIDE DEF less
<1>3. PICK i \in I : \A j \in I : ~(<<j, i>> \in less)
  BY <1>1, WFMin
<1>4. ASSUME NEW j \in I PROVE i <= j
  <2>1. i \in Nat /\ j \in Nat /\ ~(<<j, i>> \in less)
    BY <1>3
  <2>2. ~(j < i)
    BY <1>2, <2>1, Zenon
  <2> QED
    BY <2>1, <2>2
<1> QED
  BY <1>4

-----------------------------------------------------------------------------
(* The imports of a file *)

LEMMA ImportsOfFiles ==
    ASSUME LoadingTypeOK, NEW f \in Files
    PROVE  /\ text[f] \in Model
           /\ DOMAIN text[f].imports = 1..Len(text[f].imports)
           /\ Len(text[f].imports) \in Nat
           /\ \A i \in DOMAIN text[f].imports : text[f].imports[i].path \in Files \cup {None}
           /\ ImportedFiles(f) \subseteq Files
<1>1. text[f] \in Model
  BY DEF LoadingTypeOK
<1> DEFINE Import == [path : Files \cup {None}, useAll : BOOLEAN, usedElements : Seq(UsedElement)]
<1>2. text[f].imports \in Seq(Import)
  BY <1>1 DEF Model
<1>3. \A i \in DOMAIN text[f].imports : text[f].imports[i] \in Import
  <2> HIDE DEF Import
  <2> QED
    BY <1>2
<1>4. \A i \in DOMAIN text[f].imports : text[f].imports[i].path \in Files \cup {None}
  BY <1>3
<1> QED
  BY <1>1, <1>2, <1>4 DEF ImportedFiles, Members

(* findUnresolvedImportURIs: what is imported and not in the workspace. *)
LEMMA UnresolvedImports ==
    ASSUME LoadingTypeOK, NEW f \in Files, NEW uris \in FindUnresolvedImports(text[f])
    PROVE  uris \in Seq(Files) /\ Members(uris) = ImportedFiles(f) \ documents
<1> DEFINE imports == text[f].imports
           open == {i \in DOMAIN imports : imports[i].path \notin documents \cup {None}}
<1>1. PICK order \in [1..Cardinality(open) -> open] :
        /\ Members(order) = open
        /\ uris = [k \in DOMAIN order |-> imports[order[k]].path]
  BY DEF FindUnresolvedImports, InSourceOrder
<1>2. Cardinality(open) \in Nat
  <2>1. IsFiniteSet(DOMAIN imports)
    BY ImportsOfFiles, FS_Interval
  <2> QED
    BY <2>1, FS_Subset, FS_CardinalityType
<1>3. \A k \in 1..Cardinality(open) : order[k] \in open /\ uris[k] = imports[order[k]].path
  BY <1>1
<1>4. \A i \in open : imports[i].path \in ImportedFiles(f) \ documents
  BY DEF ImportedFiles, Members
<1>5. DOMAIN uris = 1..Cardinality(open) /\ DOMAIN order = 1..Cardinality(open)
  BY <1>1
<1>6. uris \in Seq(Files)
  <2>1. \A k \in 1..Cardinality(open) : uris[k] \in Files
    BY <1>3, <1>4, ImportsOfFiles
  <2>2. uris = [k \in 1..Cardinality(open) |-> uris[k]]
    BY <1>1, <1>5
  <2> HIDE DEF open
  <2> QED
    BY <1>2, <2>1, <2>2
<1>7. Members(uris) \subseteq ImportedFiles(f) \ documents
  BY <1>3, <1>4, <1>5 DEF Members
<1>8. ASSUME NEW g \in ImportedFiles(f) \ documents
      PROVE  g \in Members(uris)
  <2>1. PICK i \in DOMAIN imports : imports[i].path = g /\ g # None
    BY <1>8 DEF ImportedFiles, Members
  <2>2. i \in open
    BY <1>8, <2>1
  <2>3. PICK k \in DOMAIN order : order[k] = i
    <3>1. i \in Members(order)
      BY <1>1, <2>2
    <3> HIDE DEF open, imports
    <3> QED
      BY <3>1 DEF Members
  <2> QED
    BY <1>3, <1>5, <2>1, <2>3 DEF Members
<1> QED
  BY <1>6, <1>7, <1>8

LEMMA ImportsStay ==
    ASSUME UNCHANGED text
    PROVE  \A f : ImportedFiles(f)' = ImportedFiles(f)
BY DEF ImportedFiles

-----------------------------------------------------------------------------
(* The nested builds *)

LEMMA TopBuild ==
    ASSUME LoadingTypeOK, builds # <<>>
    PROVE  /\ Len(builds) \in Nat \ {0} /\ DOMAIN builds = 1..Len(builds)
           /\ Len(builds) \in DOMAIN builds /\ 1 \in DOMAIN builds
           /\ Top = builds[Len(builds)] /\ Top \in NestedBuild
           /\ \A i \in DOMAIN builds : builds[i] \in NestedBuild
BY DEF LoadingTypeOK, Top

LEMMA SetTopBuild ==
    ASSUME LoadingTypeOK, builds # <<>>, NEW b \in NestedBuild, NEW list, list = SetTop(b)
    PROVE  /\ list \in Seq(NestedBuild) /\ Len(list) = Len(builds) /\ DOMAIN list = DOMAIN builds
           /\ list[Len(builds)] = b
           /\ \A i \in DOMAIN builds : i # Len(builds) => list[i] = builds[i]
<1>1. builds \in Seq(NestedBuild) /\ Len(builds) \in DOMAIN builds
  BY TopBuild DEF LoadingTypeOK
<1> QED
  BY <1>1 DEF SetTop

LEMMA PopBuild ==
    ASSUME LoadingTypeOK, builds # <<>>, NEW list, list = Pop
    PROVE  /\ list \in Seq(NestedBuild) /\ Len(list) = Len(builds) - 1
           /\ DOMAIN list = 1..(Len(builds) - 1)
           /\ \A i \in 1..(Len(builds) - 1) : list[i] = builds[i] /\ i \in DOMAIN builds
           /\ list = <<>> <=> Len(builds) = 1
<1>1. builds \in Seq(NestedBuild) /\ Len(builds) \in Nat \ {0} /\ DOMAIN builds = 1..Len(builds)
  BY TopBuild DEF LoadingTypeOK
<1>2. /\ list \in Seq(NestedBuild) /\ Len(list) = Len(builds) - 1
      /\ DOMAIN list = 1..(Len(builds) - 1)
      /\ \A i \in 1..(Len(builds) - 1) : list[i] = builds[i] /\ i \in DOMAIN builds
  BY <1>1 DEF Pop
<1>3. list = <<>> <=> Len(list) = 0
  BY <1>2
<1> QED
  BY <1>1, <1>2, <1>3

LEMMA PushBuild ==
    ASSUME NEW list \in Seq(NestedBuild), NEW b \in NestedBuild
    PROVE  /\ Append(list, b) \in Seq(NestedBuild) /\ Len(Append(list, b)) = Len(list) + 1
           /\ DOMAIN Append(list, b) = 1..(Len(list) + 1)
           /\ Append(list, b)[Len(list) + 1] = b
           /\ \A i \in 1..Len(list) : Append(list, b)[i] = list[i]
OBVIOUS

LEMMA LoadingInit == Init => Loading
<1> SUFFICES ASSUME Init PROVE Loading
  OBVIOUS
<1>1. PICK w \in Workspaces : /\ text = w.text /\ documents = Members(w.open)
                              /\ builds = <<Build(w.open, None)>>
  BY DEF Init
<1>2. w.text \in [Files -> Model] /\ w.open \in Seq(Files)
  BY WorkspacesAssumption
<1>3. /\ Build(w.open, None).docs = w.open /\ Build(w.open, None).loads = None
      /\ Build(w.open, None).unresolved = <<>>
      /\ Build(w.open, None) \in NestedBuild
  BY <1>2 DEF Build, NestedBuild
<1> HIDE DEF Build
<1>4. DOMAIN builds = {1} /\ Len(builds) = 1 /\ builds[1] = Build(w.open, None) /\ builds # <<>>
  BY <1>1
<1>5. LoadingTypeOK
  BY <1>1, <1>2, <1>3 DEF LoadingTypeOK, Members
<1>6. BuildsFollowImports
  BY <1>3, <1>4 DEF BuildsFollowImports
<1>7. ImportsAreHandled
  BY <1>1, <1>3, <1>4 DEF ImportsAreHandled, IsHandledBy
<1>8. None \notin documents
  BY <1>5, FilesAssumption DEF LoadingTypeOK
<1>9. LoadedTwiceIsComplete
  BY <1>3, <1>4, <1>8, NoMembers DEF LoadedTwiceIsComplete
<1> QED
  BY <1>5, <1>6, <1>7, <1>9 DEF Loading

-----------------------------------------------------------------------------
(* What a step that does not edit a file has to establish, told of the      *)
(* builds and the documents after it.                                       *)

LEMMA BuildsFollowAfter ==
    ASSUME UNCHANGED text, NEW list, list = builds',
           \A i \in DOMAIN list :
              /\ list[i].loads = None <=> i = 1
              /\ i # 1 => /\ list[i].loads \in Loadable
                          /\ Members(list[i].docs) \subseteq {list[i].loads}
                          /\ Members(list[i].unresolved) \subseteq ImportedFiles(list[i].loads)
              /\ i # 1 /\ i # Len(list) => list[i + 1].loads \in ImportedFiles(list[i].loads)
    PROVE  BuildsFollowImports'
<1>0. \A i \in DOMAIN builds' : ImportedFiles(builds[i].loads)' = ImportedFiles(list[i].loads)
  BY DEF ImportedFiles
<1>1. \A i \in DOMAIN builds' : i # 1 => Members(builds'[i].unresolved) \subseteq ImportedFiles(builds[i].loads)'
  BY <1>0
<1>2. \A i \in DOMAIN builds' : i # 1 /\ i # Len(builds') => builds'[i + 1].loads \in ImportedFiles(builds[i].loads)'
  BY <1>0
<1>3. \A i \in DOMAIN builds' :
         /\ builds'[i].loads = None <=> i = 1
         /\ i # 1 => /\ builds'[i].loads \in Loadable
                     /\ Members(builds'[i].docs) \subseteq {builds'[i].loads}
  OBVIOUS
<1> QED
  BY <1>1, <1>2, <1>3 DEF BuildsFollowImports, Loadable, Members

LEMMA HandledAfter ==
    ASSUME UNCHANGED text, NEW list, list = builds', NEW there, there = documents',
           \A i \in DOMAIN list : i # 1 =>
              \/ list[i].loads \in Members(list[i].docs)
              \/ \A g \in ImportedFiles(list[i].loads) \cap Loadable :
                    \/ g \in there \cup Members(list[i].unresolved)
                    \/ i # Len(list) /\ list[i + 1].loads = g,
           \A f \in there :
              \/ ImportedFiles(f) \cap Loadable \subseteq there
              \/ /\ list # <<>>
                 /\ \/ f \in Members(list[1].docs)
                    \/ \A g \in ImportedFiles(f) \cap Loadable :
                          \/ g \in there \cup Members(list[1].unresolved)
                          \/ 1 # Len(list) /\ list[1 + 1].loads = g
    PROVE  ImportsAreHandled'
<1>1. \A i \in DOMAIN builds' : i # 1 => IsHandledBy(i, builds[i].loads)'
  BY DEF IsHandledBy, ImportedFiles, Loadable, Members
<1>2. \A f \in documents' : IsComplete(f)' \/ (builds' # <<>> /\ IsHandledBy(1, f)')
  BY ImportsStay DEF IsHandledBy, IsComplete, Loadable, Members
<1> QED
  BY <1>1, <1>2 DEF ImportsAreHandled

LEMMA LoadedTwiceAfter ==
    ASSUME UNCHANGED text, NEW list, list = builds', NEW there, there = documents',
           \A i \in DOMAIN list :
              /\ \A g \in Members(list[i].unresolved) :
                    g \in there => ImportedFiles(g) \cap Loadable \subseteq there
              /\ list[i].loads \in there =>
                    /\ i = Len(list)
                    /\ ImportedFiles(list[i].loads) \cap Loadable \subseteq there
                    /\ Members(list[i].unresolved) \cap Loadable = {}
    PROVE  LoadedTwiceIsComplete'
<1>1. \A i \in DOMAIN builds' : \A g \in Members(builds'[i].unresolved) :
        g \in documents' => IsComplete(g)'
  BY ImportsStay DEF IsComplete, Loadable, Members
<1>2. \A i \in DOMAIN builds' : builds'[i].loads \in documents' =>
        /\ i = Len(builds')
        /\ IsComplete(builds[i].loads)'
        /\ Members(builds'[i].unresolved) \cap Loadable = {}
  BY DEF IsComplete, ImportedFiles, Loadable, Members
<1> QED
  BY <1>1, <1>2 DEF LoadedTwiceIsComplete, Loadable, Members

-----------------------------------------------------------------------------
(* The steps *)

LEMMA LoadableFiles == Loadable \subseteq Files /\ None \notin Loadable
BY FilesAssumption DEF Loadable

LEMMA NextDocumentKeepsLoading ==
    ASSUME Loading, NextDocument
    PROVE  Loading'
<1> DEFINE n == Len(builds)
           f == Head(Top.docs)
           rest == Tail(Top.docs)
<1>1. builds # <<>> /\ Top.unresolved = <<>> /\ Top.docs # <<>> /\ UNCHANGED <<text, documents>>
  BY DEF NextDocument
<1>2. PICK uris \in FindUnresolvedImports(text[f]) :
        builds' = SetTop([Top EXCEPT !.docs = rest, !.unresolved = uris])
  BY DEF NextDocument
<1>3. LoadingTypeOK
  BY DEF Loading
<1>4. /\ n \in Nat \ {0} /\ DOMAIN builds = 1..n /\ n \in DOMAIN builds /\ 1 \in DOMAIN builds
      /\ Top = builds[n] /\ Top \in NestedBuild
  BY <1>1, <1>3, TopBuild
<1>5. /\ f \in Files /\ rest \in Seq(Files)
      /\ Members(builds[n].docs) = {f} \cup Members(rest)
  BY <1>1, <1>4, HeadTailMembers DEF NestedBuild
<1>6. uris \in Seq(Files) /\ Members(uris) = ImportedFiles(f) \ documents
  BY <1>3, <1>5, UnresolvedImports
<1> DEFINE b == [Top EXCEPT !.docs = rest, !.unresolved = uris]
<1>7. b \in NestedBuild /\ b.docs = rest /\ b.unresolved = uris /\ b.loads = builds[n].loads
  BY <1>4, <1>5, <1>6 DEF NestedBuild
<1>8. PICK list : list = builds'
  OBVIOUS
<1>9. /\ list \in Seq(NestedBuild) /\ Len(list) = n /\ DOMAIN list = DOMAIN builds
      /\ list[n] = b
      /\ \A i \in DOMAIN builds : i # n => list[i] = builds[i]
  BY <1>1, <1>2, <1>3, <1>7, <1>8, SetTopBuild
<1>10. LoadingTypeOK'
  BY <1>1, <1>3, <1>8, <1>9 DEF LoadingTypeOK
<1>11. list # <<>>
  BY <1>4, <1>9
<1>12. \A i \in DOMAIN builds : list[i].loads = builds[i].loads
  BY <1>7, <1>9
<1>13. Members(builds[n].unresolved) = {}
  BY <1>1, <1>4, NoMembers
<1> HIDE DEF n, f, rest, b
<1>14. n # 1 => builds[n].loads = f
  BY <1>4, <1>5 DEF Loading, BuildsFollowImports
<1>15. BuildsFollowImports'
  <2>1. ASSUME NEW i \in DOMAIN builds, i # n
        PROVE  i # Len(builds) /\ i + 1 \in DOMAIN builds /\ list[i + 1].loads = builds[i + 1].loads
    BY <1>4, <1>12, <2>1 DEF n
  <2>2. ASSUME NEW i \in DOMAIN list, i # 1
        PROVE  /\ list[i].loads \in Loadable
               /\ Members(list[i].docs) \subseteq {list[i].loads}
               /\ Members(list[i].unresolved) \subseteq ImportedFiles(list[i].loads)
    <3>1. CASE i = n
      BY <1>4, <1>5, <1>6, <1>7, <1>9, <1>14, <2>2, <3>1 DEF Loading, BuildsFollowImports
    <3>2. CASE i # n
      BY <1>9, <2>2, <3>2 DEF Loading, BuildsFollowImports
    <3> QED
      BY <3>1, <3>2
  <2>3. ASSUME NEW i \in DOMAIN list, i # 1, i # n
        PROVE  list[i + 1].loads \in ImportedFiles(list[i].loads)
    BY <1>9, <2>1, <2>3 DEF Loading, BuildsFollowImports
  <2>4. \A i \in DOMAIN list : list[i].loads = None <=> i = 1
    BY <1>9, <1>12 DEF Loading, BuildsFollowImports
  <2> QED
    BY <1>1, <1>8, <1>9, <2>2, <2>3, <2>4, BuildsFollowAfter
<1>16. ImportsAreHandled'
  <2>1. ASSUME NEW i \in DOMAIN list, i # 1
        PROVE  \/ list[i].loads \in Members(list[i].docs)
               \/ \A g \in ImportedFiles(list[i].loads) \cap Loadable :
                    \/ g \in documents \cup Members(list[i].unresolved)
                    \/ i # n /\ list[i + 1].loads = g
    <3>1. CASE i = n
      BY <1>6, <1>7, <1>9, <1>14, <2>1, <3>1
    <3>2. CASE i # n
      <4>1. i + 1 \in DOMAIN builds
        BY <1>4, <1>9, <3>2
      <4>2. IsHandledBy(i, builds[i].loads)
        BY <1>9, <2>1 DEF Loading, ImportsAreHandled
      <4> QED
        BY <1>9, <1>12, <3>2, <4>1, <4>2 DEF IsHandledBy, n
    <3> QED
      BY <3>1, <3>2
  <2>2. ASSUME NEW d \in documents
        PROVE  \/ ImportedFiles(d) \cap Loadable \subseteq documents
               \/ /\ list # <<>>
                  /\ \/ d \in Members(list[1].docs)
                     \/ \A g \in ImportedFiles(d) \cap Loadable :
                           \/ g \in documents \cup Members(list[1].unresolved)
                           \/ 1 # n /\ list[1 + 1].loads = g
    <3>1. CASE IsComplete(d)
      BY <3>1 DEF IsComplete
    <3>2. CASE IsHandledBy(1, d) /\ n = 1
      <4>1. CASE d = f
        BY <1>6, <1>7, <1>9, <1>11, <3>2, <4>1
      <4>2. CASE d # f
        BY <1>5, <1>7, <1>9, <1>11, <1>13, <3>2, <4>2 DEF IsHandledBy, n
      <4> QED
        BY <4>1, <4>2
    <3>3. CASE IsHandledBy(1, d) /\ n # 1
      <4>1. 1 \in DOMAIN builds /\ 1 + 1 \in DOMAIN builds
        BY <1>4, <3>3
      <4> QED
        BY <1>9, <1>11, <1>12, <3>3, <4>1 DEF IsHandledBy, n
    <3> QED
      BY <1>1, <3>1, <3>2, <3>3 DEF Loading, ImportsAreHandled
  <2> QED
    BY <1>1, <1>8, <1>9, <2>1, <2>2, HandledAfter
<1>17. LoadedTwiceIsComplete'
  <2>1. ASSUME NEW i \in DOMAIN list, NEW g \in Members(list[i].unresolved), g \in documents
        PROVE  ImportedFiles(g) \cap Loadable \subseteq documents
    <3>1. i # n
      BY <1>6, <1>7, <1>9, <2>1
    <3> QED
      BY <1>9, <2>1, <3>1 DEF Loading, LoadedTwiceIsComplete, IsComplete
  <2>2. ASSUME NEW i \in DOMAIN list, list[i].loads \in documents
        PROVE  /\ i = n
               /\ ImportedFiles(list[i].loads) \cap Loadable \subseteq documents
               /\ Members(list[i].unresolved) \cap Loadable = {}
    <3>1. i = n /\ ImportedFiles(builds[n].loads) \cap Loadable \subseteq documents
      BY <1>9, <1>12, <2>2 DEF Loading, LoadedTwiceIsComplete, IsComplete, n
    <3>2. n # 1
      BY <1>3, <1>4, <1>9, <1>12, <2>2, <3>1, FilesAssumption
         DEF Loading, BuildsFollowImports, LoadingTypeOK
    <3> QED
      BY <1>6, <1>7, <1>9, <1>14, <3>1, <3>2
  <2> QED
    BY <1>1, <1>8, <1>9, <2>1, <2>2, LoadedTwiceAfter
<1> QED
  BY <1>10, <1>15, <1>16, <1>17 DEF Loading

LEMMA LoadDocumentKeepsLoading ==
    ASSUME Loading, LoadDocument
    PROVE  Loading'
<1> DEFINE n == Len(builds)
           uri == Head(Top.unresolved)
           left == Tail(Top.unresolved)
           b == [Top EXCEPT !.unresolved = left]
           rest == SetTop(b)
           nested == Build(<<uri>>, uri)
<1>1. builds # <<>> /\ Top.unresolved # <<>> /\ UNCHANGED <<text, documents>>
  BY DEF LoadDocument
<1>2. \/ uri \in Loadable /\ builds' = Append(rest, nested)
      \/ uri \notin Loadable /\ builds' = rest
  BY DEF LoadDocument, Loadable
<1>3. LoadingTypeOK
  BY DEF Loading
<1>4. /\ n \in Nat \ {0} /\ DOMAIN builds = 1..n /\ n \in DOMAIN builds /\ 1 \in DOMAIN builds
      /\ Top = builds[n] /\ Top \in NestedBuild
  BY <1>1, <1>3, TopBuild
<1>5. /\ uri \in Files /\ left \in Seq(Files)
      /\ Members(builds[n].unresolved) = {uri} \cup Members(left)
  BY <1>1, <1>4, HeadTailMembers DEF NestedBuild
<1>6. /\ b \in NestedBuild /\ b.docs = builds[n].docs /\ b.unresolved = left
      /\ b.loads = builds[n].loads
  BY <1>4, <1>5 DEF NestedBuild
<1>7. /\ rest \in Seq(NestedBuild) /\ Len(rest) = n /\ DOMAIN rest = 1..n
      /\ rest[n] = b
      /\ \A i \in 1..n : i # n => rest[i] = builds[i]
  <2>1. PICK after : after = SetTop(b)
    OBVIOUS
  <2> HIDE DEF b
  <2>2. /\ after \in Seq(NestedBuild) /\ Len(after) = n /\ DOMAIN after = DOMAIN builds
        /\ after[n] = b
        /\ \A i \in DOMAIN builds : i # n => after[i] = builds[i]
    BY <1>1, <1>3, <1>6, <2>1, SetTopBuild
  <2> QED
    BY <1>4, <2>1, <2>2
<1>8. /\ nested \in NestedBuild /\ nested.docs = <<uri>> /\ nested.unresolved = <<>>
      /\ nested.loads = uri
  BY <1>5 DEF Build, NestedBuild
<1>9. PICK list : list = builds'
  OBVIOUS
<1>10. Members(<<uri>>) = {uri} /\ Members(<<>>) = {}
  BY DEF Members
<1>11. /\ Append(rest, nested) \in Seq(NestedBuild)
       /\ Len(Append(rest, nested)) = n + 1 /\ DOMAIN Append(rest, nested) = 1..(n + 1)
       /\ Append(rest, nested)[n + 1] = nested
       /\ \A i \in 1..n : Append(rest, nested)[i] = rest[i]
  <2> HIDE DEF rest, nested
  <2> QED
    BY <1>7, <1>8, PushBuild
<1> HIDE DEF n, uri, left, b, rest, nested
<1>12. LoadingTypeOK'
  BY <1>1, <1>2, <1>3, <1>7, <1>11 DEF LoadingTypeOK
<1>13. \A i \in 1..n : rest[i].loads = builds[i].loads /\ rest[i].docs = builds[i].docs
  BY <1>6, <1>7
<1>14. \A i \in 1..n : Members(rest[i].unresolved) \subseteq Members(builds[i].unresolved)
  BY <1>5, <1>6, <1>7
<1>15. CASE uri \notin Loadable
  <2>1. list = rest
    BY <1>2, <1>9, <1>15
  <2>2. \A i \in 1..n : \A g \in Loadable :
          g \in Members(builds[i].unresolved) => g \in Members(list[i].unresolved)
    BY <1>5, <1>6, <1>7, <1>15, <2>1
  <2>3. Len(list) = n /\ DOMAIN list = 1..n /\ list # <<>>
    BY <1>4, <1>7, <2>1
  <2>4. \A i \in 1..n : i # n => i + 1 \in 1..n
    BY <1>4
  <2>5. BuildsFollowImports'
    <3>1. \A i \in DOMAIN list :
            /\ list[i].loads = None <=> i = 1
            /\ i # 1 => /\ list[i].loads \in Loadable
                        /\ Members(list[i].docs) \subseteq {list[i].loads}
                        /\ Members(list[i].unresolved) \subseteq ImportedFiles(list[i].loads)
      BY <1>4, <1>13, <1>14, <2>1, <2>3 DEF Loading, BuildsFollowImports
    <3>2. \A i \in DOMAIN list :
             i # 1 /\ i # Len(list) => list[i + 1].loads \in ImportedFiles(list[i].loads)
      BY <1>4, <1>13, <2>1, <2>3, <2>4 DEF Loading, BuildsFollowImports, n
    <3> QED
      BY <1>1, <1>9, <3>1, <3>2, BuildsFollowAfter
  <2>6. ASSUME NEW i \in 1..n, NEW h, IsHandledBy(i, h)
        PROVE  \/ h \in Members(list[i].docs)
               \/ \A g \in ImportedFiles(h) \cap Loadable :
                    \/ g \in documents \cup Members(list[i].unresolved)
                    \/ i # n /\ list[i + 1].loads = g
    BY <1>13, <2>1, <2>2, <2>4, <2>6 DEF IsHandledBy, n
  <2>7. ImportsAreHandled'
    <3>1. \A i \in DOMAIN list : i # 1 => IsHandledBy(i, list[i].loads)
      BY <1>4, <1>13, <2>1, <2>3 DEF Loading, ImportsAreHandled
    <3>2. \A f \in documents : ImportedFiles(f) \cap Loadable \subseteq documents \/ IsHandledBy(1, f)
      BY DEF Loading, ImportsAreHandled, IsComplete
    <3>3. \A i \in DOMAIN list : i # 1 =>
             \/ list[i].loads \in Members(list[i].docs)
             \/ \A g \in ImportedFiles(list[i].loads) \cap Loadable :
                   \/ g \in documents \cup Members(list[i].unresolved)
                   \/ i # Len(list) /\ list[i + 1].loads = g
      BY <2>3, <2>6, <3>1
    <3>4. \A f \in documents :
             \/ ImportedFiles(f) \cap Loadable \subseteq documents
             \/ /\ list # <<>>
                /\ \/ f \in Members(list[1].docs)
                   \/ \A g \in ImportedFiles(f) \cap Loadable :
                         \/ g \in documents \cup Members(list[1].unresolved)
                         \/ 1 # Len(list) /\ list[1 + 1].loads = g
      BY <1>4, <2>3, <2>6, <3>2
    <3> QED
      BY <1>1, <1>9, <3>3, <3>4, HandledAfter
  <2>8. LoadedTwiceIsComplete'
    <3>1. \A i \in DOMAIN list : \A g \in Members(list[i].unresolved) :
             g \in documents => ImportedFiles(g) \cap Loadable \subseteq documents
      BY <1>4, <1>14, <2>1, <2>3 DEF Loading, LoadedTwiceIsComplete, IsComplete
    <3>2. ASSUME NEW i \in DOMAIN list, list[i].loads \in documents
          PROVE  /\ i = n
                 /\ ImportedFiles(list[i].loads) \cap Loadable \subseteq documents
                 /\ Members(list[i].unresolved) \cap Loadable = {}
      <4>1. builds[i].loads \in documents /\ i \in DOMAIN builds
        BY <1>4, <1>13, <2>1, <2>3, <3>2
      <4> QED
        BY <1>13, <1>14, <2>1, <2>3, <4>1 DEF Loading, LoadedTwiceIsComplete, IsComplete, n
    <3> QED
      BY <1>1, <1>9, <2>3, <3>1, <3>2, LoadedTwiceAfter
  <2> QED
    BY <1>12, <2>5, <2>7, <2>8 DEF Loading
<1>16. CASE uri \in Loadable
  <2>1. list = Append(rest, nested)
    BY <1>2, <1>9, <1>16
  <2>2. Len(list) = n + 1 /\ DOMAIN list = 1..(n + 1) /\ list # <<>> /\ list[n + 1] = nested
    BY <1>4, <1>11, <2>1
  <2>3. \A i \in 1..n : list[i] = rest[i]
    BY <1>11, <2>1
  <2>4. \A i \in DOMAIN list : i \in 1..n \/ i = n + 1
    BY <1>4, <2>2
  <2>5. \A i \in 1..n : i # n + 1
    BY <1>4
  <2>6. \A i \in 1..n : i # n => i + 1 \in 1..n
    BY <1>4
  <2>7. uri # None /\ n + 1 # 1
    BY <1>4, <1>16, LoadableFiles
  <2>8. BuildsFollowImports'
    <3>1. ASSUME NEW i \in 1..n
          PROVE  /\ list[i].loads = None <=> i = 1
                 /\ i # 1 => /\ list[i].loads \in Loadable
                             /\ Members(list[i].docs) \subseteq {list[i].loads}
                             /\ Members(list[i].unresolved) \subseteq ImportedFiles(list[i].loads)
      BY <1>4, <1>13, <1>14, <2>3 DEF Loading, BuildsFollowImports
    <3>2. ASSUME NEW i \in 1..n, i # 1
          PROVE  list[i + 1].loads \in ImportedFiles(list[i].loads)
      <4>1. CASE i = n
        <5>1. uri \in ImportedFiles(builds[n].loads)
          BY <1>4, <1>5, <3>2, <4>1 DEF Loading, BuildsFollowImports
        <5> QED
          BY <1>8, <1>13, <2>2, <2>3, <4>1, <5>1
      <4>2. CASE i # n
        <5>1. i \in DOMAIN builds /\ i + 1 \in 1..n
          BY <1>4, <2>6, <4>2
        <5>2. builds[i + 1].loads \in ImportedFiles(builds[i].loads)
          BY <3>2, <4>2, <5>1 DEF Loading, BuildsFollowImports, n
        <5>3. list[i].loads = builds[i].loads /\ list[i + 1].loads = builds[i + 1].loads
          BY <1>13, <2>3, <5>1
        <5> QED
          BY <5>2, <5>3
      <4> QED
        BY <4>1, <4>2
    <3>3. /\ list[n + 1].loads = uri /\ Members(list[n + 1].docs) = {uri}
          /\ Members(list[n + 1].unresolved) = {}
      BY <1>8, <1>10, <2>2
    <3> QED
      BY <1>1, <1>9, <1>16, <2>2, <2>4, <2>5, <2>7, <3>1, <3>2, <3>3, BuildsFollowAfter
  <2>9. ASSUME NEW i \in 1..n, NEW h, IsHandledBy(i, h)
        PROVE  \/ h \in Members(list[i].docs)
               \/ \A g \in ImportedFiles(h) \cap Loadable :
                    \/ g \in documents \cup Members(list[i].unresolved)
                    \/ i # n + 1 /\ list[i + 1].loads = g
    <3>1. CASE i = n
      BY <1>5, <1>6, <1>7, <1>8, <1>13, <2>2, <2>3, <2>5, <2>9, <3>1 DEF IsHandledBy, n
    <3>2. CASE i # n
      BY <1>7, <1>13, <2>3, <2>5, <2>6, <2>9, <3>2 DEF IsHandledBy, n
    <3> QED
      BY <3>1, <3>2
  <2>10. ImportsAreHandled'
    <3>1. \A i \in 1..n : i # 1 => IsHandledBy(i, list[i].loads)
      BY <1>4, <1>13, <2>3 DEF Loading, ImportsAreHandled
    <3>2. \A f \in documents : ImportedFiles(f) \cap Loadable \subseteq documents \/ IsHandledBy(1, f)
      BY DEF Loading, ImportsAreHandled, IsComplete
    <3>3. list[n + 1].loads \in Members(list[n + 1].docs)
      BY <1>8, <1>10, <2>2
    <3>4. 1 \in 1..n
      BY <1>4
    <3>5. \A i \in DOMAIN list : i # 1 =>
             \/ list[i].loads \in Members(list[i].docs)
             \/ \A g \in ImportedFiles(list[i].loads) \cap Loadable :
                   \/ g \in documents \cup Members(list[i].unresolved)
                   \/ i # Len(list) /\ list[i + 1].loads = g
      BY <2>2, <2>4, <2>9, <3>1, <3>3
    <3>6. \A f \in documents :
             \/ ImportedFiles(f) \cap Loadable \subseteq documents
             \/ /\ list # <<>>
                /\ \/ f \in Members(list[1].docs)
                   \/ \A g \in ImportedFiles(f) \cap Loadable :
                         \/ g \in documents \cup Members(list[1].unresolved)
                         \/ 1 # Len(list) /\ list[1 + 1].loads = g
      BY <2>2, <2>9, <3>2, <3>4
    <3> QED
      BY <1>1, <1>9, <3>5, <3>6, HandledAfter
  <2>11. LoadedTwiceIsComplete'
    <3>1. \A i \in DOMAIN list : \A g \in Members(list[i].unresolved) :
             g \in documents => ImportedFiles(g) \cap Loadable \subseteq documents
      <4>1. \A i \in 1..n : Members(list[i].unresolved) \subseteq Members(builds[i].unresolved)
        BY <1>14, <2>3
      <4>2. Members(list[n + 1].unresolved) = {}
        BY <1>8, <1>10, <2>2
      <4> QED
        BY <1>4, <2>4, <4>1, <4>2 DEF Loading, LoadedTwiceIsComplete, IsComplete
    <3>2. ASSUME NEW i \in DOMAIN list, list[i].loads \in documents
          PROVE  /\ i = n + 1
                 /\ ImportedFiles(list[i].loads) \cap Loadable \subseteq documents
                 /\ Members(list[i].unresolved) \cap Loadable = {}
      <4>1. CASE i = n + 1
        <5>1. IsComplete(uri)
          BY <1>4, <1>5, <1>8, <2>2, <3>2, <4>1 DEF Loading, LoadedTwiceIsComplete
        <5> QED
          BY <1>8, <1>10, <2>2, <4>1, <5>1 DEF IsComplete
      <4>2. CASE i \in 1..n
        <5>1. builds[i].loads \in documents /\ i \in DOMAIN builds
          BY <1>4, <1>13, <2>3, <3>2, <4>2
        <5>2. i = n /\ Members(builds[n].unresolved) \cap Loadable = {}
          BY <5>1 DEF Loading, LoadedTwiceIsComplete, n
        <5> QED
          BY <1>5, <1>16, <5>2
      <4> QED
        BY <2>4, <4>1, <4>2
    <3> QED
      BY <1>1, <1>9, <2>2, <3>1, <3>2, LoadedTwiceAfter
  <2> QED
    BY <1>12, <2>8, <2>10, <2>11 DEF Loading
<1> QED
  BY <1>15, <1>16

LEMMA EndBuildKeepsLoading ==
    ASSUME Loading, EndBuild
    PROVE  Loading'
<1> DEFINE n == Len(builds)
           h == builds[n].loads
<1>1. builds # <<>> /\ Top.unresolved = <<>> /\ Top.docs = <<>> /\ UNCHANGED text /\ builds' = Pop
  BY DEF EndBuild
<1>2. LoadingTypeOK
  BY DEF Loading
<1>3. /\ n \in Nat \ {0} /\ DOMAIN builds = 1..n /\ n \in DOMAIN builds /\ 1 \in DOMAIN builds
      /\ Top = builds[n] /\ Top \in NestedBuild
  BY <1>1, <1>2, TopBuild
<1>4. Members(builds[n].docs) = {} /\ Members(builds[n].unresolved) = {}
  BY <1>1, <1>3, NoMembers
<1>5. documents' = IF h = None THEN documents ELSE documents \cup {h}
  BY <1>3 DEF EndBuild
<1>6. PICK list : list = builds'
  OBVIOUS
<1>7. /\ list \in Seq(NestedBuild) /\ Len(list) = n - 1 /\ DOMAIN list = 1..(n - 1)
      /\ \A i \in 1..(n - 1) : list[i] = builds[i] /\ i \in DOMAIN builds
      /\ list = <<>> <=> n = 1
  BY <1>1, <1>2, <1>6, PopBuild
<1>8. h \in Files \cup {None}
  BY <1>3 DEF NestedBuild
<1> HIDE DEF n, h
<1>9. LoadingTypeOK'
  BY <1>1, <1>2, <1>5, <1>6, <1>7, <1>8 DEF LoadingTypeOK
<1>10. h = None <=> n = 1
  BY <1>3 DEF Loading, BuildsFollowImports, h
<1>11. PICK there : there = documents'
  OBVIOUS
<1>12. documents \subseteq there /\ there \subseteq documents \cup {h}
  BY <1>5, <1>11
<1>13. n # 1 => h \in there
  BY <1>5, <1>10, <1>11
<1>14. n # 1 => ImportedFiles(h) \cap Loadable \subseteq documents
  BY <1>3, <1>4 DEF Loading, ImportsAreHandled, IsHandledBy, n, h
<1>15. \A i \in 1..(n - 1) : /\ i # n /\ n # 1 /\ i + 1 \in 1..n
                             /\ i # n - 1 => i + 1 \in 1..(n - 1)
                             /\ i = n - 1 => i + 1 = n
  BY <1>3
<1>16. BuildsFollowImports'
  <2>1. \A i \in DOMAIN list :
           /\ list[i].loads = None <=> i = 1
           /\ i # 1 => /\ list[i].loads \in Loadable
                       /\ Members(list[i].docs) \subseteq {list[i].loads}
                       /\ Members(list[i].unresolved) \subseteq ImportedFiles(list[i].loads)
    BY <1>7 DEF Loading, BuildsFollowImports
  <2>2. \A i \in DOMAIN list :
           i # 1 /\ i # Len(list) => list[i + 1].loads \in ImportedFiles(list[i].loads)
    BY <1>7, <1>15 DEF Loading, BuildsFollowImports, n
  <2> QED
    BY <1>1, <1>6, <2>1, <2>2, BuildsFollowAfter
<1>17. ASSUME NEW i \in 1..(n - 1), NEW f, IsHandledBy(i, f)
       PROVE  \/ f \in Members(list[i].docs)
              \/ \A g \in ImportedFiles(f) \cap Loadable :
                    \/ g \in there \cup Members(list[i].unresolved)
                    \/ i # Len(list) /\ list[i + 1].loads = g
  <2>1. CASE i = n - 1
    BY <1>7, <1>12, <1>13, <1>15, <1>17, <2>1 DEF IsHandledBy, h
  <2>2. CASE i # n - 1
    BY <1>7, <1>12, <1>15, <1>17, <2>2 DEF IsHandledBy
  <2> QED
    BY <2>1, <2>2
<1>18. ImportsAreHandled'
  <2>1. \A i \in DOMAIN list : i # 1 =>
           \/ list[i].loads \in Members(list[i].docs)
           \/ \A g \in ImportedFiles(list[i].loads) \cap Loadable :
                 \/ g \in there \cup Members(list[i].unresolved)
                 \/ i # Len(list) /\ list[i + 1].loads = g
    <3>1. \A i \in DOMAIN list : i # 1 => IsHandledBy(i, list[i].loads)
      BY <1>7 DEF Loading, ImportsAreHandled
    <3> QED
      BY <1>7, <1>17, <3>1
  <2>2. ASSUME NEW f \in there
        PROVE  \/ ImportedFiles(f) \cap Loadable \subseteq there
               \/ /\ list # <<>>
                  /\ \/ f \in Members(list[1].docs)
                     \/ \A g \in ImportedFiles(f) \cap Loadable :
                           \/ g \in there \cup Members(list[1].unresolved)
                           \/ 1 # Len(list) /\ list[1 + 1].loads = g
    <3>1. CASE f = h /\ n # 1
      BY <1>12, <1>14, <3>1
    <3>2. CASE f \in documents /\ n = 1
      BY <1>3, <1>4, <1>12, <3>2 DEF Loading, ImportsAreHandled, IsComplete, IsHandledBy, n
    <3>3. CASE f \in documents /\ n # 1
      <4>1. 1 \in 1..(n - 1) /\ list # <<>>
        BY <1>3, <1>7, <3>3
      <4>2. IsComplete(f) \/ IsHandledBy(1, f)
        BY <3>3 DEF Loading, ImportsAreHandled
      <4> QED
        BY <1>12, <1>17, <4>1, <4>2 DEF IsComplete
    <3> QED
      BY <1>5, <1>10, <1>11, <3>1, <3>2, <3>3
  <2> QED
    BY <1>1, <1>6, <1>11, <2>1, <2>2, HandledAfter
<1>19. LoadedTwiceIsComplete'
  <2>1. ASSUME NEW i \in DOMAIN list, NEW g \in Members(list[i].unresolved), g \in there
        PROVE  ImportedFiles(g) \cap Loadable \subseteq there
    <3>1. CASE g = h
      BY <1>7, <1>12, <1>14, <1>15, <3>1
    <3>2. CASE g \in documents
      BY <1>7, <1>12, <2>1, <3>2 DEF Loading, LoadedTwiceIsComplete, IsComplete
    <3> QED
      BY <1>12, <2>1, <3>1, <3>2
  <2>2. ASSUME NEW i \in DOMAIN list, list[i].loads \in there
        PROVE  FALSE
    <3>1. i \in 1..(n - 1) /\ list[i] = builds[i] /\ i \in DOMAIN builds /\ i # n
      BY <1>7, <1>15
    <3>2. builds[i].loads \notin documents
      BY <3>1 DEF Loading, LoadedTwiceIsComplete, n
    <3>3. builds[i].loads = h
      BY <1>12, <2>2, <3>1, <3>2
    <3>4. i # 1
      BY <1>10, <1>15, <3>1, <3>3 DEF Loading, BuildsFollowImports
    <3>5. i + 1 \in DOMAIN builds /\ builds[i + 1].loads \in ImportedFiles(h) \cap Loadable
      <4>1. i + 1 \in DOMAIN builds /\ i + 1 # 1
        BY <1>3, <3>1
      <4>2. builds[i + 1].loads \in Loadable
        BY <4>1 DEF Loading, BuildsFollowImports
      <4>3. builds[i + 1].loads \in ImportedFiles(h)
        BY <3>1, <3>3, <3>4 DEF Loading, BuildsFollowImports, n
      <4> QED
        BY <4>1, <4>2, <4>3
    <3>6. builds[i + 1].loads \in documents
      BY <1>14, <1>15, <3>1, <3>5
    <3>7. i + 1 = n
      BY <3>5, <3>6 DEF Loading, LoadedTwiceIsComplete, n
    <3> QED
      BY <3>2, <3>3, <3>6, <3>7 DEF h
  <2> QED
    BY <1>1, <1>6, <1>11, <2>1, <2>2, LoadedTwiceAfter
<1> QED
  BY <1>9, <1>16, <1>18, <1>19 DEF Loading

LEMMA LookUpKeepsLoading ==
    ASSUME Loading, UNCHANGED <<text, documents, builds>>
    PROVE  Loading'
<1>1. PICK list, there : list = builds' /\ list = builds /\ there = documents' /\ there = documents
  OBVIOUS
<1>2. LoadingTypeOK'
  BY DEF Loading, LoadingTypeOK
<1>3. BuildsFollowImports'
  <2>1. \A i \in DOMAIN list :
           /\ list[i].loads = None <=> i = 1
           /\ i # 1 => /\ list[i].loads \in Loadable
                       /\ Members(list[i].docs) \subseteq {list[i].loads}
                       /\ Members(list[i].unresolved) \subseteq ImportedFiles(list[i].loads)
           /\ i # 1 /\ i # Len(list) => list[i + 1].loads \in ImportedFiles(list[i].loads)
    BY <1>1 DEF Loading, BuildsFollowImports
  <2> QED
    BY <1>1, <2>1, BuildsFollowAfter
<1>4. ImportsAreHandled'
  <2>1. \A i \in DOMAIN list : i # 1 =>
           \/ list[i].loads \in Members(list[i].docs)
           \/ \A g \in ImportedFiles(list[i].loads) \cap Loadable :
                 \/ g \in there \cup Members(list[i].unresolved)
                 \/ i # Len(list) /\ list[i + 1].loads = g
    BY <1>1 DEF Loading, ImportsAreHandled, IsHandledBy
  <2>2. \A f \in there :
           \/ ImportedFiles(f) \cap Loadable \subseteq there
           \/ /\ list # <<>>
              /\ \/ f \in Members(list[1].docs)
                 \/ \A g \in ImportedFiles(f) \cap Loadable :
                       \/ g \in there \cup Members(list[1].unresolved)
                       \/ 1 # Len(list) /\ list[1 + 1].loads = g
    BY <1>1 DEF Loading, ImportsAreHandled, IsHandledBy, IsComplete
  <2> QED
    BY <1>1, <2>1, <2>2, HandledAfter
<1>5. LoadedTwiceIsComplete'
  <2>1. \A i \in DOMAIN list :
           /\ \A g \in Members(list[i].unresolved) :
                 g \in there => ImportedFiles(g) \cap Loadable \subseteq there
           /\ list[i].loads \in there =>
                 /\ i = Len(list)
                 /\ ImportedFiles(list[i].loads) \cap Loadable \subseteq there
                 /\ Members(list[i].unresolved) \cap Loadable = {}
    BY <1>1 DEF Loading, LoadedTwiceIsComplete, IsComplete
  <2> QED
    BY <1>1, <2>1, LoadedTwiceAfter
<1> QED
  BY <1>2, <1>3, <1>4, <1>5 DEF Loading

(* A revision publishes a definition, or no longer does: the imports stay.  *)
LEMMA RevisionsKeepImports ==
    ASSUME LoadingTypeOK, NEW f \in Files, NEW model \in Revisions(f)
    PROVE  model \in Model /\ model.imports = text[f].imports
<1>1. text[f] \in Model
  BY ImportsOfFiles
<1>2. PICK i \in DOMAIN text[f].definitions :
        model = [text[f] EXCEPT !.definitions[i].isPublished = ~@]
  BY DEF Revisions
<1> DEFINE Definition == [name : STRING, isPublished : BOOLEAN]
           d == text[f].definitions
           e == [d EXCEPT ![i] = [d[i] EXCEPT !.isPublished = ~@]]
<1>3. d \in Seq(Definition)
  BY <1>1 DEF Model
<1>4. d[i] \in Definition
  <2> HIDE DEF Definition
  <2> QED
    BY <1>3
<1>5. [d[i] EXCEPT !.isPublished = ~@] \in Definition
  BY <1>4
<1>6. e \in Seq(Definition)
  <2> HIDE DEF Definition
  <2> QED
    BY <1>3, <1>5
<1>7. model = [text[f] EXCEPT !.definitions = e]
  BY <1>2
<1> HIDE DEF e
<1>8. model.imports = text[f].imports
  BY <1>1, <1>7 DEF Model
<1>9. model \in Model
  BY <1>1, <1>6, <1>7 DEF Model
<1> QED
  BY <1>8, <1>9

LEMMA EditKeepsLoading ==
    ASSUME Loading, NEW f \in Files, NEW model \in Revisions(f), Edit(f, model)
    PROVE  Loading'
<1>1. builds = <<>> /\ builds' = <<>> /\ documents' = documents /\ text' = [text EXCEPT ![f] = model]
  BY DEF Edit, Loaded
<1>2. LoadingTypeOK /\ model \in Model /\ model.imports = text[f].imports
  BY RevisionsKeepImports DEF Loading
<1>3. LoadingTypeOK'
  BY <1>1, <1>2 DEF LoadingTypeOK
<1>4. \A g \in Files : text'[g].imports = text[g].imports
  BY <1>1, <1>2 DEF LoadingTypeOK
<1>5. DOMAIN builds' = {} /\ documents \subseteq Files
  BY <1>1, <1>2 DEF LoadingTypeOK
<1>6. \A g \in documents' : IsComplete(g)'
  <2>1. \A g \in documents : ImportedFiles(g) \cap Loadable \subseteq documents
    BY <1>1 DEF Loading, ImportsAreHandled, IsComplete
  <2> QED
    BY <1>1, <1>4, <1>5, <2>1 DEF IsComplete, ImportedFiles, Loadable
<1>7. ImportsAreHandled'
  BY <1>5, <1>6 DEF ImportsAreHandled
<1> QED
  BY <1>3, <1>5, <1>7 DEF Loading, BuildsFollowImports, LoadedTwiceIsComplete

LEMMA LoadingNext == Loading /\ [Next]_vars => Loading'
<1> SUFFICES ASSUME Loading, [Next]_vars PROVE Loading'
  OBVIOUS
<1>1. CASE NextDocument
  BY <1>1, NextDocumentKeepsLoading
<1>2. CASE LoadDocument
  BY <1>2, LoadDocumentKeepsLoading
<1>3. CASE EndBuild
  BY <1>3, EndBuildKeepsLoading
<1>4. ASSUME NEW f \in Files, LookUp(f) PROVE Loading'
  BY <1>4, LookUpKeepsLoading DEF LookUp
<1>5. ASSUME NEW f \in Files, NEW model \in Revisions(f), Edit(f, model) PROVE Loading'
  BY <1>5, EditKeepsLoading
<1>6. CASE UNCHANGED vars
  BY <1>6, LookUpKeepsLoading DEF vars
<1> QED
  BY <1>1, <1>2, <1>3, <1>4, <1>5, <1>6 DEF Next

-----------------------------------------------------------------------------
(* Builds within builds of the same file *)

(* From a file of a set to one outside of it, along a row of builds, the    *)
(* row leaves the set somewhere.                                            *)
LEMMA LeavesSomewhere ==
    ASSUME NEW i \in Nat, NEW j \in Nat, i < j, NEW loads, NEW R, loads[i + 1] \in R, loads[j] \notin R
    PROVE  \E k \in (i + 1)..(j - 1) : loads[k] \in R /\ loads[k + 1] \notin R
<1> DEFINE I == {k \in (i + 1)..j : loads[k] \notin R}
<1>1. I \subseteq Nat /\ j \in I
  OBVIOUS
<1>2. PICK m \in I : \A k \in I : m <= k
  BY <1>1, FirstPosition
<1>3. m \in (i + 1)..j /\ loads[m] \notin R /\ m # i + 1
  BY <1>2
<1>4. m - 1 \in (i + 1)..(j - 1) /\ (m - 1) + 1 = m /\ m - 1 \in (i + 1)..j /\ ~(m <= m - 1)
  BY <1>3
<1>5. loads[m - 1] \in R
  BY <1>2, <1>4
<1> QED
  BY <1>3, <1>4, <1>5

LEMMA OnlyCyclesNestFollows == Loading => OnlyCyclesNest
<1> SUFFICES ASSUME Loading,
                    NEW i \in DOMAIN builds, NEW j \in DOMAIN builds,
                    i < j, builds[i].loads # None, builds[i].loads = builds[j].loads
             PROVE  OnCycle(builds[i].loads, Unloaded)
  BY DEF OnlyCyclesNest
<1> DEFINE n == Len(builds)
           h == builds[i].loads
           S == ImportedFiles(h) \cap Unloaded
<1>1. n \in Nat /\ DOMAIN builds = 1..n /\ i \in 1..n /\ j \in 1..n
  BY DEF Loading, LoadingTypeOK
<1>2. i # n
  BY <1>1
<1>3. \A k \in i..j : k \in DOMAIN builds /\ k # 1
  BY <1>1, FilesAssumption DEF Loading, BuildsFollowImports
<1>4. h \in Unloaded
  BY <1>2, <1>3 DEF Loading, BuildsFollowImports, LoadedTwiceIsComplete, Unloaded
<1>5. \A k \in i..(j - 1) : k \in i..j /\ k # n /\ k + 1 \in i..j
  <2> HIDE DEF n, h, S
  <2>1. i \in Nat /\ j \in Nat /\ n \in Nat /\ j <= n
    BY <1>1
  <2> QED
    BY <2>1
<1>6. \A k \in i..j : builds[k].loads \in Unloaded
  <2>1. ASSUME NEW k \in i..j
        PROVE  builds[k].loads \in Loadable /\ builds[k].loads \notin documents
    <3>1. builds[k].loads \in Loadable
      BY <1>3 DEF Loading, BuildsFollowImports
    <3>2. CASE k # n
      BY <1>3, <3>1, <3>2 DEF Loading, LoadedTwiceIsComplete
    <3>3. CASE k = n
      <4>1. k = j
        BY <1>1, <3>3
      <4> QED
        BY <1>4, <3>1, <4>1 DEF Unloaded
    <3> QED
      BY <3>1, <3>2, <3>3
  <2> QED
    BY <2>1 DEF Unloaded
<1>7. \A k \in i..(j - 1) : builds[k + 1].loads \in ImportedFiles(builds[k].loads)
  BY <1>3, <1>5 DEF Loading, BuildsFollowImports
<1>8. builds[i + 1].loads \in S
  <2>1. i \in i..(j - 1)
    BY <1>1
  <2> QED
    BY <1>5, <1>6, <1>7, <2>1
<1> HIDE DEF S
<1>9. ASSUME NEW R, S \subseteq R,
             \A f \in R : ImportedFiles(f) \cap Unloaded \subseteq R
      PROVE  h \in R
  <2> DEFINE loads == [k \in i..j |-> builds[k].loads]
  <2>1. i + 1 \in i..j /\ j \in i..j /\ \A k \in (i + 1)..(j - 1) : k \in i..(j - 1) /\ k \in i..j /\ k + 1 \in i..j
    BY <1>1
  <2>2. loads[i + 1] \in R /\ loads[j] = h
    BY <1>8, <1>9, <2>1
  <2>3. \A k \in (i + 1)..(j - 1) : loads[k + 1] \in ImportedFiles(loads[k]) \cap Unloaded
    BY <1>6, <1>7, <2>1
  <2> HIDE DEF loads
  <2>4. \A k \in (i + 1)..(j - 1) : loads[k] \in R => loads[k + 1] \in R
    BY <1>9, <2>3
  <2> SUFFICES ASSUME h \notin R PROVE FALSE
    OBVIOUS
  <2>5. i \in Nat /\ j \in Nat
    BY <1>1
  <2>6. \E k \in (i + 1)..(j - 1) : loads[k] \in R /\ loads[k + 1] \notin R
    BY <2>2, <2>5, LeavesSomewhere
  <2> QED
    BY <2>4, <2>6
<1>10. h \in Closure(S, Unloaded)
  <2>1. h \in S \cup Unloaded
    BY <1>4
  <2>2. ASSUME NEW R \in SUBSET (S \cup Unloaded), S \subseteq R,
               \A f \in R : [g \in S \cup Unloaded |-> ImportedFiles(g) \cap Unloaded][f] \subseteq R
        PROVE  h \in R
    <3>1. \A f \in R : ImportedFiles(f) \cap Unloaded \subseteq R
      BY <2>2
    <3> QED
      BY <1>9, <2>2, <3>1
  <2> QED
    BY <2>1, <2>2 DEF Closure
<1> QED
  BY <1>10 DEF OnCycle, S

(* Loading brings in exactly what is needed: the listener of                *)
(* addDynamicFileImport leaves nothing out that is imported and can be      *)
(* loaded, and nests a build of a file in a build of the same file only     *)
(* where files import each other.                                           *)
THEOREM LoadingIsCompleteHolds == Spec => []LoadingIsComplete
<1>1. Loading => LoadingIsComplete
  <2>1. ASSUME Loading, builds = <<>>
        PROVE  \A f \in documents : ImportedFiles(f) \cap Loadable \subseteq documents
    BY <2>1 DEF Loading, ImportsAreHandled, IsComplete
  <2> QED
    BY <2>1, OnlyCyclesNestFollows DEF LoadingIsComplete, EverythingImportedIsLoaded, Loaded
<1> QED
  BY LoadingInit, LoadingNext, <1>1, PTL DEF Spec

(* The recursion of loadDocumentFromFs, for which the code has no limit, is *)
(* bounded by the number of files that can be loaded where no files import  *)
(* each other: MaxNesting then leaves nothing out if it is larger.          *)
THEOREM NestingIsBoundedHolds == Spec => []NestingIsBounded
<1>0. IsFiniteSet(Loadable)
  BY FilesAssumption, FS_Subset DEF Loadable
<1>1. ASSUME Loading PROVE NestingIsBounded
  <2> SUFFICES ASSUME \A f \in Unloaded : ~OnCycle(f, Unloaded)
               PROVE  Len(builds) <= Cardinality(Loadable) + 1
    BY DEF NestingIsBounded
  <2> DEFINE n == Len(builds)
             loads == [k \in 2..n |-> builds[k].loads]
  <2>1. n \in Nat /\ DOMAIN builds = 1..n
    BY <1>1 DEF Loading, LoadingTypeOK
  <2>2. loads \in [2..n -> Loadable]
    BY <1>1, <2>1 DEF Loading, BuildsFollowImports
  <2>3. ASSUME NEW i \in 2..n, NEW j \in 2..n, i < j PROVE loads[i] # loads[j]
    <3>1. i \in DOMAIN builds /\ j \in DOMAIN builds /\ i # n
      <4>1. i \in 1..n /\ j \in 1..n /\ i # n
        <5> HIDE DEF n, loads
        <5> QED
          BY <2>1, <2>3
      <4> QED
        BY <2>1, <4>1
    <3>2. loads[i] = builds[i].loads /\ loads[j] = builds[j].loads
      OBVIOUS
    <3>3. builds[i].loads \in Unloaded
      BY <1>1, <2>2, <3>1, <3>2 DEF Loading, LoadedTwiceIsComplete, Unloaded
    <3>4. builds[i].loads # None
      BY <2>2, <3>2, LoadableFiles
    <3> QED
      BY <1>1, <2>3, <3>1, <3>2, <3>3, <3>4, OnlyCyclesNestFollows DEF OnlyCyclesNest
  <2>4. Cardinality(Loadable) \in Nat
    BY <1>0, FS_CardinalityType
  <2>5. IsFiniteSet(2..n) /\ Cardinality(2..n) = IF 2 > n THEN 0 ELSE n - 2 + 1
    BY <2>1, FS_Interval
  <2> HIDE DEF n, loads
  <2>6. ASSUME Cardinality(Loadable) < Cardinality(2..n) PROVE FALSE
    <3>1. \E i, j \in 2..n : i # j /\ loads[i] = loads[j]
      BY <1>0, <2>2, <2>5, <2>6, FS_PigeonHole
    <3>2. PICK i, j \in 2..n : i # j /\ loads[i] = loads[j]
      BY <3>1
    <3>3. i < j \/ j < i
      BY <2>1, <3>2
    <3> QED
      BY <2>3, <3>2, <3>3
  <2> QED
    BY <2>1, <2>4, <2>5, <2>6 DEF n
<1> QED
  BY LoadingInit, LoadingNext, <1>1, PTL DEF Spec

-----------------------------------------------------------------------------
(* What files lead to *)

LEMMA ClosureFollows ==
    ASSUME NEW S, NEW Within
    PROVE  /\ S \subseteq Closure(S, Within) /\ Closure(S, Within) \subseteq S \cup Within
           /\ \A f \in Closure(S, Within) : ImportedFiles(f) \cap Within \subseteq Closure(S, Within)
<1> DEFINE followed == [f \in S \cup Within |-> ImportedFiles(f) \cap Within]
           closed == {R \in SUBSET (S \cup Within) : S \subseteq R /\ \A f \in R : followed[f] \subseteq R}
<1>1. Closure(S, Within) = {g \in S \cup Within : \A R \in closed : g \in R}
  BY DEF Closure
<1>2. S \subseteq Closure(S, Within) /\ Closure(S, Within) \subseteq S \cup Within
  BY <1>1
<1>3. ASSUME NEW f \in Closure(S, Within), NEW g \in ImportedFiles(f) \cap Within
      PROVE  g \in Closure(S, Within)
  <2>1. ASSUME NEW R \in closed PROVE g \in R
    <3>1. f \in R /\ f \in S \cup Within /\ followed[f] \subseteq R
      BY <1>1, <1>3, <2>1
    <3>2. followed[f] = ImportedFiles(f) \cap Within
      BY <3>1
    <3> QED
      BY <1>3, <3>1, <3>2
  <2>2. g \in S \cup Within
    BY <1>3
  <2> HIDE DEF closed
  <2> QED
    BY <1>1, <2>1, <2>2
<1> QED
  BY <1>2, <1>3

LEMMA ClosureIsLeast ==
    ASSUME NEW S, NEW Within, NEW R, S \subseteq R,
           \A f \in R : ImportedFiles(f) \cap Within \subseteq R
    PROVE  Closure(S, Within) \subseteq R
<1> DEFINE followed == [f \in S \cup Within |-> ImportedFiles(f) \cap Within]
           Q == R \cap (S \cup Within)
<1>1. Q \in SUBSET (S \cup Within) /\ S \subseteq Q
  OBVIOUS
<1>2. ASSUME NEW f \in Q PROVE followed[f] \subseteq Q
  BY <1>2
<1>3. \A g \in Closure(S, Within) : g \in Q
  BY <1>1, <1>2 DEF Closure
<1> QED
  BY <1>3

(* A file that others lead to is one of those or imported by such a file.   *)
LEMMA ClosureStep ==
    ASSUME NEW S, NEW Within, NEW g \in Closure(S, Within)
    PROVE  g \in S \/ \E h \in Closure(S, Within) : g \in ImportedFiles(h)
<1> SUFFICES ASSUME g \notin S, \A h \in Closure(S, Within) : g \notin ImportedFiles(h)
             PROVE  FALSE
  OBVIOUS
<1> DEFINE R == Closure(S, Within) \ {g}
<1>1. S \subseteq R /\ \A f \in R : ImportedFiles(f) \cap Within \subseteq R
  BY ClosureFollows
<1>2. Closure(S, Within) \subseteq R
  <2> HIDE DEF R
  <2> QED
    BY <1>1, ClosureIsLeast
<1> QED
  BY <1>2

LEMMA ClosureGrows ==
    ASSUME NEW S, NEW T, NEW Within, S \subseteq Closure(T, Within)
    PROVE  Closure(S, Within) \subseteq Closure(T, Within)
BY ClosureFollows, ClosureIsLeast

(* Natural numbers of a set *)
LEMMA AllNaturals ==
    ASSUME NEW S, 0 \in S, \A n \in Nat : n \in S => n + 1 \in S
    PROVE  Nat \subseteq S
<1> DEFINE I == Nat \ S
<1> SUFFICES ASSUME I # {} PROVE FALSE
  OBVIOUS
<1>1. PICK m \in I : \A j \in I : m <= j
  BY FirstPosition
<1>2. m \in Nat /\ m # 0
  BY <1>1
<1>3. m - 1 \in Nat /\ (m - 1) + 1 = m /\ ~(m <= m - 1)
  BY <1>2
<1>4. m - 1 \in S
  BY <1>1, <1>3
<1> QED
  BY <1>1, <1>3, <1>4

(* There is a function for a definition that recurs on its argument less    *)
(* one.  The notions are operators so that the lemma can be instantiated.   *)
StepsWithin(S) == [Nat \X S -> S]

RecursFrom(F, S, base, step) ==
    /\ F \in [Nat -> S]
    /\ F[0] = base
    /\ \A n \in Nat : F[n + 1] = step[<<n, F[n]>>]

LEMMA RecursionExists ==
    ASSUME NEW S, NEW base \in S, NEW step \in StepsWithin(S)
    PROVE  \E F : RecursFrom(F, S, base, step)
<1>0. step \in [Nat \X S -> S]
  BY DEF StepsWithin
<1> DEFINE Upto(n, F) == /\ F \in [0..n -> S] /\ F[0] = base
                         /\ \A i \in 0..n : i # 0 => F[i] = step[<<i - 1, F[i - 1]>>]
           Good == {n \in Nat : \E F \in [0..n -> S] : Upto(n, F)}
<1>1. 0 \in Good
  <2>1. Upto(0, [i \in 0..0 |-> base])
    OBVIOUS
  <2> QED
    BY <2>1
<1>2. ASSUME NEW n \in Nat, n \in Good PROVE n + 1 \in Good
  <2>1. PICK F \in [0..n -> S] : Upto(n, F)
    BY <1>2
  <2> DEFINE G == [i \in 0..(n + 1) |-> IF i = n + 1 THEN step[<<n, F[n]>>] ELSE F[i]]
  <2>2. \A i \in 0..n : i \in 0..(n + 1) /\ i # n + 1 /\ (i # 0 => i - 1 \in 0..n)
    OBVIOUS
  <2>3. n \in 0..n /\ F[n] \in S /\ step[<<n, F[n]>>] \in S
    BY <1>0
  <2>4. G \in [0..(n + 1) -> S]
    <3>1. ASSUME NEW i \in 0..(n + 1) PROVE G[i] \in S
      <4>1. CASE i = n + 1
        BY <2>3, <4>1
      <4>2. CASE i # n + 1
        BY <4>2
      <4> QED
        BY <4>1, <4>2
    <3> QED
      BY <3>1
  <2>5. ASSUME NEW i \in 0..(n + 1), i # 0 PROVE G[i] = step[<<i - 1, G[i - 1]>>]
    <3>1. i - 1 \in 0..n /\ G[i - 1] = F[i - 1]
      BY <2>5
    <3>2. CASE i = n + 1
      <4>1. G[i] = step[<<n, F[n]>>] /\ i - 1 = n
        BY <3>2
      <4> HIDE DEF G
      <4> QED
        BY <3>1, <4>1
    <3>3. CASE i # n + 1
      <4>1. i \in 0..n
        BY <3>3
      <4>2. F[i] = step[<<i - 1, F[i - 1]>>]
        BY <2>1, <2>5, <4>1
      <4> QED
        BY <3>1, <3>3, <4>2
    <3> QED
      BY <3>2, <3>3
  <2>6. G[0] = base
    BY <2>1
  <2> HIDE DEF G
  <2>7. Upto(n + 1, G)
    BY <2>4, <2>5, <2>6
  <2> QED
    BY <2>4, <2>7
<1>3. Nat \subseteq Good
  <2> HIDE DEF Good
  <2> QED
    BY <1>1, <1>2, AllNaturals
<1> DEFINE Choice == [n \in Nat |-> CHOOSE F \in [0..n -> S] : Upto(n, F)]
<1>4. \A n \in Nat : Upto(n, Choice[n])
  <2> SUFFICES ASSUME NEW n \in Nat PROVE Upto(n, Choice[n])
    OBVIOUS
  <2>1. \E F \in [0..n -> S] : Upto(n, F)
    BY <1>3
  <2> HIDE DEF Upto
  <2> QED
    BY <2>1
(* Two of these functions agree where both are defined. *)
<1>5. ASSUME NEW m \in Nat, NEW n \in Nat, NEW F, NEW G, Upto(m, F), Upto(n, G)
      PROVE  \A i \in Nat : i <= m /\ i <= n => F[i] = G[i]
  <2> DEFINE T == {i \in Nat : i <= m /\ i <= n => F[i] = G[i]}
  <2>1. 0 \in T
    BY <1>5
  <2>2. ASSUME NEW i \in Nat, i \in T PROVE i + 1 \in T
    <3> SUFFICES ASSUME i + 1 <= m, i + 1 <= n PROVE F[i + 1] = G[i + 1]
      OBVIOUS
    <3>1. i + 1 \in 0..m /\ i + 1 \in 0..n /\ i + 1 # 0 /\ (i + 1) - 1 = i /\ i <= m /\ i <= n
      OBVIOUS
    <3>2. F[i] = G[i]
      BY <2>2, <3>1
    <3>3. F[i + 1] = step[<<i, F[i]>>] /\ G[i + 1] = step[<<i, G[i]>>]
      BY <1>5, <3>1
    <3> QED
      BY <3>2, <3>3
  <2>3. Nat \subseteq T
    <3> HIDE DEF T
    <3> QED
      BY <2>1, <2>2, AllNaturals
  <2> QED
    BY <2>3
<1> DEFINE H == [n \in Nat |-> Choice[n][n]]
<1>6. \A n \in Nat : Choice[n] \in [0..n -> S]
  BY <1>4
<1>7. H \in [Nat -> S]
  <2> HIDE DEF Choice
  <2>1. \A n \in Nat : n \in 0..n
    OBVIOUS
  <2> QED
    BY <1>6, <2>1
<1>8. H[0] = base
  BY <1>4
<1>9. ASSUME NEW n \in Nat PROVE H[n + 1] = step[<<n, H[n]>>]
  <2> HIDE DEF Choice
  <2>1. Upto(n + 1, Choice[n + 1]) /\ Upto(n, Choice[n])
    BY <1>4
  <2>2. Choice[n + 1][n] = Choice[n][n]
    <3> HIDE DEF Upto, H
    <3>1. n <= n + 1 /\ n <= n /\ n + 1 \in Nat
      OBVIOUS
    <3> QED
      BY <1>5, <2>1, <3>1
  <2>3. n + 1 \in 0..(n + 1) /\ n + 1 # 0 /\ (n + 1) - 1 = n
    OBVIOUS
  <2>4. Choice[n + 1][n + 1] = step[<<n, Choice[n + 1][n]>>]
    BY <2>1, <2>3
  <2> QED
    BY <2>2, <2>4
<1> HIDE DEF H
<1> QED
  BY <1>7, <1>8, <1>9 DEF RecursFrom

-----------------------------------------------------------------------------
(* The analysis of an import chain                                          *)

AnalysisResult == [isCyclic : BOOLEAN, visited : SUBSET Files]

Analyses == [Files -> [SUBSET Files -> AnalysisResult]]

LEMMA AnalyzeImportType ==
    ASSUME NEW import, import.path \in Files \cup {None},
           NEW before \in AnalysisResult, NEW deeper \in Analyses
    PROVE  AnalyzeImport(import, before, deeper) \in AnalysisResult
<1>1. CASE ResolveImport(import) = None
  BY <1>1 DEF AnalyzeImport
<1>2. CASE import.path \in before.visited /\ ResolveImport(import) # None
  BY <1>2 DEF AnalyzeImport, AnalysisResult
<1>3. CASE import.path \notin before.visited /\ ResolveImport(import) # None
  <2>1. import.path \in Files /\ before.visited \in SUBSET Files /\ before.isCyclic \in BOOLEAN
    BY <1>3 DEF ResolveImport, AnalysisResult
  <2> DEFINE inner == deeper[import.path][before.visited]
  <2>2. inner \in AnalysisResult
    BY <2>1 DEF Analyses
  <2>3. AnalyzeImport(import, before, deeper) = [inner EXCEPT !.isCyclic = @ \/ before.isCyclic]
    BY <1>3 DEF AnalyzeImport
  <2> HIDE DEF inner
  <2> QED
    BY <2>1, <2>2, <2>3 DEF AnalysisResult
<1> QED
  BY <1>1, <1>2, <1>3

(* The results of the analysis of a file before and after each import.      *)
AnalysisSteps(after, f, visited, deeper) ==
    /\ after \in [0..Len(text[f].imports) -> AnalysisResult]
    /\ after[0] = [isCyclic |-> FALSE, visited |-> visited \cup {f}]
    /\ \A k \in 1..Len(text[f].imports) :
          after[k] = AnalyzeImport(text[f].imports[k], after[k - 1], deeper)
    /\ AnalyzeImports(f, visited, deeper) = after[Len(text[f].imports)]

LEMMA AnalyzeImportsEquation ==
    ASSUME LoadingTypeOK, NEW f \in Files, NEW visited \in SUBSET Files,
           NEW deeper \in Analyses
    PROVE  \E after : AnalysisSteps(after, f, visited, deeper)
<1> DEFINE n == Len(text[f].imports)
           base == [isCyclic |-> FALSE, visited |-> visited \cup {f}]
           Import(k, before) == AnalyzeImport(text[f].imports[k], before, deeper)
           step == [x \in Nat \X AnalysisResult |->
                       IF x[1] + 1 <= n THEN Import(x[1] + 1, x[2]) ELSE x[2]]
<1>1. n \in Nat /\ \A k \in 1..n : text[f].imports[k].path \in Files \cup {None}
  BY ImportsOfFiles
<1>2. base \in AnalysisResult
  BY DEF AnalysisResult
<1>3. \A k \in 1..n : \A b \in AnalysisResult : Import(k, b) \in AnalysisResult
  BY <1>1, AnalyzeImportType
<1> HIDE DEF n, Import
<1>4. step \in [Nat \X AnalysisResult -> AnalysisResult]
  <2>1. ASSUME NEW x \in Nat \X AnalysisResult PROVE step[x] \in AnalysisResult
    <3>1. CASE x[1] + 1 <= n
      BY <1>1, <1>3, <3>1
    <3>2. CASE ~(x[1] + 1 <= n)
      BY <3>2
    <3> QED
      BY <3>1, <3>2
  <2> QED
    BY <2>1
<1>5. PICK F \in [Nat -> AnalysisResult] :
         F[0] = base /\ \A k \in Nat : F[k + 1] = step[<<k, F[k]>>]
  <2>1. step \in StepsWithin(AnalysisResult)
    BY <1>4 DEF StepsWithin
  <2> HIDE DEF step, base
  <2>2. PICK F : RecursFrom(F, AnalysisResult, base, step)
    BY <1>2, <2>1, RecursionExists
  <2> QED
    BY <2>2 DEF RecursFrom
<1> DEFINE Q(G) == G = [k \in 0..n |-> IF k = 0 THEN base ELSE Import(k, G[k - 1])]
           E == [k \in 0..n |-> F[k]]
           H == CHOOSE G : Q(G)
<1>6. Q(E)
  <2>1. ASSUME NEW k \in 0..n, k # 0 PROVE F[k] = Import(k, E[k - 1])
    <3>1. k - 1 \in Nat /\ (k - 1) + 1 = k /\ k - 1 \in 0..n
      BY <1>1, <2>1
    <3>2. F[k] = step[<<k - 1, F[k - 1]>>]
      BY <1>5, <3>1
    <3>3. <<k - 1, F[k - 1]>> \in Nat \X AnalysisResult
      BY <3>1
    <3>4. k <= n
      BY <1>1, <2>1
    <3> QED
      BY <3>1, <3>2, <3>3, <3>4
  <2> HIDE DEF base
  <2> QED
    BY <1>5, <2>1
<1>7. AnalyzeImports(f, visited, deeper) = H[n]
  BY DEF AnalyzeImports, n, Import
<1> HIDE DEF Q
<1>8. Q(H)
  BY <1>6
<1> HIDE DEF H, step
<1>11. H = [k \in 0..n |-> IF k = 0 THEN base ELSE Import(k, H[k - 1])]
  BY <1>8 DEF Q
<1>9. H \in [0..n -> AnalysisResult]
  <2> DEFINE T == {k \in Nat : k <= n => H[k] \in AnalysisResult}
  <2>1. 0 \in T
    BY <1>1, <1>2, <1>11
  <2>2. ASSUME NEW k \in Nat, k \in T PROVE k + 1 \in T
    <3> SUFFICES ASSUME k + 1 <= n PROVE H[k + 1] \in AnalysisResult
      OBVIOUS
    <3>1. k + 1 \in 0..n /\ k + 1 # 0 /\ (k + 1) - 1 = k /\ k <= n /\ k + 1 \in 1..n
      BY <1>1
    <3>2. H[k + 1] = Import(k + 1, H[k])
      BY <1>11, <3>1
    <3> QED
      BY <1>3, <2>2, <3>1, <3>2
  <2>3. Nat \subseteq T
    <3> HIDE DEF T
    <3> QED
      BY <2>1, <2>2, AllNaturals
  <2>4. \A k \in 0..n : k \in Nat /\ k <= n
    BY <1>1
  <2>5. \A k \in 0..n : H[k] \in AnalysisResult
    BY <2>3, <2>4
  <2> QED
    BY <2>5, <1>11
<1>10. H[0] = base /\ \A k \in 1..n : H[k] = Import(k, H[k - 1])
  <2>1. 0 \in 0..n /\ \A k \in 1..n : k \in 0..n /\ k # 0
    BY <1>1
  <2> QED
    BY <2>1, <1>11
<1> QED
  BY <1>7, <1>9, <1>10 DEF n, Import, AnalysisSteps

LEMMA AnalysisEquations ==
    ASSUME LoadingTypeOK
    PROVE  /\ \A n \in Nat : Analysis[n] \in Analyses
           /\ \A n \in Nat : \A f \in Files : \A visited \in SUBSET Files :
                 Analysis[n + 1][f][visited] = AnalyzeImports(f, visited, Analysis[n])
<1> DEFINE S == Analyses
           base == [f \in Files |-> [visited \in SUBSET Files |->
                       [isCyclic |-> FALSE, visited |-> visited]]]
           Deeper(d) == [f \in Files |-> [visited \in SUBSET Files |-> AnalyzeImports(f, visited, d)]]
           step == [x \in Nat \X S |-> Deeper(x[2])]
<1>1. base \in S
  BY DEF AnalysisResult, Analyses
<1>2. ASSUME NEW d \in S PROVE Deeper(d) \in S
  <2>1. ASSUME NEW f \in Files, NEW visited \in SUBSET Files
        PROVE  AnalyzeImports(f, visited, d) \in AnalysisResult
    <3>1. Len(text[f].imports) \in 0..Len(text[f].imports)
      BY ImportsOfFiles
    <3>2. PICK after : AnalysisSteps(after, f, visited, d)
      BY <1>2, AnalyzeImportsEquation
    <3> QED
      BY <3>1, <3>2 DEF AnalysisSteps
  <2> QED
    BY <2>1 DEF Analyses
<1> HIDE DEF base, Deeper
<1>3. step \in [Nat \X S -> S]
  <2> HIDE DEF S
  <2>1. \A x \in Nat \X S : Deeper(x[2]) \in S
    BY <1>2
  <2> QED
    BY <2>1
<1>4. PICK F \in [Nat -> S] : F[0] = base /\ \A n \in Nat : F[n + 1] = step[<<n, F[n]>>]
  <2>1. step \in StepsWithin(S)
    BY <1>3 DEF StepsWithin
  <2> HIDE DEF S, step
  <2>2. PICK F : RecursFrom(F, S, base, step)
    BY <1>1, <2>1, RecursionExists
  <2> QED
    BY <2>2 DEF RecursFrom
<1>5. \A n \in Nat : F[n + 1] = Deeper(F[n])
  <2> HIDE DEF S
  <2> QED
    BY <1>4
<1> DEFINE At(n, d) == [f \in Files |-> [visited \in SUBSET Files |->
                           IF n = 0 THEN [isCyclic |-> FALSE, visited |-> visited]
                           ELSE AnalyzeImports(f, visited, d)]]
           Q(G) == G = [n \in Nat |-> At(n, G[n - 1])]
<1>6. /\ \A d : At(0, d) = base
      /\ \A n \in Nat : \A d : n # 0 => At(n, d) = Deeper(d)
  BY DEF base, Deeper
<1>7. Analysis = CHOOSE G : Q(G)
  BY DEF Analysis
<1> HIDE DEF At, S
<1>8. Q(F)
  <2>1. ASSUME NEW n \in Nat PROVE F[n] = At(n, F[n - 1])
    <3>1. CASE n = 0
      BY <1>4, <1>6, <3>1
    <3>2. CASE n # 0
      <4>1. n - 1 \in Nat /\ (n - 1) + 1 = n
        BY <3>2
      <4> QED
        BY <1>5, <1>6, <3>2, <4>1
    <3> QED
      BY <3>1, <3>2
  <2> QED
    BY <2>1
<1> HIDE DEF Q
<1>9. Q(Analysis)
  BY <1>7, <1>8
<1>10. Analysis = [n \in Nat |-> At(n, Analysis[n - 1])]
  BY <1>9 DEF Q
<1>11. Analysis[0] = base /\ \A n \in Nat : Analysis[n + 1] = Deeper(Analysis[n])
  <2>1. \A n \in Nat : n + 1 \in Nat /\ n + 1 # 0 /\ (n + 1) - 1 = n
    OBVIOUS
  <2> QED
    BY <1>6, <1>10, <2>1
<1>12. \A n \in Nat : Analysis[n] \in S
  <2> DEFINE T == {n \in Nat : Analysis[n] \in S}
  <2>2. 0 \in T /\ \A n \in Nat : n \in T => n + 1 \in T
    BY <1>1, <1>2, <1>11
  <2>1. Nat \subseteq T
    <3> HIDE DEF T
    <3> QED
      BY <2>2, AllNaturals
  <2> QED
    BY <1>10, <2>1
<1>13. \A n \in Nat : \A f \in Files : \A visited \in SUBSET Files :
           Analysis[n + 1][f][visited] = AnalyzeImports(f, visited, Analysis[n])
  <2> SUFFICES ASSUME NEW n \in Nat, NEW f \in Files, NEW visited \in SUBSET Files
               PROVE  Analysis[n + 1][f][visited] = AnalyzeImports(f, visited, Analysis[n])
    OBVIOUS
  <2>1. Analysis[n + 1] = Deeper(Analysis[n])
    BY <1>11
  <2>2. Deeper(Analysis[n])[f][visited] = AnalyzeImports(f, visited, Analysis[n])
    BY DEF Deeper
  <2> QED
    BY <2>1, <2>2
<1> QED
  BY <1>12, <1>13 DEF S

-----------------------------------------------------------------------------
(* Which import definitions the analysis follows                            *)

(* An import definition is a file and a position; it leads to a document.   *)
LeadsTo(e) == text[e[1]].imports[e[2]].path

(* Those of some files, of one of them only the first k.                    *)
Edges(S, f, k) ==
    {e \in S \X Nat : /\ e[2] \in DOMAIN text[e[1]].imports
                      /\ LeadsTo(e) \in documents
                      /\ e[1] = f => e[2] <= k}

(* One leads to a file of V, or two of them to the same file.               *)
Meet(E, V) ==
    \E e \in E : LeadsTo(e) \in V \/ \E d \in E : d # e /\ LeadsTo(d) = LeadsTo(e)

(* What is known once the first k imports of f are analysed: the visited    *)
(* files are those that f leads to over these, each but f itself has been   *)
(* entered, and a cycle is found exactly if a visited file was met again.   *)
Explored(f, visited, k, r) ==
    /\ r \in AnalysisResult
    /\ visited \cup {f} \subseteq r.visited
    /\ \A R : (f \in R /\ \A h \in R : ImportedFiles(h) \cap documents \subseteq R)
                  => r.visited \ visited \subseteq R
    /\ \A e \in Edges(r.visited \ visited, f, k) : LeadsTo(e) \in r.visited
    /\ \A g \in r.visited \ (visited \cup {f}) :
          \E e \in Edges(r.visited \ visited, f, k) : LeadsTo(e) = g
    /\ r.isCyclic <=> Meet(Edges(r.visited \ visited, f, k), visited \cup {f})

(* The import definitions followed so far, one more, and those followed     *)
(* from the file it leads to.                                               *)
LEMMA MeetJoined ==
    ASSUME NEW E0, NEW e0, NEW E2, NEW V, NEW W, NEW U, V \subseteq W, W \subseteq U,
           LeadsTo(e0) \in U, LeadsTo(e0) \notin W,
           \A e \in E0 : LeadsTo(e) \in W,
           \A g \in W \ V : \E e \in E0 : LeadsTo(e) = g,
           \A e \in E2 : LeadsTo(e) \in U,
           \A g \in U \ (W \cup {LeadsTo(e0)}) : \E e \in E2 : LeadsTo(e) = g,
           e0 \notin E2, E0 \cap E2 = {},
           NEW E, E = E0 \cup {e0} \cup E2
    PROVE  /\ \A e \in E : LeadsTo(e) \in U
           /\ \A g \in U \ V : \E e \in E : LeadsTo(e) = g
           /\ Meet(E, V) <=> Meet(E0, V) \/ Meet(E2, W \cup {LeadsTo(e0)})
<1>1. \A e \in E : LeadsTo(e) \in U
  OBVIOUS
<1>2. \A g \in U \ V : \E e \in E : LeadsTo(e) = g
  OBVIOUS
<1>3. Meet(E0, V) => Meet(E, V)
  BY DEF Meet
<1>4. Meet(E2, W \cup {LeadsTo(e0)}) => Meet(E, V)
  <2> SUFFICES ASSUME NEW e \in E2,
                      LeadsTo(e) \in W \cup {LeadsTo(e0)} \/ \E d \in E2 : d # e /\ LeadsTo(d) = LeadsTo(e)
               PROVE  Meet(E, V)
    BY DEF Meet
  <2>1. CASE LeadsTo(e) \in V
    BY <2>1 DEF Meet
  <2>2. CASE LeadsTo(e) \in W \ V
    <3>1. PICK d \in E0 : LeadsTo(d) = LeadsTo(e)
      BY <2>2
    <3>2. d # e
      OBVIOUS
    <3> QED
      BY <3>1, <3>2 DEF Meet
  <2>3. CASE LeadsTo(e) = LeadsTo(e0)
    <3>1. e0 # e
      OBVIOUS
    <3> QED
      BY <2>3, <3>1 DEF Meet
  <2>4. CASE \E d \in E2 : d # e /\ LeadsTo(d) = LeadsTo(e)
    BY <2>4 DEF Meet
  <2> QED
    BY <2>1, <2>2, <2>3, <2>4
<1>5. Meet(E, V) => Meet(E0, V) \/ Meet(E2, W \cup {LeadsTo(e0)})
  <2>1. ASSUME NEW e \in E, LeadsTo(e) \in V
        PROVE  Meet(E0, V) \/ Meet(E2, W \cup {LeadsTo(e0)})
    BY <2>1 DEF Meet
  <2>2. ASSUME NEW e \in E, NEW d \in E, d # e, LeadsTo(d) = LeadsTo(e)
        PROVE  Meet(E0, V) \/ Meet(E2, W \cup {LeadsTo(e0)})
    <3>1. CASE e \in E0 /\ d \in E0
      BY <2>2, <3>1 DEF Meet
    <3>2. CASE e \in E2
      <4>1. CASE d \in E2
        BY <2>2, <3>2, <4>1 DEF Meet
      <4>2. CASE d \notin E2
        BY <2>2, <3>2, <4>2 DEF Meet
      <4> QED
        BY <4>1, <4>2
    <3>3. CASE d \in E2
      <4>1. CASE e \in E2
        BY <2>2, <3>3, <4>1 DEF Meet
      <4>2. CASE e \notin E2
        BY <2>2, <3>3, <4>2 DEF Meet
      <4> QED
        BY <4>1, <4>2
    <3> QED
      BY <2>2, <3>1, <3>2, <3>3
  <2> QED
    BY <2>1, <2>2 DEF Meet
<1> QED
  BY <1>1, <1>2, <1>3, <1>4, <1>5

LEMMA ResolvedImports ==
    ASSUME LoadingTypeOK, NEW import
    PROVE  /\ ResolveImport(import) = None <=> import.path \notin documents
           /\ ResolveImport(import) # None => ResolveImport(import) = import.path
BY FilesAssumption DEF ResolveImport, LoadingTypeOK

LEMMA ImportLeads ==
    ASSUME LoadingTypeOK, NEW f \in Files, NEW k \in 1..Len(text[f].imports)
    PROVE  /\ LeadsTo(<<f, k>>) = text[f].imports[k].path
           /\ text[f].imports[k].path \in documents =>
                 /\ text[f].imports[k].path \in Files
                 /\ text[f].imports[k].path \in ImportedFiles(f)
BY ImportsOfFiles, FilesAssumption DEF LeadsTo, ImportedFiles, Members, LoadingTypeOK

(* One import more                                                          *)
LEMMA EdgesExtended ==
    ASSUME LoadingTypeOK, NEW f \in Files, NEW k \in 1..Len(text[f].imports),
           NEW S \in SUBSET Files, f \in S
    PROVE  Edges(S, f, k) = Edges(S, f, k - 1)
              \cup (IF text[f].imports[k].path \in documents THEN {<<f, k>>} ELSE {})
<1>1. DOMAIN text[f].imports = 1..Len(text[f].imports) /\ Len(text[f].imports) \in Nat
  BY ImportsOfFiles
<1>2. k \in Nat /\ k \in DOMAIN text[f].imports
  BY <1>1
<1>3. ASSUME NEW e \in Edges(S, f, k)
      PROVE  e \in Edges(S, f, k - 1) \/ (e = <<f, k>> /\ text[f].imports[k].path \in documents)
  <2>1. /\ e \in S \X Nat /\ e[2] \in DOMAIN text[e[1]].imports /\ LeadsTo(e) \in documents
        /\ e[1] = f => e[2] <= k
    BY <1>3 DEF Edges
  <2>2. CASE e[1] = f /\ e[2] = k
    BY <2>1, <2>2 DEF LeadsTo
  <2>3. CASE ~(e[1] = f /\ e[2] = k)
    <3>1. e[2] \in Nat
      BY <2>1
    <3>2. e[1] = f => e[2] <= k - 1
      BY <1>2, <2>1, <2>3, <3>1
    <3> QED
      BY <2>1, <3>2 DEF Edges
  <2> QED
    BY <2>2, <2>3
<1>4. ASSUME NEW e \in Edges(S, f, k - 1) PROVE e \in Edges(S, f, k)
  BY <1>2, <1>4 DEF Edges
<1>5. ASSUME text[f].imports[k].path \in documents PROVE <<f, k>> \in Edges(S, f, k)
  BY <1>2, <1>5 DEF Edges, LeadsTo
<1> QED
  BY <1>3, <1>4, <1>5

LEMMA NotAnEdgeYet ==
    ASSUME NEW S, NEW f, NEW k \in Nat
    PROVE  <<f, k>> \notin Edges(S, f, k - 1)
BY DEF Edges

(* Before the first import: only the file itself is visited.                *)
LEMMA ExploredAtFirst ==
    ASSUME LoadingTypeOK, NEW f \in Files, NEW visited \in SUBSET Files, f \notin visited
    PROVE  Explored(f, visited, 0, [isCyclic |-> FALSE, visited |-> visited \cup {f}])
<1> DEFINE r == [isCyclic |-> FALSE, visited |-> visited \cup {f}]
<1>1. r \in AnalysisResult
  BY DEF AnalysisResult
<1>2. r.visited \ visited = {f} /\ r.visited = visited \cup {f} /\ r.isCyclic = FALSE
  OBVIOUS
<1>3. Edges({f}, f, 0) = {}
  <2> SUFFICES ASSUME NEW e \in Edges({f}, f, 0) PROVE FALSE
    OBVIOUS
  <2>1. e[1] = f /\ e[2] \in DOMAIN text[f].imports /\ e[2] <= 0
    BY DEF Edges
  <2>2. DOMAIN text[f].imports = 1..Len(text[f].imports) /\ Len(text[f].imports) \in Nat
    BY ImportsOfFiles
  <2> QED
    BY <2>1, <2>2
<1> HIDE DEF r
<1>4. ~Meet({}, visited \cup {f})
  BY DEF Meet
<1> QED
  BY <1>1, <1>2, <1>3, <1>4 DEF Explored, r

(* An import that cannot be resolved, or leads to a visited file.           *)
LEMMA ExploredWithoutDescending ==
    ASSUME LoadingTypeOK, NEW f \in Files, NEW visited \in SUBSET Files, f \notin visited,
           NEW k \in 1..Len(text[f].imports), NEW before, NEW deeper,
           Explored(f, visited, k - 1, before),
           text[f].imports[k].path \in documents => text[f].imports[k].path \in before.visited
    PROVE  Explored(f, visited, k, AnalyzeImport(text[f].imports[k], before, deeper))
<1> DEFINE import == text[f].imports[k]
           r == AnalyzeImport(import, before, deeper)
           S == before.visited \ visited
<1>1. /\ before \in AnalysisResult /\ f \in S /\ S \in SUBSET Files /\ k \in Nat
      /\ before.visited \in SUBSET Files
  <2>1. k \in Nat
    BY ImportsOfFiles
  <2> QED
    BY <2>1 DEF Explored, AnalysisResult
<1>2. CASE import.path \notin documents
  <2>1. r = before
    BY <1>2, ResolvedImports DEF AnalyzeImport
  <2>2. Edges(S, f, k) = Edges(S, f, k - 1)
    <3> HIDE DEF S
    <3>1. Edges(S, f, k) = Edges(S, f, k - 1)
             \cup (IF text[f].imports[k].path \in documents THEN {<<f, k>>} ELSE {})
      BY <1>1, EdgesExtended
    <3> QED
      BY <1>2, <3>1
  <2> QED
    BY <2>1, <2>2 DEF Explored
<1>3. CASE import.path \in documents
  <2>1. import.path \in before.visited
    BY <1>3
  <2>2. r = [before EXCEPT !.isCyclic = TRUE]
    BY <1>3, <2>1, ResolvedImports DEF AnalyzeImport
  <2>3. r \in AnalysisResult /\ r.visited = before.visited /\ r.isCyclic
    BY <1>1, <2>2 DEF AnalysisResult
  <2>4. Edges(S, f, k) = Edges(S, f, k - 1) \cup {<<f, k>>}
    BY <1>1, <1>3, EdgesExtended
  <2>5. LeadsTo(<<f, k>>) = import.path
    BY ImportLeads
  <2>6. <<f, k>> \notin Edges(S, f, k - 1)
    BY <1>1, NotAnEdgeYet
  <2>7. Meet(Edges(S, f, k), visited \cup {f})
    <3>1. CASE import.path \in visited \cup {f}
      BY <2>4, <2>5, <3>1 DEF Meet
    <3>2. CASE import.path \notin visited \cup {f}
      <4>1. PICK e \in Edges(S, f, k - 1) : LeadsTo(e) = import.path
        BY <2>1, <3>2 DEF Explored
      <4>2. e # <<f, k>>
        BY <2>6
      <4> QED
        BY <2>4, <2>5, <4>1, <4>2 DEF Meet
    <3> QED
      BY <3>1, <3>2
  <2>8. /\ visited \cup {f} \subseteq before.visited
        /\ \A R : (f \in R /\ \A h \in R : ImportedFiles(h) \cap documents \subseteq R) => S \subseteq R
        /\ \A e \in Edges(S, f, k - 1) : LeadsTo(e) \in before.visited
        /\ \A g \in before.visited \ (visited \cup {f}) : \E e \in Edges(S, f, k - 1) : LeadsTo(e) = g
    BY DEF Explored
  <2>9. r.visited \ visited = S
    BY <2>3
  <2> HIDE DEF r, S, import
  <2>10. \A e \in Edges(S, f, k) : LeadsTo(e) \in r.visited
    BY <2>1, <2>3, <2>4, <2>5, <2>8
  <2>11. \A g \in r.visited \ (visited \cup {f}) : \E e \in Edges(S, f, k) : LeadsTo(e) = g
    BY <2>3, <2>4, <2>8
  <2>12. Explored(f, visited, k, r)
    BY <2>3, <2>7, <2>8, <2>9, <2>10, <2>11 DEF Explored
  <2> QED
    BY <2>12 DEF r, import
<1> QED
  BY <1>2, <1>3

LEMMA LastPosition ==
    ASSUME LoadingTypeOK, NEW p \in Files, NEW i \in DOMAIN text[p].imports
    PROVE  i <= Len(text[p].imports)
<1>1. i \in 1..Len(text[p].imports) /\ Len(text[p].imports) \in Nat
  BY ImportsOfFiles
<1> QED
  BY <1>1

(* An import of a file that is not visited: its analysis follows.           *)
LEMMA ExploredDescending ==
    ASSUME LoadingTypeOK, NEW f \in Files, NEW visited \in SUBSET Files, f \notin visited,
           NEW k \in 1..Len(text[f].imports), NEW before, NEW deeper, NEW p,
           Explored(f, visited, k - 1, before),
           p = text[f].imports[k].path, p \in documents, p \notin before.visited,
           Explored(p, before.visited, Len(text[p].imports), deeper[p][before.visited])
    PROVE  Explored(f, visited, k, AnalyzeImport(text[f].imports[k], before, deeper))
<1> DEFINE n == Len(text[p].imports)
           inner == deeper[p][before.visited]
           r == AnalyzeImport(text[f].imports[k], before, deeper)
           W == before.visited
           U == inner.visited
           V == visited \cup {f}
           E0 == Edges(W \ visited, f, k - 1)
           E2 == Edges(U \ W, p, n)
           E == Edges(U \ visited, f, k)
<1>1. k \in Nat /\ LeadsTo(<<f, k>>) = p /\ p \in Files /\ p \in ImportedFiles(f)
  <2>1. LeadsTo(<<f, k>>) = p /\ p \in Files /\ p \in ImportedFiles(f)
    BY ImportLeads
  <2> QED
    BY <2>1
<1>2. /\ before \in AnalysisResult /\ V \subseteq W /\ W \in SUBSET Files /\ f \in W
      /\ \A R : (f \in R /\ \A h \in R : ImportedFiles(h) \cap documents \subseteq R) => W \ visited \subseteq R
      /\ \A e \in E0 : LeadsTo(e) \in W
      /\ \A g \in W \ V : \E e \in E0 : LeadsTo(e) = g
      /\ before.isCyclic <=> Meet(E0, V)
  BY DEF Explored, AnalysisResult
<1>3. /\ inner \in AnalysisResult /\ W \cup {p} \subseteq U /\ U \in SUBSET Files
      /\ \A R : (p \in R /\ \A h \in R : ImportedFiles(h) \cap documents \subseteq R) => U \ W \subseteq R
      /\ \A e \in E2 : LeadsTo(e) \in U
      /\ \A g \in U \ (W \cup {p}) : \E e \in E2 : LeadsTo(e) = g
      /\ inner.isCyclic <=> Meet(E2, W \cup {p})
  BY DEF Explored, AnalysisResult
<1>4. r = [inner EXCEPT !.isCyclic = @ \/ before.isCyclic]
  BY ResolvedImports DEF AnalyzeImport
<1>5. r \in AnalysisResult /\ r.visited = U /\ (r.isCyclic <=> inner.isCyclic \/ before.isCyclic)
  <2>1. before.isCyclic \in BOOLEAN
    BY <1>2 DEF AnalysisResult
  <2> HIDE DEF inner, r
  <2> QED
    BY <1>3, <1>4, <2>1 DEF AnalysisResult
<1>6. p # f
  BY <1>2
<1>7. E = E0 \cup {<<f, k>>} \cup E2
  <2>1. E = Edges(U \ visited, f, k - 1) \cup {<<f, k>>}
    BY <1>2, <1>3, EdgesExtended
  <2>2. ASSUME NEW e \in Edges(U \ visited, f, k - 1) PROVE e \in E0 \/ e \in E2
    <3>1. /\ e \in (U \ visited) \X Nat /\ e[2] \in DOMAIN text[e[1]].imports
          /\ LeadsTo(e) \in documents /\ (e[1] = f => e[2] <= k - 1)
      BY <2>2 DEF Edges
    <3>2. CASE e[1] \in W
      BY <3>1, <3>2 DEF Edges
    <3>3. CASE e[1] \notin W
      <4>1. e \in (U \ W) \X Nat
        BY <3>1, <3>3
      <4>2. e[1] = p => e[2] <= n
        BY <1>1, <3>1, LastPosition
      <4> QED
        BY <3>1, <4>1, <4>2 DEF Edges
    <3> QED
      BY <3>2, <3>3
  <2>3. ASSUME NEW e \in E0 PROVE e \in Edges(U \ visited, f, k - 1)
    BY <1>3, <2>3 DEF Edges
  <2>4. ASSUME NEW e \in E2 PROVE e \in Edges(U \ visited, f, k - 1)
    <3>1. e \in (U \ W) \X Nat /\ e[1] # f
      BY <1>2, <2>4 DEF Edges
    <3> QED
      BY <1>2, <2>4, <3>1 DEF Edges
  <2> QED
    BY <2>1, <2>2, <2>3, <2>4
<1>8. <<f, k>> \notin E2 /\ E0 \cap E2 = {}
  BY <1>2 DEF Edges
<1>9. \A R : (f \in R /\ \A h \in R : ImportedFiles(h) \cap documents \subseteq R) => U \ visited \subseteq R
  <2> SUFFICES ASSUME NEW R, f \in R, \A h \in R : ImportedFiles(h) \cap documents \subseteq R
               PROVE  U \ visited \subseteq R
    OBVIOUS
  <2>1. W \ visited \subseteq R /\ p \in R
    BY <1>1, <1>2
  <2>2. U \ W \subseteq R
    BY <1>3, <2>1
  <2> QED
    BY <2>1, <2>2
<1> HIDE DEF E, E0, E2, W, U, V, r, inner, n
<1>10. /\ \A e \in E : LeadsTo(e) \in U
       /\ \A g \in U \ V : \E e \in E : LeadsTo(e) = g
       /\ Meet(E, V) <=> Meet(E0, V) \/ Meet(E2, W \cup {p})
  <2>1. p \notin W /\ p \in U /\ W \subseteq U
    BY <1>3 DEF W
  <2>2. /\ V \subseteq W /\ \A e \in E0 : LeadsTo(e) \in W
        /\ \A g \in W \ V : \E e \in E0 : LeadsTo(e) = g
    BY <1>2
  <2>3. /\ \A e \in E2 : LeadsTo(e) \in U
        /\ \A g \in U \ (W \cup {p}) : \E e \in E2 : LeadsTo(e) = g
    BY <1>3
  <2>4. PICK e0 : e0 = <<f, k>> /\ LeadsTo(e0) = p
    BY <1>1
  <2>5. E = E0 \cup {e0} \cup E2 /\ e0 \notin E2 /\ E0 \cap E2 = {}
    BY <1>7, <1>8, <2>4
  <2>6. LeadsTo(e0) \in U /\ LeadsTo(e0) \notin W
    BY <2>1, <2>4
  <2>7. \A g \in U \ (W \cup {LeadsTo(e0)}) : \E e \in E2 : LeadsTo(e) = g
    BY <2>3, <2>4
  <2>8. /\ \A e \in E : LeadsTo(e) \in U
        /\ \A g \in U \ V : \E e \in E : LeadsTo(e) = g
        /\ Meet(E, V) <=> Meet(E0, V) \/ Meet(E2, W \cup {LeadsTo(e0)})
    BY <2>1, <2>2, <2>3, <2>5, <2>6, <2>7, MeetJoined
  <2> QED
    BY <2>4, <2>8
<1>11. visited \cup {f} \subseteq U
  BY <1>2, <1>3 DEF V
<1>12. r.isCyclic <=> Meet(E, V)
  BY <1>2, <1>3, <1>5, <1>10
<1>13. Explored(f, visited, k, r)
  BY <1>5, <1>9, <1>10, <1>11, <1>12 DEF Explored, E, V
<1> QED
  BY <1>13 DEF r

(* Going deeper, fewer files are left that are not visited.                 *)
LEMMA FewerFilesLeft ==
    ASSUME NEW f \in Files, NEW v \in SUBSET Files, f \notin v,
           NEW w \in SUBSET Files, v \cup {f} \subseteq w,
           NEW n \in Nat, Cardinality(Files \ v) <= n + 1
    PROVE  Cardinality(Files \ w) <= n
<1>1. IsFiniteSet(Files \ v)
  BY FilesAssumption, FS_Difference
<1>2. /\ IsFiniteSet((Files \ v) \ {f}) /\ Cardinality((Files \ v) \ {f}) = Cardinality(Files \ v) - 1
  BY <1>1, FS_RemoveElement
<1>3. Files \ w \subseteq (Files \ v) \ {f}
  OBVIOUS
<1>4. Cardinality(Files \ w) <= Cardinality((Files \ v) \ {f})
  BY <1>2, <1>3, FS_Subset
<1>5. Cardinality(Files \ v) \in Nat /\ Cardinality(Files \ w) \in Nat
  BY <1>1, <1>2, <1>3, FS_CardinalityType, FS_Subset
<1> QED
  BY <1>2, <1>4, <1>5

(* The analysis of a file that is not visited, as deep as there are others. *)
LEMMA AnalysisExplores ==
    ASSUME LoadingTypeOK
    PROVE  \A n \in Nat : \A f \in Files : \A visited \in SUBSET Files :
              (f \notin visited /\ Cardinality(Files \ visited) <= n)
                  => Explored(f, visited, Len(text[f].imports), Analysis[n][f][visited])
<1> DEFINE Claim(n, f, v) == Explored(f, v, Len(text[f].imports), Analysis[n][f][v])
           S == {n \in Nat : \A f \in Files : \A v \in SUBSET Files :
                    (f \notin v /\ Cardinality(Files \ v) <= n) => Claim(n, f, v)}
<1>1. 0 \in S
  <2> SUFFICES ASSUME NEW f \in Files, NEW v \in SUBSET Files, f \notin v, Cardinality(Files \ v) <= 0
               PROVE  FALSE
    OBVIOUS
  <2>1. IsFiniteSet(Files \ v)
    BY FilesAssumption, FS_Difference
  <2>2. Cardinality(Files \ v) = 0
    BY <2>1, FS_CardinalityType
  <2>3. Files \ v = {}
    BY <2>1, <2>2, FS_EmptySet
  <2> QED
    BY <2>3
<1>2. ASSUME NEW n \in Nat, n \in S PROVE n + 1 \in S
  <2> SUFFICES ASSUME NEW f \in Files, NEW v \in SUBSET Files, f \notin v,
                      Cardinality(Files \ v) <= n + 1
               PROVE  Claim(n + 1, f, v)
    OBVIOUS
  <2> DEFINE len == Len(text[f].imports)
  <2>1. len \in Nat
    BY ImportsOfFiles
  <2>2. Analysis[n] \in Analyses /\ Analysis[n + 1][f][v] = AnalyzeImports(f, v, Analysis[n])
    BY AnalysisEquations
  <2>3. PICK after : AnalysisSteps(after, f, v, Analysis[n])
    BY <2>2, AnalyzeImportsEquation
  <2>4. /\ after[0] = [isCyclic |-> FALSE, visited |-> v \cup {f}]
        /\ \A k \in 1..len : after[k] = AnalyzeImport(text[f].imports[k], after[k - 1], Analysis[n])
        /\ AnalyzeImports(f, v, Analysis[n]) = after[len]
    BY <2>3 DEF AnalysisSteps
  <2> DEFINE T == {k \in Nat : k <= len => Explored(f, v, k, after[k])}
  <2>5. 0 \in T
    BY <2>4, ExploredAtFirst
  <2>6. ASSUME NEW j \in Nat, j \in T PROVE j + 1 \in T
    <3> SUFFICES ASSUME j + 1 <= len PROVE Explored(f, v, j + 1, after[j + 1])
      OBVIOUS
    <3> DEFINE k == j + 1
               before == after[j]
               p == text[f].imports[k].path
    <3>1. k \in 1..len /\ k - 1 = j /\ j <= len
      BY <2>1
    <3>2. Explored(f, v, k - 1, before)
      BY <2>6, <3>1
    <3>3. after[k] = AnalyzeImport(text[f].imports[k], before, Analysis[n])
      BY <2>4, <3>1
    <3> HIDE DEF k, before, len
    <3>4. CASE p \in documents => p \in before.visited
      <4>1. k \in 1..Len(text[f].imports)
        BY <3>1 DEF len
      <4>2. Explored(f, v, k, after[k])
        BY <3>2, <3>3, <3>4, <4>1, ExploredWithoutDescending
      <4> QED
        BY <4>2 DEF k
    <3>5. CASE p \in documents /\ p \notin before.visited
      <4>1. k \in 1..Len(text[f].imports)
        BY <3>1 DEF len
      <4>2. before.visited \in SUBSET Files /\ v \cup {f} \subseteq before.visited
        BY <3>2 DEF Explored, AnalysisResult
      <4>3. p \in Files
        BY <3>5 DEF LoadingTypeOK
      <4>4. Cardinality(Files \ before.visited) <= n
        BY <4>2, FewerFilesLeft
      <4> HIDE DEF p
      <4>5. Claim(n, p, before.visited)
        BY <2>6, <1>2, <3>5, <4>2, <4>3, <4>4
      <4>6. Explored(f, v, k, AnalyzeImport(text[f].imports[k], before, Analysis[n]))
        BY <3>2, <3>5, <4>1, <4>5, ExploredDescending DEF p
      <4> QED
        BY <3>3, <4>6 DEF k
    <3> QED
      BY <3>4, <3>5
  <2>7. Nat \subseteq T
    <3> HIDE DEF T
    <3> QED
      BY <2>5, <2>6, AllNaturals
  <2>8. Explored(f, v, len, after[len])
    BY <2>1, <2>7
  <2> QED
    BY <2>2, <2>4, <2>8
<1>3. Nat \subseteq S
  <2> HIDE DEF S
  <2> QED
    BY <1>1, <1>2, AllNaturals
<1> QED
  BY <1>3

-----------------------------------------------------------------------------
(* What is reported as a cycle                                              *)

LEMMA EdgeOf ==
    ASSUME LoadingTypeOK, NEW p \in Files, NEW S \in SUBSET Files, NEW h \in S,
           NEW g \in ImportedFiles(h) \cap documents
    PROVE  \E e \in Edges(S, p, Len(text[p].imports)) : e[1] = h /\ LeadsTo(e) = g
<1>1. PICK i \in DOMAIN text[h].imports : text[h].imports[i].path = g
  BY DEF ImportedFiles, Members
<1>2. i \in Nat
  BY <1>1, ImportsOfFiles
<1>3. h = p => i <= Len(text[p].imports)
  BY <1>1, LastPosition
<1>4. <<h, i>> \in Edges(S, p, Len(text[p].imports))
  BY <1>1, <1>2, <1>3 DEF Edges, LeadsTo
<1> QED
  BY <1>1, <1>4 DEF LeadsTo

(* The analysis of an import that can be resolved visits what it leads to.  *)
Reached(p) == Closure({p}, documents)

LEMMA ImportAnalysis ==
    ASSUME LoadingTypeOK, NEW p \in documents
    PROVE  /\ Reached(p) \in SUBSET Files /\ p \in Reached(p)
           /\ \A h \in Reached(p) : ImportedFiles(h) \cap documents \subseteq Reached(p)
           /\ Analysis[Cardinality(Files)][p][{}].isCyclic
                 <=> Meet(Edges(Reached(p), p, Len(text[p].imports)), {p})
<1> DEFINE r == Analysis[Cardinality(Files)][p][{}]
           reached == Reached(p)
<1>1. p \in Files /\ documents \subseteq Files
  BY DEF LoadingTypeOK
<1>2. Cardinality(Files) \in Nat /\ Cardinality(Files \ {}) <= Cardinality(Files)
  <2>1. Cardinality(Files) \in Nat /\ Files \ {} = Files
    BY FilesAssumption, FS_CardinalityType
  <2> QED
    BY <2>1
<1>3. Explored(p, {}, Len(text[p].imports), r)
  <2>1. {} \in SUBSET Files /\ p \notin {}
    OBVIOUS
  <2> QED
    BY <1>1, <1>2, <2>1, AnalysisExplores
<1> DEFINE E == Edges(r.visited, p, Len(text[p].imports))
<1>4. r.visited \ {} = r.visited /\ {} \cup {p} = {p}
  OBVIOUS
<1>5. /\ r.visited \in SUBSET Files /\ p \in r.visited
      /\ \A R : (p \in R /\ \A h \in R : ImportedFiles(h) \cap documents \subseteq R) => r.visited \subseteq R
      /\ \A e \in E : LeadsTo(e) \in r.visited
      /\ r.isCyclic <=> Meet(E, {p})
  BY <1>3, <1>4 DEF Explored, AnalysisResult
<1>6. /\ p \in reached
      /\ \A h \in reached : ImportedFiles(h) \cap documents \subseteq reached
  BY ClosureFollows DEF Reached
<1>7. r.visited \subseteq reached
  BY <1>5, <1>6
<1>8. \A h \in r.visited : ImportedFiles(h) \cap documents \subseteq r.visited
  BY <1>1, <1>5, EdgeOf
<1>9. reached \subseteq r.visited
  BY <1>5, <1>8, ClosureIsLeast DEF Reached
<1>10. r.visited = reached
  BY <1>7, <1>9
<1> QED
  BY <1>5, <1>6, <1>10

(* A cycle is reported exactly if an import definition that is met leads    *)
(* to a file met before.                                                    *)
LEMMA ReportedIfMet ==
    ASSUME LoadingTypeOK, NEW import, ResolveImport(import) # None
    PROVE  ReportsCycle(import) <=> ImportedTwice(import)
<1> DEFINE p == import.path
           reached == Reached(p)
           n == Len(text[p].imports)
<1>1. p \in documents /\ {p} \cap documents = {p}
  BY ResolvedImports
<1>2. /\ reached \in SUBSET Files
      /\ Analysis[Cardinality(Files)][p][{}].isCyclic <=> Meet(Edges(reached, p, n), {p})
  BY <1>1, ImportAnalysis
<1>3. p \in Files
  BY <1>1 DEF LoadingTypeOK
<1>4. ImportedTwice(import) <=>
         \E f, g \in reached :
            \E i \in DOMAIN text[f].imports, j \in DOMAIN text[g].imports :
                /\ text[f].imports[i].path \in documents
                /\ \/ text[f].imports[i].path = p
                   \/ <<f, i>> # <<g, j>> /\ text[f].imports[i].path = text[g].imports[j].path
  BY <1>1 DEF ImportedTwice, Reached
<1> HIDE DEF reached, n, p
<1>5. ASSUME NEW f \in reached, NEW i \in DOMAIN text[f].imports, text[f].imports[i].path \in documents
      PROVE  <<f, i>> \in Edges(reached, p, n)
  <2>1. i \in Nat
    BY <1>2, ImportsOfFiles
  <2>2. f = p => i <= n
    BY <1>3, LastPosition DEF n
  <2> QED
    BY <1>5, <2>1, <2>2 DEF Edges, LeadsTo
<1>6. ASSUME ImportedTwice(import) PROVE Meet(Edges(reached, p, n), {p})
  <2>1. PICK f \in reached, g \in reached :
            \E i \in DOMAIN text[f].imports, j \in DOMAIN text[g].imports :
                /\ text[f].imports[i].path \in documents
                /\ \/ text[f].imports[i].path = p
                   \/ <<f, i>> # <<g, j>> /\ text[f].imports[i].path = text[g].imports[j].path
    BY <1>4, <1>6
  <2>2. PICK i \in DOMAIN text[f].imports, j \in DOMAIN text[g].imports :
                /\ text[f].imports[i].path \in documents
                /\ \/ text[f].imports[i].path = p
                   \/ <<f, i>> # <<g, j>> /\ text[f].imports[i].path = text[g].imports[j].path
    BY <2>1
  <2>3. <<f, i>> \in Edges(reached, p, n) /\ LeadsTo(<<f, i>>) = text[f].imports[i].path
    BY <1>5, <2>2 DEF LeadsTo
  <2>4. CASE text[f].imports[i].path = p
    BY <2>3, <2>4 DEF Meet
  <2>5. CASE <<f, i>> # <<g, j>> /\ text[f].imports[i].path = text[g].imports[j].path
    <3>1. <<g, j>> \in Edges(reached, p, n) /\ LeadsTo(<<g, j>>) = text[g].imports[j].path
      BY <1>5, <2>2, <2>5 DEF LeadsTo
    <3> QED
      BY <2>3, <2>5, <3>1 DEF Meet
  <2> QED
    BY <2>2, <2>4, <2>5
<1>7. ASSUME NEW e \in Edges(reached, p, n)
      PROVE  /\ e[1] \in reached /\ e[2] \in DOMAIN text[e[1]].imports /\ e = <<e[1], e[2]>>
             /\ LeadsTo(e) = text[e[1]].imports[e[2]].path /\ LeadsTo(e) \in documents
  BY <1>7 DEF Edges, LeadsTo
<1>8. ASSUME Meet(Edges(reached, p, n), {p}) PROVE ImportedTwice(import)
  <2>1. PICK e \in Edges(reached, p, n) :
           LeadsTo(e) = p \/ \E d \in Edges(reached, p, n) : d # e /\ LeadsTo(d) = LeadsTo(e)
    BY <1>8 DEF Meet
  <2>2. CASE LeadsTo(e) = p
    BY <1>4, <1>7, <2>2
  <2>3. ASSUME NEW d \in Edges(reached, p, n), d # e, LeadsTo(d) = LeadsTo(e)
        PROVE  ImportedTwice(import)
    <3>1. <<e[1], e[2]>> # <<d[1], d[2]>>
      BY <1>7, <2>3
    <3> QED
      BY <1>4, <1>7, <2>3, <3>1
  <2> QED
    BY <2>1, <2>2, <2>3
<1> QED
  BY <1>2, <1>6, <1>8, ResolvedImports DEF ReportsCycle, p

(* Where no file is met twice, what an import leads to is a tree.           *)
LEMMA TreesHaveNoCycles ==
    ASSUME LoadingTypeOK, NEW p \in documents,
           ~Meet(Edges(Reached(p), p, Len(text[p].imports)), {p})
    PROVE  \A g \in Reached(p) : ~OnCycle(g, documents)
<1> DEFINE reached == Reached(p)
           E == Edges(reached, p, Len(text[p].imports))
           After(h) == Closure(ImportedFiles(h) \cap documents, documents)
           R == {h \in reached : ~OnCycle(h, documents)}
<1>1. /\ p \in reached /\ reached \in SUBSET Files
      /\ \A h \in reached : ImportedFiles(h) \cap documents \subseteq reached
  BY ImportAnalysis
<1>2. /\ \A e \in E : LeadsTo(e) # p
      /\ \A e, d \in E : LeadsTo(e) = LeadsTo(d) => e = d
  BY DEF Meet
<1>3. \A h \in reached : \A g \in ImportedFiles(h) \cap documents : \E e \in E : e[1] = h /\ LeadsTo(e) = g
  <2>1. p \in Files
    BY DEF LoadingTypeOK
  <2> QED
    BY <1>1, <2>1, EdgeOf
<1> HIDE DEF E
<1>4. \A h \in reached : After(h) \subseteq reached
  BY <1>1, ClosureIsLeast
<1>5. p \in R
  <2> SUFFICES ASSUME p \in After(p) PROVE FALSE
    BY <1>1 DEF OnCycle
  <2>1. PICK h \in reached : p \in ImportedFiles(h)
    BY <1>1, <1>4, ClosureStep
  <2> QED
    BY <1>2, <1>3, <2>1
<1>6. ASSUME NEW h \in R, NEW g \in ImportedFiles(h) \cap documents PROVE g \in R
  <2>1. g \in reached /\ h \in reached
    BY <1>1
  <2> SUFFICES ASSUME g \in After(g) PROVE FALSE
    BY <2>1 DEF OnCycle
  <2>2. PICK q \in reached : g \in ImportedFiles(q) /\ (q = g \/ q \in After(g))
    BY <1>4, <2>1, ClosureStep
  <2>3. q = h
    <3>1. PICK e \in E : e[1] = q /\ LeadsTo(e) = g
      BY <1>3, <1>6, <2>2
    <3>2. PICK d \in E : d[1] = h /\ LeadsTo(d) = g
      BY <1>3, <1>6, <2>1
    <3> QED
      BY <1>2, <3>1, <3>2
  <2>4. g \in After(q)
    BY <2>2, ClosureFollows
  <2>5. ImportedFiles(g) \cap documents \subseteq After(q)
    BY <2>4, ClosureFollows
  <2>6. After(g) \subseteq After(q)
    BY <2>5, ClosureGrows
  <2>7. q \in After(q)
    BY <2>2, <2>4, <2>6
  <2> QED
    BY <2>3, <2>7 DEF OnCycle
<1>7. reached \subseteq R
  <2>1. {p} \subseteq R /\ \A h \in R : ImportedFiles(h) \cap documents \subseteq R
    BY <1>5, <1>6
  <2> HIDE DEF R
  <2> QED
    BY <2>1, ClosureIsLeast DEF Reached
<1> QED
  BY <1>7

LEMMA CycleReportsFollow == Loading => CycleReportsAreKnown
<1> SUFFICES ASSUME LoadingTypeOK PROVE CycleReportsAreKnown
  BY DEF Loading
<1>1. ASSUME NEW import, ResolveImport(import) # None, ~ReportsCycle(import)
      PROVE  \A g \in Closure({import.path}, documents) : ~OnCycle(g, documents)
  <2>1. import.path \in documents
    BY <1>1, ResolvedImports
  <2>2. ~Meet(Edges(Reached(import.path), import.path, Len(text[import.path].imports)), {import.path})
    BY <1>1, <2>1, ImportAnalysis DEF ReportsCycle
  <2> QED
    BY <2>1, <2>2, TreesHaveNoCycles DEF Reached
<1>2. CyclesAreReported
  BY <1>1 DEF CyclesAreReported
<1>3. ReportedExactlyIfImportedTwice
  BY ReportedIfMet DEF ReportedExactlyIfImportedTwice
<1> QED
  BY <1>2, <1>3 DEF CycleReportsAreKnown

(* The report of cycles, for every import graph: validateImportDefinition   *)
(* misses no cycle, although one set of visited documents serves all the    *)
(* branches of analyzeImportChain, and reports without there being a cycle  *)
(* exactly where a document is imported by two import definitions.          *)
THEOREM CycleReportsAreKnownHolds == Spec => []CycleReportsAreKnown
BY LoadingInit, LoadingNext, CycleReportsFollow, PTL DEF Spec

-----------------------------------------------------------------------------
(* Lists put together                                                       *)

LEMMA JoinedMembers ==
    ASSUME NEW T, NEW s \in Seq(T), NEW t \in Seq(T)
    PROVE  s \o t \in Seq(T) /\ Members(s \o t) = Members(s) \cup Members(t)
<1>1. Range(s \o t) = Range(s) \cup Range(t)
  BY RangeConcatenation
<1>2. s \o t \in Seq(T)
  OBVIOUS
<1> QED
  BY <1>1, <1>2 DEF Members, Range

LEMMA Flattened ==
    ASSUME NEW T, NEW n \in Nat, NEW lists \in [1..n -> Seq(T)]
    PROVE  /\ Flatten(lists) \in Seq(T)
           /\ \A x : x \in Members(Flatten(lists)) <=> \E k \in 1..n : x \in Members(lists[k])
<1>0. Len(lists) = n
  OBVIOUS
<1> DEFINE step == [x \in Nat \X Seq(T) |-> IF x[1] + 1 <= n THEN x[2] \o lists[x[1] + 1] ELSE x[2]]
<1>1. step \in [Nat \X Seq(T) -> Seq(T)]
  <2>1. ASSUME NEW x \in Nat \X Seq(T) PROVE step[x] \in Seq(T)
    <3>1. CASE x[1] + 1 <= n
      <4>1. x[1] + 1 \in 1..n /\ x[2] \in Seq(T)
        BY <3>1
      <4>2. lists[x[1] + 1] \in Seq(T)
        BY <4>1
      <4>3. x[2] \o lists[x[1] + 1] \in Seq(T)
        BY <4>1, <4>2
      <4> QED
        BY <3>1, <4>3
    <3>2. CASE ~(x[1] + 1 <= n)
      BY <3>2
    <3> QED
      BY <3>1, <3>2
  <2> QED
    BY <2>1
<1>2. PICK F : F \in [Nat -> Seq(T)] /\ F[0] = <<>> /\ \A k \in Nat : F[k + 1] = step[<<k, F[k]>>]
  <2>1. step \in StepsWithin(Seq(T)) /\ <<>> \in Seq(T)
    BY <1>1 DEF StepsWithin
  <2> HIDE DEF step
  <2>2. PICK F : RecursFrom(F, Seq(T), <<>>, step)
    BY <2>1, RecursionExists
  <2> QED
    BY <2>2 DEF RecursFrom
<1> DEFINE Q(G) == G = [k \in 0..Len(lists) |-> IF k = 0 THEN <<>> ELSE G[k - 1] \o lists[k]]
           E == [k \in 0..n |-> F[k]]
           H == CHOOSE G : Q(G)
<1>3. Q(E)
  <2>1. ASSUME NEW k \in 0..n, k # 0 PROVE F[k] = E[k - 1] \o lists[k]
    <3>1. k - 1 \in Nat /\ (k - 1) + 1 = k /\ k - 1 \in 0..n /\ k <= n
      BY <2>1
    <3>2. F[k] = step[<<k - 1, F[k - 1]>>]
      BY <1>2, <3>1
    <3>3. <<k - 1, F[k - 1]>> \in Nat \X Seq(T)
      BY <1>2, <3>1
    <3>4. step[<<k - 1, F[k - 1]>>] = F[k - 1] \o lists[k]
      BY <3>1, <3>3
    <3> QED
      BY <3>1, <3>2, <3>4
  <2> HIDE DEF step
  <2> QED
    BY <1>0, <1>2, <2>1
<1>4. Flatten(lists) = H[Len(lists)]
  BY DEF Flatten
<1> HIDE DEF Q
<1>5. Q(H)
  BY <1>3
<1> HIDE DEF H, step
<1>6. H = [k \in 0..n |-> IF k = 0 THEN <<>> ELSE H[k - 1] \o lists[k]]
  BY <1>0, <1>5 DEF Q
<1>7. H[0] = <<>> /\ \A k \in 1..n : H[k] = H[k - 1] \o lists[k]
  <2>1. 0 \in 0..n /\ \A k \in 1..n : k \in 0..n /\ k # 0
    OBVIOUS
  <2> QED
    BY <1>6, <2>1
<1> DEFINE Joins(k) == \A x : x \in Members(H[k]) <=> \E j \in 1..k : x \in Members(lists[j])
           S == {k \in Nat : k <= n => H[k] \in Seq(T) /\ Joins(k)}
<1>8. 0 \in S
  <2>1. 1..0 = {}
    OBVIOUS
  <2>2. Joins(0)
    BY <1>7, <2>1, NoMembers
  <2>3. H[0] \in Seq(T)
    BY <1>7
  <2> HIDE DEF Joins
  <2> QED
    BY <2>2, <2>3
<1>9. ASSUME NEW k \in Nat, k \in S PROVE k + 1 \in S
  <2> SUFFICES ASSUME k + 1 <= n
               PROVE  H[k + 1] \in Seq(T) /\ Joins(k + 1)
    OBVIOUS
  <2>1. k + 1 \in 1..n /\ (k + 1) - 1 = k /\ k <= n
    OBVIOUS
  <2>2. H[k] \in Seq(T) /\ Joins(k)
    BY <1>9, <2>1
  <2>3. H[k + 1] = H[k] \o lists[k + 1] /\ lists[k + 1] \in Seq(T)
    BY <1>7, <2>1
  <2>4. /\ H[k] \o lists[k + 1] \in Seq(T)
        /\ Members(H[k] \o lists[k + 1]) = Members(H[k]) \cup Members(lists[k + 1])
    <3> HIDE DEF Joins
    <3> QED
      BY <2>2, <2>3, JoinedMembers
  <2>5. 1..(k + 1) = 1..k \cup {k + 1}
    OBVIOUS
  <2>6. Joins(k + 1)
    BY <2>2, <2>3, <2>4, <2>5
  <2> QED
    BY <2>3, <2>4, <2>6
<1>10. Nat \subseteq S
  <2> HIDE DEF S
  <2> QED
    BY <1>8, <1>9, AllNaturals
<1>11. n \in S
  BY <1>10
<1> QED
  BY <1>0, <1>4, <1>11

LEMMA MembersTyped ==
    ASSUME NEW T, NEW s \in Seq(T)
    PROVE  Members(s) \subseteq T
BY DEF Members

-----------------------------------------------------------------------------
(* The elements that files publish and import                               *)

PublishedLists == [Files -> Seq(PublishedElement)]

ElementsTypeOK == LoadingTypeOK /\ version \in [Files -> Nat]

(* The functions that the definitions of the model are unfolded to.         *)
ExportFound(list, name) == FirstMatch(list, LAMBDA x : x.exportName = name)
ImportFound(list, name) == LastMatch(list, LAMBDA x : x.importName = name)

UsedParts(import, list) ==
    [k \in DOMAIN import.usedElements |->
        IF ExportFound(list, import.usedElements[k].element) = None THEN <<>>
        ELSE <<[element |-> ExportFound(list, import.usedElements[k].element).element,
                importName |-> IF import.usedElements[k].alias # None
                               THEN import.usedElements[k].alias ELSE import.usedElements[k].element]>>]

ImportParts(f, published) ==
    [k \in DOMAIN text[f].imports |->
        IF ResolveImport(text[f].imports[k]) = None THEN <<>>
        ELSE FromDocument(text[f].imports[k], published[text[f].imports[k].path])]

DefinitionParts(f) ==
    [k \in DOMAIN text[f].definitions |->
        IF ~text[f].definitions[k].isPublished THEN <<>>
        ELSE <<[element |-> Node(f, text[f].definitions[k].name),
                exportName |-> text[f].definitions[k].name]>>]

ExportOffered(e, target) ==
    [element |-> target, exportName |-> IF e.alias # None THEN e.alias ELSE target.name]

ExportParts(f, published) ==
    [k \in DOMAIN text[f].exports |->
        IF ~(/\ Referenced(f, text[f].exports[k].ref, published) # None
             /\ ElementExported(Referenced(f, text[f].exports[k].ref, published)))
        THEN <<>>
        ELSE <<ExportOffered(text[f].exports[k], Referenced(f, text[f].exports[k].ref, published))>>]

(* A document that the file imports publishes the element.                  *)
PublishedByImport(element, f, published) ==
    \E h \in ImportedFiles(f) \cap documents : \E y \in Members(published[h]) : element = y.element

LEMMA FromDocumentUnfolded ==
    ASSUME NEW import, NEW list
    PROVE  FromDocument(import, list) =
              IF import.useAll
              THEN [k \in DOMAIN list |-> [element |-> list[k].element, importName |-> list[k].exportName]]
              ELSE Flatten(UsedParts(import, list))
BY DEF FromDocument, UsedParts, ExportFound, MapSeq

LEMMA ImportedElementsUnfolded ==
    ASSUME NEW f, NEW published
    PROVE  ImportedElements(f, published) = Flatten(ImportParts(f, published))
BY DEF ImportedElements, ImportParts, MapSeq

LEMMA ReferencedUnfolded ==
    ASSUME NEW f, NEW name, NEW published
    PROVE  Referenced(f, name, published) =
              IF Local(f, name) THEN Node(f, name)
              ELSE IF ImportFound(ImportedElements(f, published), name) = None THEN None
              ELSE ImportFound(ImportedElements(f, published), name).element
BY DEF Referenced, ImportFound

LEMMA ExportedElementsUnfolded ==
    ASSUME NEW f, NEW published
    PROVE  ExportedElements(f, published) = Flatten(DefinitionParts(f)) \o Flatten(ExportParts(f, published))
BY DEF ExportedElements, DefinitionParts, ExportParts, ExportOffered, MapSeq

LEMMA FoundFirst ==
    ASSUME NEW T, NEW list \in Seq(T), NEW name, NEW i \in DOMAIN list, list[i].exportName = name
    PROVE  \E k \in DOMAIN list : /\ ExportFound(list, name) = list[k] /\ list[k].exportName = name
                                  /\ \A j \in DOMAIN list : list[j].exportName = name => k <= j
<1> DEFINE found == {j \in DOMAIN list : list[j].exportName = name}
           k == CHOOSE j \in found : \A m \in found : j <= m
<1>1. found # {} /\ ExportFound(list, name) = list[k]
  BY DEF ExportFound, FirstMatch
<1>2. found \subseteq Nat /\ \A j \in found : j \in DOMAIN list /\ list[j].exportName = name
  OBVIOUS
<1>3. \A j \in DOMAIN list : list[j].exportName = name => j \in found
  OBVIOUS
<1> HIDE DEF found
<1>4. k \in found /\ \A m \in found : k <= m
  BY <1>1, <1>2, FirstPosition
<1> HIDE DEF k
<1> QED
  BY <1>1, <1>2, <1>3, <1>4

LEMMA FoundLast ==
    ASSUME NEW T, NEW list \in Seq(T), NEW name, NEW i \in DOMAIN list, list[i].importName = name
    PROVE  \E k \in DOMAIN list : /\ ImportFound(list, name) = list[k] /\ list[k].importName = name
                                  /\ \A j \in DOMAIN list : list[j].importName = name => j <= k
<1> DEFINE found == {j \in DOMAIN list : list[j].importName = name}
           k == CHOOSE j \in found : \A m \in found : m <= j
           n == Len(list)
           back == {n - j : j \in found}
<1>1. found # {} /\ ImportFound(list, name) = list[k]
  BY DEF ImportFound, LastMatch
<1>2. n \in Nat /\ found \subseteq 1..n /\ \A j \in found : j \in DOMAIN list /\ list[j].importName = name
  OBVIOUS
<1>3. \A j \in DOMAIN list : list[j].importName = name => j \in found
  OBVIOUS
<1> HIDE DEF found, n
<1>4. back \subseteq Nat /\ back # {}
  <2>1. \A j \in 1..n : n - j \in Nat
    BY <1>2
  <2> QED
    BY <1>1, <1>2, <2>1
<1>5. PICK b \in back : \A m \in back : b <= m
  <2> HIDE DEF back
  <2> QED
    BY <1>4, FirstPosition
<1>6. PICK j \in found : b = n - j
  BY <1>5
<1>7. \A m \in found : m <= j
  <2> SUFFICES ASSUME NEW m \in found PROVE m <= j
    OBVIOUS
  <2>1. n - j <= n - m
    BY <1>5, <1>6
  <2>2. m \in 1..n /\ j \in 1..n
    BY <1>2
  <2> QED
    BY <1>2, <2>1, <2>2
<1>8. k \in found /\ \A m \in found : m <= k
  BY <1>7
<1> HIDE DEF k
<1> QED
  BY <1>1, <1>2, <1>3, <1>8

LEMMA ExportFoundIs ==
    ASSUME NEW T, NEW list \in Seq(T), NEW name, ExportFound(list, name) # None
    PROVE  ExportFound(list, name) \in Members(list) /\ ExportFound(list, name).exportName = name
<1>1. PICK i \in DOMAIN list : list[i].exportName = name
  BY DEF ExportFound, FirstMatch
<1> QED
  BY <1>1, FoundFirst DEF Members

LEMMA ImportFoundIs ==
    ASSUME NEW T, NEW list \in Seq(T), NEW name, ImportFound(list, name) # None
    PROVE  ImportFound(list, name) \in Members(list) /\ ImportFound(list, name).importName = name
<1>1. PICK i \in DOMAIN list : list[i].importName = name
  BY DEF ImportFound, LastMatch
<1> QED
  BY <1>1, FoundLast DEF Members

-----------------------------------------------------------------------------
(* What the parts of a file are                                             *)

LEMMA PartsOfFiles ==
    ASSUME ElementsTypeOK, NEW f \in Files
    PROVE  /\ Len(text[f].imports) \in Nat /\ DOMAIN text[f].imports = 1..Len(text[f].imports)
           /\ Len(text[f].definitions) \in Nat /\ DOMAIN text[f].definitions = 1..Len(text[f].definitions)
           /\ Len(text[f].exports) \in Nat /\ DOMAIN text[f].exports = 1..Len(text[f].exports)
           /\ \A i \in DOMAIN text[f].imports : text[f].imports[i].usedElements \in Seq(UsedElement)
           /\ \A d \in DOMAIN text[f].definitions : text[f].definitions[d].name \in STRING
           /\ \A e \in DOMAIN text[f].exports :
                 text[f].exports[e].ref \in STRING /\ text[f].exports[e].alias \in {None} \cup STRING
<1> DEFINE Import == [path : Files \cup {None}, useAll : BOOLEAN, usedElements : Seq(UsedElement)]
           Definition == [name : STRING, isPublished : BOOLEAN]
           Export == [ref : STRING, alias : {None} \cup STRING]
<1>1. /\ text[f].imports \in Seq(Import) /\ text[f].definitions \in Seq(Definition)
      /\ text[f].exports \in Seq(Export)
  BY DEF ElementsTypeOK, LoadingTypeOK, Model
<1> HIDE DEF Import, Definition, Export
<1>2. /\ \A i \in DOMAIN text[f].imports : text[f].imports[i] \in Import
      /\ \A d \in DOMAIN text[f].definitions : text[f].definitions[d] \in Definition
      /\ \A e \in DOMAIN text[f].exports : text[f].exports[e] \in Export
  BY <1>1
<1>3. /\ \A i \in Import : i.usedElements \in Seq(UsedElement)
      /\ \A d \in Definition : d.name \in STRING
      /\ \A e \in Export : e.ref \in STRING /\ e.alias \in {None} \cup STRING
  BY DEF Import, Definition, Export
<1>4. /\ Len(text[f].imports) \in Nat /\ DOMAIN text[f].imports = 1..Len(text[f].imports)
      /\ Len(text[f].definitions) \in Nat /\ DOMAIN text[f].definitions = 1..Len(text[f].definitions)
      /\ Len(text[f].exports) \in Nat /\ DOMAIN text[f].exports = 1..Len(text[f].exports)
  BY <1>1
<1> QED
  BY <1>2, <1>3, <1>4

LEMMA NodeTyped ==
    ASSUME ElementsTypeOK, NEW f \in Files, NEW name \in STRING
    PROVE  Node(f, name) \in AstNode /\ Node(f, name).file = f /\ Node(f, name).name = name
           /\ Node(f, name).version = version[f]
BY DEF Node, AstNode, ElementsTypeOK

(* getImportedElements of one import                                        *)
LEMMA FromDocumentTyped ==
    ASSUME NEW import, import.usedElements \in Seq(UsedElement), NEW list \in Seq(PublishedElement)
    PROVE  /\ FromDocument(import, list) \in Seq(ImportedElement)
           /\ \A x \in Members(FromDocument(import, list)) :
                 \E y \in Members(list) : x.element = y.element
<1>1. \A y \in PublishedElement : y.element \in AstNode /\ y.exportName \in STRING
  BY DEF PublishedElement
<1>2. CASE import.useAll
  <2> DEFINE all == [k \in DOMAIN list |-> [element |-> list[k].element, importName |-> list[k].exportName]]
  <2>1. FromDocument(import, list) = all
    BY <1>2, FromDocumentUnfolded
  <2>2. \A k \in DOMAIN list : list[k] \in PublishedElement
    OBVIOUS
  <2>3. \A k \in DOMAIN list : all[k] \in ImportedElement /\ all[k].element = list[k].element
    BY <1>1, <2>2 DEF ImportedElement
  <2>4. DOMAIN list = 1..Len(list) /\ Len(list) \in Nat /\ DOMAIN all = DOMAIN list
    OBVIOUS
  <2>5. all = [k \in 1..Len(list) |-> all[k]]
    BY <2>4
  <2> HIDE DEF all
  <2>6. all \in Seq(ImportedElement)
    BY <2>3, <2>4, <2>5
  <2> QED
    BY <2>1, <2>3, <2>4, <2>6 DEF Members
<1>3. CASE ~import.useAll
  <2> DEFINE used == import.usedElements
             n == Len(used)
             Found(k) == ExportFound(list, used[k].element)
             parts == UsedParts(import, list)
  <2>1. FromDocument(import, list) = Flatten(parts)
    BY <1>3, FromDocumentUnfolded
  <2>2. n \in Nat /\ DOMAIN used = 1..n /\ \A k \in 1..n : used[k] \in UsedElement
    <3> HIDE DEF used
    <3> QED
      BY DEF used
  <2>3. \A k \in 1..n : used[k].element \in STRING /\ used[k].alias \in {None} \cup STRING
    BY <2>2 DEF UsedElement
  <2>4. ASSUME NEW k \in 1..n
        PROVE  /\ parts[k] \in Seq(ImportedElement)
               /\ \A x \in Members(parts[k]) : \E y \in Members(list) : x.element = y.element
    <3>1. CASE Found(k) = None
      <4>1. parts[k] = <<>>
        BY <2>2, <3>1 DEF UsedParts
      <4> QED
        BY <4>1, NoMembers
    <3>2. CASE Found(k) # None
      <4> DEFINE x == [element |-> Found(k).element,
                       importName |-> IF used[k].alias # None THEN used[k].alias ELSE used[k].element]
      <4>1. parts[k] = <<x>>
        BY <2>2, <3>2 DEF UsedParts
      <4>2. Found(k) \in Members(list)
        BY <3>2, ExportFoundIs
      <4>3. Found(k) \in PublishedElement
        BY <4>2, MembersTyped
      <4>4. x \in ImportedElement /\ x.element = Found(k).element
        BY <1>1, <2>3, <4>3 DEF ImportedElement
      <4> HIDE DEF x
      <4>5. Members(<<x>>) = {x}
        BY DEF Members
      <4> QED
        BY <4>1, <4>2, <4>4, <4>5
    <3> QED
      BY <3>1, <3>2
  <2>5. DOMAIN parts = 1..n
    BY <2>2 DEF UsedParts
  <2>6. parts \in [1..n -> Seq(ImportedElement)]
    BY <2>4, <2>5 DEF UsedParts
  <2> HIDE DEF parts, n
  <2>7. /\ Flatten(parts) \in Seq(ImportedElement)
        /\ \A x : x \in Members(Flatten(parts)) <=> \E k \in 1..n : x \in Members(parts[k])
    BY <2>2, <2>6, Flattened
  <2> QED
    BY <2>1, <2>4, <2>7
<1> QED
  BY <1>2, <1>3

(* getImportedElements: what is imported is published by a document that    *)
(* the file imports.                                                        *)
LEMMA ImportedElementsTyped ==
    ASSUME ElementsTypeOK, NEW f \in Files, NEW published \in PublishedLists
    PROVE  /\ ImportedElements(f, published) \in Seq(ImportedElement)
           /\ \A x \in Members(ImportedElements(f, published)) :
                 PublishedByImport(x.element, f, published)
<1> DEFINE imports == text[f].imports
           n == Len(imports)
           parts == ImportParts(f, published)
           Source(x) == PublishedByImport(x.element, f, published)
<1>1. LoadingTypeOK
  BY DEF ElementsTypeOK
<1>2. n \in Nat /\ DOMAIN imports = 1..n
  BY PartsOfFiles
<1>3. ASSUME NEW k \in 1..n
      PROVE  parts[k] \in Seq(ImportedElement) /\ \A x \in Members(parts[k]) : Source(x)
  <2>1. CASE ResolveImport(imports[k]) = None
    <3>1. parts[k] = <<>>
      BY <1>2, <2>1 DEF ImportParts
    <3> QED
      BY <3>1, NoMembers
  <2>2. CASE ResolveImport(imports[k]) # None
    <3> DEFINE h == imports[k].path
    <3>1. h \in documents /\ h \in Files /\ h \in ImportedFiles(f)
      BY <1>1, <2>2, ResolvedImports, ImportLeads
    <3>2. parts[k] = FromDocument(imports[k], published[h])
      BY <1>2, <2>2 DEF ImportParts
    <3>3. published[h] \in Seq(PublishedElement)
      BY <3>1 DEF PublishedLists
    <3>4. imports[k].usedElements \in Seq(UsedElement)
      BY <1>2, PartsOfFiles
    <3> HIDE DEF h, imports
    <3>5. /\ parts[k] \in Seq(ImportedElement)
          /\ \A x \in Members(parts[k]) : \E y \in Members(published[h]) : x.element = y.element
      BY <3>2, <3>3, <3>4, FromDocumentTyped
    <3> QED
      BY <3>1, <3>5 DEF PublishedByImport
  <2> QED
    BY <2>1, <2>2
<1>4. parts \in [1..n -> Seq(ImportedElement)]
  <2>1. DOMAIN parts = 1..n /\ parts = [k \in 1..n |-> parts[k]]
    BY <1>2 DEF ImportParts
  <2> HIDE DEF parts, n
  <2> QED
    BY <1>3, <2>1
<1> HIDE DEF parts, n
<1>5. /\ Flatten(parts) \in Seq(ImportedElement)
      /\ \A x : x \in Members(Flatten(parts)) <=> \E k \in 1..n : x \in Members(parts[k])
  BY <1>2, <1>4, Flattened
<1>6. ImportedElements(f, published) = Flatten(parts)
  BY ImportedElementsUnfolded DEF parts
<1> QED
  BY <1>3, <1>5, <1>6

(* The target of a reference is of the file or is published by a document   *)
(* that the file imports.                                                   *)
LEMMA ReferencedTyped ==
    ASSUME ElementsTypeOK, NEW f \in Files, NEW published \in PublishedLists, NEW name \in STRING,
           Referenced(f, name, published) # None
    PROVE  /\ Referenced(f, name, published) \in AstNode
           /\ \/ Referenced(f, name, published) = Node(f, name) /\ Local(f, name)
              \/ ~Local(f, name) /\ PublishedByImport(Referenced(f, name, published), f, published)
<1> DEFINE target == Referenced(f, name, published)
<1>1. CASE Local(f, name)
  BY <1>1, ReferencedUnfolded, NodeTyped
<1>2. CASE ~Local(f, name)
  <2> DEFINE list == ImportedElements(f, published)
             found == ImportFound(list, name)
  <2>1. target = found.element /\ found # None
    BY <1>2, ReferencedUnfolded
  <2>2. list \in Seq(ImportedElement)
    BY ImportedElementsTyped
  <2>3. found \in Members(list)
    BY <2>1, <2>2, ImportFoundIs
  <2>4. found \in ImportedElement
    BY <2>2, <2>3, MembersTyped
  <2>5. target \in AstNode
    BY <2>1, <2>4 DEF ImportedElement
  <2> QED
    BY <1>2, <2>1, <2>3, <2>5, ImportedElementsTyped
<1> QED
  BY <1>1, <1>2

(* getExportedElements: a published definition of the file, or what one of  *)
(* its export definitions refers to.                                        *)
LEMMA ExportedElementsTyped ==
    ASSUME ElementsTypeOK, NEW f \in Files, NEW published \in PublishedLists
    PROVE  /\ ExportedElements(f, published) \in Seq(PublishedElement)
           /\ \A x : x \in Members(ExportedElements(f, published)) <=>
                 \/ \E d \in Members(text[f].definitions) :
                       d.isPublished /\ x = [element |-> Node(f, d.name), exportName |-> d.name]
                 \/ \E e \in Members(text[f].exports) :
                       /\ Referenced(f, e.ref, published) # None
                       /\ ElementExported(Referenced(f, e.ref, published))
                       /\ x = ExportOffered(e, Referenced(f, e.ref, published))
<1> DEFINE n == Len(text[f].definitions)
           m == Len(text[f].exports)
           defs == DefinitionParts(f)
           exps == ExportParts(f, published)
           OfDefinition(d, x) == d.isPublished /\ x = [element |-> Node(f, d.name), exportName |-> d.name]
           OfExport(e, x) == /\ Referenced(f, e.ref, published) # None
                             /\ ElementExported(Referenced(f, e.ref, published))
                             /\ x = ExportOffered(e, Referenced(f, e.ref, published))
<1>1. /\ n \in Nat /\ DOMAIN text[f].definitions = 1..n
      /\ m \in Nat /\ DOMAIN text[f].exports = 1..m
      /\ \A d \in 1..n : text[f].definitions[d].name \in STRING
      /\ \A e \in 1..m : text[f].exports[e].ref \in STRING /\ text[f].exports[e].alias \in {None} \cup STRING
  BY PartsOfFiles
<1>2. ASSUME NEW k \in 1..n
      PROVE  /\ defs[k] \in Seq(PublishedElement)
             /\ \A x : x \in Members(defs[k]) <=> OfDefinition(text[f].definitions[k], x)
  <2> DEFINE d == text[f].definitions[k]
             y == [element |-> Node(f, d.name), exportName |-> d.name]
  <2>1. defs[k] = IF ~d.isPublished THEN <<>> ELSE <<y>>
    BY <1>1 DEF DefinitionParts
  <2>2. y \in PublishedElement
    BY <1>1, NodeTyped DEF PublishedElement
  <2> HIDE DEF y
  <2>3. Members(<<y>>) = {y}
    BY DEF Members
  <2>4. CASE d.isPublished
    BY <2>1, <2>2, <2>3, <2>4 DEF y
  <2>5. CASE ~d.isPublished
    BY <2>1, <2>5, NoMembers
  <2> QED
    BY <2>4, <2>5
<1>3. ASSUME NEW k \in 1..m
      PROVE  /\ exps[k] \in Seq(PublishedElement)
             /\ \A x : x \in Members(exps[k]) <=> OfExport(text[f].exports[k], x)
  <2> DEFINE e == text[f].exports[k]
             target == Referenced(f, e.ref, published)
             y == ExportOffered(e, target)
             offered == target # None /\ ElementExported(target)
  <2>1. exps[k] = IF ~offered THEN <<>> ELSE <<y>>
    BY <1>1 DEF ExportParts
  <2>2. CASE offered
    <3>1. target \in AstNode
      <4>1. e.ref \in STRING
        BY <1>1
      <4>2. target # None
        BY <2>2
      <4> HIDE DEF e
      <4> QED
        BY <4>1, <4>2, ReferencedTyped
    <3>2. y \in PublishedElement
      <4>1. target.name \in STRING
        <5> HIDE DEF target
        <5> QED
          BY <3>1 DEF AstNode
      <4>2. e.alias \in {None} \cup STRING
        BY <1>1
      <4> HIDE DEF e, target
      <4> QED
        BY <3>1, <4>1, <4>2 DEF PublishedElement, ExportOffered
    <3> HIDE DEF y
    <3>3. Members(<<y>>) = {y}
      BY DEF Members
    <3> QED
      BY <2>1, <2>2, <3>2, <3>3 DEF y
  <2>3. CASE ~offered
    BY <2>1, <2>3, NoMembers
  <2> QED
    BY <2>2, <2>3
<1>4. defs \in [1..n -> Seq(PublishedElement)] /\ exps \in [1..m -> Seq(PublishedElement)]
  <2>1. defs = [k \in 1..n |-> defs[k]] /\ exps = [k \in 1..m |-> exps[k]]
    BY <1>1 DEF DefinitionParts, ExportParts
  <2> HIDE DEF defs, exps, n, m
  <2> QED
    BY <1>2, <1>3, <2>1
<1>5. ExportedElements(f, published) = Flatten(defs) \o Flatten(exps)
  BY ExportedElementsUnfolded
<1>6. /\ \A x : (\E k \in 1..n : OfDefinition(text[f].definitions[k], x))
                <=> \E d \in Members(text[f].definitions) : OfDefinition(d, x)
      /\ \A x : (\E k \in 1..m : OfExport(text[f].exports[k], x))
                <=> \E e \in Members(text[f].exports) : OfExport(e, x)
  <2> HIDE DEF OfDefinition, OfExport
  <2> QED
    BY <1>1 DEF Members
<1> HIDE DEF defs, exps, n, m, OfDefinition, OfExport
<1>7. /\ Flatten(defs) \in Seq(PublishedElement)
      /\ \A x : x \in Members(Flatten(defs)) <=> \E k \in 1..n : x \in Members(defs[k])
  BY <1>1, <1>4, Flattened
<1>8. /\ Flatten(exps) \in Seq(PublishedElement)
      /\ \A x : x \in Members(Flatten(exps)) <=> \E k \in 1..m : x \in Members(exps[k])
  BY <1>1, <1>4, Flattened
<1>9. /\ ExportedElements(f, published) \in Seq(PublishedElement)
      /\ Members(ExportedElements(f, published)) = Members(Flatten(defs)) \cup Members(Flatten(exps))
  BY <1>5, <1>7, <1>8, JoinedMembers
<1>10. \A x : x \in Members(ExportedElements(f, published)) <=>
          \/ \E d \in Members(text[f].definitions) : OfDefinition(d, x)
          \/ \E e \in Members(text[f].exports) : OfExport(e, x)
  BY <1>2, <1>3, <1>6, <1>7, <1>8, <1>9
<1> QED
  BY <1>9, <1>10 DEF OfDefinition, OfExport

(* Each published element is of the file or is published by a document that *)
(* the file imports.                                                        *)
LEMMA PublishedComesFrom ==
    ASSUME ElementsTypeOK, NEW f \in Files, NEW published \in PublishedLists,
           NEW x \in Members(ExportedElements(f, published))
    PROVE  \/ x.element.file = f /\ x.element.version = version[f]
           \/ PublishedByImport(x.element, f, published)
<1>1. CASE \E d \in Members(text[f].definitions) :
              d.isPublished /\ x = [element |-> Node(f, d.name), exportName |-> d.name]
  BY <1>1 DEF Node
<1>2. ASSUME NEW e \in Members(text[f].exports), Referenced(f, e.ref, published) # None,
             x = ExportOffered(e, Referenced(f, e.ref, published))
      PROVE  \/ x.element.file = f /\ x.element.version = version[f]
             \/ PublishedByImport(x.element, f, published)
  <2>1. e.ref \in STRING
    BY PartsOfFiles DEF Members
  <2>2. x.element = Referenced(f, e.ref, published)
    BY <1>2 DEF ExportOffered
  <2>3. \/ x.element = Node(f, e.ref)
        \/ PublishedByImport(x.element, f, published)
    BY <1>2, <2>1, <2>2, ReferencedTyped
  <2> QED
    BY <2>3 DEF Node
<1> QED
  BY <1>1, <1>2, ExportedElementsTyped

-----------------------------------------------------------------------------
(* Published and Actual, whose definitions recur                            *)

CacheTypeOK == cache \in [Files -> {None} \cup Seq(PublishedElement)]

LEMMA PublishedEquations ==
    ASSUME ElementsTypeOK, CacheTypeOK
    PROVE  /\ \A n \in Nat : Published[n] \in PublishedLists
           /\ \A f \in Files : Published[0][f] = IF cache[f] # None THEN cache[f] ELSE <<>>
           /\ \A n \in Nat : \A f \in Files :
                 Published[n + 1][f] = IF cache[f] # None THEN cache[f] ELSE ExportedElements(f, Published[n])
<1> DEFINE S == PublishedLists
           base == [f \in Files |-> IF cache[f] # None THEN cache[f] ELSE <<>>]
           Deeper(p) == [f \in Files |-> IF cache[f] # None THEN cache[f] ELSE ExportedElements(f, p)]
           step == [x \in Nat \X S |-> Deeper(x[2])]
<1>1. base \in S
  BY DEF CacheTypeOK, PublishedLists
<1>2. ASSUME NEW p \in S PROVE Deeper(p) \in S
  BY ExportedElementsTyped DEF CacheTypeOK, PublishedLists
<1> HIDE DEF base, Deeper
<1>3. step \in [Nat \X S -> S]
  <2> HIDE DEF S
  <2>1. \A x \in Nat \X S : Deeper(x[2]) \in S
    BY <1>2
  <2> QED
    BY <2>1
<1>4. PICK F : F \in [Nat -> S] /\ F[0] = base /\ \A n \in Nat : F[n + 1] = step[<<n, F[n]>>]
  <2>1. step \in StepsWithin(S)
    BY <1>3 DEF StepsWithin
  <2> HIDE DEF S, step
  <2>2. PICK F : RecursFrom(F, S, base, step)
    BY <1>1, <2>1, RecursionExists
  <2> QED
    BY <2>2 DEF RecursFrom
<1>5. \A n \in Nat : F[n + 1] = Deeper(F[n])
  <2> HIDE DEF S
  <2> QED
    BY <1>4
<1> DEFINE At(n, p) == [f \in Files |-> IF cache[f] # None THEN cache[f]
                                       ELSE IF n = 0 THEN <<>> ELSE ExportedElements(f, p)]
           Q(G) == G = [n \in Nat |-> At(n, G[n - 1])]
<1>6. /\ \A p : At(0, p) = base
      /\ \A n \in Nat : \A p : n # 0 => At(n, p) = Deeper(p)
  BY DEF base, Deeper
<1>7. Published = CHOOSE G : Q(G)
  BY DEF Published
<1> HIDE DEF At, S
<1>8. Q(F)
  <2>1. ASSUME NEW n \in Nat PROVE F[n] = At(n, F[n - 1])
    <3>1. CASE n = 0
      BY <1>4, <1>6, <3>1
    <3>2. CASE n # 0
      <4>1. n - 1 \in Nat /\ (n - 1) + 1 = n
        BY <3>2
      <4> QED
        BY <1>5, <1>6, <3>2, <4>1
    <3> QED
      BY <3>1, <3>2
  <2> QED
    BY <1>4, <2>1
<1> HIDE DEF Q
<1>9. Q(Published)
  BY <1>7, <1>8
<1>10. Published = [n \in Nat |-> At(n, Published[n - 1])]
  BY <1>9 DEF Q
<1>11. Published[0] = base /\ \A n \in Nat : Published[n + 1] = Deeper(Published[n])
  <2>1. \A n \in Nat : n + 1 \in Nat /\ n + 1 # 0 /\ (n + 1) - 1 = n
    OBVIOUS
  <2> QED
    BY <1>6, <1>10, <2>1
<1>12. \A n \in Nat : Published[n] \in S
  <2> DEFINE T == {n \in Nat : Published[n] \in S}
  <2>1. 0 \in T /\ \A n \in Nat : n \in T => n + 1 \in T
    BY <1>1, <1>2, <1>11
  <2>2. Nat \subseteq T
    <3> HIDE DEF T
    <3> QED
      BY <2>1, AllNaturals
  <2> QED
    BY <2>2
<1>13. ASSUME NEW n \in Nat, NEW f \in Files
       PROVE  Published[n + 1][f] = IF cache[f] # None THEN cache[f] ELSE ExportedElements(f, Published[n])
  <2>1. Published[n + 1] = Deeper(Published[n])
    BY <1>11
  <2>2. Deeper(Published[n])[f] = IF cache[f] # None THEN cache[f] ELSE ExportedElements(f, Published[n])
    BY DEF Deeper
  <2> QED
    BY <2>1, <2>2
<1>14. \A f \in Files : Published[0][f] = IF cache[f] # None THEN cache[f] ELSE <<>>
  BY <1>11 DEF base
<1> QED
  BY <1>12, <1>13, <1>14 DEF S

LEMMA ActualEquations ==
    ElementsTypeOK =>
        /\ \A n \in Nat : Actual[n] \in PublishedLists
        /\ \A f \in Files : Actual[0][f] = <<>>
        /\ \A n \in Nat : \A f \in Files : Actual[n + 1][f] = ExportedElements(f, Actual[n])
<1> SUFFICES ASSUME ElementsTypeOK
             PROVE  /\ \A n \in Nat : Actual[n] \in PublishedLists
                    /\ \A f \in Files : Actual[0][f] = <<>>
                    /\ \A n \in Nat : \A f \in Files : Actual[n + 1][f] = ExportedElements(f, Actual[n])
  OBVIOUS
<1> DEFINE S == PublishedLists
           base == [f \in Files |-> <<>>]
           Deeper(p) == [f \in Files |-> ExportedElements(f, p)]
           step == [x \in Nat \X S |-> Deeper(x[2])]
<1>1. base \in S
  BY DEF PublishedLists
<1>2. ASSUME NEW p \in S PROVE Deeper(p) \in S
  BY ExportedElementsTyped DEF PublishedLists
<1> HIDE DEF base, Deeper
<1>3. step \in [Nat \X S -> S]
  <2> HIDE DEF S
  <2>1. \A x \in Nat \X S : Deeper(x[2]) \in S
    BY <1>2
  <2> QED
    BY <2>1
<1>4. PICK F : F \in [Nat -> S] /\ F[0] = base /\ \A n \in Nat : F[n + 1] = step[<<n, F[n]>>]
  <2>1. step \in StepsWithin(S)
    BY <1>3 DEF StepsWithin
  <2> HIDE DEF S, step
  <2>2. PICK F : RecursFrom(F, S, base, step)
    BY <1>1, <2>1, RecursionExists
  <2> QED
    BY <2>2 DEF RecursFrom
<1>5. \A n \in Nat : F[n + 1] = Deeper(F[n])
  <2> HIDE DEF S
  <2> QED
    BY <1>4
<1> DEFINE At(n, p) == [f \in Files |-> IF n = 0 THEN <<>> ELSE ExportedElements(f, p)]
           Q(G) == G = [n \in Nat |-> At(n, G[n - 1])]
<1>6. /\ \A p : At(0, p) = base
      /\ \A n \in Nat : \A p : n # 0 => At(n, p) = Deeper(p)
  BY DEF base, Deeper
<1>7. Actual = CHOOSE G : Q(G)
  BY DEF Actual
<1> HIDE DEF At, S
<1>8. Q(F)
  <2>1. ASSUME NEW n \in Nat PROVE F[n] = At(n, F[n - 1])
    <3>1. CASE n = 0
      BY <1>4, <1>6, <3>1
    <3>2. CASE n # 0
      <4>1. n - 1 \in Nat /\ (n - 1) + 1 = n
        BY <3>2
      <4> QED
        BY <1>5, <1>6, <3>2, <4>1
    <3> QED
      BY <3>1, <3>2
  <2> QED
    BY <1>4, <2>1
<1> HIDE DEF Q
<1>9. Q(Actual)
  BY <1>7, <1>8
<1>10. Actual = [n \in Nat |-> At(n, Actual[n - 1])]
  BY <1>9 DEF Q
<1>11. Actual[0] = base /\ \A n \in Nat : Actual[n + 1] = Deeper(Actual[n])
  <2>1. \A n \in Nat : n + 1 \in Nat /\ n + 1 # 0 /\ (n + 1) - 1 = n
    OBVIOUS
  <2> QED
    BY <1>6, <1>10, <2>1
<1>12. \A n \in Nat : Actual[n] \in S
  <2> DEFINE T == {n \in Nat : Actual[n] \in S}
  <2>1. 0 \in T /\ \A n \in Nat : n \in T => n + 1 \in T
    BY <1>1, <1>2, <1>11
  <2>2. Nat \subseteq T
    <3> HIDE DEF T
    <3> QED
      BY <2>1, AllNaturals
  <2> QED
    BY <2>2
<1>13. ASSUME NEW n \in Nat, NEW f \in Files
       PROVE  Actual[n + 1][f] = ExportedElements(f, Actual[n])
  <2>1. Actual[n + 1] = Deeper(Actual[n])
    BY <1>11
  <2>2. Deeper(Actual[n])[f] = ExportedElements(f, Actual[n])
    BY DEF Deeper
  <2> QED
    BY <2>1, <2>2
<1>14. \A f \in Files : Actual[0][f] = <<>>
  BY <1>11 DEF base
<1> QED
  BY <1>12, <1>13, <1>14 DEF S

-----------------------------------------------------------------------------
(* What a file publishes depends on what its imports publish, and on the    *)
(* text, version and documents.                                             *)

LEMMA ImportedElementsAgree ==
    ASSUME LoadingTypeOK, NEW f \in Files, NEW p, NEW q,
           \A h \in ImportedFiles(f) \cap documents : p[h] = q[h]
    PROVE  ImportedElements(f, p) = ImportedElements(f, q)
<1>1. ASSUME NEW k \in DOMAIN text[f].imports, ResolveImport(text[f].imports[k]) # None
      PROVE  p[text[f].imports[k].path] = q[text[f].imports[k].path]
  <2>1. k \in 1..Len(text[f].imports)
    BY ImportsOfFiles
  <2>2. text[f].imports[k].path \in ImportedFiles(f) \cap documents
    BY <1>1, <2>1, ResolvedImports, ImportLeads
  <2> QED
    BY <2>2
<1>2. ImportParts(f, p) = ImportParts(f, q)
  BY <1>1 DEF ImportParts
<1> QED
  BY <1>2, ImportedElementsUnfolded

LEMMA ExportedElementsAgree ==
    ASSUME LoadingTypeOK, NEW f \in Files, NEW p, NEW q,
           \A h \in ImportedFiles(f) \cap documents : p[h] = q[h]
    PROVE  /\ \A name : Referenced(f, name, p) = Referenced(f, name, q)
           /\ ExportedElements(f, p) = ExportedElements(f, q)
<1>1. ImportedElements(f, p) = ImportedElements(f, q)
  BY ImportedElementsAgree
<1>2. \A name : Referenced(f, name, p) = Referenced(f, name, q)
  BY <1>1, ReferencedUnfolded
<1>3. ExportParts(f, p) = ExportParts(f, q)
  BY <1>2 DEF ExportParts
<1> QED
  BY <1>2, <1>3, ExportedElementsUnfolded

LEMMA ExportedElementsStay ==
    ASSUME UNCHANGED <<text, version, documents>>, NEW f, NEW p
    PROVE  ExportedElements(f, p)' = ExportedElements(f, p)
<1>1. \A i : ResolveImport(i)' = ResolveImport(i)
  BY DEF ResolveImport
<1>2. ImportParts(f, p)' = ImportParts(f, p)
  BY <1>1 DEF ImportParts
<1>3. ImportedElements(f, p)' = ImportedElements(f, p)
  <2>1. (ImportedElements(f, p) = Flatten(ImportParts(f, p)))'
    BY DEF ImportedElements, ImportParts, MapSeq
  <2> QED
    BY <1>2, <2>1, ImportedElementsUnfolded
<1>4. \A n : Local(f, n)' = Local(f, n) /\ Node(f, n)' = Node(f, n)
  BY DEF Local, Node, Members
<1>5. \A n : Referenced(f, n, p)' = Referenced(f, n, p)
  <2> SUFFICES ASSUME NEW n PROVE Referenced(f, n, p)' = Referenced(f, n, p)
    OBVIOUS
  <2>1. (Referenced(f, n, p) =
              IF Local(f, n) THEN Node(f, n)
              ELSE IF ImportFound(ImportedElements(f, p), n) = None THEN None
              ELSE ImportFound(ImportedElements(f, p), n).element)'
    BY DEF Referenced, ImportFound
  <2> QED
    BY <1>3, <1>4, <2>1, ReferencedUnfolded
<1>6. \A x : ElementExported(x)' = ElementExported(x)
  BY DEF ElementExported, Members
<1>7. ExportParts(f, p)' = ExportParts(f, p)
  BY <1>5, <1>6 DEF ExportParts, ExportOffered
<1>8. DefinitionParts(f)' = DefinitionParts(f)
  BY <1>4 DEF DefinitionParts
<1>9. (ExportedElements(f, p) = Flatten(DefinitionParts(f)) \o Flatten(ExportParts(f, p)))'
  BY DEF ExportedElements, DefinitionParts, ExportParts, ExportOffered, MapSeq
<1> QED
  BY <1>7, <1>8, <1>9, ExportedElementsUnfolded

LEMMA ActualStays ==
    ASSUME ElementsTypeOK, ElementsTypeOK', UNCHANGED <<text, version, documents>>
    PROVE  \A f \in Files : ActuallyPublished'[f] = ActuallyPublished[f]
<1> DEFINE T == {n \in Nat : \A f \in Files : Actual'[n][f] = Actual[n][f]}
<1>1. /\ \A f \in Files : Actual[0][f] = <<>>
      /\ \A n \in Nat : Actual[n] \in PublishedLists
      /\ \A n \in Nat : \A f \in Files : Actual[n + 1][f] = ExportedElements(f, Actual[n])
  BY ActualEquations
<1>2. /\ \A f \in Files : Actual'[0][f] = <<>>
      /\ \A n \in Nat : Actual'[n] \in PublishedLists
      /\ \A n \in Nat : \A f \in Files : Actual'[n + 1][f] = ExportedElements(f, Actual[n])'
  <2>1. (ElementsTypeOK =>
        /\ \A n \in Nat : Actual[n] \in PublishedLists
        /\ \A f \in Files : Actual[0][f] = <<>>
        /\ \A n \in Nat : \A f \in Files : Actual[n + 1][f] = ExportedElements(f, Actual[n]))'
    BY ActualEquations, PTL
  <2> QED
    BY <2>1 DEF PublishedLists, PublishedElement, AstNode
<1>3. 0 \in T
  BY <1>1, <1>2
<1>4. ASSUME NEW n \in Nat, n \in T PROVE n + 1 \in T
  <2> SUFFICES ASSUME NEW f \in Files PROVE Actual'[n + 1][f] = Actual[n + 1][f]
    OBVIOUS
  <2>1. Actual'[n] = Actual[n]
    <3>1. \A g \in Files : Actual'[n][g] = Actual[n][g]
      BY <1>4
    <3>2. Actual'[n] \in PublishedLists /\ Actual[n] \in PublishedLists
      BY <1>1, <1>2
    <3> QED
      BY <3>1, <3>2 DEF PublishedLists
  <2>2. PICK p : p = Actual[n]
    OBVIOUS
  <2>3. Actual'[n + 1][f] = ExportedElements(f, p)'
    BY <1>2, <2>1, <2>2
  <2> QED
    BY <1>1, <2>2, <2>3, ExportedElementsStay
<1>5. Nat \subseteq T
  <2> HIDE DEF T
  <2> QED
    BY <1>3, <1>4, AllNaturals
<1>6. Cardinality(Files) \in Nat
  BY FilesAssumption, FS_CardinalityType
<1> QED
  BY <1>5, <1>6 DEF ActuallyPublished

(* Where there is no cycle, imports lead to fewer files.                    *)
LEMMA ImportsReachFewer ==
    ASSUME LoadingTypeOK, NEW f \in Files, LeadsToNoCycle(f)
    PROVE  /\ Cardinality(Reached(f)) \in Nat /\ Cardinality(Reached(f)) # 0
           /\ Cardinality(Reached(f)) <= Cardinality(Files)
           /\ \A h \in ImportedFiles(f) \cap documents :
                 /\ h \in Files /\ LeadsToNoCycle(h)
                 /\ \A n \in Nat : Cardinality(Reached(f)) <= n + 1 => Cardinality(Reached(h)) <= n
<1>1. documents \subseteq Files
  BY DEF LoadingTypeOK
<1>2. f \in Reached(f) /\ Reached(f) \subseteq Files
  BY <1>1, ClosureFollows DEF Reached
<1>3. IsFiniteSet(Reached(f)) /\ Cardinality(Reached(f)) <= Cardinality(Files)
  BY <1>2, FilesAssumption, FS_Subset
<1>4. Cardinality(Reached(f)) \in Nat /\ Cardinality(Reached(f)) # 0
  BY <1>2, <1>3, FS_CardinalityType, FS_EmptySet
<1>5. ASSUME NEW h \in ImportedFiles(f) \cap documents
      PROVE  /\ h \in Files /\ LeadsToNoCycle(h)
             /\ \A n \in Nat : Cardinality(Reached(f)) <= n + 1 => Cardinality(Reached(h)) <= n
  <2>1. h \in Reached(f)
    BY <1>2, ClosureFollows DEF Reached
  <2>2. Reached(h) \subseteq Reached(f)
    BY <2>1, ClosureGrows DEF Reached
  <2>3. f \notin Reached(h)
    <3>1. {h} \subseteq Closure(ImportedFiles(f) \cap documents, documents)
      BY ClosureFollows
    <3>2. Reached(h) \subseteq Closure(ImportedFiles(f) \cap documents, documents)
      BY <3>1, ClosureGrows DEF Reached
    <3> QED
      BY <1>2, <3>2 DEF LeadsToNoCycle, OnCycle, Reached
  <2>4. Reached(h) \subseteq Reached(f) \ {f}
    BY <2>2, <2>3
  <2>5. IsFiniteSet(Reached(f) \ {f}) /\ Cardinality(Reached(f) \ {f}) = Cardinality(Reached(f)) - 1
    BY <1>2, <1>3, FS_RemoveElement
  <2>6. IsFiniteSet(Reached(h)) /\ Cardinality(Reached(h)) <= Cardinality(Reached(f) \ {f})
    BY <2>4, <2>5, FS_Subset
  <2>7. Cardinality(Reached(h)) \in Nat
    BY <2>6, FS_CardinalityType
  <2>8. LeadsToNoCycle(h)
    BY <2>2 DEF LeadsToNoCycle, Reached
  <2> QED
    BY <1>1, <1>4, <2>5, <2>6, <2>7, <2>8
<1> QED
  BY <1>3, <1>4, <1>5

(* Going deeper than what a file leads to changes nothing.                  *)
LEMMA ActualSettles ==
    ASSUME ElementsTypeOK
    PROVE  \A n \in Nat : \A f \in Files :
              (LeadsToNoCycle(f) /\ Cardinality(Reached(f)) <= n)
                  => \A m \in Nat : m >= n => Actual[m][f] = Actual[n][f]
<1> DEFINE S == {n \in Nat : \A f \in Files :
                   (LeadsToNoCycle(f) /\ Cardinality(Reached(f)) <= n)
                       => \A m \in Nat : m >= n => Actual[m][f] = Actual[n][f]}
<1>0. LoadingTypeOK
  BY DEF ElementsTypeOK
<1>1. 0 \in S
  <2> SUFFICES ASSUME NEW f \in Files, LeadsToNoCycle(f), Cardinality(Reached(f)) <= 0 PROVE FALSE
    OBVIOUS
  <2>1. Cardinality(Reached(f)) \in Nat /\ Cardinality(Reached(f)) # 0
    BY <1>0, ImportsReachFewer
  <2> QED
    BY <2>1
<1>2. ASSUME NEW n \in Nat, n \in S PROVE n + 1 \in S
  <2> SUFFICES ASSUME NEW f \in Files, LeadsToNoCycle(f), Cardinality(Reached(f)) <= n + 1,
                      NEW m \in Nat, m >= n + 1
               PROVE  Actual[m][f] = Actual[n + 1][f]
    OBVIOUS
  <2>1. m - 1 \in Nat /\ (m - 1) + 1 = m /\ m - 1 >= n
    OBVIOUS
  <2>2. \A h \in ImportedFiles(f) \cap documents :
           h \in Files /\ LeadsToNoCycle(h) /\ Cardinality(Reached(h)) <= n
    BY <1>0, ImportsReachFewer
  <2>3. \A h \in ImportedFiles(f) \cap documents : Actual[m - 1][h] = Actual[n][h]
    BY <1>2, <2>1, <2>2
  <2>4. ExportedElements(f, Actual[m - 1]) = ExportedElements(f, Actual[n])
    <3>1. PICK p, q : p = Actual[m - 1] /\ q = Actual[n]
      OBVIOUS
    <3>2. \A h \in ImportedFiles(f) \cap documents : p[h] = q[h]
      BY <2>3, <3>1
    <3>3. ExportedElements(f, p) = ExportedElements(f, q)
      BY <1>0, <3>2, ExportedElementsAgree
    <3> QED
      BY <3>1, <3>3
  <2>5. Actual[m][f] = ExportedElements(f, Actual[m - 1]) /\ Actual[n + 1][f] = ExportedElements(f, Actual[n])
    BY <2>1, ActualEquations
  <2> QED
    BY <2>4, <2>5
<1>3. Nat \subseteq S
  <2> HIDE DEF S
  <2> QED
    BY <1>1, <1>2, AllNaturals
<1> QED
  BY <1>3

(* What is computed from up-to-date cached lists is up to date.             *)
LEMMA PublishedIsActual ==
    ASSUME ElementsTypeOK, CacheTypeOK, NEW f \in Files, LeadsToNoCycle(f),
           \A g \in Files : (cache[g] # None /\ LeadsToNoCycle(g)) => cache[g] = ActuallyPublished[g]
    PROVE  AllPublished[f] = ActuallyPublished[f]
<1> DEFINE N == Cardinality(Files)
           S == {n \in Nat : n <= N =>
                   \A g \in Files : (LeadsToNoCycle(g) /\ Cardinality(Reached(g)) <= n)
                       => Published[n][g] = Actual[N][g]}
<1>0. LoadingTypeOK
  BY DEF ElementsTypeOK
<1>1. N \in Nat
  BY FilesAssumption, FS_CardinalityType
<1>2. 0 \in S
  <2> SUFFICES ASSUME NEW g \in Files, LeadsToNoCycle(g), Cardinality(Reached(g)) <= 0 PROVE FALSE
    OBVIOUS
  <2>1. Cardinality(Reached(g)) \in Nat /\ Cardinality(Reached(g)) # 0
    BY <1>0, ImportsReachFewer
  <2> QED
    BY <2>1
<1>3. ASSUME NEW n \in Nat, n \in S PROVE n + 1 \in S
  <2> SUFFICES ASSUME n + 1 <= N, NEW g \in Files, LeadsToNoCycle(g), Cardinality(Reached(g)) <= n + 1
               PROVE  Published[n + 1][g] = Actual[N][g]
    OBVIOUS
  <2>1. N - 1 \in Nat /\ (N - 1) + 1 = N /\ N - 1 >= n /\ n <= N /\ N >= n
    BY <1>1
  <2>2. CASE cache[g] # None
    <3>1. Published[n + 1][g] = cache[g]
      BY <2>2, PublishedEquations
    <3> QED
      BY <2>2, <3>1 DEF ActuallyPublished
  <2>3. CASE cache[g] = None
    <3>1. Published[n + 1][g] = ExportedElements(g, Published[n])
      BY <2>3, PublishedEquations
    <3>2. Actual[N][g] = ExportedElements(g, Actual[N - 1])
      <4> HIDE DEF N
      <4> QED
        BY <2>1, ActualEquations
    <3>3. \A h \in ImportedFiles(g) \cap documents :
             h \in Files /\ LeadsToNoCycle(h) /\ Cardinality(Reached(h)) <= n
      BY <1>0, ImportsReachFewer
    <3> HIDE DEF N
    <3>4. \A h \in ImportedFiles(g) \cap documents : Published[n][h] = Actual[N][h]
      BY <1>3, <2>1, <3>3
    <3>5. \A h \in ImportedFiles(g) \cap documents : Actual[N][h] = Actual[n][h] /\ Actual[N - 1][h] = Actual[n][h]
      BY <1>1, <2>1, <3>3, ActualSettles
    <3>6. PICK p, q : p = Published[n] /\ q = Actual[N - 1]
      OBVIOUS
    <3>7. \A h \in ImportedFiles(g) \cap documents : p[h] = q[h]
      BY <3>4, <3>5, <3>6
    <3>8. ExportedElements(g, p) = ExportedElements(g, q)
      BY <1>0, <3>7, ExportedElementsAgree
    <3> QED
      BY <3>1, <3>2, <3>6, <3>8
  <2> QED
    BY <2>2, <2>3
<1>4. Nat \subseteq S
  <2> HIDE DEF S
  <2> QED
    BY <1>2, <1>3, AllNaturals
<1>5. Cardinality(Reached(f)) <= N
  BY <1>0, ImportsReachFewer
<1>6. N \in S
  BY <1>1, <1>4
<1>7. N <= N
  BY <1>1
<1> QED
  BY <1>5, <1>6, <1>7 DEF AllPublished, ActuallyPublished

-----------------------------------------------------------------------------
(* The cache                                                                *)

(* The element is of the file, as it is now, or of one its imports lead to. *)
ComesFrom(element, f) ==
    \/ element.file = f /\ element.version = version[f]
    \/ element.file \in Closure(ImportedFiles(f) \cap documents, documents)

Caching ==
    /\ Loading
    /\ ElementsTypeOK
    /\ CacheTypeOK
    /\ edits \in Nat
    /\ builds # <<>> => edits = 0 /\ \A f \in Files : cache[f] = None
    /\ \A f \in Files : cache[f] # None => \A x \in Members(cache[f]) : ComesFrom(x.element, f)
    /\ UneditedCacheIsUpToDate

LEMMA ClosureStays ==
    ASSUME NEW S, NEW Within, S \subseteq Files, Within \subseteq Files,
           \A g \in Files : ImportedFiles(g)' = ImportedFiles(g)
    PROVE  Closure(S, Within)' = Closure(S, Within)
<1>1. [f \in S \cup Within |-> ImportedFiles(f) \cap Within]' = [f \in S \cup Within |-> ImportedFiles(f) \cap Within]
  OBVIOUS
<1> QED
  BY <1>1 DEF Closure

LEMMA ReachedStays ==
    ASSUME LoadingTypeOK, UNCHANGED documents, \A g \in Files : ImportedFiles(g)' = ImportedFiles(g)
    PROVE  /\ \A f \in Files : Closure(ImportedFiles(f) \cap documents, documents)'
                                  = Closure(ImportedFiles(f) \cap documents, documents)
           /\ \A f \in Files : LeadsToNoCycle(f)' <=> LeadsToNoCycle(f)
<1>1. PICK docs : docs = documents /\ docs = documents'
  OBVIOUS
<1>2. docs \subseteq Files /\ \A f \in Files : ImportedFiles(f) \subseteq Files
  BY <1>1, ImportsOfFiles DEF LoadingTypeOK
<1>3. ASSUME NEW f \in Files
      PROVE  Closure(ImportedFiles(f) \cap documents, documents)'
                = Closure(ImportedFiles(f) \cap documents, documents)
  <2>1. PICK S : S = ImportedFiles(f) \cap docs
    OBVIOUS
  <2>2. S = (ImportedFiles(f) \cap documents)'
    BY <1>1, <2>1
  <2>3. S \subseteq Files
    BY <1>2, <2>1
  <2>4. Closure(S, docs)' = Closure(S, docs)
    BY <1>2, <2>3, ClosureStays
  <2> QED
    BY <1>1, <2>1, <2>2, <2>4
<1>4. ASSUME NEW f \in Files PROVE Closure({f}, documents)' = Closure({f}, documents)
  <2>1. Closure({f}, docs)' = Closure({f}, docs)
    BY <1>2, ClosureStays
  <2> QED
    BY <1>1, <2>1
<1>5. \A f \in Files : Closure({f}, documents) \subseteq Files
  BY <1>1, <1>2, ClosureFollows
<1>6. \A g \in Files : OnCycle(g, documents)' <=> OnCycle(g, documents)
  BY <1>3 DEF OnCycle
<1> QED
  BY <1>3, <1>4, <1>5, <1>6 DEF LeadsToNoCycle

(* What is looked up comes from the file or from what its imports lead to.  *)
LEMMA PublishedIsExplained ==
    ASSUME Caching
    PROVE  \A n \in Nat : \A f \in Files : \A x \in Members(Published[n][f]) : ComesFrom(x.element, f)
<1> DEFINE S == {n \in Nat : \A f \in Files : \A x \in Members(Published[n][f]) : ComesFrom(x.element, f)}
<1>0. ElementsTypeOK /\ CacheTypeOK /\ LoadingTypeOK
  BY DEF Caching, Loading
<1>1. \A f \in Files : cache[f] # None => \A x \in Members(cache[f]) : ComesFrom(x.element, f)
  BY DEF Caching
<1>2. 0 \in S
  <2>1. \A f \in Files : Published[0][f] = IF cache[f] # None THEN cache[f] ELSE <<>>
    BY <1>0, PublishedEquations
  <2> QED
    BY <1>1, <2>1, NoMembers
<1>3. ASSUME NEW n \in Nat, n \in S PROVE n + 1 \in S
  <2> SUFFICES ASSUME NEW f \in Files, NEW x \in Members(Published[n + 1][f])
               PROVE  ComesFrom(x.element, f)
    OBVIOUS
  <2>1. CASE cache[f] # None
    <3>1. Published[n + 1][f] = cache[f]
      BY <1>0, <2>1, PublishedEquations
    <3> QED
      BY <1>1, <2>1, <3>1
  <2>2. CASE cache[f] = None
    <3>1. Published[n + 1][f] = ExportedElements(f, Published[n]) /\ Published[n] \in PublishedLists
      BY <1>0, <2>2, PublishedEquations
    <3>2. \/ x.element.file = f /\ x.element.version = version[f]
          \/ PublishedByImport(x.element, f, Published[n])
      BY <1>0, <3>1, PublishedComesFrom
    <3>3. ASSUME NEW h \in ImportedFiles(f) \cap documents, NEW y \in Members(Published[n][h]),
                 x.element = y.element
          PROVE  ComesFrom(x.element, f)
      <4>1. h \in Files /\ ComesFrom(y.element, h)
        BY <1>0, <1>3 DEF LoadingTypeOK
      <4>2. h \in Closure(ImportedFiles(f) \cap documents, documents)
        BY ClosureFollows
      <4>3. ImportedFiles(h) \cap documents \subseteq Closure(ImportedFiles(f) \cap documents, documents)
        BY <4>2, ClosureFollows
      <4>4. Closure(ImportedFiles(h) \cap documents, documents)
               \subseteq Closure(ImportedFiles(f) \cap documents, documents)
        BY <4>3, ClosureGrows
      <4> QED
        BY <3>3, <4>1, <4>2, <4>4 DEF ComesFrom
    <3> QED
      BY <3>2, <3>3 DEF ComesFrom, PublishedByImport
  <2> QED
    BY <2>1, <2>2
<1>4. Nat \subseteq S
  <2> HIDE DEF S
  <2> QED
    BY <1>2, <1>3, AllNaturals
<1> QED
  BY <1>4

LEMMA CachingInit == Init => Caching
<1> SUFFICES ASSUME Init PROVE Caching
  OBVIOUS
<1>1. Loading
  BY LoadingInit
<1>2. version = [f \in Files |-> 0] /\ cache = [f \in Files |-> None] /\ edits = 0 /\ 0 \in Nat
  BY DEF Init
<1>3. ElementsTypeOK /\ CacheTypeOK
  BY <1>1, <1>2 DEF ElementsTypeOK, CacheTypeOK, Loading
<1> QED
  BY <1>1, <1>2, <1>3 DEF Caching, UneditedCacheIsUpToDate

(* While files are loaded nothing is looked up.                             *)
LEMMA LoadingKeepsCaching ==
    ASSUME Caching, Loading', builds # <<>>, UNCHANGED <<version, cache, edits>>
    PROVE  Caching'
<1>1. \A f \in Files : cache'[f] = None
  BY DEF Caching
<1>2. edits' = 0
  BY DEF Caching
<1>3. ElementsTypeOK' /\ CacheTypeOK'
  BY DEF Caching, ElementsTypeOK, CacheTypeOK, Loading, PublishedElement, AstNode
<1> QED
  BY <1>1, <1>2, <1>3 DEF Caching, UneditedCacheIsUpToDate

LEMMA LookUpKeepsCaching ==
    ASSUME Caching, Loading', UNCHANGED <<text, documents, builds, version, edits>>,
           \/ cache' = cache
           \/ /\ builds = <<>>
              /\ \E consulted : cache' = [g \in Files |-> IF g \in consulted THEN AllPublished[g] ELSE cache[g]]
    PROVE  Caching'
<1>0. ElementsTypeOK /\ CacheTypeOK /\ LoadingTypeOK
  BY DEF Caching, Loading
<1>1. ElementsTypeOK'
  BY DEF Caching, ElementsTypeOK, Loading
<1>2. \A g \in Files : cache'[g] = cache[g] \/ cache'[g] = AllPublished[g]
  OBVIOUS
<1>3. AllPublished \in PublishedLists
  <2>1. Cardinality(Files) \in Nat
    BY FilesAssumption, FS_CardinalityType
  <2> QED
    BY <1>0, <2>1, PublishedEquations DEF AllPublished
<1>4. CacheTypeOK'
  <2>1. cache' \in [Files -> {None} \cup Seq(PublishedElement)]
    BY <1>0, <1>3 DEF CacheTypeOK, PublishedLists
  <2> QED
    BY <2>1 DEF CacheTypeOK, PublishedElement, AstNode
<1>5. \A g \in Files : ImportedFiles(g)' = ImportedFiles(g)
  BY ImportsStay
<1>6. /\ \A f \in Files : Closure(ImportedFiles(f) \cap documents, documents)'
                             = Closure(ImportedFiles(f) \cap documents, documents)
      /\ \A f \in Files : LeadsToNoCycle(f)' <=> LeadsToNoCycle(f)
  BY <1>0, <1>5, ReachedStays
<1>7. ASSUME NEW f \in Files, NEW x \in Members(cache'[f]), cache'[f] # None PROVE ComesFrom(x.element, f)'
  <2>1. ComesFrom(x.element, f)
    <3>1. CASE cache'[f] = cache[f]
      BY <1>7, <3>1 DEF Caching
    <3>2. CASE cache'[f] = AllPublished[f]
      <4>1. Cardinality(Files) \in Nat
        BY FilesAssumption, FS_CardinalityType
      <4> QED
        BY <1>7, <3>2, <4>1, PublishedIsExplained DEF AllPublished
    <3> QED
      BY <1>2, <3>1, <3>2
  <2> QED
    BY <1>6, <2>1 DEF ComesFrom
<1>8. \A f \in Files : cache'[f] # None => \A x \in Members(cache'[f]) : ComesFrom(x.element, f)'
  BY <1>7
<1>9. UneditedCacheIsUpToDate'
  <2> SUFFICES ASSUME edits = 0, NEW f \in Files, cache'[f] # None, LeadsToNoCycle(f)
               PROVE  cache'[f] = ActuallyPublished'[f]
    BY <1>6 DEF UneditedCacheIsUpToDate
  <2>1. \A g \in Files : (cache[g] # None /\ LeadsToNoCycle(g)) => cache[g] = ActuallyPublished[g]
    BY DEF Caching, UneditedCacheIsUpToDate
  <2>2. AllPublished[f] = ActuallyPublished[f]
    BY <1>0, <2>1, PublishedIsActual
  <2>3. ActuallyPublished'[f] = ActuallyPublished[f]
    BY <1>0, <1>1, ActualStays
  <2> QED
    BY <1>2, <2>1, <2>2, <2>3
<1>10. edits' \in Nat /\ (builds' # <<>> => edits' = 0 /\ \A f \in Files : cache'[f] = None)
  BY DEF Caching
<1> QED
  BY <1>1, <1>4, <1>8, <1>9, <1>10 DEF Caching, Members

(* An edited file is not cached, and its imports stay.                      *)
LEMMA EditKeepsCaching ==
    ASSUME Caching, Loading', NEW f \in Files, NEW model \in Revisions(f), Edit(f, model)
    PROVE  Caching'
<1>0. LoadingTypeOK /\ version \in [Files -> Nat] /\ CacheTypeOK /\ edits \in Nat
  BY DEF Caching, Loading, ElementsTypeOK
<1>1. /\ builds' = <<>> /\ documents' = documents /\ text' = [text EXCEPT ![f] = model]
      /\ version' = [version EXCEPT ![f] = @ + 1]
      /\ cache' = [cache EXCEPT ![f] = None]
      /\ edits' = edits + 1
  BY DEF Edit, Loaded
<1>2. version' \in [Files -> Nat] /\ \A g \in Files \ {f} : version'[g] = version[g]
  BY <1>0, <1>1
<1>3. ElementsTypeOK'
  BY <1>2 DEF ElementsTypeOK, Loading
<1>4. CacheTypeOK' /\ cache'[f] = None /\ \A g \in Files \ {f} : cache'[g] = cache[g]
  BY <1>0, <1>1 DEF CacheTypeOK, PublishedElement, AstNode
<1>5. edits' \in Nat /\ edits' # 0
  BY <1>0, <1>1
<1>6. \A g \in Files : ImportedFiles(g)' = ImportedFiles(g)
  <2>1. model.imports = text[f].imports
    BY <1>0, RevisionsKeepImports
  <2>2. \A g \in Files : text'[g].imports = text[g].imports
    BY <1>0, <1>1, <2>1 DEF LoadingTypeOK
  <2> QED
    BY <2>2 DEF ImportedFiles
<1>7. \A g \in Files : Closure(ImportedFiles(g) \cap documents, documents)'
                          = Closure(ImportedFiles(g) \cap documents, documents)
  BY <1>0, <1>1, <1>6, ReachedStays
<1>8. ASSUME NEW g \in Files, cache'[g] # None, NEW x \in Members(cache'[g]) PROVE ComesFrom(x.element, g)'
  <2>1. g # f /\ cache'[g] = cache[g] /\ version'[g] = version[g]
    BY <1>2, <1>4, <1>8
  <2>2. ComesFrom(x.element, g)
    BY <1>8, <2>1 DEF Caching
  <2> QED
    BY <1>7, <2>1, <2>2 DEF ComesFrom
<1>9. \A g \in Files : cache'[g] # None => \A x \in Members(cache'[g]) : ComesFrom(x.element, g)'
  BY <1>8
<1> QED
  BY <1>1, <1>3, <1>4, <1>5, <1>9 DEF Caching, UneditedCacheIsUpToDate, Members

LEMMA CachingNext == Caching /\ [Next]_vars => Caching'
<1> SUFFICES ASSUME Caching, [Next]_vars PROVE Caching'
  OBVIOUS
<1>0. Loading'
  BY LoadingNext DEF Caching
<1>1. CASE NextDocument
  BY <1>0, <1>1, LoadingKeepsCaching DEF NextDocument
<1>2. CASE LoadDocument
  BY <1>0, <1>2, LoadingKeepsCaching DEF LoadDocument
<1>3. CASE EndBuild
  BY <1>0, <1>3, LoadingKeepsCaching DEF EndBuild
<1>4. ASSUME NEW f \in Files, LookUp(f) PROVE Caching'
  <2>1. /\ UNCHANGED <<text, documents, builds, version, edits>> /\ builds = <<>>
        /\ \E consulted : cache' = [g \in Files |-> IF g \in consulted THEN AllPublished[g] ELSE cache[g]]
    BY <1>4 DEF LookUp, Loaded
  <2> QED
    BY <1>0, <2>1, LookUpKeepsCaching
<1>5. ASSUME NEW f \in Files, NEW model \in Revisions(f), Edit(f, model) PROVE Caching'
  BY <1>0, <1>5, EditKeepsCaching
<1>6. CASE UNCHANGED vars
  BY <1>0, <1>6, LookUpKeepsCaching DEF vars
<1> QED
  BY <1>1, <1>2, <1>3, <1>4, <1>5, <1>6 DEF Next

LEMMA StaleOnlyByReexportFollows == Caching => StaleOnlyByReexport
<1> SUFFICES ASSUME Caching,
                    NEW f \in Files, cache[f] # None, NEW x \in Members(cache[f]),
                    x.element.version < version[x.element.file]
             PROVE  x.element.file \in Closure(ImportedFiles(f) \cap documents, documents)
  BY DEF StaleOnlyByReexport, StaleElementsAreReexported, Caching
<1>1. ComesFrom(x.element, f)
  BY DEF Caching
<1>2. version[f] \in Nat
  BY DEF Caching, ElementsTypeOK
<1>3. ~(x.element.file = f /\ x.element.version = version[f])
  BY <1>2
<1> QED
  BY <1>1, <1>3 DEF ComesFrom

(* The cache of published elements, for every sequence of loads, edits and  *)
(* look-ups: what is out of date in it is of a file that the imports of the *)
(* cached file lead to, and before any edit nothing is.                     *)
THEOREM StaleOnlyByReexportHolds == Spec => []StaleOnlyByReexport
BY CachingInit, CachingNext, StaleOnlyByReexportFollows, PTL DEF Spec

-----------------------------------------------------------------------------
(* What a file offers                                                       *)

(* Lists of one element each, put together.                                 *)
LEMMA FlattenedSingletons ==
    ASSUME NEW T, NEW n \in Nat, NEW v \in [1..n -> T], NEW lists, lists = [k \in 1..n |-> <<v[k]>>]
    PROVE  Flatten(lists) = v
<1>0. Len(lists) = n /\ \A k \in 1..n : lists[k] = <<v[k]>>
  OBVIOUS
<1> DEFINE Q(G) == G = [k \in 0..Len(lists) |-> IF k = 0 THEN <<>> ELSE G[k - 1] \o lists[k]]
           E == [k \in 0..n |-> [j \in 1..k |-> v[j]]]
           H == CHOOSE G : Q(G)
<1>1. Q(E)
  <2>1. ASSUME NEW k \in 0..n, k # 0 PROVE E[k] = E[k - 1] \o lists[k]
    <3>1. k - 1 \in 0..n /\ k \in 1..n /\ k \in Nat /\ k - 1 \in Nat
      BY <2>1
    <3>2. E[k] = [j \in 1..k |-> v[j]] /\ E[k - 1] = [j \in 1..(k - 1) |-> v[j]]
      BY <3>1
    <3> DEFINE s == [j \in 1..(k - 1) |-> v[j]]
    <3>3. \A j \in 1..(k - 1) : v[j] \in T
      <4>1. \A j \in 1..(k - 1) : j \in 1..n
        BY <3>1
      <4> QED
        BY <4>1
    <3>4. s \in Seq(T) /\ Len(s) = k - 1 /\ \A j \in 1..(k - 1) : s[j] = v[j]
      BY <3>1, <3>3
    <3>5. v[k] \in T
      BY <3>1
    <3> HIDE DEF s
    <3>6. /\ s \o <<v[k]>> = [j \in 1..k |-> IF j <= k - 1 THEN s[j] ELSE v[k]]
      BY <3>1, <3>4, <3>5
    <3>7. \A j \in 1..k : (IF j <= k - 1 THEN s[j] ELSE v[k]) = v[j]
      BY <3>1, <3>4
    <3>8. s \o <<v[k]>> = [j \in 1..k |-> v[j]]
      BY <3>6, <3>7
    <3> QED
      BY <1>0, <3>1, <3>2, <3>8 DEF s
  <2>2. E[0] = <<>>
    OBVIOUS
  <2> HIDE DEF Q
  <2>3. E = [k \in 0..Len(lists) |-> IF k = 0 THEN <<>> ELSE E[k - 1] \o lists[k]]
    BY <1>0, <2>1, <2>2
  <2> QED
    BY <2>3 DEF Q
<1>2. Flatten(lists) = H[Len(lists)]
  BY DEF Flatten
<1> HIDE DEF Q, E
<1>3. Q(H)
  BY <1>1
<1> HIDE DEF H
<1>4. H = [k \in 0..n |-> IF k = 0 THEN <<>> ELSE H[k - 1] \o lists[k]]
  BY <1>0, <1>3 DEF Q
<1>5. E = [k \in 0..n |-> IF k = 0 THEN <<>> ELSE E[k - 1] \o lists[k]]
  BY <1>0, <1>1 DEF Q
<1> DEFINE S == {k \in Nat : k <= n => H[k] = E[k]}
<1>6. 0 \in S
  <2>1. 0 \in 0..n
    OBVIOUS
  <2> QED
    BY <1>4, <1>5, <2>1
<1>7. ASSUME NEW k \in Nat, k \in S PROVE k + 1 \in S
  <2> SUFFICES ASSUME k + 1 <= n PROVE H[k + 1] = E[k + 1]
    OBVIOUS
  <2>1. k + 1 \in 0..n /\ k + 1 # 0 /\ (k + 1) - 1 = k /\ k <= n
    OBVIOUS
  <2>2. H[k + 1] = H[k] \o lists[k + 1]
    BY <1>4, <2>1
  <2>3. E[k + 1] = E[k] \o lists[k + 1]
    BY <1>5, <2>1
  <2> QED
    BY <1>7, <2>1, <2>2, <2>3
<1>8. Nat \subseteq S
  <2> HIDE DEF S
  <2> QED
    BY <1>6, <1>7, AllNaturals
<1>9. H[n] = E[n]
  BY <1>8
<1>10. E[n] = v
  BY DEF E
<1> QED
  BY <1>0, <1>2, <1>9, <1>10

LEMMA AllPublishedTyped ==
    ASSUME Caching
    PROVE  AllPublished \in PublishedLists /\ Cardinality(Files) \in Nat
<1>1. Cardinality(Files) \in Nat
  BY FilesAssumption, FS_CardinalityType
<1> QED
  BY <1>1, PublishedEquations DEF AllPublished, Caching

(* Before any edit, what a file that leads to no cycle publishes is         *)
(* computed from what the imports publish, however it was looked up.        *)
LEMMA PublishedIsExported ==
    ASSUME Caching, edits = 0, NEW f \in Files, LeadsToNoCycle(f)
    PROVE  AllPublished[f] = ExportedElements(f, AllPublished)
<1> DEFINE N == Cardinality(Files)
<1>0. LoadingTypeOK /\ ElementsTypeOK /\ CacheTypeOK /\ N \in Nat
  BY AllPublishedTyped DEF Caching, Loading
<1>1. ASSUME NEW g \in Files, LeadsToNoCycle(g) PROVE AllPublished[g] = Actual[N][g]
  <2>1. \A h \in Files : (cache[h] # None /\ LeadsToNoCycle(h)) => cache[h] = ActuallyPublished[h]
    BY DEF Caching, UneditedCacheIsUpToDate
  <2>2. AllPublished[g] = ActuallyPublished[g]
    BY <1>0, <1>1, <2>1, PublishedIsActual
  <2> QED
    BY <2>2 DEF ActuallyPublished
<1>2. Actual[N + 1][f] = Actual[N][f]
  <2>1. Cardinality(Reached(f)) <= N
    BY <1>0, ImportsReachFewer
  <2>2. N + 1 \in Nat /\ N + 1 >= N
    BY <1>0
  <2> QED
    BY <1>0, <2>1, <2>2, ActualSettles
<1>3. Actual[N + 1][f] = ExportedElements(f, Actual[N])
  BY <1>0, ActualEquations
<1>4. \A h \in ImportedFiles(f) \cap documents : h \in Files /\ LeadsToNoCycle(h)
  BY <1>0, ImportsReachFewer
<1>5. PICK p, q : p = AllPublished /\ q = Actual[N]
  OBVIOUS
<1>6. \A h \in ImportedFiles(f) \cap documents : p[h] = q[h]
  BY <1>1, <1>4, <1>5
<1>7. ExportedElements(f, p) = ExportedElements(f, q)
  BY <1>0, <1>6, ExportedElementsAgree
<1> QED
  BY <1>1, <1>2, <1>3, <1>5, <1>7

(* isElementExported holds of what getExportedElements offers.              *)
LEMMA ExportedIsElementExported ==
    ASSUME ElementsTypeOK, NEW f \in Files, NEW published \in PublishedLists,
           NEW x \in Members(ExportedElements(f, published))
    PROVE  ElementExported(x.element)
<1>1. ASSUME NEW d \in Members(text[f].definitions), d.isPublished,
             x = [element |-> Node(f, d.name), exportName |-> d.name]
      PROVE  ElementExported(x.element)
  BY <1>1 DEF ElementExported, Node
<1>2. ASSUME NEW e \in Members(text[f].exports), ElementExported(Referenced(f, e.ref, published)),
             x = ExportOffered(e, Referenced(f, e.ref, published))
      PROVE  ElementExported(x.element)
  BY <1>2 DEF ExportOffered
<1> QED
  BY <1>1, <1>2, ExportedElementsTyped

(* In a file without errors every export definition offers its target.      *)
LEMMA ExportsAreOffered ==
    ASSUME Caching, edits = 0, NEW f \in Files, LeadsToNoCycle(f),
           NEW e \in Members(text[f].exports), Referenced(f, e.ref, AllPublished) # None
    PROVE  ElementExported(Referenced(f, e.ref, AllPublished))
<1> DEFINE target == Referenced(f, e.ref, AllPublished)
<1>0. LoadingTypeOK /\ ElementsTypeOK /\ AllPublished \in PublishedLists
  BY AllPublishedTyped DEF Caching, Loading
<1>1. e.ref \in STRING
  BY <1>0, PartsOfFiles DEF Members
<1>2. \/ target = Node(f, e.ref)
      \/ PublishedByImport(target, f, AllPublished)
  BY <1>0, <1>1, ReferencedTyped
<1>3. CASE target = Node(f, e.ref)
  BY <1>3 DEF ElementExported, Node
<1>4. ASSUME NEW h \in ImportedFiles(f) \cap documents, NEW y \in Members(AllPublished[h]), target = y.element
      PROVE  ElementExported(target)
  <2>1. h \in Files /\ LeadsToNoCycle(h)
    BY <1>0, ImportsReachFewer
  <2>2. AllPublished[h] = ExportedElements(h, AllPublished)
    BY <2>1, PublishedIsExported
  <2>3. ElementExported(y.element)
    BY <1>0, <2>1, <2>2, ExportedIsElementExported
  <2> QED
    BY <1>4, <2>3
<1> QED
  BY <1>2, <1>3, <1>4 DEF PublishedByImport

LEMMA AcceptedLeadsToNoCycle ==
    ASSUME LoadingTypeOK, NEW f, NEW import, ImportAccepted(f, import)
    PROVE  /\ import.path \in documents /\ import.path \in Files
           /\ LeadsToNoCycle(import.path)
<1>1. ResolveImport(import) # None /\ ~ReportsCycle(import)
  BY DEF ImportAccepted
<1>2. import.path \in documents
  BY <1>1, ResolvedImports
<1>3. ~Meet(Edges(Reached(import.path), import.path, Len(text[import.path].imports)), {import.path})
  BY <1>1, <1>2, ImportAnalysis DEF ReportsCycle
<1>4. \A g \in Reached(import.path) : ~OnCycle(g, documents)
  BY <1>2, <1>3, TreesHaveNoCycles
<1> QED
  BY <1>2, <1>4 DEF LeadsToNoCycle, Reached, LoadingTypeOK

(* A name that the check of an import knows is offered.                     *)
LEMMA KnownNamesAreOffered ==
    ASSUME Caching, edits = 0, NEW p \in Files, LeadsToNoCycle(p), FileAccepted(p),
           NEW name \in AllExports(p)
    PROVE  \E x \in Members(ExportedElements(p, AllPublished)) : x.exportName = name
<1>0. ElementsTypeOK /\ AllPublished \in PublishedLists
  BY AllPublishedTyped DEF Caching
<1>1. ASSUME NEW d \in Members(text[p].definitions), d.isPublished, name = d.name
      PROVE  \E x \in Members(ExportedElements(p, AllPublished)) : x.exportName = name
  <2> DEFINE x == [element |-> Node(p, d.name), exportName |-> d.name]
  <2>1. x \in Members(ExportedElements(p, AllPublished))
    BY <1>0, <1>1, ExportedElementsTyped
  <2> QED
    BY <1>1, <2>1
<1>2. ASSUME NEW e \in Members(text[p].exports),
             name = IF e.alias # None THEN e.alias ELSE Referenced(p, e.ref, AllPublished).name
      PROVE  \E x \in Members(ExportedElements(p, AllPublished)) : x.exportName = name
  <2> DEFINE x == ExportOffered(e, Referenced(p, e.ref, AllPublished))
  <2>1. Referenced(p, e.ref, AllPublished) # None
    BY DEF FileAccepted
  <2>2. ElementExported(Referenced(p, e.ref, AllPublished))
    BY <2>1, ExportsAreOffered
  <2>3. x \in Members(ExportedElements(p, AllPublished))
    BY <1>0, <2>1, <2>2, ExportedElementsTyped
  <2>4. x.exportName = name
    BY <1>2 DEF ExportOffered
  <2> QED
    BY <2>3, <2>4
<1> QED
  BY <1>1, <1>2 DEF AllExports

LEMMA AcceptedElementsFollow == Caching => AcceptedElementsResolve
<1> SUFFICES ASSUME Caching, edits = 0, NEW f \in documents, NEW i \in Members(text[f].imports),
                    ImportAccepted(f, i), FileAccepted(i.path), ~i.useAll
             PROVE  MapSeq(FromDocument(i, AllPublished[i.path]), LAMBDA x : x.element)
                       = MapSeq(i.usedElements, LAMBDA named : ElementTarget(i, named))
  BY DEF AcceptedElementsResolve
<1> DEFINE p == i.path
           used == i.usedElements
           n == Len(used)
           list == ExportedElements(p, AllPublished)
<1>0. LoadingTypeOK /\ ElementsTypeOK /\ AllPublished \in PublishedLists
  BY AllPublishedTyped DEF Caching, Loading
<1>1. p \in Files /\ p \in documents /\ LeadsToNoCycle(p) /\ ResolveImport(i) # None
  BY <1>0, AcceptedLeadsToNoCycle DEF ImportAccepted
<1>2. AllPublished[p] = list /\ list \in Seq(PublishedElement)
  BY <1>0, <1>1, PublishedIsExported, ExportedElementsTyped
<1>3. used \in Seq(UsedElement)
  BY <1>0, PartsOfFiles DEF LoadingTypeOK, Members
<1>4. n \in Nat /\ DOMAIN used = 1..n
  BY <1>3
<1>5. ASSUME NEW k \in 1..n
      PROVE  /\ ExportFound(list, used[k].element) \in PublishedElement
             /\ ExportFound(list, used[k].element) # None
  <2>1. used[k].element \in AllExports(p)
    BY <1>4 DEF ImportAccepted, ElementsExist, Members
  <2>2. PICK x \in Members(list) : x.exportName = used[k].element
    BY <1>1, <2>1, KnownNamesAreOffered
  <2>3. PICK j \in DOMAIN list : list[j].exportName = used[k].element
    BY <2>2 DEF Members
  <2>4. PICK m \in DOMAIN list : ExportFound(list, used[k].element) = list[m]
    BY <1>2, <2>3, FoundFirst
  <2>5. list[m] \in PublishedElement
    BY <1>2
  <2> QED
    BY <2>4, <2>5, NoneAssumption
<1> DEFINE v == [k \in 1..n |-> [element |-> ExportFound(list, used[k].element).element,
                                 importName |-> IF used[k].alias # None THEN used[k].alias ELSE used[k].element]]
<1>6. FromDocument(i, list) = v
  <2>1. FromDocument(i, list) = Flatten(UsedParts(i, list))
    BY FromDocumentUnfolded
  <2>2. UsedParts(i, list) = [k \in 1..n |-> <<v[k]>>]
    <3> HIDE DEF list, n
    <3> QED
      BY <1>4, <1>5 DEF UsedParts
  <2>3. PICK T : v \in [1..n -> T]
    <3>1. v \in [1..n -> {v[k] : k \in 1..n}]
      OBVIOUS
    <3> QED
      BY <3>1
  <2> HIDE DEF v
  <2> QED
    BY <1>4, <2>1, <2>2, <2>3, FlattenedSingletons
<1>7. ASSUME NEW k \in 1..n PROVE ElementTarget(i, used[k]) = v[k].element
  <2>1. ElementTarget(i, used[k]) =
           IF ExportFound(list, used[k].element) = None THEN None
           ELSE ExportFound(list, used[k].element).element
    BY <1>1 DEF ElementTarget, ExportFound
  <2> HIDE DEF list
  <2> QED
    BY <1>5, <2>1
<1>8. MapSeq(v, LAMBDA x : x.element) = [k \in 1..n |-> v[k].element]
  BY DEF MapSeq
<1>9. MapSeq(used, LAMBDA named : ElementTarget(i, named)) = [k \in 1..n |-> ElementTarget(i, used[k])]
  BY <1>4 DEF MapSeq
<1> QED
  BY <1>2, <1>6, <1>7, <1>8, <1>9

LEMMA SuggestionsFollow == Caching => SuggestionsAreAccepted
<1> SUFFICES ASSUME Caching, NEW f \in documents, NEW i \in Members(text[f].imports)
             PROVE  /\ ResolveImport(i) # None => SuggestedElements(i) \subseteq AllExports(i.path)
                    /\ \A path \in SuggestedPaths(f) : ResolveImport([i EXCEPT !.path = path]) # None
  BY DEF SuggestionsAreAccepted
<1>0. LoadingTypeOK /\ ElementsTypeOK /\ AllPublished \in PublishedLists
  BY AllPublishedTyped DEF Caching, Loading
<1>1. ASSUME ResolveImport(i) # None, NEW name \in SuggestedElements(i) PROVE name \in AllExports(i.path)
  <2>1. i.path \in Files
    BY <1>0, <1>1, ResolvedImports DEF LoadingTypeOK
  <2>2. PICK x \in Members(ExportedElements(i.path, AllPublished)) : name = x.exportName
    BY <1>1 DEF SuggestedElements
  <2>3. CASE \E d \in Members(text[i.path].definitions) :
                d.isPublished /\ x = [element |-> Node(i.path, d.name), exportName |-> d.name]
    BY <2>2, <2>3 DEF AllExports
  <2>4. ASSUME NEW e \in Members(text[i.path].exports), Referenced(i.path, e.ref, AllPublished) # None,
               x = ExportOffered(e, Referenced(i.path, e.ref, AllPublished))
        PROVE  name \in AllExports(i.path)
    BY <2>2, <2>4 DEF AllExports, ExportOffered
  <2> QED
    BY <1>0, <2>1, <2>3, <2>4, ExportedElementsTyped
<1>2. ASSUME NEW path \in SuggestedPaths(f) PROVE ResolveImport([i EXCEPT !.path = path]) # None
  <2>1. path \in documents
    BY DEF SuggestedPaths
  <2>2. [i EXCEPT !.path = path].path = path
    <3> DEFINE Import == [path : Files \cup {None}, useAll : BOOLEAN, usedElements : Seq(UsedElement)]
    <3>1. text[f].imports \in Seq(Import)
      BY <1>0 DEF LoadingTypeOK, Model
    <3>2. i \in Import
      <4> HIDE DEF Import
      <4> QED
        BY <3>1, MembersTyped
    <3> QED
      BY <3>2
  <2> QED
    BY <1>0, <2>1, <2>2, ResolvedImports
<1> QED
  BY <1>1, <1>2

-----------------------------------------------------------------------------
(* Names published twice                                                    *)

(* The export definition publishes under a name of another file an element  *)
(* that is imported under a further name.                                   *)
ExportsRenamed(f, e) ==
    /\ e.alias = None
    /\ LET target == Referenced(f, e.ref, AllPublished)
       IN  target.file # f /\ target.name # e.ref

(* In a file without errors nothing imported is an element of the file.     *)
LEMMA ImportedFromElsewhere ==
    ASSUME Caching, NEW f \in documents, FileAccepted(f), NEW element,
           PublishedByImport(element, f, AllPublished)
    PROVE  element.file # f
<1>0. LoadingTypeOK /\ ElementsTypeOK /\ AllPublished \in PublishedLists /\ f \in Files /\ documents \subseteq Files
  BY AllPublishedTyped DEF Caching, Loading, LoadingTypeOK
<1>1. PICK h \in ImportedFiles(f) \cap documents : \E y \in Members(AllPublished[h]) : element = y.element
  BY DEF PublishedByImport
<1>1a. PICK y \in Members(AllPublished[h]) : element = y.element
  BY <1>1
<1>2. PICK i \in Members(text[f].imports) : h = i.path
  BY <1>1 DEF ImportedFiles
<1>3. LeadsToNoCycle(h) /\ h \in Files
  BY <1>0, <1>2, AcceptedLeadsToNoCycle DEF FileAccepted
<1>4. ComesFrom(y.element, h)
  <2>1. Cardinality(Files) \in Nat
    BY AllPublishedTyped
  <2> QED
    BY <1>1a, <1>3, <2>1, PublishedIsExplained DEF AllPublished
<1>5. SUFFICES ASSUME element.file = f PROVE FALSE
  OBVIOUS
<1>6. h \in Closure({h}, documents) /\ h \in documents
  BY <1>1, ClosureFollows
<1>7. ImportedFiles(h) \cap documents \subseteq Closure({h}, documents)
  BY <1>6, ClosureFollows
<1>8. f \in Closure({h}, documents)
  <2>1. CASE element.file = h
    BY <1>5, <1>6, <2>1
  <2>2. CASE element.file \in Closure(ImportedFiles(h) \cap documents, documents)
    BY <1>5, <1>7, <2>2, ClosureGrows
  <2> QED
    BY <1>1a, <1>4, <2>1, <2>2 DEF ComesFrom
<1>9. f \in Closure(ImportedFiles(f) \cap documents, documents)
  <2>1. {h} \subseteq Closure(ImportedFiles(f) \cap documents, documents)
    BY <1>1, ClosureFollows
  <2> QED
    BY <1>8, <2>1, ClosureGrows
<1> QED
  BY <1>3, <1>8, <1>9 DEF LeadsToNoCycle, OnCycle

LEMMA OffersOnce ==
    ASSUME NEW list \in Seq(PublishedElement), NEW x \in Members(list), NEW y \in Members(list),
           Occurrences(list, LAMBDA z : z.exportName = x.exportName) = 1,
           y.exportName = x.exportName
    PROVE  x = y
<1> DEFINE S == {i \in DOMAIN list : list[i].exportName = x.exportName}
<1>1. PICK i \in DOMAIN list, j \in DOMAIN list : list[i] = x /\ list[j] = y
  BY DEF Members
<1>2. i \in S /\ j \in S
  BY <1>1
<1>3. IsFiniteSet(S)
  <2>1. Len(list) \in Nat /\ DOMAIN list = 1..Len(list)
    OBVIOUS
  <2>2. IsFiniteSet(1..Len(list))
    BY <2>1, FS_Interval
  <2> QED
    BY <2>1, <2>2, FS_Subset
<1>4. Cardinality(S) = 1
  BY DEF Occurrences
<1> HIDE DEF S
<1>5. i = j
  BY <1>2, <1>3, <1>4, FS_Singleton
<1> QED
  BY <1>1, <1>5

(* Two exports of one name, the first of something imported.                *)
LEMMA ImportedTwiceNamed ==
    ASSUME Caching, NEW f \in documents, FileAccepted(f),
           NEW e \in Members(text[f].exports), NEW other \in Members(text[f].exports),
           e.alias = None, other.alias = None,
           Referenced(f, e.ref, AllPublished).name = Referenced(f, other.ref, AllPublished).name,
           Referenced(f, e.ref, AllPublished) # Referenced(f, other.ref, AllPublished),
           ~Local(f, e.ref)
    PROVE  ExportsRenamed(f, e) \/ ExportsRenamed(f, other)
<1> DEFINE target == Referenced(f, e.ref, AllPublished)
           otherTarget == Referenced(f, other.ref, AllPublished)
<1>0. /\ ElementsTypeOK /\ AllPublished \in PublishedLists /\ f \in Files
      /\ e.ref \in STRING /\ other.ref \in STRING
  BY AllPublishedTyped, PartsOfFiles DEF Caching, Loading, LoadingTypeOK, Members
<1>1. target # None /\ otherTarget # None
  BY DEF FileAccepted
<1>2. target.file # f
  BY <1>0, <1>1, ReferencedTyped, ImportedFromElsewhere
<1>3. CASE target.name # e.ref
  BY <1>2, <1>3 DEF ExportsRenamed
<1>4. CASE target.name = e.ref
  <2>1. other.ref # e.ref
    OBVIOUS
  <2>2. CASE Local(f, other.ref)
    <3>1. otherTarget = Node(f, other.ref)
      BY <1>0, <1>1, <2>2, ReferencedTyped
    <3>2. otherTarget.name = other.ref
      BY <3>1 DEF Node
    <3> QED
      BY <1>4, <2>1, <3>2
  <2>3. CASE ~Local(f, other.ref)
    <3>1. otherTarget.file # f
      BY <1>0, <1>1, <2>3, ReferencedTyped, ImportedFromElsewhere
    <3> QED
      BY <1>4, <2>1, <3>1 DEF ExportsRenamed
  <2> QED
    BY <2>2, <2>3
<1> QED
  BY <1>3, <1>4

(* A definition and an export of one name.                                  *)
LEMMA DefinedAndExported ==
    ASSUME Caching, NEW f \in documents, FileAccepted(f),
           NEW e \in Members(text[f].exports), NEW d \in Members(text[f].definitions),
           e.alias = None, d.isPublished,
           Referenced(f, e.ref, AllPublished).name = d.name
    PROVE  ExportsRenamed(f, e)
<1> DEFINE target == Referenced(f, e.ref, AllPublished)
<1>0. ElementsTypeOK /\ AllPublished \in PublishedLists /\ f \in Files /\ e.ref \in STRING
  BY AllPublishedTyped, PartsOfFiles DEF Caching, Loading, LoadingTypeOK, Members
<1>1. target # None /\ NotAlreadyPublished(f, e)
  BY DEF FileAccepted
<1>2. ~Local(f, e.ref)
  <2> SUFFICES ASSUME Local(f, e.ref) PROVE FALSE
    OBVIOUS
  <2>1. target = Node(f, e.ref)
    BY <1>0, <1>1, ReferencedTyped
  <2>2. target.file = f
    BY <2>1 DEF Node
  <2> QED
    BY <1>1, <2>2 DEF NotAlreadyPublished
<1>3. target.file # f
  BY <1>0, <1>1, <1>2, ReferencedTyped, ImportedFromElsewhere
<1>4. target.name # e.ref
  BY <1>2 DEF Local
<1> QED
  BY <1>3, <1>4 DEF ExportsRenamed

LEMMA AmbiguousFollow == Caching => AmbiguousOnlyByRenaming
<1> SUFFICES ASSUME Caching, NEW f \in documents, FileAccepted(f),
                    NEW x \in Members(ExportedElements(f, AllPublished)),
                    NEW y \in Members(ExportedElements(f, AllPublished)),
                    x.exportName = y.exportName, x # y
             PROVE  \E e \in Members(text[f].exports) : ExportsRenamed(f, e)
  BY DEF AmbiguousOnlyByRenaming, ExportsRenamed
<1> DEFINE list == ExportedElements(f, AllPublished)
           Target(e) == Referenced(f, e.ref, AllPublished)
           Defines(d, z) == d.isPublished /\ z = [element |-> Node(f, d.name), exportName |-> d.name]
           Exports(e, z) == e.alias = None /\ z = [element |-> Target(e), exportName |-> Target(e).name]
<1>0. ElementsTypeOK /\ AllPublished \in PublishedLists /\ f \in Files
  BY AllPublishedTyped DEF Caching, Loading, LoadingTypeOK
<1>1. list \in Seq(PublishedElement)
  BY <1>0, ExportedElementsTyped
<1>2. ASSUME NEW z \in Members(list), NEW w \in Members(list), z.exportName = w.exportName, z # w
      PROVE  \/ \E d \in Members(text[f].definitions) : Defines(d, z)
             \/ \E e \in Members(text[f].exports) : Exports(e, z)
  <2>1. ASSUME NEW e \in Members(text[f].exports), z = ExportOffered(e, Target(e))
        PROVE  Exports(e, z)
    <3>1. CASE e.alias = None
      BY <2>1, <3>1 DEF ExportOffered
    <3>2. CASE e.alias # None
      <4>1. z.exportName = e.alias
        BY <2>1, <3>2 DEF ExportOffered
      <4>2. AliasUnique(f, e)
        BY DEF FileAccepted
      <4>3. Occurrences(list, LAMBDA u : u.exportName = z.exportName) = 1
        BY <3>2, <4>1, <4>2 DEF AliasUnique
      <4> HIDE DEF list
      <4>4. z = w
        BY <1>1, <1>2, <4>3, OffersOnce
      <4> QED
        BY <1>2, <4>4
    <3> QED
      BY <3>1, <3>2
  <2>2. \/ \E d \in Members(text[f].definitions) : Defines(d, z)
        \/ \E e \in Members(text[f].exports) : z = ExportOffered(e, Target(e))
    BY <1>0, ExportedElementsTyped
  <2> QED
    BY <2>1, <2>2
<1>3. /\ \/ \E d \in Members(text[f].definitions) : Defines(d, x)
         \/ \E e \in Members(text[f].exports) : Exports(e, x)
      /\ \/ \E d \in Members(text[f].definitions) : Defines(d, y)
         \/ \E e \in Members(text[f].exports) : Exports(e, y)
  BY <1>2
<1>4. ASSUME NEW d \in Members(text[f].definitions), NEW e \in Members(text[f].exports),
             NEW z, NEW w, Defines(d, z), Exports(e, w), z.exportName = w.exportName
      PROVE  \E export \in Members(text[f].exports) : ExportsRenamed(f, export)
  <2>1. Target(e).name = d.name
    BY <1>4
  <2>2. ExportsRenamed(f, e)
    BY <1>4, <2>1, DefinedAndExported
  <2> QED
    BY <2>2
<1>5. ASSUME NEW e1 \in Members(text[f].exports), NEW e2 \in Members(text[f].exports),
             Exports(e1, x), Exports(e2, y)
      PROVE  \E e \in Members(text[f].exports) : ExportsRenamed(f, e)
  <2>1. Target(e1).name = Target(e2).name /\ Target(e1) # Target(e2) /\ e1.alias = None /\ e2.alias = None
    BY <1>5
  <2>2. CASE ~Local(f, e1.ref)
    BY <2>1, <2>2, ImportedTwiceNamed
  <2>3. CASE ~Local(f, e2.ref)
    BY <2>1, <2>3, ImportedTwiceNamed
  <2>4. CASE Local(f, e1.ref) /\ Local(f, e2.ref)
    <3>1. Target(e1) = Node(f, e1.ref) /\ Target(e2) = Node(f, e2.ref)
      BY <2>4, ReferencedUnfolded
    <3>2. e1.ref = e2.ref
      BY <2>1, <3>1 DEF Node
    <3> QED
      BY <2>1, <3>2
  <2> QED
    BY <2>2, <2>3, <2>4
<1>6. ASSUME NEW d1 \in Members(text[f].definitions), NEW d2 \in Members(text[f].definitions)
      PROVE  ~(Defines(d1, x) /\ Defines(d2, y))
  <2> SUFFICES ASSUME Defines(d1, x), Defines(d2, y) PROVE FALSE
    OBVIOUS
  <2>1. d1.name = d2.name
    OBVIOUS
  <2> QED
    BY <2>1
<1> HIDE DEF Defines, Exports, list
<1> QED
  BY <1>3, <1>4, <1>5, <1>6

(* Safety: validation, scope, completion and jumps to definitions compute   *)
(* what a file offers each in its own way, from the text or through the     *)
(* cache, and agree: what the validation lets pass the scope provides and   *)
(* the jump finds, what is suggested is accepted, and a name is published   *)
(* twice only by exports of elements imported under another name.           *)
THEOREM ElementsAgreeHolds == Spec => []ElementsAgree
<1>1. Caching => ElementsAgree
  BY AcceptedElementsFollow, SuggestionsFollow, AmbiguousFollow DEF ElementsAgree
<1> QED
  BY <1>1, CachingInit, CachingNext, PTL DEF Spec
=============================================================================
