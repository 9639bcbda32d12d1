-------------------------- MODULE FileSystemProofs --------------------------
(***************************************************************************)
(* Proofs about FileSystem, a tree of directories and files, and about the *)
(* blocks that use it: the tree is well-formed and implements FileStore,   *)
(* an archive is read into it as a whole and fails only on names that      *)
(* clash, and the blocks on texts give the lines that are asked for, for   *)
(* any paths, files, archives, texts and numbers of lines.                 *)
(***************************************************************************)
EXTENDS FileBlocks, FiniteSetTheorems, SequenceTheorems, WellFoundedInduction, TLAPS

-----------------------------------------------------------------------------
(* Definitions that recur *)

(* Of some positions one comes first. *)
LEMMA FirstPosition ==
    ASSUME NEW I, I \subseteq Nat, I # {}
    PROVE  \E i \in I : \A j \in I : i <= j
<1> DEFINE less == OpToRel(<, Nat)
<1>1. IsWellFoundedOn(less, Nat)
  BY NatLessThanWellFounded
<1>2. \A i, j \in Nat : j < i => <<j, i>> \in less
  BY DEF OpToRel
<1> HIDE DEF less
<1>3. PICK i \in I : \A j \in I : ~(<<j, i>> \in less)
  BY <1>1, WFMin
<1>4. ASSUME NEW j \in I PROVE i <= j
  <2>1. i \in Nat /\ j \in Nat /\ ~(<<j, i>> \in less)
    BY <1>3
  <2>2. ~(j < i)
    BY <1>2, <2>1, Zenon
  <2> QED
    BY <2>1, <2>2
<1> QED
  BY <1>4

(* Natural numbers of a set *)
LEMMA AllNaturals ==
    ASSUME NEW S, 0 \in S, \A n \in Nat : n \in S => n + 1 \in S
    PROVE  Nat \subseteq S
<1> DEFINE I == Nat \ S
<1> SUFFICES ASSUME I # {} PROVE FALSE
  OBVIOUS
<1>1. PICK m \in I : \A j \in I : m <= j
  BY FirstPosition
<1>2. m \in Nat /\ m # 0
  BY <1>1
<1>3. m - 1 \in Nat /\ (m - 1) + 1 = m /\ ~(m <= m - 1)
  BY <1>2
<1>4. m - 1 \in S
  BY <1>1, <1>3
<1> QED
  BY <1>1, <1>3, <1>4

(* There is a function for a definition that recurs on its argument less    *)
(* one.  The notions are operators so that the lemma can be instantiated.   *)
StepsWithin(S) == [Nat \X S -> S]

RecursFrom(F, S, base, step) ==
    /\ F \in [Nat -> S]
    /\ F[0] = base
    /\ \A n \in Nat : F[n + 1] = step[<<n, F[n]>>]

LEMMA RecursionExists ==
    ASSUME NEW S, NEW base \in S, NEW step \in StepsWithin(S)
    PROVE  \E F : RecursFrom(F, S, base, step)
<1>0. step \in [Nat \X S -> S]
  BY DEF StepsWithin
<1> DEFINE Upto(n, F) == /\ F \in [0..n -> S] /\ F[0] = base
                         /\ \A i \in 0..n : i # 0 => F[i] = step[<<i - 1, F[i - 1]>>]
           Good == {n \in Nat : \E F \in [0..n -> S] : Upto(n, F)}
<1>1. 0 \in Good
  <2>1. Upto(0, [i \in 0..0 |-> base])
    OBVIOUS
  <2> QED
    BY <2>1
<1>2. ASSUME NEW n \in Nat, n \in Good PROVE n + 1 \in Good
  <2>1. PICK F \in [0..n -> S] : Upto(n, F)
    BY <1>2
  <2> DEFINE G == [i \in 0..(n + 1) |-> IF i = n + 1 THEN step[<<n, F[n]>>] ELSE F[i]]
  <2>2. \A i \in 0..n : i \in 0..(n + 1) /\ i # n + 1 /\ (i # 0 => i - 1 \in 0..n)
    OBVIOUS
  <2>3. n \in 0..n /\ F[n] \in S /\ step[<<n, F[n]>>] \in S
    BY <1>0
  <2>4. G \in [0..(n + 1) -> S]
    <3>1. ASSUME NEW i \in 0..(n + 1) PROVE G[i] \in S
      <4>1. CASE i = n + 1
        BY <2>3, <4>1
      <4>2. CASE i # n + 1
        BY <4>2
      <4> QED
        BY <4>1, <4>2
    <3> QED
      BY <3>1
  <2>5. ASSUME NEW i \in 0..(n + 1), i # 0 PROVE G[i] = step[<<i - 1, G[i - 1]>>]
    <3>1. i - 1 \in 0..n /\ G[i - 1] = F[i - 1]
      BY <2>5
    <3>2. CASE i = n + 1
      <4>1. G[i] = step[<<n, F[n]>>] /\ i - 1 = n
        BY <3>2
      <4> HIDE DEF G
      <4> QED
        BY <3>1, <4>1
    <3>3. CASE i # n + 1
      <4>1. i \in 0..n
        BY <3>3
      <4>2. F[i] = step[<<i - 1, F[i - 1]>>]
        BY <2>1, <2>5, <4>1
      <4> QED
        BY <3>1, <3>3, <4>2
    <3> QED
      BY <3>2, <3>3
  <2>6. G[0] = base
    BY <2>1
  <2> HIDE DEF G
  <2>7. Upto(n + 1, G)
    BY <2>4, <2>5, <2>6
  <2> QED
    BY <2>4, <2>7
<1>3. Nat \subseteq Good
  <2> HIDE DEF Good
  <2> QED
    BY <1>1, <1>2, AllNaturals
<1> DEFINE Choice == [n \in Nat |-> CHOOSE F \in [0..n -> S] : Upto(n, F)]
<1>4. \A n \in Nat : Upto(n, Choice[n])
  <2> SUFFICES ASSUME NEW n \in Nat PROVE Upto(n, Choice[n])
    OBVIOUS
  <2>1. \E F \in [0..n -> S] : Upto(n, F)
    BY <1>3
  <2> HIDE DEF Upto
  <2> QED
    BY <2>1
(* Two of these functions agree where both are defined. *)
<1>5. ASSUME NEW m \in Nat, NEW n \in Nat, NEW F, NEW G, Upto(m, F), Upto(n, G)
      PROVE  \A i \in Nat : i <= m /\ i <= n => F[i] = G[i]
  <2> DEFINE T == {i \in Nat : i <= m /\ i <= n => F[i] = G[i]}
  <2>1. 0 \in T
    BY <1>5
  <2>2. ASSUME NEW i \in Nat, i \in T PROVE i + 1 \in T
    <3> SUFFICES ASSUME i + 1 <= m, i + 1 <= n PROVE F[i + 1] = G[i + 1]
      OBVIOUS
    <3>1. i + 1 \in 0..m /\ i + 1 \in 0..n /\ i + 1 # 0 /\ (i + 1) - 1 = i /\ i <= m /\ i <= n
      OBVIOUS
    <3>2. F[i] = G[i]
      BY <2>2, <3>1
    <3>3. F[i + 1] = step[<<i, F[i]>>] /\ G[i + 1] = step[<<i, G[i]>>]
      BY <1>5, <3>1
    <3> QED
      BY <3>2, <3>3
  <2>3. Nat \subseteq T
    <3> HIDE DEF T
    <3> QED
      BY <2>1, <2>2, AllNaturals
  <2> QED
    BY <2>3
<1> DEFINE H == [n \in Nat |-> Choice[n][n]]
<1>6. \A n \in Nat : Choice[n] \in [0..n -> S]
  BY <1>4
<1>7. H \in [Nat -> S]
  <2> HIDE DEF Choice
  <2>1. \A n \in Nat : n \in 0..n
    OBVIOUS
  <2> QED
    BY <1>6, <2>1
<1>8. H[0] = base
  BY <1>4
<1>9. ASSUME NEW n \in Nat PROVE H[n + 1] = step[<<n, H[n]>>]
  <2> HIDE DEF Choice
  <2>1. Upto(n + 1, Choice[n + 1]) /\ Upto(n, Choice[n])
    BY <1>4
  <2>2. Choice[n + 1][n] = Choice[n][n]
    <3> HIDE DEF Upto, H
    <3>1. n <= n + 1 /\ n <= n /\ n + 1 \in Nat
      OBVIOUS
    <3> QED
      BY <1>5, <2>1, <3>1
  <2>3. n + 1 \in 0..(n + 1) /\ n + 1 # 0 /\ (n + 1) - 1 = n
    OBVIOUS
  <2>4. Choice[n + 1][n + 1] = step[<<n, Choice[n + 1][n]>>]
    BY <2>1, <2>3
  <2> QED
    BY <2>2, <2>4
<1> HIDE DEF H
<1> QED
  BY <1>7, <1>8, <1>9 DEF RecursFrom

(* The same for the numbers up to one, in the form of the definitions of    *)
(* the model.                                                               *)
RecursTo(E, S, N, base, step) ==
    /\ E \in [0..N -> S]
    /\ E[0] = base
    /\ \A n \in 1..N : E[n] = step[<<n, E[n - 1]>>]

StepsTo(S, N) == [(1..N) \X S -> S]

LEMMA RecursionToExists ==
    ASSUME NEW S, NEW N \in Nat, NEW base \in S, NEW step \in StepsTo(S, N)
    PROVE  \E E : RecursTo(E, S, N, base, step)
<1> DEFINE further == [x \in Nat \X S |-> IF x[1] + 1 <= N THEN step[<<x[1] + 1, x[2]>>] ELSE x[2]]
<1>1. further \in StepsWithin(S)
  <2>1. ASSUME NEW x \in Nat \X S PROVE further[x] \in S
    <3>1. CASE x[1] + 1 <= N
      <4>1. <<x[1] + 1, x[2]>> \in (1..N) \X S
        BY <3>1
      <4> QED
        BY <3>1, <4>1 DEF StepsTo
    <3>2. CASE ~(x[1] + 1 <= N)
      BY <3>2
    <3> QED
      BY <3>1, <3>2
  <2>2. further = [x \in Nat \X S |-> further[x]]
    OBVIOUS
  <2> HIDE DEF further
  <2> QED
    BY <2>1, <2>2 DEF StepsWithin
<1>2. PICK F : RecursFrom(F, S, base, further)
  <2> HIDE DEF further
  <2> QED
    BY <1>1, RecursionExists
<1>3. F \in [Nat -> S] /\ F[0] = base /\ \A n \in Nat : F[n + 1] = further[<<n, F[n]>>]
  BY <1>2 DEF RecursFrom
<1> DEFINE E == [n \in 0..N |-> F[n]]
<1>4. ASSUME NEW n \in 1..N PROVE E[n] = step[<<n, E[n - 1]>>]
  <2>1. n - 1 \in Nat /\ (n - 1) + 1 = n /\ n - 1 \in 0..N /\ n \in 0..N /\ n <= N
    OBVIOUS
  <2>2. F[n] = further[<<n - 1, F[n - 1]>>] /\ F[n - 1] \in S
    <3> HIDE DEF further
    <3>1. PICK k \in Nat : k = n - 1 /\ k + 1 = n
      BY <2>1
    <3>2. F[k + 1] = further[<<k, F[k]>>] /\ F[k] \in S
      BY <1>3
    <3> QED
      BY <3>1, <3>2
  <2>3. further[<<n - 1, F[n - 1]>>] = step[<<n, F[n - 1]>>]
    BY <2>1, <2>2
  <2> HIDE DEF further
  <2> QED
    BY <2>1, <2>2, <2>3
<1>5. E \in [0..N -> S] /\ E[0] = base
  BY <1>3
<1> HIDE DEF E
<1>6. RecursTo(E, S, N, base, step)
  BY <1>4, <1>5 DEF RecursTo
<1> QED
  BY <1>6

-----------------------------------------------------------------------------
(* What is left of a path *)

(* The empty part of a path, by a name that the provers do not look into. *)
Empty == ""

StartsAtRoot(path) == Head(path) \in {"", "."}

(* Names that are neither empty nor stand for a directory. *)
PlainName == STRING \ {"", ".", ".."}

LEMMA PlainNames ==
    ASSUME NEW part
    PROVE  part \in PlainName <=> part \in STRING /\ part # Empty /\ part # "." /\ part # ".."
BY Zenon DEF Empty, PlainName

LEMMA ResolveUnfolded ==
    ASSUME NEW done, NEW part
    PROVE  /\ \/ Resolve(done, part) = done
              \/ done # Null /\ Resolve(done, part) = Append(done, part)
              \/ done # Null /\ Resolve(done, part) = Null
              \/ done # Null /\ done # <<>> /\ Resolve(done, part) = Front(done)
           /\ part = Empty => Resolve(done, part) = done
           /\ part \in PlainName /\ done # Null => Resolve(done, part) = Append(done, part)
BY Zenon DEF Resolve, Empty, PlainName

PathResolved(path, E) ==
    /\ E \in [0..Len(Tail(path)) -> {Null} \cup Seq(STRING)]
    /\ E[0] = <<>>
    /\ \A n \in 1..Len(Tail(path)) : E[n] = Resolve(E[n - 1], Tail(path)[n])
    /\ ProcessPath(path) = IF ~StartsAtRoot(path) THEN Null ELSE E[Len(Tail(path))]

LEMMA ResolvedParts ==
    ASSUME NEW done \in {Null} \cup Seq(STRING), NEW part \in STRING
    PROVE  Resolve(done, part) \in {Null} \cup Seq(STRING)
<1>1. CASE Resolve(done, part) = done \/ Resolve(done, part) = Null
  BY <1>1
<1>2. CASE done # Null /\ Resolve(done, part) = Append(done, part)
  <2>1. done \in Seq(STRING)
    BY <1>2
  <2>2. Append(done, part) \in Seq(STRING)
    BY <2>1, AppendProperties
  <2> QED
    BY <1>2, <2>2
<1>3. CASE done # Null /\ done # <<>> /\ Resolve(done, part) = Front(done)
  <2>1. done \in Seq(STRING) /\ Front(done) = SubSeq(done, 1, Len(done) - 1)
    BY <1>3 DEF Front
  <2> QED
    BY <1>3, <2>1
<1> QED
  BY <1>1, <1>2, <1>3, ResolveUnfolded

LEMMA PathIsResolved ==
    ASSUME NEW path \in Seq(STRING), path # <<>>
    PROVE  \E E : PathResolved(path, E)
<1> DEFINE parts == Tail(path)
           N == Len(parts)
           S == {Null} \cup Seq(STRING)
           step == [x \in (1..N) \X S |-> Resolve(x[2], parts[x[1]])]
           Q(G) == G = [n \in 0..Len(parts) |-> IF n = 0 THEN <<>> ELSE Resolve(G[n - 1], parts[n])]
           G == CHOOSE F : Q(F)
<1>1. parts \in Seq(STRING) /\ N \in Nat
  BY HeadTailProperties
<1>2. \A n \in 1..N : parts[n] \in STRING
  BY <1>1
<1>3. ProcessPath(path) = IF ~StartsAtRoot(path) THEN Null ELSE G[Len(parts)]
  <2>1. ProcessPath(path) = IF Head(path) \notin {"", "."} THEN Null ELSE G[Len(parts)]
    BY Zenon DEF ProcessPath
  <2> HIDE DEF G, parts
  <2> QED
    BY <2>1, Zenon DEF StartsAtRoot
<1> HIDE DEF parts
<1>4. step \in StepsTo(S, N) /\ <<>> \in S
  <2>1. \A x \in (1..N) \X S : Resolve(x[2], parts[x[1]]) \in S
    BY <1>2, ResolvedParts
  <2> HIDE DEF S, N
  <2> QED
    BY <2>1 DEF StepsTo, S
<1>5. PICK E : RecursTo(E, S, N, <<>>, step)
  <2> HIDE DEF step, S, N
  <2> QED
    BY <1>1, <1>4, RecursionToExists DEF N
<1>6. E \in [0..N -> S] /\ E[0] = <<>> /\ \A n \in 1..N : E[n] = Resolve(E[n - 1], parts[n])
  <2>1. ASSUME NEW n \in 1..N PROVE step[<<n, E[n - 1]>>] = Resolve(E[n - 1], parts[n])
    <3>1. n - 1 \in 0..N
      BY <1>1
    <3>2. <<n, E[n - 1]>> \in (1..N) \X S
      <4> HIDE DEF S, N
      <4> QED
        BY <1>5, <3>1 DEF RecursTo
    <3> HIDE DEF S, N
    <3> QED
      BY <3>2
  <2> HIDE DEF step, S, N
  <2> QED
    BY <1>5, <2>1 DEF RecursTo
<1>7. Q(E)
  <2>1. E = [n \in 0..N |-> E[n]] /\ \A n \in 0..N : n = 0 \/ n \in 1..N
    BY <1>1, <1>6
  <2> HIDE DEF S
  <2> QED
    BY <1>6, <2>1 DEF N
<1> HIDE DEF Q
<1>8. Q(G)
  BY <1>7
<1>9. G = [n \in 0..N |-> IF n = 0 THEN <<>> ELSE Resolve(G[n - 1], parts[n])]
  BY <1>8 DEF Q, N
<1> HIDE DEF G
<1>10. ASSUME NEW n \in Nat PROVE n <= N => G[n] = E[n]
  <2> DEFINE T == {k \in Nat : k <= N => G[k] = E[k]}
  <2>1. 0 \in T
    <3>1. 0 \in 0..N
      BY <1>1
    <3> QED
      BY <1>6, <1>9, <3>1
  <2>2. ASSUME NEW k \in Nat, k \in T PROVE k + 1 \in T
    <3> SUFFICES ASSUME k + 1 <= N PROVE G[k + 1] = E[k + 1]
      OBVIOUS
    <3>1. k + 1 \in 0..N /\ k + 1 \in 1..N /\ k + 1 # 0 /\ (k + 1) - 1 = k /\ G[k] = E[k]
      BY <1>1, <2>2
    <3>2. G[k + 1] = Resolve(G[k], parts[k + 1])
      BY <1>9, <3>1
    <3> QED
      BY <1>6, <3>1, <3>2
  <2> HIDE DEF T
  <2>3. Nat \subseteq T
    BY <2>1, <2>2, AllNaturals
  <2> QED
    BY <2>3 DEF T
<1>11. G[Len(parts)] = E[Len(parts)]
  BY <1>1, <1>10
<1> QED
  BY <1>3, <1>6, <1>11 DEF PathResolved, parts

LEMMA ProcessedPaths ==
    ASSUME NEW path \in GivenPaths
    PROVE  ProcessPath(path) \in {Null} \cup Seq(STRING)
<1>1. path \in Seq(STRING) /\ path # <<>>
  BY PathAssumption
<1>2. PICK E : PathResolved(path, E)
  BY <1>1, PathIsResolved
<1>3. Len(Tail(path)) \in 0..Len(Tail(path))
  <2>1. Len(Tail(path)) \in Nat
    BY <1>1, HeadTailProperties
  <2> QED
    BY <2>1
<1> QED
  BY <1>2, <1>3 DEF PathResolved

LEMMA PlainPathsStay ==
    ASSUME NEW names \in Seq(PlainName), NEW path \in GivenPaths,
           path = <<Empty>> \o names \/ path = <<Empty>> \o (<<Empty>> \o names)
    PROVE  ProcessPath(path) = names
<1>0. /\ Len(names) \in Nat /\ names \in Seq(STRING) /\ \A i \in 1..Len(names) : names[i] \in PlainName
      /\ path \in Seq(STRING) /\ path # <<>>
  <2>1. Len(names) \in Nat /\ \A i \in 1..Len(names) : names[i] \in PlainName
    OBVIOUS
  <2>2. \A i \in 1..Len(names) : names[i] \in STRING
    BY <2>1, PlainNames
  <2>3. names \in Seq(STRING)
    BY <2>1, <2>2
  <2>4. path \in Seq(STRING) /\ path # <<>>
    BY PathAssumption
  <2> QED
    BY <2>1, <2>3, <2>4
<1> DEFINE Part == STRING \cup {Empty}
<1>1. PICK d \in {0, 1} :
         /\ Head(path) = Empty
         /\ Len(Tail(path)) = Len(names) + d
         /\ \A i \in 1..(Len(names) + d) : Tail(path)[i] = IF i <= d THEN Empty ELSE names[i - d]
  <2>1. ASSUME NEW s \in Seq(Part)
        PROVE  /\ <<Empty>> \o s \in Seq(Part) /\ Head(<<Empty>> \o s) = Empty /\ Tail(<<Empty>> \o s) = s
    <3> DEFINE U == Part
    <3>1. Empty \in U /\ s \in Seq(U)
      OBVIOUS
    <3> HIDE DEF U
    <3>2. /\ <<Empty>> \o s \in Seq(U) /\ Len(<<Empty>> \o s) = Len(s) + 1
          /\ (<<Empty>> \o s)[1] = Empty /\ \A i \in 1..Len(s) : (<<Empty>> \o s)[i + 1] = s[i]
      BY <3>1
    <3> DEFINE r == <<Empty>> \o s
    <3> HIDE DEF r
    <3>3. /\ r \in Seq(U) /\ Len(r) = Len(s) + 1 /\ r[1] = Empty /\ \A i \in 1..Len(s) : r[i + 1] = s[i]
      BY <3>2 DEF r
    <3>4. Head(r) = Empty /\ Tail(r) = s
      BY <3>1, <3>3
    <3> QED
      BY <3>3, <3>4 DEF r, U
  <2>2. names \in Seq(Part)
    BY <1>0
  <2> HIDE DEF Part
  <2>3. CASE path = <<Empty>> \o names
    <3>1. \A i \in 1..(Len(names) + 0) : names[i] = IF i <= 0 THEN Empty ELSE names[i - 0]
      BY <1>0
    <3> QED
      BY <1>0, <2>1, <2>2, <2>3, <3>1
  <2>4. CASE path = <<Empty>> \o (<<Empty>> \o names)
    <3> DEFINE more == <<Empty>> \o names
    <3>1. more \in Seq(Part) /\ Len(more) = Len(names) + 1
          /\ \A i \in 1..(Len(names) + 1) : more[i] = IF i <= 1 THEN Empty ELSE names[i - 1]
      BY <1>0, <2>1, <2>2
    <3>2. path = <<Empty>> \o more
      BY <2>4
    <3> HIDE DEF more
    <3>3. Head(path) = Empty /\ Tail(path) = more
      BY <2>1, <3>1, <3>2
    <3> QED
      BY <3>1, <3>3
  <2> QED
    BY <2>3, <2>4
<1> HIDE DEF Part
<1> DEFINE N == Len(names) + d
           parts == Tail(path)
<1>2. PICK E : PathResolved(path, E)
  BY <1>0, PathIsResolved
<1>3. ProcessPath(path) = E[N] /\ E[0] = <<>> /\ \A n \in 1..N : E[n] = Resolve(E[n - 1], parts[n])
  <2>1. StartsAtRoot(path)
    BY <1>1, Zenon DEF StartsAtRoot, Empty
  <2> QED
    BY <1>1, <1>2, <2>1 DEF PathResolved
<1>4. N \in Nat /\ \A i \in 1..N : parts[i] = IF i <= d THEN Empty ELSE names[i - d]
  BY <1>0, <1>1
<1> HIDE DEF N, parts
<1> DEFINE Left(n) == IF n <= d THEN <<>> ELSE SubSeq(names, 1, n - d)
           T == {n \in Nat : n <= N => E[n] = Left(n)}
<1>5. 0 \in T
  BY <1>3, <1>4
<1>6. ASSUME NEW n \in Nat, n \in T PROVE n + 1 \in T
  <2> SUFFICES ASSUME n + 1 <= N PROVE E[n + 1] = Left(n + 1)
    OBVIOUS
  <2>1. n + 1 \in 1..N /\ (n + 1) - 1 = n
    BY <1>4
  <2>2. E[n] = Left(n)
    BY <1>4, <1>6
  <2>3. E[n + 1] = Resolve(Left(n), parts[n + 1])
    BY <1>3, <2>1, <2>2
  <2>4. CASE n + 1 <= d
    <3>1. parts[n + 1] = Empty /\ Left(n) = <<>> /\ Left(n + 1) = <<>>
      BY <1>4, <2>1, <2>4
    <3> QED
      BY <2>3, <3>1, ResolveUnfolded
  <2>5. CASE ~(n + 1 <= d)
    <3> DEFINE m == n - d
    <3>1. m \in Nat /\ m + 1 \in 1..Len(names) /\ (n + 1) - d = m + 1
      BY <2>1, <2>5 DEF N
    <3>2. parts[n + 1] = names[m + 1]
      BY <1>4, <2>1, <2>5, <3>1
    <3>3. Left(n) = SubSeq(names, 1, m)
      BY <1>0, <3>1
    <3>4. Left(n + 1) = SubSeq(names, 1, m + 1)
      BY <2>5, <3>1
    <3> HIDE DEF Left, m
    <3>5. SubSeq(names, 1, m) \in Seq(STRING)
      BY <1>0, <3>1
    <3>6. SubSeq(names, 1, m) # Null
      BY <3>5, PathAssumption
    <3>7. names[m + 1] \in PlainName
      BY <1>0, <3>1
    <3>8. Resolve(SubSeq(names, 1, m), names[m + 1]) = Append(SubSeq(names, 1, m), names[m + 1])
      BY <3>6, <3>7, ResolveUnfolded
    <3>9. Append(SubSeq(names, 1, m), names[m + 1]) = SubSeq(names, 1, m + 1)
      BY <1>0, <3>1
    <3> QED
      BY <2>3, <3>2, <3>3, <3>4, <3>8, <3>9
  <2> QED
    BY <2>4, <2>5
<1>7. N \in T
  <2> HIDE DEF T
  <2>1. Nat \subseteq T
    BY <1>5, <1>6, AllNaturals
  <2> QED
    BY <1>4, <2>1
<1>7a. E[N] = Left(N)
  BY <1>4, <1>7
<1> HIDE DEF T
<1>8. Left(N) = names
  <2>1. SubSeq(names, 1, Len(names)) = names
    BY <1>0
  <2> QED
    BY <1>0, <2>1 DEF N
<1> QED
  BY <1>3, <1>7a, <1>8

-----------------------------------------------------------------------------
(* The files of the nodes *)

(* The nodes are a list, and no two files have the same path. *)
FilesAreApart ==
    /\ nodes \in Seq({nodes[i] : i \in DOMAIN nodes})
    /\ \A i, j \in DOMAIN nodes :
          /\ nodes[i].path = nodes[j].path
          /\ nodes[i].file # Directory /\ nodes[j].file # Directory
          => i = j

(* The files there are, by their paths. *)
Mapping == [path \in FilePaths |-> FileAt(path)]

LEMMA FunctionsAreLists ==
    ASSUME NEW T, NEW m \in Nat, NEW list \in [1..m -> T]
    PROVE  list \in Seq(T)
OBVIOUS

LEMMA ListsOfTheirElements ==
    ASSUME NEW V, NEW list \in Seq(V)
    PROVE  list \in Seq({list[i] : i \in DOMAIN list})
<1> DEFINE T == {list[i] : i \in DOMAIN list}
<1>1. Len(list) \in Nat /\ DOMAIN list = 1..Len(list)
  OBVIOUS
<1>2. list \in [1..Len(list) -> V]
  OBVIOUS
<1>3. list \in [1..Len(list) -> T]
  BY <1>1, <1>2
<1> HIDE DEF T
<1> QED
  BY <1>1, <1>3, FunctionsAreLists

LEMMA ListsWithOneMore ==
    ASSUME NEW V, NEW front \in Seq(V), NEW item \in V
    PROVE  /\ front \o <<item>> \in Seq(V)
           /\ Len(front \o <<item>>) = Len(front) + 1
           /\ \A i \in 1..Len(front) : (front \o <<item>>)[i] = front[i]
           /\ (front \o <<item>>)[Len(front) + 1] = item
<1>1. <<item>> \in Seq(V) /\ Len(<<item>>) = 1 /\ <<item>>[1] = item
  OBVIOUS
<1>2. /\ front \o <<item>> \in Seq(V)
      /\ Len(front \o <<item>>) = Len(front) + Len(<<item>>)
      /\ \A i \in 1..Len(front) + Len(<<item>>) :
            (front \o <<item>>)[i] = IF i <= Len(front) THEN front[i] ELSE <<item>>[i - Len(front)]
  BY <1>1, ConcatProperties
<1>3. Len(front) \in Nat
  OBVIOUS
<1>4. \A i \in 1..Len(front) : (front \o <<item>>)[i] = front[i]
  BY <1>1, <1>2, <1>3
<1>5. (front \o <<item>>)[Len(front) + 1] = item
  <2>1. (front \o <<item>>)[Len(front) + 1] = <<item>>[Len(front) + 1 - Len(front)]
    BY <1>1, <1>2, <1>3
  <2>2. Len(front) + 1 - Len(front) = 1
    BY <1>3
  <2> QED
    BY <1>1, <2>1, <2>2
<1> QED
  BY <1>1, <1>2, <1>4, <1>5

(* A file is found by its path. *)
LEMMA FileIsAt ==
    ASSUME FilesAreApart, NEW i \in DOMAIN nodes, nodes[i].file # Directory
    PROVE  FileAt(nodes[i].path) = nodes[i].file
<1> DEFINE At(j) == nodes[j].path = nodes[i].path /\ nodes[j].file # Directory
<1>1. \A j \in DOMAIN nodes : At(j) => j = i
  BY DEF FilesAreApart
<1>2. (CHOOSE j \in DOMAIN nodes : At(j)) = i
  <2>1. At(i)
    OBVIOUS
  <2> HIDE DEF At
  <2> QED
    BY <1>1, <2>1
<1> QED
  BY <1>2 DEF FileAt

LEMMA NewDirectoriesAreDirectories ==
    ASSUME NEW parts \in Seq(STRING)
    PROVE  /\ NewDirectories(parts) \in Seq({NewDirectories(parts)[k] : k \in DOMAIN NewDirectories(parts)})
           /\ \A k \in DOMAIN NewDirectories(parts) : NewDirectories(parts)[k].file = Directory
<1> DEFINE S == {n \in 1..Len(parts) - 1 : \A k \in 1..n : HasDirectory(Prefix(parts, k))}
           n == Len(parts) - 1 - Depth(parts)
           T == {NewDirectories(parts)[k] : k \in DOMAIN NewDirectories(parts)}
<1>1. IsFiniteSet(1..Len(parts) - 1)
  BY FS_Interval
<1>2. IsFiniteSet(S)
  <2>1. S \subseteq 1..Len(parts) - 1
    OBVIOUS
  <2> QED
    BY <1>1, <2>1, FS_Subset
<1>3. Depth(parts) \in Nat
  BY <1>2, FS_CardinalityType DEF Depth
<1>4. n \in Int
  BY <1>3
<1>5. NewDirectories(parts) \in [1..n -> T]
  BY DEF NewDirectories
<1>6. \E m \in Nat : 1..n = 1..m
  <2>1. CASE n \in Nat
    BY <2>1
  <2>2. CASE n \notin Nat
    BY <1>4, <2>2
  <2> QED
    BY <2>1, <2>2
<1>7. NewDirectories(parts) \in Seq(T)
  <2>1. PICK m \in Nat : 1..n = 1..m
    BY <1>6
  <2>2. NewDirectories(parts) \in [1..m -> T]
    BY <1>5, <2>1
  <2> HIDE DEF T
  <2> QED
    BY <2>2, FunctionsAreLists
<1>8. \A k \in DOMAIN NewDirectories(parts) : NewDirectories(parts)[k].file = Directory
  BY DEF NewDirectories, Node
<1> QED
  BY <1>7, <1>8

-----------------------------------------------------------------------------
(* The tree *)

(* A set of numbers without gaps reaches as far as it has elements. *)
LEMMA WithoutGaps ==
    ASSUME NEW m \in Nat, NEW S, S \subseteq 1..m, \A n \in S : \A k \in 1..n : k \in S
    PROVE  Cardinality(S) \in 0..m /\ S = 1..Cardinality(S)
<1> DEFINE I == {n \in Nat : n + 1 \notin S}
<1>1. m \in I
  OBVIOUS
<1>2. PICK d \in I : \A n \in I : d <= n
  BY <1>1, FirstPosition
<1>3. d \in 0..m /\ d + 1 \notin S
  BY <1>1, <1>2
<1>4. ASSUME NEW k \in S PROVE k \in 1..d
  <2>1. k \in Nat /\ k >= 1 /\ (d + 1 <= k => d + 1 \in 1..k)
    BY <1>3
  <2> QED
    BY <1>3, <2>1
<1>5. ASSUME NEW k \in 1..d, k \notin S PROVE FALSE
  <2>1. k - 1 \in Nat /\ (k - 1) + 1 = k /\ ~(d <= k - 1)
    BY <1>3
  <2> QED
    BY <1>2, <1>5, <2>1
<1>6. S = 1..d
  BY <1>4, <1>5
<1>7. Cardinality(1..d) = d
  BY <1>3, FS_Interval
<1> QED
  BY <1>3, <1>6, <1>7

LEMMA PrefixType ==
    ASSUME NEW parts \in Seq(STRING), NEW n \in 0..Len(parts)
    PROVE  /\ Prefix(parts, n) \in Seq(STRING) /\ Len(Prefix(parts, n)) = n
           /\ Prefix(parts, n) = [i \in 1..n |-> parts[i]]
BY DEF Prefix

LEMMA PrefixOfPrefix ==
    ASSUME NEW parts \in Seq(STRING), NEW m \in 0..Len(parts), NEW k \in 0..m
    PROVE  Prefix(Prefix(parts, m), k) = Prefix(parts, k)
<1>1. k \in 0..Len(parts) /\ k \in 0..Len(Prefix(parts, m))
  BY PrefixType
<1>2. Prefix(Prefix(parts, m), k) = [i \in 1..k |-> Prefix(parts, m)[i]]
  BY <1>1, PrefixType
<1>3. \A i \in 1..k : Prefix(parts, m)[i] = parts[i]
  BY PrefixType
<1>4. Prefix(parts, k) = [i \in 1..k |-> parts[i]]
  BY <1>1, PrefixType
<1>5. [i \in 1..k |-> Prefix(parts, m)[i]] = [i \in 1..k |-> parts[i]]
  BY <1>3
<1> QED
  BY <1>2, <1>4, <1>5

(* How far the directories of a path exist: up to the first one that does   *)
(* not.                                                                     *)
LEMMA DepthOfDirectories ==
    ASSUME NEW parts \in Seq(STRING), parts # <<>>
    PROVE  /\ Depth(parts) \in 0..Len(parts) - 1
           /\ \A k \in 1..Depth(parts) : HasDirectory(Prefix(parts, k))
           /\ Depth(parts) < Len(parts) - 1 => ~HasDirectory(Prefix(parts, Depth(parts) + 1))
<1> DEFINE m == Len(parts) - 1
           S == {n \in 1..m : \A k \in 1..n : HasDirectory(Prefix(parts, k))}
<1>1. m \in Nat /\ S \subseteq 1..m
  OBVIOUS
<1>2. \A n \in S : \A k \in 1..n : k \in S
  OBVIOUS
<1>3. Depth(parts) = Cardinality(S)
  BY DEF Depth
<1> HIDE DEF S
<1>4. Depth(parts) \in 0..m /\ S = 1..Depth(parts)
  BY <1>1, <1>2, <1>3, WithoutGaps
<1>5. \A k \in 1..Depth(parts) : HasDirectory(Prefix(parts, k))
  BY <1>4 DEF S
<1>6. ASSUME Depth(parts) < m, HasDirectory(Prefix(parts, Depth(parts) + 1))
      PROVE  FALSE
  <2>1. Depth(parts) + 1 \in 1..m /\ Depth(parts) + 1 \notin S
    BY <1>4, <1>6
  <2>2. \A k \in 1..Depth(parts) + 1 : k \in 1..Depth(parts) \/ k = Depth(parts) + 1
    BY <1>4
  <2> QED
    BY <1>5, <1>6, <2>1, <2>2 DEF S
<1> QED
  BY <1>4, <1>5, <1>6

-----------------------------------------------------------------------------
(* What is appended to the list *)

(* Directories at the end of the list are no files. *)
LEMMA AddDirectories ==
    ASSUME FilesAreApart, NEW dirs, dirs \in Seq({dirs[k] : k \in DOMAIN dirs}),
           \A k \in DOMAIN dirs : dirs[k].file = Directory,
           nodes' = nodes \o dirs
    PROVE  /\ FilesAreApart'
           /\ FilePaths' = FilePaths
           /\ \A path \in FilePaths : FileAt(path)' = FileAt(path)
<1> DEFINE S == {nodes[i] : i \in DOMAIN nodes}
           T == {dirs[k] : k \in DOMAIN dirs}
           U == {nodes'[i] : i \in DOMAIN nodes'}
<1>1. nodes \in Seq(S \cup T) /\ dirs \in Seq(S \cup T)
  BY DEF FilesAreApart
<1>2. /\ nodes' \in Seq(S \cup T)
      /\ Len(nodes') = Len(nodes) + Len(dirs)
      /\ \A i \in 1..Len(nodes) + Len(dirs) :
            nodes'[i] = IF i <= Len(nodes) THEN nodes[i] ELSE dirs[i - Len(nodes)]
  BY <1>1, ConcatProperties
<1>3. Len(nodes) \in Nat /\ Len(dirs) \in Nat /\ DOMAIN nodes = 1..Len(nodes)
      /\ DOMAIN dirs = 1..Len(dirs) /\ DOMAIN nodes' = 1..Len(nodes')
  BY <1>1, <1>2
<1>4. nodes' \in Seq(U)
  <2> DEFINE list == nodes'
  <2>1. list \in Seq(S \cup T)
    BY <1>2
  <2> HIDE DEF list
  <2>2. list \in Seq({list[i] : i \in DOMAIN list})
    BY <2>1, ListsOfTheirElements
  <2> QED
    BY <2>2 DEF list
<1>5. \A i : i \in DOMAIN nodes' /\ nodes'[i].file # Directory
             <=> i \in DOMAIN nodes /\ nodes[i].file # Directory
  BY <1>2, <1>3
<1>6. \A i \in DOMAIN nodes : i \in DOMAIN nodes' /\ nodes'[i] = nodes[i]
  BY <1>2, <1>3
<1>7. FilesAreApart'
  <2>1. ASSUME NEW i \in DOMAIN nodes', NEW j \in DOMAIN nodes', nodes'[i].path = nodes'[j].path,
               nodes'[i].file # Directory, nodes'[j].file # Directory
        PROVE  i = j
    <3>1. i \in DOMAIN nodes /\ j \in DOMAIN nodes
      BY <1>5, <2>1
    <3>2. nodes'[i] = nodes[i] /\ nodes'[j] = nodes[j]
      BY <1>6, <3>1
    <3> QED
      BY <2>1, <3>1, <3>2 DEF FilesAreApart
  <2> QED
    BY <1>4, <2>1 DEF FilesAreApart
<1>8. FilePaths' = FilePaths
  BY <1>5, <1>6 DEF FilePaths
<1>9. ASSUME NEW path \in FilePaths PROVE FileAt(path)' = FileAt(path)
  <2>1. PICK i \in DOMAIN nodes : nodes[i].path = path /\ nodes[i].file # Directory
    BY DEF FilePaths
  <2>2. /\ i \in DOMAIN nodes' /\ nodes'[i] = nodes[i]
        /\ \A j \in DOMAIN nodes' : nodes'[j].path = path /\ nodes'[j].file # Directory => j = i
    BY <1>6, <1>7, <2>1 DEF FilesAreApart
  <2>3. (CHOOSE j \in DOMAIN nodes' : nodes'[j].path = path /\ nodes'[j].file # Directory) = i
    BY <2>1, <2>2
  <2> QED
    BY <2>1, <2>2, <2>3, FileIsAt DEF FileAt
<1> QED
  BY <1>7, <1>8, <1>9

(* A file put behind new directories is the only one of its path. *)
LEMMA AddFile ==
    ASSUME FilesAreApart, NEW dirs, dirs \in Seq({dirs[k] : k \in DOMAIN dirs}),
           \A k \in DOMAIN dirs : dirs[k].file = Directory,
           NEW parts, NEW given \in StoredFiles, ~HasFile(parts),
           nodes' = (nodes \o dirs) \o <<Node(parts, given)>>
    PROVE  /\ FilesAreApart'
           /\ parts \notin FilePaths
           /\ FilePaths' = FilePaths \cup {parts}
           /\ \A path \in FilePaths : FileAt(path)' = FileAt(path)
           /\ FileAt(parts)' = given
<1> DEFINE V == {nodes[i] : i \in DOMAIN nodes} \cup {dirs[k] : k \in DOMAIN dirs}
                  \cup {Node(parts, given)}
           end == Len(nodes) + Len(dirs) + 1
<1>1. nodes \in Seq(V) /\ dirs \in Seq(V) /\ <<Node(parts, given)>> \in Seq(V)
  BY DEF FilesAreApart
<1>2. /\ nodes \o dirs \in Seq(V)
      /\ Len(nodes \o dirs) = Len(nodes) + Len(dirs)
      /\ \A i \in 1..Len(nodes) + Len(dirs) :
            (nodes \o dirs)[i] = IF i <= Len(nodes) THEN nodes[i] ELSE dirs[i - Len(nodes)]
  BY <1>1, ConcatProperties
<1>3. Len(nodes) \in Nat /\ Len(dirs) \in Nat /\ DOMAIN nodes = 1..Len(nodes)
      /\ DOMAIN dirs = 1..Len(dirs)
  BY <1>1
<1>4. /\ nodes' \in Seq(V) /\ Len(nodes') = end
      /\ \A i \in 1..Len(nodes) + Len(dirs) : nodes'[i] = (nodes \o dirs)[i]
      /\ nodes'[end] = Node(parts, given)
  <2> DEFINE front == nodes \o dirs
             node == Node(parts, given)
  <2>1. /\ front \in Seq(V) /\ node \in V
        /\ Len(front) = Len(nodes) + Len(dirs) /\ end = Len(front) + 1
    BY <1>1, <1>2
  <2> HIDE DEF front, node, V
  <2>2. /\ front \o <<node>> \in Seq(V)
        /\ Len(front \o <<node>>) = Len(front) + 1
        /\ \A i \in 1..Len(front) : (front \o <<node>>)[i] = front[i]
        /\ (front \o <<node>>)[Len(front) + 1] = node
    BY <2>1, ListsWithOneMore
  <2> QED
    BY <2>1, <2>2 DEF front, node
<1>5. DOMAIN nodes' = 1..end /\ end \in DOMAIN nodes' /\ end \notin DOMAIN nodes
  BY <1>3, <1>4
<1>6. nodes' \in Seq({nodes'[i] : i \in DOMAIN nodes'})
  <2> DEFINE list == nodes'
  <2>1. list \in Seq(V)
    BY <1>4
  <2> HIDE DEF list
  <2>2. list \in Seq({list[i] : i \in DOMAIN list})
    BY <2>1, ListsOfTheirElements
  <2> QED
    BY <2>2 DEF list
<1>7. \A i \in DOMAIN nodes : i \in DOMAIN nodes' /\ nodes'[i] = nodes[i]
  BY <1>2, <1>3, <1>4, <1>5
<1>8. nodes'[end].path = parts /\ nodes'[end].file = given /\ given # Directory
  BY <1>4, DirectoryAssumption DEF Node
<1>9. ASSUME NEW i \in DOMAIN nodes', nodes'[i].file # Directory
      PROVE  i \in DOMAIN nodes \/ i = end
  <2>1. CASE i \in 1..Len(nodes) \/ i = end
    BY <1>3, <2>1
  <2>2. CASE i \in (Len(nodes) + 1)..(Len(nodes) + Len(dirs))
    <3>1. nodes'[i] = dirs[i - Len(nodes)] /\ i - Len(nodes) \in DOMAIN dirs
      BY <1>2, <1>3, <1>4, <2>2
    <3> QED
      BY <1>9, <3>1
  <2> QED
    BY <1>3, <1>5, <2>1, <2>2
<1>10. \A i \in DOMAIN nodes : nodes[i].file # Directory => nodes[i].path # parts
  BY DEF HasFile
<1>11. FilesAreApart'
  <2>1. ASSUME NEW i \in DOMAIN nodes', NEW j \in DOMAIN nodes', nodes'[i].path = nodes'[j].path,
               nodes'[i].file # Directory, nodes'[j].file # Directory
        PROVE  i = j
    <3>1. (i \in DOMAIN nodes \/ i = end) /\ (j \in DOMAIN nodes \/ j = end)
      BY <1>9, <2>1
    <3>2. CASE i \in DOMAIN nodes /\ j \in DOMAIN nodes
      <4>1. nodes'[i] = nodes[i] /\ nodes'[j] = nodes[j]
        BY <1>7, <3>2
      <4> QED
        BY <2>1, <3>2, <4>1 DEF FilesAreApart
    <3>3. CASE i = end \/ j = end
      BY <1>7, <1>8, <1>10, <2>1, <3>1, <3>3
    <3> QED
      BY <3>1, <3>2, <3>3
  <2> QED
    BY <1>6, <2>1 DEF FilesAreApart
<1>12. parts \notin FilePaths
  BY <1>10 DEF FilePaths
<1>13. FilePaths' = FilePaths \cup {parts}
  <2>1. ASSUME NEW path \in FilePaths' PROVE path \in FilePaths \cup {parts}
    <3>1. PICK i \in DOMAIN nodes' : nodes'[i].file # Directory /\ nodes'[i].path = path
      BY DEF FilePaths
    <3>2. i \in DOMAIN nodes \/ i = end
      BY <1>9, <3>1
    <3>3. CASE i \in DOMAIN nodes
      <4>1. nodes[i].file # Directory /\ nodes[i].path = path
        BY <1>7, <3>1, <3>3
      <4> QED
        BY <3>3, <4>1 DEF FilePaths
    <3>4. CASE i = end
      BY <1>8, <3>1, <3>4
    <3> QED
      BY <3>2, <3>3, <3>4
  <2>2. parts \in FilePaths'
    BY <1>5, <1>8 DEF FilePaths
  <2>3. ASSUME NEW path \in FilePaths PROVE path \in FilePaths'
    <3>1. PICK i \in DOMAIN nodes : nodes[i].file # Directory /\ nodes[i].path = path
      BY DEF FilePaths
    <3> QED
      BY <1>7, <3>1 DEF FilePaths
  <2> QED
    BY <2>1, <2>2, <2>3
<1>14. ASSUME NEW path, NEW i \in DOMAIN nodes', nodes'[i].file # Directory, nodes'[i].path = path
       PROVE  FileAt(path)' = nodes'[i].file
  <2>1. \A j \in DOMAIN nodes' : nodes'[j].path = path /\ nodes'[j].file # Directory => j = i
    BY <1>11, <1>14 DEF FilesAreApart
  <2>2. (CHOOSE j \in DOMAIN nodes' : nodes'[j].path = path /\ nodes'[j].file # Directory) = i
    BY <1>14, <2>1
  <2> QED
    BY <2>2 DEF FileAt
<1>15. ASSUME NEW path \in FilePaths PROVE FileAt(path)' = FileAt(path)
  <2>1. PICK i \in DOMAIN nodes : nodes[i].path = path /\ nodes[i].file # Directory
    BY DEF FilePaths
  <2>2. i \in DOMAIN nodes' /\ nodes'[i] = nodes[i]
    BY <1>7
  <2>3. FileAt(path)' = nodes'[i].file
    BY <1>14, <2>1, <2>2
  <2> QED
    BY <2>1, <2>2, <2>3, FileIsAt
<1>16. FileAt(parts)' = given
  BY <1>5, <1>8, <1>14
<1> QED
  BY <1>11, <1>12, <1>13, <1>15, <1>16

-----------------------------------------------------------------------------
(* The refinement *)

LEMMA StoreInit == Init => FilesAreApart /\ Store!Init
<1> SUFFICES ASSUME Init PROVE FilesAreApart /\ Store!Init
  OBVIOUS
<1>1. nodes = << >> /\ DOMAIN nodes = {}
  BY DEF Init
<1>2. FilesAreApart
  BY <1>1 DEF FilesAreApart
<1>3. FilePaths = {}
  BY <1>1 DEF FilePaths
<1>4. [path \in FilePaths |-> FileAt(path)] = [path \in {} |-> path]
  BY <1>3
<1> QED
  BY <1>2, <1>4 DEF Store!Init

LEMMA StoreStep ==
    ASSUME FilesAreApart, [Next]_nodes
    PROVE  FilesAreApart' /\ [Store!Next]_Mapping
<1>1. CASE UNCHANGED nodes
  BY <1>1 DEF FilesAreApart, Mapping, FilePaths, FileAt
<1>2. ASSUME NEW path \in GivenPaths, NEW given \in StoredFiles, PutFile(path, given)
      PROVE  FilesAreApart' /\ [Store!Next]_Mapping
  <2> DEFINE parts == ProcessPath(path)
             dirs == NewDirectories(parts)
  <2>1. CASE parts = Null \/ parts = << >>
    <3>1. UNCHANGED nodes
      BY <1>2, <2>1 DEF PutFile, PutNode
    <3> QED
      BY <1>1, <3>1
  <2>2. CASE parts # Null /\ parts # << >>
    <3>1. parts \in Seq(STRING)
      BY <2>2, ProcessedPaths
    <3>2. /\ dirs \in Seq({dirs[k] : k \in DOMAIN dirs})
          /\ \A k \in DOMAIN dirs : dirs[k].file = Directory
      BY <3>1, NewDirectoriesAreDirectories
    <3>3. nodes' = IF CanPut(parts, given)
                   THEN (nodes \o dirs) \o <<Node(parts, given)>>
                   ELSE nodes \o dirs
      BY <1>2, <2>2 DEF PutFile, PutNode
    <3>4. CanPut(parts, given) => ~HasFile(parts)
      BY DEF CanPut
    <3>5. parts \in {ProcessPath(p) : p \in GivenPaths}
      OBVIOUS
    <3> HIDE DEF parts, dirs
    <3>6. CASE ~CanPut(parts, given)
      <4>1. /\ FilesAreApart' /\ FilePaths' = FilePaths
            /\ \A p \in FilePaths : FileAt(p)' = FileAt(p)
        BY <3>2, <3>3, <3>6, AddDirectories
      <4> QED
        BY <4>1 DEF Mapping
    <3>7. CASE CanPut(parts, given)
      <4>1. /\ FilesAreApart'
            /\ parts \notin FilePaths
            /\ FilePaths' = FilePaths \cup {parts}
            /\ \A p \in FilePaths : FileAt(p)' = FileAt(p)
            /\ FileAt(parts)' = given
        BY <3>2, <3>3, <3>4, <3>7, AddFile
      <4>2. Mapping' = [p \in FilePaths \cup {parts} |-> IF p = parts THEN given ELSE Mapping[p]]
        BY <4>1 DEF Mapping
      <4>3. Store!Store(parts, given)
        BY <4>1, <4>2 DEF Store!Store, Mapping
      <4> QED
        BY <3>5, <4>1, <4>3 DEF Store!Next
    <3> QED
      BY <3>6, <3>7
  <2> QED
    BY <2>1, <2>2
<1> QED
  BY <1>1, <1>2 DEF Next

(* The tree of directories implements the store of FileStore: every call of *)
(* putFile stores its file at a path where there was none, once and for     *)
(* all, or leaves all files as they are.                                   *)
THEOREM ImplementsStoreHolds == Spec => ImplementsStore
<1>1. Init => FilesAreApart /\ Store!Init
  BY StoreInit
<1>2. FilesAreApart /\ [Next]_nodes => FilesAreApart' /\ [Store!Next]_Mapping
  BY StoreStep
<1> QED
  BY <1>1, <1>2, PTL DEF Spec, ImplementsStore, Store!Spec, Mapping

-----------------------------------------------------------------------------
(* The tree stays well-formed *)

Tree ==
    /\ FilesAreApart
    /\ \A i \in DOMAIN nodes : nodes[i].path \in Seq(STRING)
    /\ TreeIsWellFormed

(* What putNode leaves: the nodes there were, the directories of the path   *)
(* from the first one that was missing, and the file.                       *)
LEMMA NodesAfterPut ==
    ASSUME FilesAreApart, NEW parts \in Seq(STRING), parts # <<>>, NEW given, PutNode(parts, given)
    PROVE  \E m \in Nat :
              /\ m = Len(parts) - 1 - Depth(parts)
              /\ Len(nodes) \in Nat /\ DOMAIN nodes = 1..Len(nodes)
              /\ DOMAIN nodes' = IF CanPut(parts, given) THEN 1..(Len(nodes) + m + 1)
                                 ELSE 1..(Len(nodes) + m)
              /\ \A i \in 1..Len(nodes) : nodes'[i] = nodes[i]
              /\ \A k \in 1..m : nodes'[Len(nodes) + k] = Node(Prefix(parts, Depth(parts) + k), Directory)
              /\ CanPut(parts, given) => nodes'[Len(nodes) + m + 1] = Node(parts, given)
<1> DEFINE n == Len(nodes)
           m == Len(parts) - 1 - Depth(parts)
           dirs == NewDirectories(parts)
           V == {nodes[i] : i \in DOMAIN nodes} \cup {dirs[k] : k \in DOMAIN dirs}
                  \cup {Node(parts, given)}
<1>1. m \in Nat
  BY DepthOfDirectories
<1>2. nodes \in Seq(V) /\ dirs \in Seq(V) /\ Node(parts, given) \in V
  <2>1. dirs \in Seq({dirs[k] : k \in DOMAIN dirs})
    BY NewDirectoriesAreDirectories
  <2> HIDE DEF dirs
  <2> QED
    BY <2>1 DEF FilesAreApart
<1>3. Len(dirs) = m /\ DOMAIN dirs = 1..m
      /\ \A k \in 1..m : dirs[k] = Node(Prefix(parts, Depth(parts) + k), Directory)
  <2>1. DOMAIN dirs = 1..m /\ \A k \in 1..m : dirs[k] = Node(Prefix(parts, Depth(parts) + k), Directory)
    BY DEF NewDirectories
  <2> HIDE DEF dirs, m, V
  <2> QED
    BY <1>1, <1>2, <2>1
<1> HIDE DEF dirs, m, V
<1>4. n \in Nat /\ DOMAIN nodes = 1..n
  BY <1>2
<1>5. /\ nodes \o dirs \in Seq(V) /\ Len(nodes \o dirs) = n + m
      /\ \A i \in 1..n : (nodes \o dirs)[i] = nodes[i]
      /\ \A k \in 1..m : (nodes \o dirs)[n + k] = dirs[k]
  <2>1. /\ nodes \o dirs \in Seq(V) /\ Len(nodes \o dirs) = n + m
        /\ \A i \in 1..n + m : (nodes \o dirs)[i] = IF i <= n THEN nodes[i] ELSE dirs[i - n]
    BY <1>2, <1>3, ConcatProperties
  <2>2. \A k \in 1..m : n + k \in 1..n + m /\ ~(n + k <= n) /\ (n + k) - n = k
    BY <1>1, <1>4
  <2>3. \A i \in 1..n : i \in 1..n + m /\ i <= n
    BY <1>1, <1>4
  <2> QED
    BY <2>1, <2>2, <2>3
<1>6. CASE ~CanPut(parts, given)
  <2>1. nodes' = nodes \o dirs
    BY <1>6 DEF PutNode, dirs
  <2>2. DOMAIN nodes' = 1..(n + m)
    BY <1>5, <2>1
  <2> QED
    BY <1>1, <1>3, <1>4, <1>5, <1>6, <2>1, <2>2 DEF m
<1>7. CASE CanPut(parts, given)
  <2> DEFINE front == nodes \o dirs
  <2>1. nodes' = front \o <<Node(parts, given)>>
    BY <1>7 DEF PutNode, dirs
  <2>2. /\ nodes' \in Seq(V) /\ Len(nodes') = n + m + 1
        /\ \A i \in 1..(n + m) : nodes'[i] = front[i]
        /\ nodes'[n + m + 1] = Node(parts, given)
    <3>1. front \in Seq(V) /\ Len(front) = n + m
      BY <1>5
    <3> HIDE DEF front
    <3> QED
      BY <1>2, <2>1, <3>1, ListsWithOneMore
  <2>3. DOMAIN nodes' = 1..(n + m + 1)
    BY <2>2
  <2>4. \A i \in 1..n : nodes'[i] = nodes[i]
    <3>1. \A i \in 1..n : i \in 1..(n + m)
      BY <1>1, <1>4
    <3> QED
      BY <1>5, <2>2, <3>1
  <2>5. \A k \in 1..m : nodes'[n + k] = dirs[k]
    <3>1. \A k \in 1..m : n + k \in 1..(n + m)
      BY <1>1, <1>4
    <3> QED
      BY <1>5, <2>2, <3>1
  <2> QED
    BY <1>1, <1>3, <1>4, <1>7, <2>2, <2>3, <2>4, <2>5 DEF m
<1> QED
  BY <1>6, <1>7

LEMMA TreeStep ==
    ASSUME Tree, NEW parts \in Seq(STRING), parts # <<>>, NEW given \in StoredFiles,
           PutNode(parts, given), FilesAreApart'
    PROVE  Tree'
<1> DEFINE n == Len(nodes)
           d == Depth(parts)
<1>1. PICK m \in Nat :
        /\ m = Len(parts) - 1 - d
        /\ n \in Nat /\ DOMAIN nodes = 1..n
        /\ DOMAIN nodes' = IF CanPut(parts, given) THEN 1..(n + m + 1) ELSE 1..(n + m)
        /\ \A i \in 1..n : nodes'[i] = nodes[i]
        /\ \A k \in 1..m : nodes'[n + k] = Node(Prefix(parts, d + k), Directory)
        /\ CanPut(parts, given) => nodes'[n + m + 1] = Node(parts, given)
  BY NodesAfterPut DEF Tree
<1>2. /\ d \in 0..Len(parts) - 1 /\ d + m = Len(parts) - 1 /\ Len(parts) \in Nat
      /\ \A k \in 1..d : HasDirectory(Prefix(parts, k))
      /\ m # 0 => ~HasDirectory(Prefix(parts, d + 1))
  <2>1. /\ d \in 0..Len(parts) - 1
        /\ \A k \in 1..d : HasDirectory(Prefix(parts, k))
        /\ d < Len(parts) - 1 => ~HasDirectory(Prefix(parts, d + 1))
    BY DepthOfDirectories
  <2> HIDE DEF d
  <2>2. Len(parts) \in Nat
    OBVIOUS
  <2>3. d + m = Len(parts) - 1 /\ (m # 0 => d < Len(parts) - 1)
    BY <1>1, <2>1, <2>2
  <2> QED
    BY <2>1, <2>2, <2>3
<1>3. given # Directory
  BY DirectoryAssumption
<1> HIDE DEF n, d
<1> DEFINE New == {n + k : k \in 1..m}
<1>4. \A i \in DOMAIN nodes' : \/ i \in 1..n
                               \/ \E k \in 1..m : i = n + k
                               \/ i = n + m + 1 /\ CanPut(parts, given)
  <2>1. \A i \in (n + 1)..(n + m) : i - n \in 1..m /\ i = n + (i - n)
    BY <1>1
  <2>2. \A i \in DOMAIN nodes' : \/ i \in 1..n \/ i \in (n + 1)..(n + m)
                                 \/ i = n + m + 1 /\ CanPut(parts, given)
    <3>1. CASE CanPut(parts, given)
      BY <1>1, <3>1
    <3>2. CASE ~CanPut(parts, given)
      BY <1>1, <3>2
    <3> QED
      BY <3>1, <3>2
  <2> QED
    BY <2>1, <2>2
<1>5. \A i \in 1..n : i \in DOMAIN nodes'
  BY <1>1
<1>6. \A k \in 1..m : n + k \in DOMAIN nodes'
  BY <1>1
<1>7. \A k \in 1..m : d + k \in 1..Len(parts) - 1 /\ d + k \in 0..Len(parts)
  BY <1>1, <1>2
<1>8. \A k \in 1..m : /\ nodes'[n + k].path = Prefix(parts, d + k)
                      /\ nodes'[n + k].file = Directory
  <2>1. \A path : Node(path, Directory).path = path /\ Node(path, Directory).file = Directory
    BY DEF Node
  <2> QED
    BY <1>1, <2>1
<1>9. CanPut(parts, given) => /\ nodes'[n + m + 1].path = parts
                             /\ nodes'[n + m + 1].file = given
  BY <1>1 DEF Node
<1>10. ASSUME NEW path, HasDirectory(path) PROVE HasDirectory(path)'
  <2>1. CASE path = <<>>
    BY <2>1 DEF HasDirectory
  <2>2. CASE path # <<>>
    <3>1. PICK i \in DOMAIN nodes : nodes[i].path = path /\ nodes[i].file = Directory
      BY <1>10, <2>2 DEF HasDirectory
    <3>2. i \in DOMAIN nodes' /\ nodes'[i] = nodes[i]
      BY <1>1, <1>5
    <3> QED
      BY <3>1, <3>2 DEF HasDirectory
  <2> QED
    BY <2>1, <2>2
<1>11. ASSUME NEW k \in 0..Len(parts) - 1 PROVE HasDirectory(Prefix(parts, k))'
  <2>1. CASE k = 0
    <3>1. Prefix(parts, k) = <<>>
      BY <2>1, PrefixType
    <3> QED
      BY <3>1 DEF HasDirectory
  <2>2. CASE k \in 1..d
    BY <1>2, <1>10, <2>2
  <2>3. CASE k \in (d + 1)..(d + m)
    <3>1. k - d \in 1..m /\ d + (k - d) = k
      BY <1>2, <2>3
    <3>2. /\ n + (k - d) \in DOMAIN nodes' /\ nodes'[n + (k - d)].path = Prefix(parts, k)
          /\ nodes'[n + (k - d)].file = Directory
      BY <1>6, <1>8, <3>1
    <3> QED
      BY <3>2 DEF HasDirectory
  <2>4. k = 0 \/ k \in 1..d \/ k \in (d + 1)..(d + m)
    BY <1>2
  <2> QED
    BY <2>1, <2>2, <2>3, <2>4
<1>12. ASSUME NEW k \in 1..m PROVE ~HasDirectory(Prefix(parts, d + k))
  <2> SUFFICES ASSUME HasDirectory(Prefix(parts, d + k)) PROVE FALSE
    OBVIOUS
  <2>1. m # 0 /\ d + k \in 0..Len(parts) /\ d + k # 0
    BY <1>2, <1>7
  <2>2. /\ Prefix(parts, d + k) \in Seq(STRING) /\ Len(Prefix(parts, d + k)) = d + k
        /\ \A j \in 0..d + k : Prefix(Prefix(parts, d + k), j) = Prefix(parts, j)
    BY <2>1, PrefixType, PrefixOfPrefix
  <2>3. Prefix(parts, d + k) # <<>>
    BY <2>1, <2>2
  <2>4. PICK i \in DOMAIN nodes : nodes[i].path = Prefix(parts, d + k)
    BY <2>3 DEF HasDirectory
  <2>5. CASE k = 1
    BY <1>2, <2>1, <2>5
  <2>6. CASE k # 1
    <3>1. d + 1 \in 0..(d + k) - 1 /\ d + 1 \in 0..d + k
      BY <1>2, <2>6
    <3>2. HasDirectory(Prefix(nodes[i].path, d + 1))
      BY <2>2, <2>4, <3>1 DEF Tree, TreeIsWellFormed
    <3> QED
      BY <1>2, <2>1, <2>2, <2>4, <3>1, <3>2
  <2> QED
    BY <2>5, <2>6
<1>13. \A i \in DOMAIN nodes' : nodes'[i].path \in Seq(STRING)
  <2>1. \A i \in 1..n : nodes'[i].path \in Seq(STRING)
    BY <1>1 DEF Tree
  <2>2. \A k \in 1..m : nodes'[n + k].path \in Seq(STRING)
    BY <1>7, <1>8, PrefixType
  <2> QED
    BY <1>4, <1>9, <2>1, <2>2
<1>14. ASSUME NEW i \in DOMAIN nodes', NEW k \in 0..Len(nodes'[i].path) - 1
       PROVE  HasDirectory(Prefix(nodes[i].path, k))'
  <2>1. CASE i \in 1..n
    <3>1. HasDirectory(Prefix(nodes[i].path, k)) /\ nodes'[i] = nodes[i]
      BY <1>1, <2>1 DEF Tree, TreeIsWellFormed
    <3> QED
      BY <1>10, <3>1
  <2>2. ASSUME NEW l \in 1..m, i = n + l PROVE HasDirectory(Prefix(nodes[i].path, k))'
    <3>1. nodes'[i].path = Prefix(parts, d + l) /\ d + l \in 0..Len(parts)
      BY <1>7, <1>8, <2>2
    <3>2. Len(nodes'[i].path) = d + l
      BY <3>1, PrefixType
    <3>3. k \in 0..d + l /\ k \in 0..Len(parts) - 1
      BY <1>2, <1>7, <3>2
    <3>4. Prefix(nodes'[i].path, k) = Prefix(parts, k)
      BY <3>1, <3>3, PrefixOfPrefix
    <3> QED
      BY <1>11, <3>3, <3>4
  <2>3. CASE i = n + m + 1 /\ CanPut(parts, given)
    BY <1>9, <1>11, <2>3
  <2> QED
    BY <1>4, <2>1, <2>2, <2>3
<1>15. ASSUME NEW i \in DOMAIN nodes', NEW j \in DOMAIN nodes',
              nodes'[i].path = nodes'[j].path, nodes'[i].file = Directory, nodes'[j].file = Directory
       PROVE  i = j
  <2>1. ASSUME NEW l \in DOMAIN nodes', nodes'[l].file = Directory
        PROVE  l \in 1..n \/ \E k \in 1..m : l = n + k
    BY <1>3, <1>4, <1>9, <2>1
  <2>2. ASSUME NEW l \in 1..n, nodes'[l].file = Directory, NEW k \in 1..m,
               nodes'[l].path = nodes'[n + k].path
        PROVE  FALSE
    <3>1. l \in DOMAIN nodes /\ nodes[l].file = Directory /\ nodes[l].path = Prefix(parts, d + k)
      BY <1>1, <1>8, <2>2
    <3>2. HasDirectory(Prefix(parts, d + k))
      BY <3>1 DEF HasDirectory
    <3> QED
      BY <1>12, <3>2
  <2>3. CASE i \in 1..n /\ j \in 1..n
    <3>1. nodes'[i] = nodes[i] /\ nodes'[j] = nodes[j] /\ i \in DOMAIN nodes /\ j \in DOMAIN nodes
      BY <1>1, <2>3
    <3> QED
      BY <1>15, <3>1 DEF Tree, TreeIsWellFormed
  <2>4. ASSUME NEW k \in 1..m, NEW l \in 1..m, i = n + k, j = n + l
        PROVE  i = j
    <3>1. Prefix(parts, d + k) = Prefix(parts, d + l)
      BY <1>8, <1>15, <2>4
    <3>2. d + k = d + l
      BY <1>7, <3>1, PrefixType
    <3> QED
      BY <1>2, <2>4, <3>2
  <2> QED
    BY <1>15, <2>1, <2>2, <2>3, <2>4
<1>16. TreeIsWellFormed'
  <2>1. \A i, j \in DOMAIN nodes' :
           nodes'[i].path = nodes'[j].path /\ (nodes'[i].file = Directory <=> nodes'[j].file = Directory)
               => i = j
    BY <1>15 DEF FilesAreApart
  <2>2. \A i \in DOMAIN nodes' : \A k \in 0..Len(nodes'[i].path) - 1 :
           HasDirectory(Prefix(nodes[i].path, k))'
    BY <1>14
  <2> QED
    BY <2>1, <2>2 DEF TreeIsWellFormed
<1> QED
  BY <1>13, <1>16 DEF Tree

LEMMA PutFileKeepsTree ==
    ASSUME Tree, NEW path \in GivenPaths, NEW given \in StoredFiles, PutFile(path, given)
    PROVE  Tree'
<1>1. FilesAreApart'
  BY StoreStep DEF Tree, Next
<1>2. CASE ProcessPath(path) = Null \/ ProcessPath(path) = <<>>
  <2>1. nodes' = nodes
    BY <1>2 DEF PutFile, PutNode
  <2> QED
    BY <1>1, <2>1 DEF Tree, TreeIsWellFormed, HasDirectory
<1>3. CASE ProcessPath(path) # Null /\ ProcessPath(path) # <<>>
  <2>1. ProcessPath(path) \in Seq(STRING)
    BY <1>3, ProcessedPaths
  <2>2. PutNode(ProcessPath(path), given)
    BY <1>3 DEF PutFile
  <2> QED
    BY <1>1, <1>3, <2>1, <2>2, TreeStep
<1> QED
  BY <1>2, <1>3

LEMMA TreeInit == Init => Tree
<1> SUFFICES ASSUME Init PROVE Tree
  OBVIOUS
<1>1. nodes = <<>> /\ DOMAIN nodes = {}
  BY DEF Init
<1> QED
  BY <1>1, StoreInit DEF Tree, TreeIsWellFormed

(* Calls of putFile, with whatever paths and files, keep the directories a  *)
(* tree: every node is in a directory, and no directory has two files or    *)
(* two directories of the same name.                                        *)
THEOREM TreeIsWellFormedHolds == Spec => []TreeIsWellFormed
<1>1. Tree /\ [Next]_nodes => Tree'
  <2> SUFFICES ASSUME Tree, [Next]_nodes PROVE Tree'
    OBVIOUS
  <2>1. CASE nodes' = nodes
    <3>1. FilesAreApart'
      BY <2>1 DEF Tree, FilesAreApart
    <3>2. \A path : HasDirectory(path)' <=> HasDirectory(path)
      BY <2>1 DEF HasDirectory
    <3>3. TreeIsWellFormed'
      BY <2>1, <3>2 DEF Tree, TreeIsWellFormed
    <3>4. \A i \in DOMAIN nodes' : nodes'[i].path \in Seq(STRING)
      BY <2>1 DEF Tree
    <3> QED
      BY <3>1, <3>3, <3>4 DEF Tree
  <2> QED
    BY <2>1, PutFileKeepsTree DEF Next
<1>2. Tree => TreeIsWellFormed
  BY DEF Tree
<1> QED
  BY TreeInit, <1>1, <1>2, PTL DEF Spec

-----------------------------------------------------------------------------
(* Numbers in order *)

IsAscending(order, S, n) ==
    /\ order \in [1..n -> S]
    /\ \A i, j \in 1..n : i < j => order[i] < order[j]

ReachesAll(order, S, n) == \A x \in S : \E i \in 1..n : order[i] = x

(* Two of them that reach all of S are the same. *)
LEMMA AscendingIsUnique ==
    ASSUME NEW S \in SUBSET Nat, NEW n \in Nat, NEW o, NEW p,
           IsAscending(o, S, n), IsAscending(p, S, n),
           ReachesAll(o, S, n), ReachesAll(p, S, n)
    PROVE  o = p
<1>0a. \A x \in S : (\E i \in 1..n : o[i] = x) /\ (\E i \in 1..n : p[i] = x)
  BY DEF ReachesAll
<1>0. o \in [1..n -> S] /\ p \in [1..n -> S] /\ \A i \in 1..n : o[i] \in S /\ p[i] \in S
  BY DEF IsAscending
<1> DEFINE apart == {i \in 1..n : o[i] # p[i]}
<1>1. ASSUME apart # {} PROVE FALSE
  <2>1. PICK k \in apart : \A j \in apart : k <= j
    <3>1. apart \subseteq Nat
      OBVIOUS
    <3> HIDE DEF apart
    <3> QED
      BY <1>1, <3>1, FirstPosition
  <2>2. k \in 1..n /\ o[k] # p[k] /\ o[k] \in Nat /\ p[k] \in Nat
    BY <1>0, <2>1
  <2>3. \A j \in 1..n : j < k => o[j] = p[j]
    BY <2>1, <2>2
  <2>4. ASSUME NEW s, NEW t, IsAscending(s, S, n), IsAscending(t, S, n), s[k] < t[k],
               \A x \in S : \E i \in 1..n : t[i] = x,
               \A j \in 1..n : j < k => s[j] = t[j]
        PROVE  FALSE
    <3>1. s[k] \in S /\ \A i \in 1..n : s[i] \in Nat /\ t[i] \in Nat
      BY <2>2, <2>4 DEF IsAscending
    <3>2. PICK m \in 1..n : t[m] = s[k]
      BY <2>4, <3>1
    <3>3. CASE m < k
      <4>1. s[m] = s[k] /\ s[m] < s[k]
        BY <2>2, <2>4, <3>2, <3>3 DEF IsAscending
      <4> QED
        BY <3>1, <4>1
    <3>4. CASE m = k
      BY <2>2, <2>4, <3>1, <3>2, <3>4
    <3>5. CASE k < m
      <4>1. t[k] < t[m]
        BY <2>2, <2>4, <3>5 DEF IsAscending
      <4> QED
        BY <2>2, <2>4, <3>1, <3>2, <4>1
    <3> QED
      BY <2>2, <3>3, <3>4, <3>5
  <2>5. o[k] < p[k] \/ p[k] < o[k]
    BY <2>2
  <2> QED
    BY <1>0a, <2>3, <2>4, <2>5
<1> QED
  BY <1>0, <1>1

LEMMA AscendingReachesAll ==
    ASSUME NEW S \in SUBSET Nat, IsFiniteSet(S), NEW o, IsAscending(o, S, Cardinality(S))
    PROVE  ReachesAll(o, S, Cardinality(S))
<1> DEFINE n == Cardinality(S)
<1>1. n \in Nat
  BY FS_CardinalityType
<1>2. o \in [1..n -> S] /\ \A i, j \in 1..n : i < j => o[i] < o[j]
  BY DEF IsAscending
<1>3. \A i \in 1..n : o[i] \in S /\ o[i] \in Nat
  BY <1>2
<1> HIDE DEF n
<1>4. o \in Injection(1..n, S)
  <2>1. ASSUME NEW i \in 1..n, NEW j \in 1..n, o[i] = o[j] PROVE i = j
    <3>1. i < j \/ j < i \/ i = j
      BY <1>1
    <3> QED
      BY <1>2, <1>3, <2>1, <3>1
  <2>2. IsInjective(o) /\ o \in [1..n -> S]
    BY <1>2, <2>1 DEF IsInjective
  <2> QED
    BY <2>2 DEF Injection
<1>5. IsFiniteSet(1..n) /\ Cardinality(1..n) = n
  <2>1. IsFiniteSet(1..n) /\ Cardinality(1..n) = IF 1 > n THEN 0 ELSE n - 1 + 1
    BY <1>1, FS_Interval
  <2> QED
    BY <1>1, <2>1
<1>6. o \in Surjection(1..n, S)
  BY <1>4, <1>5, FS_Injection DEF n
<1>7. \A x \in S : \E i \in 1..n : o[i] = x
  BY <1>6 DEF Surjection
<1> QED
  BY <1>7 DEF n, ReachesAll

LEMMA AscendingExists ==
    ASSUME NEW n \in Nat
    PROVE  \A S \in SUBSET (1..n) : \E o : IsAscending(o, S, Cardinality(S))
<1> DEFINE T == {m \in Nat : \A S \in SUBSET (1..m) : \E o : IsAscending(o, S, Cardinality(S))}
<1>1. 0 \in T
  <2> SUFFICES ASSUME NEW S \in SUBSET (1..0) PROVE \E o : IsAscending(o, S, Cardinality(S))
    OBVIOUS
  <2>1. S = {} /\ Cardinality({}) = 0
    BY FS_EmptySet
  <2>2. IsAscending([i \in 1..0 |-> i], {}, 0)
    BY DEF IsAscending
  <2> QED
    BY <2>1, <2>2
<1>2. ASSUME NEW m \in Nat, m \in T PROVE m + 1 \in T
  <2> SUFFICES ASSUME NEW S \in SUBSET (1..(m + 1)) PROVE \E o : IsAscending(o, S, Cardinality(S))
    OBVIOUS
  <2>1. CASE m + 1 \notin S
    <3>1. S \in SUBSET (1..m)
      BY <2>1
    <3> QED
      BY <1>2, <3>1
  <2>2. CASE m + 1 \in S
    <3> DEFINE less == S \ {m + 1}
               c == Cardinality(less)
    <3>1. less \in SUBSET (1..m)
      OBVIOUS
    <3>2. IsFiniteSet(1..(m + 1)) /\ IsFiniteSet(S) /\ IsFiniteSet(less)
      <4>1. m + 1 \in Int /\ 1 \in Int /\ S \subseteq 1..(m + 1) /\ less \subseteq S
        OBVIOUS
      <4>2. IsFiniteSet(1..(m + 1))
        BY <4>1, FS_Interval
      <4> HIDE DEF less
      <4>3. IsFiniteSet(S)
        BY <4>1, <4>2, FS_Subset
      <4>4. IsFiniteSet(less)
        BY <4>1, <4>3, FS_Subset
      <4> QED
        BY <4>2, <4>3, <4>4
    <3>3. Cardinality(S) = c + 1 /\ c \in Nat
      <4>1. Cardinality(less) = IF m + 1 \in S THEN Cardinality(S) - 1 ELSE Cardinality(S)
        BY <3>2, FS_RemoveElement
      <4>2. Cardinality(S) \in Nat /\ Cardinality(less) \in Nat
        BY <3>2, FS_CardinalityType
      <4> HIDE DEF less
      <4> QED
        BY <2>2, <4>1, <4>2
    <3>4. PICK o : IsAscending(o, less, c)
      BY <1>2, <3>1
    <3> HIDE DEF c
    <3>5. /\ o \in [1..c -> less] /\ \A i, j \in 1..c : i < j => o[i] < o[j]
          /\ \A i \in 1..c : o[i] \in 1..m
      BY <3>1, <3>4 DEF IsAscending
    <3> DEFINE p == [i \in 1..(c + 1) |-> IF i = c + 1 THEN m + 1 ELSE o[i]]
    <3>6. p \in [1..(c + 1) -> S]
      <4>1. ASSUME NEW i \in 1..(c + 1), i # c + 1 PROVE o[i] \in S
        <5>1. i \in 1..c
          BY <3>3, <4>1
        <5> QED
          BY <3>5, <5>1
      <4> QED
        BY <2>2, <4>1
    <3>7. ASSUME NEW i \in 1..(c + 1), NEW j \in 1..(c + 1), i < j PROVE p[i] < p[j]
      <4>1. i \in 1..c /\ p[i] = o[i]
        BY <3>3, <3>7
      <4>2. CASE j = c + 1
        BY <3>5, <4>1, <4>2
      <4>3. CASE j # c + 1
        <5>1. j \in 1..c /\ p[j] = o[j]
          BY <3>3, <4>3
        <5> QED
          BY <3>5, <3>7, <4>1, <5>1
      <4> QED
        BY <4>2, <4>3
    <3> HIDE DEF p
    <3>8. IsAscending(p, S, c + 1)
      BY <3>6, <3>7 DEF IsAscending
    <3> QED
      BY <3>3, <3>8
  <2> QED
    BY <2>1, <2>2
<1>3. Nat \subseteq T
  <2> HIDE DEF T
  <2> QED
    BY <1>1, <1>2, AllNaturals
<1> QED
  BY <1>3

(* Ascending has the numbers of a set in order, and whatever has them so is *)
(* Ascending.                                                               *)
LEMMA AscendingIs ==
    ASSUME NEW n \in Nat, NEW S, S \subseteq 1..n
    PROVE  /\ IsFiniteSet(S) /\ Cardinality(S) \in Nat
           /\ IsAscending(Ascending(S), S, Cardinality(S))
           /\ ReachesAll(Ascending(S), S, Cardinality(S))
           /\ \A m \in Nat : \A o : IsAscending(o, S, m) /\ ReachesAll(o, S, m)
                                  => m = Cardinality(S) /\ o = Ascending(S)
<1>1. IsFiniteSet(S) /\ Cardinality(S) \in Nat /\ S \subseteq Nat
  <2>1. IsFiniteSet(1..n) /\ \A i \in 1..n : i \in Nat
    BY FS_Interval
  <2>2. IsFiniteSet(S) /\ S \subseteq Nat
    BY <2>1, FS_Subset
  <2> QED
    BY <2>2, FS_CardinalityType
<1> DEFINE c == Cardinality(S)
           R(o) == \A i, j \in DOMAIN o : i < j => o[i] < o[j]
<1>2. PICK o0 : IsAscending(o0, S, c)
  BY AscendingExists
<1>3. IsAscending(Ascending(S), S, c)
  <2>1. o0 \in [1..c -> S] /\ R(o0)
    BY <1>2 DEF IsAscending
  <2>2. Ascending(S) = CHOOSE order \in [1..c -> S] : R(order)
    BY DEF Ascending
  <2> HIDE DEF R, c
  <2>3. Ascending(S) \in [1..c -> S] /\ R(Ascending(S))
    BY <2>1, <2>2
  <2> QED
    BY <2>3 DEF R, IsAscending
<1>4. ReachesAll(Ascending(S), S, c)
  <2> DEFINE o == Ascending(S)
  <2> HIDE DEF o
  <2>1. IsAscending(o, S, Cardinality(S))
    BY <1>3 DEF o
  <2>2. ReachesAll(o, S, Cardinality(S))
    BY <1>1, <2>1, AscendingReachesAll
  <2> QED
    BY <2>2 DEF o
<1>5. ASSUME NEW m \in Nat, NEW o, IsAscending(o, S, m), ReachesAll(o, S, m)
      PROVE  m = c /\ o = Ascending(S)
  <2>1. o \in [1..m -> S] /\ \A i, j \in 1..m : i < j => o[i] < o[j]
    BY <1>5 DEF IsAscending
  <2>2. o \in Bijection(1..m, S)
    <3>1. ASSUME NEW i \in 1..m, NEW j \in 1..m, o[i] = o[j] PROVE i = j
      <4>1. i < j \/ j < i \/ i = j
        OBVIOUS
      <4>2. o[i] \in Nat /\ o[j] \in Nat
        BY <1>1, <2>1
      <4> QED
        BY <2>1, <3>1, <4>1, <4>2
    <3>2. o \in Injection(1..m, S)
      <4>1. IsInjective(o) /\ o \in [1..m -> S]
        BY <2>1, <3>1 DEF IsInjective
      <4> QED
        BY <4>1 DEF Injection
    <3>3. o \in Surjection(1..m, S)
      BY <1>5, <2>1 DEF Surjection, ReachesAll
    <3> QED
      BY <3>2, <3>3 DEF Bijection
  <2>3. m = c
    <3>1. IsFiniteSet(1..m) /\ Cardinality(1..m) = IF 1 > m THEN 0 ELSE m - 1 + 1
      BY FS_Interval
    <3>2. ExistsBijection(1..m, S)
      BY <2>2 DEF ExistsBijection
    <3>3. Cardinality(S) = Cardinality(1..m)
      BY <3>1, <3>2, FS_Bijection
    <3> QED
      BY <3>1, <3>3
  <2> HIDE DEF c
  <2> QED
    <3> DEFINE a == Ascending(S)
    <3> HIDE DEF a
    <3>1. IsAscending(a, S, m) /\ ReachesAll(a, S, m)
      BY <1>3, <1>4, <2>3 DEF a, c
    <3>4. o = a
      BY <1>1, <1>5, <3>1, AscendingIsUnique
    <3> QED
      BY <2>3, <3>4 DEF a
<1> QED
  BY <1>1, <1>3, <1>4, <1>5

-----------------------------------------------------------------------------
(* The names of an archive *)

(* STRING with the empty part, which the provers do not know to be in it. *)
Part == STRING \cup {Empty}

LEMMA SafePartUnfolded ==
    ASSUME NEW path, NEW n, NEW done
    PROVE  \/ SafePart(path, n, done) = done
           \/ /\ SafePart(path, n, done) = Append(done, path[n])
              /\ path[n] # "." /\ path[n] # ".." /\ (path[n] = Empty => n \in {1, Len(path)})
           \/ done = <<>> /\ SafePart(path, n, done) = <<>>
           \/ done # <<>> /\ SafePart(path, n, done) = Front(done)
BY Zenon DEF SafePart, Empty

LEMMA ListsInto ==
    ASSUME NEW V, NEW W, NEW list \in Seq(V), \A i \in 1..Len(list) : list[i] \in W
    PROVE  list \in Seq(W)
<1>1. Len(list) \in Nat /\ list = [i \in 1..Len(list) |-> list[i]]
  OBVIOUS
<1> QED
  BY <1>1

LEMMA FrontOfList ==
    ASSUME NEW V, NEW list \in Seq(V), list # <<>>
    PROVE  /\ Front(list) \in Seq(V) /\ Len(Front(list)) = Len(list) - 1 /\ Len(list) \in Nat \ {0}
           /\ \A i \in 1..Len(list) - 1 : Front(list)[i] = list[i]
<1>1. Front(list) = SubSeq(list, 1, Len(list) - 1)
  BY DEF Front
<1>2. Len(list) \in Nat \ {0}
  OBVIOUS
<1>3. /\ SubSeq(list, 1, Len(list) - 1) \in Seq(V)
      /\ Len(SubSeq(list, 1, Len(list) - 1)) = Len(list) - 1
      /\ \A i \in 1..Len(list) - 1 : SubSeq(list, 1, Len(list) - 1)[i] = list[i]
  <2> DEFINE m == Len(list) - 1
  <2>1. m \in Nat /\ 1..m \subseteq 1..Len(list) /\ \A i \in 1..m : list[i] \in V
    BY <1>2
  <2> HIDE DEF m
  <2>2. SubSeq(list, 1, m) \in Seq(V) /\ Len(SubSeq(list, 1, m)) = m
    BY <2>1
  <2>3. \A i \in 1..m : SubSeq(list, 1, m)[i] = list[i]
    BY <2>1
  <2> QED
    BY <2>2, <2>3 DEF m
<1> QED
  BY <1>1, <1>2, <1>3

LEMMA SafeParts ==
    ASSUME NEW path \in Seq(STRING), NEW n \in 1..Len(path), NEW done \in Seq(Part)
    PROVE  SafePart(path, n, done) \in Seq(Part)
<1>0. path[n] \in Part
  BY DEF Part
<1>1. Append(done, path[n]) \in Seq(Part)
  BY <1>0, AppendProperties
<1>2. ASSUME done # <<>> PROVE Front(done) \in Seq(Part)
  BY <1>2, FrontOfList
<1>3. CASE SafePart(path, n, done) = done
  BY <1>3
<1>4. CASE SafePart(path, n, done) = Append(done, path[n])
  BY <1>1, <1>4
<1>5. CASE done # <<>> /\ SafePart(path, n, done) = Front(done)
  BY <1>2, <1>5
<1>6. CASE done = <<>> /\ SafePart(path, n, done) = <<>>
  <2>1. SafePart(path, n, done) = done
    BY <1>6
  <2> QED
    BY <2>1
<1> QED
  BY <1>3, <1>4, <1>5, <1>6, SafePartUnfolded

(* How the name of an entry is resolved. *)
NameResolved(path, E) ==
    /\ E \in [0..Len(path) -> Seq(Part)]
    /\ E[0] = <<>>
    /\ \A n \in 1..Len(path) : E[n] = SafePart(path, n, E[n - 1])
    /\ SafeName(path) = IF E[Len(path)] = <<>> THEN <<Empty>> ELSE E[Len(path)]

LEMMA NameIsResolved ==
    ASSUME NEW path \in Seq(STRING)
    PROVE  \E E : NameResolved(path, E)
<1> DEFINE N == Len(path)
           S == Seq(Part)
           step == [x \in (1..N) \X S |-> SafePart(path, x[1], x[2])]
           Q(G) == G = [n \in 0..Len(path) |-> IF n = 0 THEN <<>> ELSE SafePart(path, n, G[n - 1])]
           G == CHOOSE F : Q(F)
<1>1. N \in Nat
  OBVIOUS
<1>3. SafeName(path) = IF G[Len(path)] = <<>> THEN <<Empty>> ELSE G[Len(path)]
  BY Zenon DEF SafeName, Empty
<1>4. step \in StepsTo(S, N) /\ <<>> \in S
  <2>1. \A x \in (1..N) \X S : SafePart(path, x[1], x[2]) \in S
    <3> HIDE DEF S
    <3>1. \A x \in (1..N) \X S : x[1] \in 1..N /\ x[2] \in S
      OBVIOUS
    <3> QED
      BY <3>1, SafeParts DEF S
  <2> HIDE DEF S, N
  <2> QED
    BY <2>1 DEF StepsTo, S
<1>5. PICK E : RecursTo(E, S, N, <<>>, step)
  <2> HIDE DEF step, S, N
  <2> QED
    BY <1>1, <1>4, RecursionToExists DEF N
<1>6. E \in [0..N -> S] /\ E[0] = <<>> /\ \A n \in 1..N : E[n] = SafePart(path, n, E[n - 1])
  <2>1. ASSUME NEW n \in 1..N PROVE step[<<n, E[n - 1]>>] = SafePart(path, n, E[n - 1])
    <3>1. n - 1 \in 0..N
      BY <1>1
    <3>2. <<n, E[n - 1]>> \in (1..N) \X S
      <4> HIDE DEF S, N
      <4> QED
        BY <1>5, <3>1 DEF RecursTo
    <3> HIDE DEF S, N
    <3> QED
      BY <3>2
  <2> HIDE DEF step, S, N
  <2> QED
    BY <1>5, <2>1 DEF RecursTo
<1>7. Q(E)
  <2>1. E = [n \in 0..N |-> E[n]] /\ \A n \in 0..N : n = 0 \/ n \in 1..N
    BY <1>1, <1>6
  <2> HIDE DEF S
  <2> QED
    BY <1>6, <2>1 DEF N
<1> HIDE DEF Q
<1>8. Q(G)
  BY <1>7
<1>9. G = [n \in 0..N |-> IF n = 0 THEN <<>> ELSE SafePart(path, n, G[n - 1])]
  BY <1>8 DEF Q, N
<1> HIDE DEF G
<1>10. ASSUME NEW n \in Nat PROVE n <= N => G[n] = E[n]
  <2> DEFINE T == {k \in Nat : k <= N => G[k] = E[k]}
  <2>1. 0 \in T
    <3>1. 0 \in 0..N
      BY <1>1
    <3> QED
      BY <1>6, <1>9, <3>1
  <2>2. ASSUME NEW k \in Nat, k \in T PROVE k + 1 \in T
    <3> SUFFICES ASSUME k + 1 <= N PROVE G[k + 1] = E[k + 1]
      OBVIOUS
    <3>1. k + 1 \in 0..N /\ k + 1 \in 1..N /\ k + 1 # 0 /\ (k + 1) - 1 = k /\ G[k] = E[k]
      BY <1>1, <2>2
    <3>2. G[k + 1] = SafePart(path, k + 1, G[k])
      BY <1>9, <3>1
    <3> QED
      BY <1>6, <3>1, <3>2
  <2> HIDE DEF T
  <2>3. Nat \subseteq T
    BY <2>1, <2>2, AllNaturals
  <2> QED
    BY <2>3 DEF T
<1>11. G[Len(path)] = E[Len(path)]
  BY <1>1, <1>10
<1> HIDE DEF S
<1> QED
  BY <1>3, <1>6, <1>11 DEF NameResolved, S

(* A name without parts that are skipped or lead up; only a separator at    *)
(* its beginning is left.                                                   *)
OnlyNames(parts) ==
    /\ parts \in Seq(Part)
    /\ \A i \in 1..Len(parts) : parts[i] \in PlainName \/ (i = 1 /\ parts[i] = Empty)

LEMMA SafeNamesAreClean ==
    ASSUME NEW path \in Seq(STRING), path # <<>>, path[Len(path)] # Empty \/ Len(path) = 1
    PROVE  OnlyNames(SafeName(path)) /\ SafeName(path) # <<>>
<1> DEFINE N == Len(path)
<1>1. PICK E : NameResolved(path, E)
  BY NameIsResolved
<1>2. /\ N \in Nat /\ E \in [0..N -> Seq(Part)] /\ E[0] = <<>>
      /\ \A n \in 1..N : E[n] = SafePart(path, n, E[n - 1])
      /\ SafeName(path) = IF E[N] = <<>> THEN <<Empty>> ELSE E[N]
  BY <1>1 DEF NameResolved
<1>3. OnlyNames(<<>>) /\ OnlyNames(<<Empty>>)
  BY DEF OnlyNames, Part
<1> DEFINE T == {n \in Nat : n <= N => OnlyNames(E[n])}
<1>4. 0 \in T
  BY <1>2, <1>3
<1>5. ASSUME NEW n \in Nat, n \in T PROVE n + 1 \in T
  <2> SUFFICES ASSUME n + 1 <= N PROVE OnlyNames(E[n + 1])
    OBVIOUS
  <2> DEFINE m == n + 1
             done == E[n]
  <2>1. m \in 1..N /\ m - 1 = n /\ n \in 0..N /\ OnlyNames(done) /\ done \in Seq(Part) /\ (m = 1 => done = <<>>)
    BY <1>2, <1>5
  <2>2. E[m] = SafePart(path, m, done) /\ path[m] \in STRING
    BY <1>2, <2>1
  <2>3. path[m] = Empty /\ m \in {1, N} => m = 1
    BY <1>2, <2>1
  <2> HIDE DEF m, done, N
  <2>4. CASE SafePart(path, m, done) = done
    BY <2>1, <2>2, <2>4 DEF m
  <2>5. CASE /\ SafePart(path, m, done) = Append(done, path[m])
             /\ path[m] # "." /\ path[m] # ".." /\ (path[m] = Empty => m \in {1, Len(path)})
    <3> DEFINE more == Append(done, path[m])
    <3>1. path[m] \in PlainName \/ (m = 1 /\ path[m] = Empty)
      <4>1. path[m] = Empty => m = 1
        BY <2>3, <2>5 DEF N
      <4> QED
        BY <2>2, <2>5, <4>1, PlainNames, Zenon
    <3>2. /\ more \in Seq(Part) /\ Len(more) = Len(done) + 1 /\ Len(done) \in Nat
          /\ \A i \in 1..Len(done) : more[i] = done[i]
          /\ more[Len(done) + 1] = path[m]
      <4>1. path[m] \in Part
        BY <2>2 DEF Part
      <4> QED
        BY <2>1, <4>1, AppendProperties
    <3> HIDE DEF more
    <3>3. ASSUME NEW i \in 1..Len(more) PROVE more[i] \in PlainName \/ (i = 1 /\ more[i] = Empty)
      <4>1. CASE i \in 1..Len(done)
        BY <2>1, <3>2, <4>1 DEF OnlyNames
      <4>2. CASE i = Len(done) + 1
        <5>1. m = 1 => i = 1
          BY <2>1, <4>2
        <5> QED
          BY <3>1, <3>2, <4>2, <5>1
      <4> QED
        BY <3>2, <4>1, <4>2
    <3>4. OnlyNames(more)
      BY <3>2, <3>3 DEF OnlyNames
    <3> QED
      BY <2>2, <2>5, <3>4 DEF more, m
  <2>6. CASE done = <<>> /\ SafePart(path, m, done) = <<>>
    BY <1>3, <2>2, <2>6 DEF m
  <2>7. CASE done # <<>> /\ SafePart(path, m, done) = Front(done)
    <3>1. /\ Front(done) \in Seq(Part) /\ Len(Front(done)) = Len(done) - 1 /\ Len(done) \in Nat
          /\ \A i \in 1..Len(done) - 1 : Front(done)[i] = done[i]
      BY <2>1, <2>7, FrontOfList
    <3>2. OnlyNames(Front(done))
      BY <2>1, <3>1 DEF OnlyNames
    <3> QED
      BY <2>2, <2>7, <3>2 DEF m
  <2> QED
    BY <2>4, <2>5, <2>6, <2>7, SafePartUnfolded
<1> HIDE DEF T
<1>6. Nat \subseteq T
  BY <1>4, <1>5, AllNaturals
<1>7. OnlyNames(E[N])
  BY <1>2, <1>6 DEF T
<1> QED
  BY <1>2, <1>3, <1>7

(* The last part that is not empty. *)
NamedParts(path) == {i \in DOMAIN path : path[i] # Empty}

LEMMA BaseNameUnfolded ==
    ASSUME NEW path
    PROVE  BaseName(path) = IF NamedParts(path) = {} THEN Empty
                            ELSE path[CHOOSE i \in NamedParts(path) : \A j \in NamedParts(path) : j <= i]
BY Zenon DEF BaseName, NamedParts, Empty

LEMMA BaseNameIsLast ==
    ASSUME NEW path \in Seq(Part), path # <<>>, path[Len(path)] # Empty
    PROVE  BaseName(path) = path[Len(path)]
<1> DEFINE named == NamedParts(path)
           L == Len(path)
<1>1. L \in Nat /\ L \in named /\ \A j \in named : j \in Nat /\ j <= L
  BY DEF NamedParts
<1> HIDE DEF named
<1>2. (CHOOSE i \in named : \A j \in named : j <= i) = L
  <2>1. \A i \in named : (\A j \in named : j <= i) => i = L
    BY <1>1
  <2> QED
    BY <1>1, <2>1
<1>3. named # {}
  BY <1>1
<1> QED
  BY <1>2, <1>3, BaseNameUnfolded DEF named

(* The names of a clean path, without the separator at its beginning.       *)
NamesOf(parts) == IF parts[1] = Empty THEN Tail(parts) ELSE parts

LEMMA CleanPaths ==
    ASSUME NEW parts, OnlyNames(parts), parts # <<>>
    PROVE  /\ NamesOf(parts) \in Seq(PlainName)
           /\ parts = NamesOf(parts) \/ parts = <<Empty>> \o NamesOf(parts)
           /\ NamesOf(parts) = <<>> => parts = <<Empty>>
           /\ NamesOf(parts) # <<>> => BaseName(parts) = NamesOf(parts)[Len(NamesOf(parts))]
<1> DEFINE names == NamesOf(parts)
           L == Len(parts)
<1>1. /\ parts \in Seq(Part) /\ L \in Nat \ {0} /\ Empty \notin PlainName
      /\ \A i \in 1..L : parts[i] \in PlainName \/ (i = 1 /\ parts[i] = Empty)
  <2>1. Empty \notin PlainName
    BY PlainNames
  <2> QED
    BY <2>1 DEF OnlyNames
<1>2. CASE parts[1] = Empty
  <2>1. /\ names = Tail(parts)
        /\ Tail(parts) \in Seq(Part) /\ Len(Tail(parts)) = L - 1
        /\ \A i \in 1..(L - 1) : Tail(parts)[i] = parts[i + 1]
    BY <1>1, <1>2, HeadTailProperties DEF NamesOf
  <2> HIDE DEF names
  <2>2. \A i \in 1..(L - 1) : names[i] \in PlainName /\ names[i] = parts[i + 1]
    <3>1. \A i \in 1..(L - 1) : i + 1 \in 1..L /\ i + 1 # 1
      BY <1>1
    <3> QED
      BY <1>1, <2>1, <3>1
  <2>3. names \in Seq(PlainName) /\ Len(names) = L - 1
    <3>1. names \in Seq(Part) /\ Len(names) = L - 1
      BY <2>1
    <3> QED
      BY <2>2, <3>1, ListsInto
  <2>4. parts = <<Empty>> \o names
    <3>1. parts = <<Head(parts)>> \o Tail(parts)
      BY <1>1, HeadTailProperties
    <3> QED
      BY <1>1, <1>2, <2>1, <3>1
  <2>5. names = <<>> => parts = <<Empty>>
    <3>1. names = <<>> => L = 1
      BY <1>1, <2>3
    <3>2. L = 1 => parts = <<Empty>>
      BY <1>1, <1>2
    <3> QED
      BY <3>1, <3>2
  <2>6. ASSUME names # <<>> PROVE BaseName(parts) = names[Len(names)]
    <3>1. L - 1 \in 1..(L - 1)
      BY <1>1, <2>3, <2>6
    <3>2. names[L - 1] = parts[L] /\ parts[L] \in PlainName
      BY <1>1, <2>2, <3>1
    <3>3. BaseName(parts) = parts[L]
      BY <1>1, <3>2, BaseNameIsLast
    <3> QED
      BY <2>3, <3>2, <3>3
  <2> QED
    BY <2>3, <2>4, <2>5, <2>6 DEF names
<1>3. CASE parts[1] # Empty
  <2>1. names = parts
    BY <1>3 DEF NamesOf
  <2>2. \A i \in 1..L : parts[i] \in PlainName
    BY <1>1, <1>3
  <2>3. parts \in Seq(PlainName)
    BY <1>1, <2>2
  <2>4. BaseName(parts) = parts[L]
    <3>1. L \in 1..L /\ parts[L] # Empty
      BY <1>1, <2>2
    <3> QED
      BY <1>1, <3>1, BaseNameIsLast
  <2> HIDE DEF names
  <2> QED
    BY <2>1, <2>3, <2>4 DEF names
<1>4. QED
  BY <1>2, <1>3

-----------------------------------------------------------------------------
(* The entries of an archive *)

(* Of some positions in a list one comes last. *)
LEMMA LastPosition ==
    ASSUME NEW n \in Nat, NEW I, I \subseteq 1..n, I # {}
    PROVE  \E i \in I : \A j \in I : j <= i
<1> DEFINE back == {k \in 0..n : n - k \in I}
<1>1. back \subseteq Nat /\ back # {}
  <2>1. PICK i \in I : TRUE
    OBVIOUS
  <2>2. i \in 1..n /\ n - i \in 0..n /\ n - (n - i) = i
    OBVIOUS
  <2>3. n - i \in back
    BY <2>2
  <2> HIDE DEF back
  <2>4. back # {}
    BY <2>3
  <2> QED
    BY <2>4 DEF back
<1>2. PICK k \in back : \A j \in back : k <= j
  <2> HIDE DEF back
  <2> QED
    BY <1>1, FirstPosition
<1>3. n - k \in I /\ k \in 0..n
  BY <1>2
<1>4. ASSUME NEW j \in I PROVE j <= n - k
  <2>1. j \in 1..n /\ n - j \in 0..n /\ n - (n - j) = j
    OBVIOUS
  <2>2. n - j \in back
    BY <2>1
  <2>3. k <= n - j
    BY <1>2, <2>2
  <2> QED
    BY <1>3, <2>1, <2>3
<1> QED
  BY <1>3, <1>4

Renamed(entry, name) == [entry EXCEPT !.path = name]

LEMMA RenamedEntries ==
    ASSUME NEW entry \in ZipEntry, NEW name
    PROVE  /\ Renamed(entry, name).path = name
           /\ Renamed(entry, name).dir = entry.dir
           /\ ~entry.dir => Renamed(entry, name).content = entry.content
<1>1. CASE entry \in [path : Seq(STRING) \ {<<>>}, dir : {TRUE}]
  <2>1. Renamed(entry, name).path = name
    BY <1>1 DEF Renamed
  <2>2. Renamed(entry, name).dir = entry.dir /\ entry.dir
    BY <1>1 DEF Renamed
  <2> QED
    BY <2>1, <2>2
<1>2. CASE entry \in [path : Seq(STRING) \ {<<>>}, dir : {FALSE}, content : Seq(STRING) \ {<<>>}]
  <2>1. Renamed(entry, name).path = name
    BY <1>2 DEF Renamed
  <2>2. Renamed(entry, name).dir = entry.dir /\ Renamed(entry, name).content = entry.content
    BY <1>2 DEF Renamed
  <2> QED
    BY <2>1, <2>2
<1> QED
  BY <1>1, <1>2, Zenon DEF ZipEntry

(* An entry that is no directory. *)
LEMMA FileEntries ==
    ASSUME NEW entry \in ZipEntry, ~entry.dir
    PROVE  /\ entry.path \in Seq(STRING) /\ entry.path # <<>>
           /\ entry.path[Len(entry.path)] # Empty \/ Len(entry.path) = 1
           /\ entry.content \in Seq(STRING) /\ entry.content # <<>>
<1>1. /\ entry \in [path : Seq(STRING) \ {<<>>}, dir : {FALSE}, content : Seq(STRING) \ {<<>>}]
      /\ entry.path[Len(entry.path)] # Empty \/ entry.path = <<Empty>>
  <2>1. entry \notin [path : Seq(STRING) \ {<<>>}, dir : {TRUE}]
    OBVIOUS
  <2> QED
    BY <2>1, Zenon DEF ZipEntry, Empty
<1>2. entry.path = <<Empty>> => Len(entry.path) = 1
  OBVIOUS
<1> QED
  BY <1>1, <1>2

ZipNames(entries) == [i \in DOMAIN entries |-> SafeName(entries[i].path)]
FirstOfNames(entries) == {i \in DOMAIN entries : \A j \in 1..i - 1 : ZipNames(entries)[j] # ZipNames(entries)[i]}
LatestOfName(entries, i) ==
    CHOOSE j \in DOMAIN entries :
        /\ ZipNames(entries)[j] = ZipNames(entries)[i]
        /\ \A k \in j + 1..Len(entries) : ZipNames(entries)[k] # ZipNames(entries)[i]

LEMMA ZipObjectsUnfolded ==
    ASSUME NEW entries
    PROVE  LET order == Ascending(FirstOfNames(entries))
           IN  ZipObjects(entries) =
                   [k \in 1..Cardinality(FirstOfNames(entries)) |->
                       Renamed(entries[LatestOfName(entries, order[k])], ZipNames(entries)[order[k]])]
BY Zenon DEF ZipObjects, FirstOfNames, LatestOfName, Renamed, ZipNames

(* They have names of their own and are entries of the archive. *)
LEMMA ZipObjectsAre ==
    ASSUME NEW entries \in Archives
    PROVE  LET objects == ZipObjects(entries)
           IN  /\ objects \in Seq({objects[i] : i \in DOMAIN objects})
               /\ entries # <<>> => objects # <<>>
               /\ \A k, l \in DOMAIN objects : objects[k].path = objects[l].path => k = l
               /\ \A k \in DOMAIN objects : \E e \in DOMAIN entries :
                      /\ entries[e] \in ZipEntry
                      /\ objects[k] = Renamed(entries[e], SafeName(entries[e].path))
<1> DEFINE objects == ZipObjects(entries)
           n == Len(entries)
           firsts == FirstOfNames(entries)
           c == Cardinality(firsts)
           order == Ascending(firsts)
           name == ZipNames(entries)
<1>1. entries \in Seq(ZipEntry) /\ n \in Nat /\ DOMAIN entries = 1..n
  BY ArchivesAssumption
<1>1a. \A e \in 1..n : entries[e] \in ZipEntry
  <2> DEFINE V == ZipEntry
  <2>1. entries \in Seq(V)
    BY <1>1
  <2> HIDE DEF V
  <2>2. \A e \in 1..n : entries[e] \in V
    BY <2>1
  <2> QED
    BY <2>2 DEF V
<1>1b. \A i \in 1..n : name[i] = SafeName(entries[i].path)
  BY <1>1 DEF ZipNames
<1>2. /\ firsts \subseteq 1..n
      /\ \A i \in firsts : \A j \in 1..i - 1 : name[j] # name[i]
  BY <1>1 DEF FirstOfNames
<1> HIDE DEF firsts
<1>3. /\ c \in Nat /\ order \in [1..c -> firsts]
      /\ \A k, l \in 1..c : k < l => order[k] < order[l]
      /\ \A i \in firsts : \E k \in 1..c : order[k] = i
  <2>1. c \in Nat /\ IsAscending(order, firsts, c) /\ ReachesAll(order, firsts, c)
    BY <1>1, <1>2, AscendingIs
  <2> HIDE DEF c, order
  <2> QED
    BY <2>1 DEF IsAscending, ReachesAll
<1>4. objects = [k \in 1..c |-> Renamed(entries[LatestOfName(entries, order[k])], name[order[k]])]
  BY ZipObjectsUnfolded DEF firsts
<1> HIDE DEF c, order, objects, name
<1>5. ASSUME NEW i \in 1..n
      PROVE  LatestOfName(entries, i) \in 1..n /\ name[LatestOfName(entries, i)] = name[i]
  <2> DEFINE same == {j \in 1..n : name[j] = name[i]}
             R(j) == name[j] = name[i] /\ \A k \in j + 1..n : name[k] # name[i]
  <2>1. same \subseteq 1..n /\ same # {}
    OBVIOUS
  <2>2. PICK m \in same : \A j \in same : j <= m
    <3> HIDE DEF same
    <3> QED
      BY <1>1, <2>1, LastPosition
  <2>3. ASSUME NEW k \in m + 1..n PROVE name[k] # name[i]
    <3>1. m \in 1..n /\ k \in 1..n /\ ~(k <= m)
      BY <1>1, <2>2
    <3> QED
      BY <2>2, <3>1
  <2>4. m \in 1..n /\ R(m)
    BY <2>2, <2>3
  <2>5. LatestOfName(entries, i) = CHOOSE j \in 1..n : R(j)
    BY <1>1 DEF LatestOfName, name
  <2> HIDE DEF R
  <2>6. LatestOfName(entries, i) \in 1..n /\ R(LatestOfName(entries, i))
    BY <2>4, <2>5
  <2> QED
    BY <2>6 DEF R
<1>6. ASSUME NEW k \in 1..c
      PROVE  /\ order[k] \in 1..n /\ order[k] \in firsts
             /\ LatestOfName(entries, order[k]) \in 1..n
             /\ entries[LatestOfName(entries, order[k])] \in ZipEntry
             /\ name[order[k]] = SafeName(entries[LatestOfName(entries, order[k])].path)
             /\ objects[k] = Renamed(entries[LatestOfName(entries, order[k])], name[order[k]])
             /\ objects[k].path = name[order[k]]
  <2>1. order[k] \in firsts /\ order[k] \in 1..n
    BY <1>2, <1>3
  <2> DEFINE late == LatestOfName(entries, order[k])
  <2>2. late \in 1..n /\ name[late] = name[order[k]]
    BY <1>5, <2>1
  <2>3. objects[k] = Renamed(entries[late], name[order[k]])
    BY <1>4
  <2> HIDE DEF late
  <2>4. entries[late] \in ZipEntry /\ name[order[k]] = SafeName(entries[late].path)
    BY <1>1a, <1>1b, <2>2
  <2>5. objects[k].path = name[order[k]]
    BY <2>3, <2>4, RenamedEntries
  <2> QED
    BY <2>1, <2>2, <2>3, <2>4, <2>5 DEF late
<1>7. DOMAIN objects = 1..c
  BY <1>4
<1>8. objects \in Seq({objects[i] : i \in DOMAIN objects})
  <2> DEFINE V == {objects[i] : i \in DOMAIN objects}
  <2>1. objects \in [1..c -> V]
    <3>1. \A i \in 1..c : objects[i] \in V
      BY <1>7
    <3> HIDE DEF V
    <3>2. objects = [i \in 1..c |-> objects[i]]
      BY <1>4
    <3> QED
      BY <3>1, <3>2
  <2> HIDE DEF V
  <2>2. objects \in Seq(V)
    BY <1>3, <2>1
  <2> QED
    BY <2>2 DEF V
<1>9. ASSUME entries # <<>> PROVE objects # <<>>
  <2>1. n # 0 /\ 1 \in 1..n
    BY <1>1, <1>9
  <2>2. 1 \in firsts
    BY <1>1, <2>1 DEF firsts, FirstOfNames
  <2>3. PICK k \in 1..c : order[k] = 1
    BY <1>3, <2>2
  <2>4. DOMAIN objects # {} /\ DOMAIN <<>> = {}
    BY <1>7, <2>3
  <2> QED
    BY <2>4
<1>10. ASSUME NEW k \in 1..c, NEW l \in 1..c, k < l PROVE objects[k].path # objects[l].path
  <2>1. order[k] < order[l] /\ order[k] \in 1..n /\ order[l] \in 1..n
    BY <1>3, <1>6, <1>10
  <2>2. order[k] \in 1..order[l] - 1
    BY <2>1
  <2>3. name[order[k]] # name[order[l]]
    BY <1>2, <1>6, <2>2
  <2> QED
    BY <1>6, <2>3
<1>11. \A k, l \in 1..c : objects[k].path = objects[l].path => k = l
  <2> SUFFICES ASSUME NEW k \in 1..c, NEW l \in 1..c, objects[k].path = objects[l].path PROVE k = l
    OBVIOUS
  <2>1. ~(k < l) /\ ~(l < k)
    BY <1>10
  <2> QED
    BY <1>3, <2>1
<1>12. \A k \in 1..c : \E e \in 1..n :
          entries[e] \in ZipEntry /\ objects[k] = Renamed(entries[e], SafeName(entries[e].path))
  <2> SUFFICES ASSUME NEW k \in 1..c
               PROVE  \E e \in 1..n :
                          entries[e] \in ZipEntry /\ objects[k] = Renamed(entries[e], SafeName(entries[e].path))
    OBVIOUS
  <2> DEFINE late == LatestOfName(entries, order[k])
  <2>1. late \in 1..n /\ entries[late] \in ZipEntry
        /\ objects[k] = Renamed(entries[late], SafeName(entries[late].path))
    BY <1>6
  <2> HIDE DEF late
  <2> QED
    BY <2>1
<1> QED
  BY <1>1, <1>7, <1>8, <1>9, <1>11, <1>12 DEF objects

-----------------------------------------------------------------------------
(* The lines of a text *)

LEMMA RemovedFromList ==
    ASSUME NEW V, NEW list \in Seq(V), NEW r \in 1..Len(list)
    PROVE  /\ RemoveAt(list, r) \in Seq(V) /\ Len(RemoveAt(list, r)) = Len(list) - 1
           /\ \A i \in 1..Len(list) - 1 : RemoveAt(list, r)[i] = IF i < r THEN list[i] ELSE list[i + 1]
<1> DEFINE L == Len(list)
           p == SubSeq(list, 1, r - 1)
           q == SubSeq(list, r + 1, L)
<1>1. L \in Nat /\ r \in 1..L /\ \A i \in 1..L : list[i] \in V
  OBVIOUS
<1>2. RemoveAt(list, r) = p \o q
  BY DEF RemoveAt
<1> HIDE DEF L
<1>3. p \in Seq(V) /\ Len(p) = r - 1 /\ \A i \in 1..r - 1 : p[i] = list[i]
  <2>1. r - 1 \in Int /\ r - 1 \in Nat /\ \A i \in 1..r - 1 : list[i] \in V
    BY <1>1
  <2> DEFINE e == r - 1
  <2> HIDE DEF e
  <2>2. SubSeq(list, 1, e) \in Seq(V) /\ Len(SubSeq(list, 1, e)) = e /\ \A i \in 1..e : SubSeq(list, 1, e)[i] = list[i]
    BY <2>1 DEF e
  <2> QED
    BY <2>2 DEF e
<1>4. q \in Seq(V) /\ Len(q) = L - r /\ \A i \in 1..L - r : q[i] = list[i + r]
  <2> DEFINE b == r + 1
  <2>1. b \in Int /\ b \in Nat /\ b <= L + 1 /\ L - b + 1 = L - r /\ \A i \in b..L : list[i] \in V
    BY <1>1
  <2>2. \A i \in 1..L - r : b + i - 1 = i + r
    BY <1>1
  <2> HIDE DEF b
  <2>3. /\ SubSeq(list, b, L) \in Seq(V)
        /\ Len(SubSeq(list, b, L)) = IF b <= L THEN L - b + 1 ELSE 0
        /\ \A i \in 1..L - b + 1 : SubSeq(list, b, L)[i] = list[b + i - 1]
    BY <1>1, <2>1, SubSeqProperties
  <2>4. Len(SubSeq(list, b, L)) = L - r
    BY <1>1, <2>1, <2>3
  <2>5. \A i \in 1..L - r : SubSeq(list, b, L)[i] = list[i + r]
    BY <2>1, <2>2, <2>3
  <2> QED
    BY <2>3, <2>4, <2>5 DEF b
<1> HIDE DEF p, q
<1>5. /\ p \o q \in Seq(V)
      /\ Len(p \o q) = (r - 1) + (L - r)
      /\ \A i \in 1..(r - 1) + (L - r) : (p \o q)[i] = IF i <= r - 1 THEN p[i] ELSE q[i - (r - 1)]
  <2>1. /\ p \o q \in Seq(V)
        /\ Len(p \o q) = Len(p) + Len(q)
        /\ \A i \in 1..Len(p) + Len(q) : (p \o q)[i] = IF i <= Len(p) THEN p[i] ELSE q[i - Len(p)]
    <3>1. p \in Seq(V) /\ q \in Seq(V)
      BY <1>3, <1>4
    <3> QED
      BY <3>1, ConcatProperties
  <2>2. Len(p) = r - 1 /\ Len(q) = L - r
    BY <1>3, <1>4
  <2> QED
    BY <2>1, <2>2
<1>6. (r - 1) + (L - r) = L - 1
  BY <1>1
<1>7. ASSUME NEW i \in 1..L - 1 PROVE (p \o q)[i] = IF i < r THEN list[i] ELSE list[i + 1]
  <2>1. CASE i < r
    <3>1. i \in 1..r - 1 /\ i <= r - 1
      BY <1>1, <2>1
    <3> QED
      BY <1>3, <1>5, <1>6, <2>1, <3>1
  <2>2. CASE ~(i < r)
    <3>1. i - (r - 1) \in 1..L - r /\ ~(i <= r - 1) /\ (i - (r - 1)) + r = i + 1
      BY <1>1, <2>2
    <3>2. (p \o q)[i] = q[i - (r - 1)]
      BY <1>5, <1>6, <3>1
    <3>3. q[i - (r - 1)] = list[(i - (r - 1)) + r]
      BY <1>4, <3>1
    <3> QED
      BY <2>2, <3>1, <3>2, <3>3
  <2> QED
    BY <2>1, <2>2
<1> QED
  BY <1>2, <1>5, <1>6, <1>7 DEF L

(* The lines that are left after one number and the other. *)
LinesLeft(text, numbers, E) ==
    /\ E[0] = text
    /\ \A n \in 1..Len(numbers) : E[n] = WithoutLine(E[n - 1], numbers[n])
    /\ WithoutLines(text, numbers) = E[Len(numbers)]

LEMMA LinesAreLeft ==
    ASSUME NEW text \in Seq(STRING), NEW numbers \in Seq(Nat \ {0})
    PROVE  \E E : LinesLeft(text, numbers, E)
<1> DEFINE N == Len(numbers)
           S == Seq(STRING)
           step == [x \in (1..N) \X S |-> WithoutLine(x[2], numbers[x[1]])]
           Q(G) == G = [n \in 0..Len(numbers) |-> IF n = 0 THEN text ELSE WithoutLine(G[n - 1], numbers[n])]
           G == CHOOSE F : Q(F)
<1>1. N \in Nat /\ \A n \in 1..N : numbers[n] \in Nat \ {0}
  OBVIOUS
<1>3. WithoutLines(text, numbers) = G[Len(numbers)]
  BY Zenon DEF WithoutLines
<1>4. step \in StepsTo(S, N) /\ text \in S
  <2>1. ASSUME NEW list \in S, NEW n \in 1..N PROVE WithoutLine(list, numbers[n]) \in S
    <3>1. CASE numbers[n] <= Len(list)
      <4>1. numbers[n] \in 1..Len(list)
        BY <1>1, <3>1
      <4>2. RemoveAt(list, numbers[n]) \in Seq(STRING)
        BY <4>1, RemovedFromList
      <4> QED
        BY <3>1, <4>2 DEF WithoutLine
    <3>2. CASE ~(numbers[n] <= Len(list))
      BY <3>2 DEF WithoutLine
    <3> QED
      BY <3>1, <3>2
  <2> HIDE DEF S
  <2>2. \A x \in (1..N) \X S : x[1] \in 1..N /\ x[2] \in S
    OBVIOUS
  <2>3. \A x \in (1..N) \X S : WithoutLine(x[2], numbers[x[1]]) \in S
    BY <2>1, <2>2
  <2> HIDE DEF N
  <2> QED
    BY <2>3 DEF StepsTo, S
<1>5. PICK E : RecursTo(E, S, N, text, step)
  <2> HIDE DEF step, S, N
  <2> QED
    BY <1>1, <1>4, RecursionToExists
<1>6. E \in [0..N -> S] /\ E[0] = text /\ \A n \in 1..N : E[n] = WithoutLine(E[n - 1], numbers[n])
  <2>1. ASSUME NEW n \in 1..N PROVE step[<<n, E[n - 1]>>] = WithoutLine(E[n - 1], numbers[n])
    <3>1. n - 1 \in 0..N
      BY <1>1
    <3>2. <<n, E[n - 1]>> \in (1..N) \X S
      <4> HIDE DEF S, N
      <4> QED
        BY <1>5, <3>1 DEF RecursTo
    <3> HIDE DEF S, N
    <3> QED
      BY <3>2
  <2> HIDE DEF step, S, N
  <2> QED
    BY <1>5, <2>1 DEF RecursTo
<1>7. Q(E)
  <2>1. E = [n \in 0..N |-> E[n]] /\ \A n \in 0..N : n = 0 \/ n \in 1..N
    BY <1>1, <1>6
  <2> HIDE DEF S
  <2> QED
    BY <1>6, <2>1 DEF N
<1> HIDE DEF Q
<1>8. Q(G)
  BY <1>7
<1>9. G = [n \in 0..N |-> IF n = 0 THEN text ELSE WithoutLine(G[n - 1], numbers[n])]
  BY <1>8 DEF Q, N
<1> HIDE DEF G
<1>10. G[0] = text /\ \A n \in 1..N : G[n] = WithoutLine(G[n - 1], numbers[n])
  <2>1. 0 \in 0..N /\ \A n \in 1..N : n \in 0..N /\ n # 0
    BY <1>1
  <2> QED
    BY <1>9, <2>1
<1> HIDE DEF S
<1> QED
  BY <1>3, <1>10 DEF LinesLeft

(* Deleting numbers from the last to the first leaves the lines that have   *)
(* none of them: those before the number that was deleted last are still    *)
(* where they were.                                                         *)
DeletedUpTo(numbers, k) == {numbers[j] : j \in 1..k}

IsLeft(order, list, text, deleted, k) ==
    /\ IsAscending(order, (1..Len(text)) \ deleted, Len(text) - k)
    /\ ReachesAll(order, (1..Len(text)) \ deleted, Len(text) - k)
    /\ list \in Seq(STRING) /\ Len(list) = Len(text) - k
    /\ \A i \in 1..Len(text) - k : list[i] = text[order[i]]

LEMMA OneLineLess ==
    ASSUME NEW text \in Seq(STRING), NEW deleted \in SUBSET (1..Len(text)), NEW k \in Nat,
           NEW order, NEW list, IsLeft(order, list, text, deleted, k), k <= Len(text),
           NEW r \in (1..Len(text)) \ deleted, \A i \in 1..Len(text) - k : i <= r => order[i] = i
    PROVE  /\ k + 1 <= Len(text)
           /\ \E more : /\ IsLeft(more, WithoutLine(list, r), text, deleted \cup {r}, k + 1)
                        /\ \A i \in 1..Len(text) - (k + 1) : i < r => more[i] = i
<1> DEFINE L == Len(text)
           n == L - k
           kept == (1..L) \ deleted
<1>1. L \in Nat /\ n \in Nat /\ r \in Nat \ {0} /\ r \in kept
  BY DEF n
<1>2. /\ order \in [1..n -> kept]
      /\ \A i, j \in 1..n : i < j => order[i] < order[j]
      /\ \A x \in kept : \E i \in 1..n : order[i] = x
      /\ list \in Seq(STRING) /\ Len(list) = n
      /\ \A i \in 1..n : list[i] = text[order[i]]
  BY DEF IsLeft, IsAscending, ReachesAll
<1>3. \A i \in 1..n : order[i] \in kept /\ order[i] \in Nat /\ (i <= r => order[i] = i)
  <2>1. \A i \in 1..n : i <= r => order[i] = i
    OBVIOUS
  <2>2. kept \subseteq Nat
    OBVIOUS
  <2> HIDE DEF kept, n
  <2>3. \A i \in 1..n : order[i] \in kept
    BY <1>2
  <2> QED
    BY <2>1, <2>2, <2>3
<1> HIDE DEF kept
<1>4. r \in 1..n /\ order[r] = r
  <2>1. PICK i \in 1..n : order[i] = r
    BY <1>1, <1>2
  <2>2. CASE i <= r
    BY <1>3, <2>1, <2>2
  <2>3. CASE ~(i <= r)
    <3>1. r \in 1..n /\ r < i
      BY <1>1, <2>1, <2>3
    <3>2. order[r] = r /\ order[r] < order[i]
      BY <1>1, <1>2, <1>3, <3>1
    <3> QED
      BY <1>1, <2>1, <3>2
  <2> QED
    BY <2>2, <2>3
<1>5. n - 1 = L - (k + 1) /\ n - 1 \in Nat /\ k + 1 <= L
  BY <1>1, <1>4
<1> HIDE DEF n
<1> DEFINE more == [i \in 1..n - 1 |-> IF i < r THEN order[i] ELSE order[i + 1]]
           left == kept \ {r}
<1>6. ASSUME NEW i \in 1..n - 1
      PROVE  /\ i < r => more[i] = order[i] /\ i \in 1..n /\ order[i] < r
             /\ ~(i < r) => more[i] = order[i + 1] /\ i + 1 \in 1..n /\ r < order[i + 1]
  <2>1. i \in 1..n /\ i + 1 \in 1..n
    BY <1>1
  <2>2. i < r => order[i] < r
    BY <1>2, <1>4, <2>1
  <2>3. ~(i < r) => r < order[i + 1]
    <3>1. ~(i < r) => r < i + 1
      BY <1>1
    <3> QED
      BY <1>2, <1>4, <2>1, <3>1
  <2> QED
    BY <2>1, <2>2, <2>3
<1>7. more \in [1..n - 1 -> left]
  <2>1. ASSUME NEW i \in 1..n - 1 PROVE more[i] \in left
    <3>1. CASE i < r
      <4>1. more[i] = order[i] /\ order[i] \in kept /\ order[i] # r
        BY <1>1, <1>3, <1>6, <3>1
      <4> HIDE DEF more
      <4> QED
        BY <4>1
    <3>2. CASE ~(i < r)
      <4> HIDE DEF more
      <4>1. more[i] = order[i + 1] /\ i + 1 \in 1..n /\ r < order[i + 1]
        BY <1>6, <3>2
      <4>2. order[i + 1] \in kept /\ order[i + 1] \in Nat
        BY <1>3, <4>1
      <4>3. order[i + 1] # r
        BY <1>1, <4>1, <4>2
      <4> QED
        BY <4>1, <4>2, <4>3
    <3> QED
      BY <3>1, <3>2
  <2>2. more = [i \in 1..n - 1 |-> more[i]]
    OBVIOUS
  <2> HIDE DEF more, left
  <2> QED
    BY <2>1, <2>2
<1> HIDE DEF more
<1>8. ASSUME NEW i \in 1..n - 1, NEW j \in 1..n - 1, i < j PROVE more[i] < more[j]
  <2>1. CASE j < r
    <3>1. i < r
      BY <1>1, <1>8, <2>1
    <3> QED
      BY <1>2, <1>6, <1>8, <2>1, <3>1
  <2>2. CASE ~(j < r) /\ i < r
    <3>1. order[i] \in Nat /\ order[j + 1] \in Nat
      BY <1>3, <1>6, <2>2
    <3> QED
      BY <1>1, <1>6, <2>2, <3>1
  <2>3. CASE ~(i < r)
    <3>1. ~(j < r) /\ i + 1 < j + 1
      BY <1>1, <1>8, <2>3
    <3> QED
      BY <1>2, <1>6, <2>3, <3>1
  <2> QED
    BY <2>1, <2>2, <2>3
<1>9. ASSUME NEW x \in left PROVE \E i \in 1..n - 1 : more[i] = x
  <2>1. PICK i \in 1..n : order[i] = x
    BY <1>2
  <2>2. i # r
    BY <1>4, <2>1
  <2>3. CASE i < r
    <3>1. i \in 1..n - 1
      BY <1>1, <1>4, <2>3
    <3> QED
      BY <1>6, <2>1, <2>3, <3>1
  <2>4. CASE ~(i < r)
    <3>1. i - 1 \in 1..n - 1 /\ ~(i - 1 < r) /\ (i - 1) + 1 = i
      BY <1>1, <1>4, <2>2, <2>4
    <3>2. more[i - 1] = x
      BY <1>6, <2>1, <3>1
    <3> QED
      BY <3>1, <3>2
  <2> QED
    BY <2>3, <2>4
<1>10. /\ WithoutLine(list, r) \in Seq(STRING) /\ Len(WithoutLine(list, r)) = n - 1
       /\ \A i \in 1..n - 1 : WithoutLine(list, r)[i] = IF i < r THEN list[i] ELSE list[i + 1]
  <2>1. WithoutLine(list, r) = RemoveAt(list, r)
    BY <1>1, <1>2, <1>4 DEF WithoutLine
  <2>2. r \in 1..Len(list)
    BY <1>2, <1>4
  <2>3. /\ RemoveAt(list, r) \in Seq(STRING) /\ Len(RemoveAt(list, r)) = Len(list) - 1
        /\ \A i \in 1..Len(list) - 1 : RemoveAt(list, r)[i] = IF i < r THEN list[i] ELSE list[i + 1]
    <3> DEFINE V == STRING
    <3>1. list \in Seq(V)
      BY <1>2
    <3> HIDE DEF V
    <3>2. /\ RemoveAt(list, r) \in Seq(V) /\ Len(RemoveAt(list, r)) = Len(list) - 1
          /\ \A i \in 1..Len(list) - 1 : RemoveAt(list, r)[i] = IF i < r THEN list[i] ELSE list[i + 1]
      BY <2>2, <3>1, RemovedFromList
    <3> QED
      BY <3>2 DEF V
  <2> QED
    BY <1>2, <2>1, <2>3
<1>11. \A i \in 1..n - 1 : WithoutLine(list, r)[i] = text[more[i]]
  <2> SUFFICES ASSUME NEW i \in 1..n - 1 PROVE WithoutLine(list, r)[i] = text[more[i]]
    OBVIOUS
  <2>1. CASE i < r
    <3>1. more[i] = order[i] /\ i \in 1..n /\ list[i] = text[order[i]]
      BY <1>2, <1>6, <2>1
    <3>2. WithoutLine(list, r)[i] = list[i]
      BY <1>10, <2>1
    <3> QED
      BY <3>1, <3>2
  <2>2. CASE ~(i < r)
    <3>1. more[i] = order[i + 1] /\ i + 1 \in 1..n
      BY <1>6, <2>2
    <3>2. list[i + 1] = text[order[i + 1]]
      BY <1>2, <3>1
    <3>3. WithoutLine(list, r)[i] = list[i + 1]
      BY <1>10, <2>2
    <3> QED
      BY <3>1, <3>2, <3>3
  <2> QED
    BY <2>1, <2>2
<1>12. left = (1..L) \ (deleted \cup {r})
  BY DEF kept
<1>13. \A i \in 1..n - 1 : i < r => more[i] = i
  BY <1>1, <1>3, <1>6
<1> HIDE DEF left
<1>14. IsAscending(more, left, n - 1) /\ ReachesAll(more, left, n - 1)
  BY <1>7, <1>8, <1>9 DEF IsAscending, ReachesAll
<1>15. IsLeft(more, WithoutLine(list, r), text, deleted \cup {r}, k + 1)
  BY <1>5, <1>10, <1>11, <1>12, <1>14 DEF IsLeft
<1> QED
  BY <1>5, <1>13, <1>15

(* The numbers to delete, from the last to the first. *)
LEMMA DeletionsAre ==
    ASSUME NEW n \in Nat, NEW numbers \in Seq(Nat \ {0}), ToSet(numbers) \subseteq 1..n
    PROVE  LET c == Cardinality(ToSet(numbers))
               order == Deletions(numbers)
           IN  /\ c \in Nat /\ order \in Seq(Nat \ {0}) /\ Len(order) = c
               /\ \A i \in 1..c : order[i] \in ToSet(numbers)
               /\ \A i, j \in 1..c : i < j => order[j] < order[i]
               /\ \A x \in ToSet(numbers) : \E i \in 1..c : order[i] = x
<1> DEFINE D == ToSet(numbers)
           c == Cardinality(D)
           up == Ascending(D)
           order == Deletions(numbers)
<1> HIDE DEF D
<1>1. D \subseteq 1..n
  BY DEF D
<1>2. c \in Nat /\ IsAscending(up, D, c) /\ ReachesAll(up, D, c)
  BY <1>1, AscendingIs
<1> HIDE DEF c, up
<1>3. /\ up \in [1..c -> D] /\ \A i, j \in 1..c : i < j => up[i] < up[j]
      /\ \A x \in D : \E i \in 1..c : up[i] = x
  BY <1>2 DEF IsAscending, ReachesAll
<1>4. Len(up) = c
  BY <1>2, <1>3
<1>5. order = [i \in 1..c |-> up[(c - i) + 1]]
  BY <1>4 DEF Deletions, Reverse, up, D
<1> HIDE DEF order
<1>6. \A i \in 1..c : (c - i) + 1 \in 1..c /\ c - ((c - i) + 1) + 1 = i
  BY <1>2
<1>7. \A i \in 1..c : order[i] \in D /\ order[i] \in Nat \ {0}
  <2>1. \A i \in 1..c : order[i] \in D
    BY <1>3, <1>5, <1>6
  <2>2. \A x \in D : x \in Nat \ {0}
    BY <1>1
  <2> QED
    BY <2>1, <2>2
<1>8. order \in Seq(Nat \ {0}) /\ Len(order) = c
  <2>1. order = [i \in 1..c |-> order[i]]
    BY <1>5
  <2> DEFINE V == Nat \ {0}
  <2>2. \A i \in 1..c : order[i] \in V
    BY <1>7
  <2> HIDE DEF V
  <2>3. order \in [1..c -> V]
    BY <2>1, <2>2
  <2>4. order \in Seq(V) /\ Len(order) = c
    BY <1>2, <2>3
  <2> QED
    BY <2>4 DEF V
<1>9. ASSUME NEW i \in 1..c, NEW j \in 1..c, i < j PROVE order[j] < order[i]
  <2>1. (c - j) + 1 < (c - i) + 1
    BY <1>2, <1>9
  <2> QED
    BY <1>3, <1>5, <1>6, <2>1
<1>10. ASSUME NEW x \in D PROVE \E i \in 1..c : order[i] = x
  <2>1. PICK i \in 1..c : up[i] = x
    BY <1>3
  <2>2. order[(c - i) + 1] = up[i]
    <3> DEFINE j == (c - i) + 1
    <3>1. j \in 1..c /\ (c - j) + 1 = i
      BY <1>6
    <3> HIDE DEF j
    <3>2. order[j] = up[i]
      BY <1>5, <3>1
    <3> QED
      BY <3>2 DEF j
  <2> QED
    BY <1>6, <2>1, <2>2
<1> QED
  BY <1>2, <1>7, <1>8, <1>9, <1>10 DEF c, order, D

(* The lines that have none of the numbers are left, in their order.        *)
LEMMA WithoutLinesIs ==
    ASSUME NEW text \in Seq(STRING), NEW numbers \in Seq(Nat \ {0}), ToSet(numbers) \subseteq DOMAIN text
    PROVE  /\ WithoutLines(text, Deletions(numbers)) = LinesAt(DOMAIN text \ ToSet(numbers), text)
           /\ WithoutLines(text, Deletions(numbers)) \in Seq(STRING)
<1> DEFINE L == Len(text)
           D == ToSet(numbers)
           c == Cardinality(D)
           order == Deletions(numbers)
<1>1. L \in Nat /\ DOMAIN text = 1..L /\ D \subseteq 1..L
  OBVIOUS
<1>2. /\ c \in Nat /\ order \in Seq(Nat \ {0}) /\ Len(order) = c
      /\ \A i \in 1..c : order[i] \in D
      /\ \A i, j \in 1..c : i < j => order[j] < order[i]
      /\ \A x \in D : \E i \in 1..c : order[i] = x
  <2> HIDE DEF D, L
  <2>1. ToSet(numbers) \subseteq 1..L
    BY <1>1 DEF D
  <2> QED
    BY <1>1, <2>1, DeletionsAre DEF D
<1> HIDE DEF D, c, order
<1>3. PICK E : LinesLeft(text, order, E)
  BY <1>2, LinesAreLeft
<1>4. /\ E[0] = text /\ WithoutLines(text, order) = E[c]
      /\ \A n \in 1..c : E[n] = WithoutLine(E[n - 1], order[n])
  BY <1>2, <1>3 DEF LinesLeft
<1> DEFINE Reached(k) ==
               /\ k <= L
               /\ \E o : /\ IsLeft(o, E[k], text, DeletedUpTo(order, k), k)
                         /\ \A i \in 1..L - k : (k = 0 \/ i < order[k]) => o[i] = i
           T == {k \in Nat : k <= c => Reached(k)}
<1>5. 0 \in T
  <2> DEFINE o == [i \in 1..L |-> i]
  <2>1. DeletedUpTo(order, 0) = {} /\ (1..L) \ {} = 1..L /\ L - 0 = L /\ 0 <= L
    BY <1>1 DEF DeletedUpTo
  <2>2. IsAscending(o, 1..L, L) /\ ReachesAll(o, 1..L, L)
    BY DEF IsAscending, ReachesAll
  <2>3. \A i \in 1..L : o[i] = i
    OBVIOUS
  <2> HIDE DEF o
  <2>4. \A i \in 1..L : text[i] = text[o[i]]
    BY <2>3
  <2>5. IsLeft(o, E[0], text, {}, 0)
    BY <1>1, <1>4, <2>1, <2>2, <2>4 DEF IsLeft, L
  <2> HIDE DEF L
  <2>6. Reached(0)
    BY <2>1, <2>3, <2>5
  <2> QED
    BY <2>6
<1>6. ASSUME NEW k \in Nat, k \in T PROVE k + 1 \in T
  <2> SUFFICES ASSUME k + 1 <= c PROVE Reached(k + 1)
    OBVIOUS
  <2>1. k <= L /\ k <= c
    BY <1>2, <1>6
  <2>2. PICK o : /\ IsLeft(o, E[k], text, DeletedUpTo(order, k), k)
                 /\ \A i \in 1..L - k : (k = 0 \/ i < order[k]) => o[i] = i
    BY <1>6, <2>1
  <2>3. k + 1 \in 1..c /\ (k + 1) - 1 = k /\ \A j \in 1..k : j \in 1..c /\ j < k + 1
    BY <1>2, <2>1
  <2> DEFINE r == order[k + 1]
             deleted == DeletedUpTo(order, k)
  <2>4. r \in (1..L) \ deleted
    <3>1. r \in 1..L
      BY <1>1, <1>2, <2>3
    <3>2. \A j \in 1..k : r < order[j] /\ order[j] \in D
      BY <1>2, <2>3
    <3> HIDE DEF r
    <3>3. \A j \in 1..k : order[j] # r
      <4>1. D \subseteq Nat
        BY <1>1
      <4> QED
        BY <3>1, <3>2, <4>1
    <3> QED
      BY <3>1, <3>3 DEF DeletedUpTo
  <2>5. deleted \in SUBSET (1..L)
    <3>1. \A j \in 1..k : order[j] \in 1..L
      BY <1>1, <1>2, <2>3
    <3> QED
      BY <3>1 DEF DeletedUpTo
  <2>6. \A i \in 1..L - k : i <= r => o[i] = i
    <3> SUFFICES ASSUME NEW i \in 1..L - k, i <= r PROVE o[i] = i
      OBVIOUS
    <3>1. CASE k = 0
      BY <2>2, <3>1
    <3>2. CASE k # 0
      <4>1. k \in 1..c /\ r < order[k] /\ order[k] \in Nat /\ r \in Nat
        <5>1. k \in 1..k /\ k \in 1..c
          BY <2>3, <3>2
        <5> QED
          BY <1>1, <1>2, <2>3, <2>4, <5>1
      <4>2. i < order[k]
        BY <4>1
      <4> QED
        BY <2>2, <4>2
    <3> QED
      BY <3>1, <3>2
  <2> HIDE DEF r, deleted
  <2>7. /\ k + 1 <= L
        /\ \E more : /\ IsLeft(more, WithoutLine(E[k], r), text, deleted \cup {r}, k + 1)
                     /\ \A i \in 1..L - (k + 1) : i < r => more[i] = i
    <3>1. IsLeft(o, E[k], text, deleted, k)
      BY <2>2 DEF deleted
    <3> QED
      BY <2>1, <2>4, <2>5, <2>6, <3>1, OneLineLess
  <2>8. E[k + 1] = WithoutLine(E[k], r)
    BY <1>4, <2>3 DEF r
  <2>9. DeletedUpTo(order, k + 1) = deleted \cup {r}
    <3>1. 1..k + 1 = (1..k) \cup {k + 1}
      OBVIOUS
    <3> QED
      BY <3>1 DEF DeletedUpTo, deleted, r
  <2>10. k + 1 # 0
    OBVIOUS
  <2> QED
    BY <2>7, <2>8, <2>9, <2>10 DEF r
<1>7. Reached(c)
  <2> HIDE DEF T
  <2>1. Nat \subseteq T
    BY <1>5, <1>6, AllNaturals
  <2>2. c \in T /\ c <= c
    BY <1>2, <2>1
  <2> QED
    BY <2>2 DEF T
<1> DEFINE kept == (1..L) \ D
<1>8. DeletedUpTo(order, c) = D
  BY <1>2 DEF DeletedUpTo
<1>9. PICK o : IsLeft(o, E[c], text, D, c) /\ c <= L
  BY <1>7, <1>8
<1>10. /\ IsAscending(o, kept, L - c) /\ ReachesAll(o, kept, L - c)
       /\ E[c] \in Seq(STRING) /\ Len(E[c]) = L - c
       /\ \A i \in 1..L - c : E[c][i] = text[o[i]]
  BY <1>9 DEF IsLeft
<1>11. L - c \in Nat /\ kept \subseteq 1..L
  BY <1>1, <1>2, <1>9
<1> HIDE DEF kept, L
<1>12. L - c = Cardinality(kept) /\ o = Ascending(kept)
  BY <1>1, <1>10, <1>11, AscendingIs
<1>13. E[c] = [i \in 1..L - c |-> text[o[i]]]
  <2> DEFINE s == E[c]
             V == STRING
  <2>1. s \in Seq(V) /\ Len(s) = L - c
    BY <1>10
  <2> HIDE DEF s, V
  <2>2. s = [i \in 1..L - c |-> s[i]]
    BY <2>1
  <2>3. \A i \in 1..L - c : s[i] = text[o[i]]
    BY <1>10 DEF s
  <2> QED
    BY <2>2, <2>3 DEF s
<1>14. E[c] = LinesAt(kept, text)
  BY <1>12, <1>13 DEF LinesAt
<1> QED
  BY <1>1, <1>4, <1>10, <1>14 DEF kept, order, D

(* A range of lines. *)
LEMMA SliceIs ==
    ASSUME NEW text \in Seq(STRING), NEW from \in Nat \ {0}, NEW to \in Nat \ {0}
    PROVE  /\ Slice(text, from, to) = LinesAt((from..to) \cap DOMAIN text, text)
           /\ Slice(text, from, to) \in Seq(STRING)
<1> DEFINE L == Len(text)
           end == IF to < L THEN to ELSE L
           n == IF from <= end THEN end - from + 1 ELSE 0
           range == (from..to) \cap (1..L)
           o == [i \in 1..n |-> from + i - 1]
<1>1. L \in Nat /\ DOMAIN text = 1..L /\ \A i \in 1..L : text[i] \in STRING
  OBVIOUS
<1>2. Slice(text, from, to) = SubSeq(text, from, end)
  BY DEF Slice
<1> HIDE DEF L
<1>3. end \in Nat /\ end <= L /\ range = from..end /\ range \subseteq 1..L
  BY <1>1
<1> HIDE DEF end
<1>4. /\ n \in Nat /\ \A i \in 1..n : from + i - 1 \in from..end
      /\ \A x \in from..end : (x - from) + 1 \in 1..n /\ from + ((x - from) + 1) - 1 = x
      /\ 1..end - from + 1 = 1..n
  BY <1>3
<1>5. IsAscending(o, range, n) /\ ReachesAll(o, range, n)
  <2>1. \A i \in 1..n : o[i] = from + i - 1 /\ o[i] \in range
    BY <1>3, <1>4
  <2>2. o \in [1..n -> range]
    <3>1. o = [i \in 1..n |-> o[i]]
      OBVIOUS
    <3> HIDE DEF o, range, n
    <3> QED
      BY <2>1, <3>1
  <2> HIDE DEF o, n
  <2>3. \A i, j \in 1..n : i < j => o[i] < o[j]
    BY <1>4, <2>1
  <2>4. \A x \in range : \E i \in 1..n : o[i] = x
    <3> SUFFICES ASSUME NEW x \in range PROVE \E i \in 1..n : o[i] = x
      OBVIOUS
    <3>1. (x - from) + 1 \in 1..n /\ o[(x - from) + 1] = x
      BY <1>3, <1>4, <2>1
    <3> QED
      BY <3>1
  <2> QED
    BY <2>2, <2>3, <2>4 DEF IsAscending, ReachesAll
<1> HIDE DEF n, range
<1>6. n = Cardinality(range) /\ o = Ascending(range)
  <2> HIDE DEF o
  <2> QED
    BY <1>1, <1>3, <1>4, <1>5, AscendingIs
<1>7. /\ SubSeq(text, from, end) \in Seq(STRING)
      /\ SubSeq(text, from, end) = [i \in 1..n |-> text[from + i - 1]]
  <2> DEFINE V == STRING
             s == SubSeq(text, from, end)
  <2>1. \A i \in from..end : text[i] \in V
    BY <1>1, <1>3
  <2> HIDE DEF V
  <2>2. /\ SubSeq(text, from, end) \in Seq(V)
        /\ Len(SubSeq(text, from, end)) = IF from <= end THEN end - from + 1 ELSE 0
        /\ \A i \in 1..end - from + 1 : SubSeq(text, from, end)[i] = text[from + i - 1]
    BY <1>3, <2>1, SubSeqProperties
  <2> HIDE DEF s
  <2>3. s \in Seq(V) /\ Len(s) = n /\ \A i \in 1..n : s[i] = text[from + i - 1]
    BY <1>4, <2>2 DEF s, n
  <2>4. s = [i \in 1..n |-> s[i]]
    BY <2>3
  <2> QED
    BY <2>3, <2>4 DEF s, V
<1>8. SubSeq(text, from, end) = LinesAt(range, text)
  <2>1. \A i \in 1..n : o[i] = from + i - 1
    OBVIOUS
  <2> HIDE DEF o
  <2> QED
    BY <1>6, <1>7, <2>1 DEF LinesAt
<1> QED
  BY <1>1, <1>2, <1>7, <1>8 DEF range

-----------------------------------------------------------------------------
(* The reading of an archive *)

(* The archive that is read: one of those that may be given.                *)
Given ==
    IF status = "start" THEN archive \in Archives \cup {<<>>} /\ loaded = 0 /\ nodes = <<>>
    ELSE \/ status = "err" \/ archive = <<>>
         \/ \E entries \in Archives : archive = ZipObjects(entries)

Reading ==
    /\ Tree
    /\ loaded \in Nat
    /\ Given
    /\ LoadedArchivesAreWhole

LEMMA ReadingInit == BlocksInit => Reading
<1> SUFFICES ASSUME BlocksInit PROVE Reading
  OBVIOUS
<1>1. status = "start" /\ Init /\ loaded = 0 /\ archive \in Archives \cup {<<>>}
  BY DEF BlocksInit
<1> QED
  BY <1>1, TreeInit DEF Reading, Given, LoadedArchivesAreWhole, Init

LEMMA EntriesStay ==
    ASSUME UNCHANGED <<nodes, archive, loaded>>
    PROVE  /\ EntriesRead' = EntriesRead /\ FilePaths' = FilePaths
           /\ \A i : PathOf(i)' = PathOf(i)
<1>1. EntriesRead' = EntriesRead
  BY DEF EntriesRead
<1>2. FilePaths' = FilePaths
  BY DEF FilePaths
<1>3. \A i : PathOf(i)' = PathOf(i)
  BY DEF PathOf
<1> QED
  BY <1>1, <1>2, <1>3

LEMMA WholeStays ==
    ASSUME LoadedArchivesAreWhole, UNCHANGED <<nodes, archive, loaded>>,
           status \notin {"start", "err"}
    PROVE  LoadedArchivesAreWhole'
<1>1. CASE archive = <<>>
  BY <1>1 DEF LoadedArchivesAreWhole
<1>2. CASE archive # <<>>
  <2>1. /\ \A i \in EntriesRead : \E k \in DOMAIN nodes : nodes[k] = Node(PathOf(i), CreateFile(archive[i]))
        /\ \A i, j \in EntriesRead : PathOf(i) = PathOf(j) => i = j
        /\ FilePaths = {PathOf(i) : i \in EntriesRead}
    BY <1>2 DEF LoadedArchivesAreWhole
  <2> QED
    BY <2>1, EntriesStay DEF LoadedArchivesAreWhole
<1> QED
  BY <1>1, <1>2

LEMMA ReadingStaysSame ==
    ASSUME Reading, UNCHANGED <<nodes, archive, loaded>>,
           status' # "start",
           status \notin {"start", "err"} \/ archive = <<>> \/ status' = "err",
           archive = <<>> \/ status # "start" \/ status' = "err"
    PROVE  Reading'
<1>1. Tree'
  BY DEF Reading, Tree, FilesAreApart, TreeIsWellFormed, HasDirectory
<1>2. Given'
  BY DEF Reading, Given
<1>3. LoadedArchivesAreWhole'
  <2>1. CASE status \notin {"start", "err"}
    BY <2>1, WholeStays DEF Reading
  <2>2. CASE archive = <<>> \/ status' = "err"
    BY <2>2 DEF LoadedArchivesAreWhole
  <2> QED
    BY <2>1, <2>2
<1> QED
  BY <1>1, <1>2, <1>3 DEF Reading

LEMMA StartArchiveKeepsReading ==
    ASSUME Reading, StartArchive
    PROVE  Reading'
<1>1. /\ status = "start" /\ archive # <<>> /\ status' = "loading" /\ archive' = ZipObjects(archive)
      /\ nodes' = nodes /\ loaded' = loaded
  BY DEF StartArchive
<1>2. archive \in Archives /\ loaded = 0 /\ nodes = <<>>
  BY <1>1 DEF Reading, Given
<1>3. Tree'
  BY <1>1 DEF Reading, Tree, FilesAreApart, TreeIsWellFormed, HasDirectory
<1>4. Given'
  BY <1>1, <1>2 DEF Given
<1>5. LoadedArchivesAreWhole'
  <2>1. EntriesRead' = {}
    BY <1>1, <1>2 DEF EntriesRead
  <2>2. FilePaths' = {}
    BY <1>1, <1>2 DEF FilePaths
  <2> QED
    BY <2>1, <2>2 DEF LoadedArchivesAreWhole
<1> QED
  BY <1>1, <1>2, <1>3, <1>4, <1>5 DEF Reading

LEMMA EntriesOfArchive ==
    ASSUME Reading, status \notin {"start", "err"}, archive # <<>>
    PROVE  /\ archive \in Seq({archive[i] : i \in DOMAIN archive})
           /\ \A i \in DOMAIN archive : ~archive[i].dir => /\ AbsolutePath(archive[i].path) \in GivenPaths
                                                           /\ CreateFile(archive[i]) \in StoredFiles
<1>1. PICK entries \in Archives : archive = ZipObjects(entries)
  BY DEF Reading, Given
<1>2. ZipObjects(entries) \in Seq({ZipObjects(entries)[i] : i \in DOMAIN ZipObjects(entries)})
  BY ZipObjectsAre
<1> QED
  BY <1>1, <1>2, ArchivesAssumption

(* The entry that is read next. *)
LEMMA NextEntry ==
    ASSUME Reading, LoadEntry
    PROVE  /\ archive \in Seq({archive[i] : i \in DOMAIN archive})
           /\ loaded + 1 \in DOMAIN archive
           /\ ~archive[loaded + 1].dir => /\ AbsolutePath(archive[loaded + 1].path) \in GivenPaths
                                          /\ CreateFile(archive[loaded + 1]) \in StoredFiles
<1>1. status = "loading" /\ loaded < Len(archive) /\ loaded \in Nat
  BY DEF LoadEntry, Reading
<1>2. archive # <<>>
  BY <1>1
<1>3. archive \in Seq({archive[i] : i \in DOMAIN archive})
  BY <1>1, <1>2, EntriesOfArchive
<1>4. loaded + 1 \in DOMAIN archive
  BY <1>1, <1>3
<1> QED
  BY <1>1, <1>2, <1>3, <1>4, EntriesOfArchive

LEMMA LoadEntryKeepsReading ==
    ASSUME Reading, LoadEntry
    PROVE  Reading'
<1> DEFINE entry == archive[loaded + 1]
           path == AbsolutePath(entry.path)
           put == CreateFile(entry)
           parts == ProcessPath(path)
<1>1. /\ status = "loading" /\ loaded < Len(archive) /\ archive' = archive /\ loaded' = loaded + 1
      /\ status' = StatusAfter(entry)
      /\ IF entry.dir THEN nodes' = nodes ELSE PutFile(path, put)
  BY DEF LoadEntry, Counted
<1>2. loaded \in Nat /\ archive # <<>> /\ LoadedArchivesAreWhole /\ Tree
  BY <1>1, NextEntry DEF Reading
<1>3. status' \in {"loading", "err"}
  BY <1>1 DEF StatusAfter
<1>4. ~entry.dir => path \in GivenPaths /\ put \in StoredFiles
  BY NextEntry
<1>5. Tree'
  <2>1. CASE entry.dir
    BY <1>1, <2>1 DEF Reading, Tree, FilesAreApart, TreeIsWellFormed, HasDirectory
  <2>2. CASE ~entry.dir
    BY <1>1, <1>2, <1>4, <2>2, PutFileKeepsTree
  <2> QED
    BY <2>1, <2>2
<1>6. Given'
  BY <1>1, <1>3 DEF Reading, Given
<1>7. 1..loaded' = (1..loaded) \cup {loaded + 1} /\ loaded + 1 \notin 1..loaded
  BY <1>1, <1>2
<1>8. /\ \A i \in EntriesRead : \E k \in DOMAIN nodes : nodes[k] = Node(PathOf(i), CreateFile(archive[i]))
      /\ \A i, j \in EntriesRead : PathOf(i) = PathOf(j) => i = j
      /\ FilePaths = {PathOf(i) : i \in EntriesRead}
  BY <1>1, <1>2 DEF LoadedArchivesAreWhole
<1>9. \A i : PathOf(i)' = PathOf(i)
  BY <1>1 DEF PathOf
<1>10. PathOf(loaded + 1) = parts
  BY DEF PathOf
<1>11. CASE entry.dir
  <2>1. EntriesRead' = EntriesRead
    BY <1>1, <1>7, <1>11 DEF EntriesRead
  <2>2. nodes' = nodes /\ FilePaths' = FilePaths
    BY <1>1, <1>11 DEF FilePaths
  <2>3. LoadedArchivesAreWhole'
    BY <1>1, <1>8, <1>9, <2>1, <2>2 DEF LoadedArchivesAreWhole
  <2> QED
    BY <1>1, <1>2, <1>5, <1>6, <2>3 DEF Reading
<1>12. CASE ~entry.dir /\ status' = "err"
  BY <1>1, <1>2, <1>5, <1>6, <1>12 DEF Reading, LoadedArchivesAreWhole
<1>13. CASE ~entry.dir /\ status' # "err"
  <2>1. parts # Null /\ CanPut(parts, put)
    BY <1>1, <1>13 DEF StatusAfter, IsPut
  <2>2. parts \in Seq(STRING) /\ parts # <<>> /\ PutNode(parts, put) /\ put \in StoredFiles
    BY <1>1, <1>4, <1>13, <2>1, ProcessedPaths DEF PutFile, CanPut
  <2> HIDE DEF parts, put
  <2>3. /\ parts \notin FilePaths
        /\ FilePaths' = FilePaths \cup {parts}
    <3> DEFINE dirs == NewDirectories(parts)
    <3>1. /\ dirs \in Seq({dirs[k] : k \in DOMAIN dirs})
          /\ \A k \in DOMAIN dirs : dirs[k].file = Directory
      BY <2>2, NewDirectoriesAreDirectories
    <3>2. nodes' = (nodes \o dirs) \o <<Node(parts, put)>> /\ ~HasFile(parts)
      BY <2>1, <2>2 DEF PutNode, CanPut
    <3> HIDE DEF dirs
    <3> QED
      BY <1>2, <2>2, <3>1, <3>2, AddFile DEF Tree
  <2>4. PICK m \in Nat :
          /\ Len(nodes) \in Nat /\ DOMAIN nodes = 1..Len(nodes)
          /\ DOMAIN nodes' = 1..(Len(nodes) + m + 1)
          /\ \A i \in 1..Len(nodes) : nodes'[i] = nodes[i]
          /\ nodes'[Len(nodes) + m + 1] = Node(parts, put)
    BY <1>2, <2>1, <2>2, NodesAfterPut DEF Tree
  <2>5. /\ \A i \in DOMAIN nodes : i \in DOMAIN nodes' /\ nodes'[i] = nodes[i]
        /\ Len(nodes) + m + 1 \in DOMAIN nodes'
    BY <2>4
  <2>6. EntriesRead' = EntriesRead \cup {loaded + 1} /\ loaded + 1 \notin EntriesRead
    BY <1>1, <1>7, <1>13 DEF EntriesRead
  <2>7. ASSUME NEW i \in EntriesRead'
        PROVE  \E k \in DOMAIN nodes' : nodes'[k] = Node(PathOf(i), CreateFile(archive[i]))
    <3>1. CASE i \in EntriesRead
      BY <1>8, <2>5, <3>1
    <3>2. CASE i = loaded + 1
      BY <1>10, <2>4, <2>5, <3>2 DEF put
    <3> QED
      BY <2>6, <3>1, <3>2
  <2>8. \A i, j \in EntriesRead' : PathOf(i) = PathOf(j) => i = j
    BY <1>8, <1>10, <2>3, <2>6
  <2>9. FilePaths' = {PathOf(i) : i \in EntriesRead'}
    BY <1>8, <1>10, <2>3, <2>6
  <2>10. LoadedArchivesAreWhole'
    BY <1>1, <1>9, <2>7, <2>8, <2>9 DEF LoadedArchivesAreWhole
  <2> QED
    BY <1>1, <1>2, <1>5, <1>6, <2>10 DEF Reading
<1> QED
  BY <1>11, <1>12, <1>13

LEMMA ReadingNext == Reading /\ [BlocksNext]_vars => Reading'
<1> SUFFICES ASSUME Reading, [BlocksNext]_vars PROVE Reading'
  OBVIOUS
<1>1. CASE StartArchive
  BY <1>1, StartArchiveKeepsReading
<1>2. CASE LoadEntry
  BY <1>2, LoadEntryKeepsReading
<1>3. CASE FinishArchive
  BY <1>3, ReadingStaysSame DEF FinishArchive
<1>d. CASE FailToDecode
  BY <1>d, ReadingStaysSame DEF FailToDecode
<1>4. CASE PickFile
  <2>1. UNCHANGED <<nodes, archive, loaded>> /\ status = "loaded" /\ status' \in {"err", "file"}
    BY <1>4 DEF PickFile
  <2> QED
    BY <2>1, ReadingStaysSame
<1>5. CASE ExtractLocalFile
  <2>1. UNCHANGED <<nodes, archive, loaded>> /\ archive = <<>> /\ status' \in {"err", "file"}
    BY <1>5 DEF ExtractLocalFile
  <2> QED
    BY <2>1, ReadingStaysSame
<1>6. CASE InterpretText
  BY <1>6, ReadingStaysSame DEF InterpretText
<1>7. CASE DeleteLines
  <2>1. UNCHANGED <<nodes, archive, loaded>> /\ status = "text" /\ status' \in {"err", "text"}
    BY <1>7 DEF DeleteLines
  <2> QED
    BY <2>1, ReadingStaysSame
<1>8. CASE SelectLines
  <2>1. UNCHANGED <<nodes, archive, loaded>> /\ status = "text" /\ status' = "text"
    BY <1>8 DEF SelectLines
  <2> QED
    BY <2>1, ReadingStaysSame
<1>9. CASE UNCHANGED vars
  <2>1. UNCHANGED <<nodes, archive, loaded, status>>
    BY <1>9 DEF vars
  <2>2. Tree'
    BY <2>1 DEF Reading, Tree, FilesAreApart, TreeIsWellFormed, HasDirectory
  <2>3. Given'
    BY <2>1 DEF Reading, Given
  <2>4. LoadedArchivesAreWhole'
    <3>1. CASE status \notin {"start", "err"}
      BY <2>1, <3>1, WholeStays DEF Reading
    <3>2. CASE status \in {"start", "err"}
      BY <2>1, <3>2 DEF LoadedArchivesAreWhole
    <3> QED
      BY <3>1, <3>2
  <2> QED
    BY <2>1, <2>2, <2>3, <2>4 DEF Reading
<1> QED
  BY <1>1, <1>2, <1>3, <1>d, <1>4, <1>5, <1>6, <1>7, <1>8, <1>9 DEF BlocksNext

(* The conjuncts of NodesFollowEntries, for nodes and entries that stay. *)
LEMMA FollowingStays ==
    ASSUME NodesFollowEntries, status \notin {"start", "err"},
           UNCHANGED <<nodes, archive>>, EntriesRead' = EntriesRead
    PROVE  NodesFollowEntries'
<1>1. \A i : PathOf(i)' = PathOf(i)
  BY DEF PathOf
<1>2. CASE archive = <<>>
  BY <1>2 DEF NodesFollowEntries
<1>3. CASE archive # <<>>
  <2>1. /\ \A k \in DOMAIN nodes : nodes[k].file # Directory =>
               /\ nodes[k].path \in Seq(STRING) /\ nodes[k].path # <<>>
               /\ \E i \in EntriesRead : nodes[k] = Node(PathOf(i), CreateFile(archive[i]))
        /\ \A k, l \in DOMAIN nodes, i, j \in EntriesRead :
               /\ k < l
               /\ nodes[k].file # Directory /\ nodes[k].path = PathOf(i)
               /\ nodes[l].file # Directory /\ nodes[l].path = PathOf(j)
               => i < j
    BY <1>3 DEF NodesFollowEntries
  <2>2. /\ \A l \in DOMAIN nodes : nodes[l].file # Directory =>
               \A n \in 1..Len(nodes[l].path) - 1 :
                   \E k \in DOMAIN nodes :
                       /\ k < l
                       /\ nodes[k].path = Prefix(nodes[l].path, n) /\ nodes[k].file = Directory
        /\ \A k \in DOMAIN nodes : nodes[k].file = Directory =>
               \E l \in DOMAIN nodes :
                   /\ k < l /\ nodes[l].file # Directory
                   /\ IsInside(nodes[l].path, nodes[k].path)
                   /\ \A m \in k..(l - 1) : nodes[m].file = Directory
    BY <1>3 DEF NodesFollowEntries
  <2> QED
    BY <1>1, <2>1, <2>2 DEF NodesFollowEntries
<1> QED
  BY <1>2, <1>3

LEMMA LoadEntryKeepsFollowing ==
    ASSUME Reading, NodesFollowEntries, LoadEntry
    PROVE  NodesFollowEntries'
<1> DEFINE entry == archive[loaded + 1]
           path == AbsolutePath(entry.path)
           put == CreateFile(entry)
           parts == ProcessPath(path)
           n == Len(nodes)
           d == Depth(parts)
<1>1. /\ status = "loading" /\ loaded < Len(archive) /\ archive' = archive /\ loaded' = loaded + 1
      /\ status' = StatusAfter(entry)
      /\ IF entry.dir THEN nodes' = nodes ELSE PutFile(path, put)
  BY DEF LoadEntry, Counted
<1>2. loaded \in Nat /\ archive # <<>> /\ LoadedArchivesAreWhole /\ Tree
  BY <1>1, NextEntry DEF Reading
<1>3. 1..loaded' = (1..loaded) \cup {loaded + 1} /\ \A i \in 1..loaded : i < loaded + 1
  BY <1>1, <1>2
<1>4. CASE entry.dir
  <2>1. EntriesRead' = EntriesRead
    BY <1>1, <1>3, <1>4 DEF EntriesRead
  <2> QED
    BY <1>1, <1>4, <2>1, FollowingStays
<1>5. CASE ~entry.dir /\ status' = "err"
  BY <1>5 DEF NodesFollowEntries
<1>6. CASE ~entry.dir /\ status' # "err"
  <2>1. parts # Null /\ CanPut(parts, put)
    BY <1>1, <1>6 DEF StatusAfter, IsPut
  <2>2. /\ parts \in Seq(STRING) /\ parts # <<>> /\ PutNode(parts, put)
        /\ put \in StoredFiles /\ put # Directory
    <3>1. path \in GivenPaths /\ put \in StoredFiles
      BY <1>6, NextEntry
    <3> QED
      BY <1>1, <1>6, <2>1, <3>1, ProcessedPaths, DirectoryAssumption DEF PutFile, CanPut
  <2>3. /\ PathOf(loaded + 1) = parts /\ \A i : PathOf(i)' = PathOf(i)
        /\ CreateFile(archive[loaded + 1]) = put
    BY <1>1 DEF PathOf
  <2> HIDE DEF parts, put
  <2>4. PICK m \in Nat :
          /\ m = Len(parts) - 1 - d
          /\ n \in Nat /\ DOMAIN nodes = 1..n
          /\ DOMAIN nodes' = 1..(n + m + 1)
          /\ \A i \in 1..n : nodes'[i] = nodes[i]
          /\ \A k \in 1..m : nodes'[n + k] = Node(Prefix(parts, d + k), Directory)
          /\ nodes'[n + m + 1] = Node(parts, put)
    BY <1>2, <2>1, <2>2, NodesAfterPut DEF Tree
  <2>5. /\ d \in 0..Len(parts) - 1 /\ d + m = Len(parts) - 1 /\ Len(parts) \in Nat
        /\ \A k \in 1..d : HasDirectory(Prefix(parts, k))
    <3>1. /\ d \in 0..Len(parts) - 1
          /\ \A k \in 1..d : HasDirectory(Prefix(parts, k))
      BY <2>2, DepthOfDirectories
    <3> HIDE DEF d
    <3>2. Len(parts) \in Nat
      BY <2>2
    <3>3. m = Len(parts) - 1 - d /\ m \in Nat
      BY <2>4
    <3>4. d + m = Len(parts) - 1
      BY <3>1, <3>2, <3>3
    <3> QED
      BY <3>1, <3>2, <3>4
  <2> HIDE DEF n, d
  <2> DEFINE new == n + m + 1
  <2>6. /\ new \in DOMAIN nodes' /\ new \notin DOMAIN nodes /\ new \in Nat
        /\ \A i \in DOMAIN nodes : i \in DOMAIN nodes' /\ nodes'[i] = nodes[i] /\ i < new /\ i \in Nat
        /\ \A k \in 1..m : n + k \in DOMAIN nodes' /\ n + k < new /\ n + k \in Nat
        /\ \A k \in 1..m : nodes'[n + k].file = Directory /\ nodes'[n + k].path = Prefix(parts, d + k)
        /\ nodes'[new].file = put /\ nodes'[new].path = parts
    <3>1. \A k \in 1..m : n + k \in 1..(n + m + 1) /\ n + k < n + m + 1 /\ n + k \in Nat
      BY <2>4
    <3>2. new \in 1..(n + m + 1) /\ new \notin 1..n /\ new \in Nat
      BY <2>4
    <3>3. \A i \in 1..n : i \in 1..(n + m + 1) /\ i < new /\ i \in Nat
      BY <2>4
    <3>4. \A k \in 1..m : nodes'[n + k].file = Directory /\ nodes'[n + k].path = Prefix(parts, d + k)
      <4> SUFFICES ASSUME NEW k \in 1..m
                   PROVE  nodes'[n + k].file = Directory /\ nodes'[n + k].path = Prefix(parts, d + k)
        OBVIOUS
      <4>1. nodes'[n + k] = Node(Prefix(parts, d + k), Directory)
        BY <2>4
      <4> QED
        BY <4>1 DEF Node
    <3>5. nodes'[new].file = put /\ nodes'[new].path = parts
      BY <2>4 DEF Node
    <3> HIDE DEF new
    <3>6. \A i \in DOMAIN nodes : i \in DOMAIN nodes' /\ nodes'[i] = nodes[i] /\ i < new /\ i \in Nat
      <4>1. \A i \in 1..n : i \in 1..(n + m + 1)
        BY <2>4
      <4> QED
        BY <2>4, <3>3, <4>1
    <3>7. new \in DOMAIN nodes' /\ new \notin DOMAIN nodes
      BY <2>4, <3>2
    <3>8. \A k \in 1..m : n + k \in DOMAIN nodes' /\ n + k < new /\ n + k \in Nat
      BY <2>4, <3>1 DEF new
    <3> QED
      BY <3>2, <3>4, <3>5, <3>6, <3>7, <3>8
  <2>7. \A l \in DOMAIN nodes' : l \in DOMAIN nodes \/ (\E k \in 1..m : l = n + k) \/ l = new
    <3>1. \A l \in 1..(n + m + 1) : l \in 1..n \/ l = n + m + 1 \/ (l - n \in 1..m /\ l = n + (l - n))
      BY <2>4
    <3> QED
      BY <2>4, <3>1
  <2> HIDE DEF new
  <2>8. EntriesRead' = EntriesRead \cup {loaded + 1} /\ \A i \in EntriesRead : i < loaded + 1
    BY <1>1, <1>3, <1>6 DEF EntriesRead
  <2>9. \A l \in DOMAIN nodes' : nodes'[l].file # Directory => l \in DOMAIN nodes \/ l = new
    BY <2>6, <2>7
  <2>10. \A i \in EntriesRead : PathOf(i) # parts
    <3>1. \A i \in EntriesRead : PathOf(i) \in FilePaths
      BY <1>1, <1>2 DEF LoadedArchivesAreWhole
    <3>2. parts \notin FilePaths
      BY <2>1 DEF CanPut, HasFile, FilePaths
    <3> QED
      BY <3>1, <3>2
  <2>11. \A k \in DOMAIN nodes : nodes[k].file # Directory => nodes[k].path # parts
    BY <2>1 DEF CanPut, HasFile
  <2>12. /\ \A k \in DOMAIN nodes : nodes[k].file # Directory =>
                /\ nodes[k].path \in Seq(STRING) /\ nodes[k].path # <<>>
                /\ \E i \in EntriesRead : nodes[k] = Node(PathOf(i), CreateFile(archive[i]))
         /\ \A k, l \in DOMAIN nodes, i, j \in EntriesRead :
                /\ k < l
                /\ nodes[k].file # Directory /\ nodes[k].path = PathOf(i)
                /\ nodes[l].file # Directory /\ nodes[l].path = PathOf(j)
                => i < j
         /\ \A l \in DOMAIN nodes : nodes[l].file # Directory =>
                \A k \in 1..Len(nodes[l].path) - 1 :
                    \E e \in DOMAIN nodes :
                        /\ e < l
                        /\ nodes[e].path = Prefix(nodes[l].path, k) /\ nodes[e].file = Directory
         /\ \A k \in DOMAIN nodes : nodes[k].file = Directory =>
                \E l \in DOMAIN nodes :
                    /\ k < l /\ nodes[l].file # Directory
                    /\ IsInside(nodes[l].path, nodes[k].path)
                    /\ \A e \in k..(l - 1) : nodes[e].file = Directory
    BY <1>1, <1>2 DEF NodesFollowEntries
  <2>13. ASSUME NEW k \in DOMAIN nodes', nodes'[k].file # Directory
         PROVE  /\ nodes'[k].path \in Seq(STRING) /\ nodes'[k].path # <<>>
                /\ \E i \in EntriesRead' : nodes'[k] = Node(PathOf(i), CreateFile(archive[i]))
    <3>1. CASE k \in DOMAIN nodes
      BY <2>6, <2>8, <2>12, <2>13, <3>1
    <3>2. CASE k = new
      <4>1. nodes'[k].path \in Seq(STRING) /\ nodes'[k].path # <<>>
        BY <2>2, <2>6, <3>2
      <4>2. nodes'[k] = Node(PathOf(loaded + 1), CreateFile(archive[loaded + 1]))
        BY <2>3, <2>4, <3>2 DEF new
      <4> QED
        BY <2>8, <4>1, <4>2
    <3> QED
      BY <2>9, <2>13, <3>1, <3>2
  <2>14. ASSUME NEW k \in DOMAIN nodes', NEW l \in DOMAIN nodes',
                NEW i \in EntriesRead', NEW j \in EntriesRead', k < l,
                nodes'[k].file # Directory, nodes'[k].path = PathOf(i),
                nodes'[l].file # Directory, nodes'[l].path = PathOf(j)
         PROVE  i < j
    <3>1. k \in DOMAIN nodes
      BY <2>6, <2>9, <2>14
    <3>2. i \in EntriesRead
      BY <2>3, <2>6, <2>8, <2>11, <2>14, <3>1
    <3>3. CASE l \in DOMAIN nodes
      <4>1. j \in EntriesRead
        BY <2>3, <2>6, <2>8, <2>11, <2>14, <3>3
      <4> QED
        BY <2>6, <2>12, <2>14, <3>1, <3>2, <3>3, <4>1
    <3>4. CASE l = new
      BY <2>3, <2>6, <2>8, <2>10, <2>14, <3>2, <3>4
    <3> QED
      BY <2>9, <2>14, <3>3, <3>4
  <2>15. ASSUME NEW l \in DOMAIN nodes', nodes'[l].file # Directory,
                NEW k \in 1..Len(nodes'[l].path) - 1
         PROVE  \E e \in DOMAIN nodes' :
                    /\ e < l
                    /\ nodes'[e].path = Prefix(nodes'[l].path, k) /\ nodes'[e].file = Directory
    <3>1. CASE l \in DOMAIN nodes
      <4>1. nodes'[l] = nodes[l]
        BY <2>6, <3>1
      <4>2. nodes[l].file # Directory /\ k \in 1..Len(nodes[l].path) - 1
        BY <2>15, <4>1
      <4>3. PICK e \in DOMAIN nodes :
              e < l /\ nodes[e].path = Prefix(nodes[l].path, k) /\ nodes[e].file = Directory
        BY <2>12, <3>1, <4>2
      <4> QED
        BY <2>6, <4>1, <4>3
    <3>2. CASE l = new
      <4>1. k \in 1..Len(parts) - 1
        BY <2>6, <2>15, <3>2
      <4>2. CASE k <= d
        <5>1. k \in 1..d /\ k \in 0..Len(parts)
          BY <2>5, <4>1, <4>2
        <5>2. Prefix(parts, k) # <<>>
          <6>1. Len(Prefix(parts, k)) = k /\ k # 0
            BY <2>2, <5>1, PrefixType
          <6> QED
            BY <6>1
        <5>3. PICK e \in DOMAIN nodes : nodes[e].path = Prefix(parts, k) /\ nodes[e].file = Directory
          BY <2>5, <5>1, <5>2 DEF HasDirectory
        <5> QED
          BY <2>6, <3>2, <5>3
      <4>3. CASE ~(k <= d)
        <5>1. k - d \in 1..m /\ d + (k - d) = k
          BY <2>5, <4>1, <4>3
        <5>2. nodes'[n + (k - d)].path = Prefix(parts, k) /\ nodes'[n + (k - d)].file = Directory
          BY <2>6, <5>1
        <5> QED
          BY <2>6, <3>2, <5>1, <5>2
      <4> QED
        BY <4>2, <4>3
    <3> QED
      BY <2>9, <2>15, <3>1, <3>2
  <2>16. ASSUME NEW k \in DOMAIN nodes', nodes'[k].file = Directory
         PROVE  \E l \in DOMAIN nodes' :
                    /\ k < l /\ nodes'[l].file # Directory
                    /\ IsInside(nodes'[l].path, nodes'[k].path)
                    /\ \A e \in k..(l - 1) : nodes'[e].file = Directory
    <3>1. CASE k \in DOMAIN nodes
      <4>1. PICK l \in DOMAIN nodes :
              /\ k < l /\ nodes[l].file # Directory
              /\ IsInside(nodes[l].path, nodes[k].path)
              /\ \A e \in k..(l - 1) : nodes[e].file = Directory
        BY <2>6, <2>12, <2>16, <3>1
      <4>2. \A e \in k..(l - 1) : e \in DOMAIN nodes
        BY <2>4, <3>1
      <4> QED
        BY <2>6, <3>1, <4>1, <4>2
    <3>2. CASE \E h \in 1..m : k = n + h
      <4>1. PICK h \in 1..m : k = n + h
        BY <3>2
      <4>2. d + h \in 0..Len(parts) /\ d + h < Len(parts)
        BY <2>5, <4>1
      <4>3. IsInside(parts, Prefix(parts, d + h))
        <5>1. Len(Prefix(parts, d + h)) = d + h
          BY <2>2, <4>2, PrefixType
        <5> QED
          BY <2>5, <4>2, <5>1 DEF IsInside
      <4>4. \A e \in k..(new - 1) : e - n \in 1..m /\ e = n + (e - n)
        BY <2>4, <4>1 DEF new
      <4>5. \A e \in k..(new - 1) : nodes'[e].file = Directory
        BY <2>6, <4>4
      <4> QED
        BY <2>2, <2>6, <4>1, <4>3, <4>5
    <3>3. k # new
      BY <2>2, <2>6, <2>16
    <3> QED
      BY <2>7, <3>1, <3>2, <3>3
  <2> QED
    BY <1>1, <2>3, <2>13, <2>14, <2>15, <2>16 DEF NodesFollowEntries
<1> QED
  BY <1>4, <1>5, <1>6

LEMMA FollowingNext ==
    Reading /\ NodesFollowEntries /\ [BlocksNext]_vars => NodesFollowEntries'
<1> SUFFICES ASSUME Reading, NodesFollowEntries, [BlocksNext]_vars PROVE NodesFollowEntries'
  OBVIOUS
<1>1. CASE StartArchive
  <2>1. nodes' = <<>>
    BY <1>1 DEF StartArchive, Reading, Given
  <2> QED
    BY <2>1 DEF NodesFollowEntries
<1>2. CASE LoadEntry
  BY <1>2, LoadEntryKeepsFollowing
<1>3. CASE ~StartArchive /\ ~LoadEntry
  <2>1. UNCHANGED <<nodes, archive, loaded>>
    BY <1>3 DEF BlocksNext, vars, FinishArchive, FailToDecode, PickFile, ExtractLocalFile,
                InterpretText, DeleteLines, SelectLines
  <2>2. EntriesRead' = EntriesRead
    BY <2>1, EntriesStay
  <2>3. \/ status' \in {"start", "err"} \/ archive' = <<>>
        \/ status \notin {"start", "err"}
    BY <1>3 DEF BlocksNext, vars, FinishArchive, FailToDecode, PickFile, ExtractLocalFile,
                InterpretText, DeleteLines, SelectLines
  <2>4. CASE status' \in {"start", "err"} \/ archive' = <<>>
    BY <2>4 DEF NodesFollowEntries
  <2>5. CASE status \notin {"start", "err"}
    BY <2>1, <2>2, <2>5, FollowingStays
  <2> QED
    BY <2>3, <2>4, <2>5
<1> QED
  BY <1>1, <1>2, <1>3

LEMMA PickingFollowsLoadingNext ==
    Reading /\ PickingFollowsLoading /\ [BlocksNext]_vars => PickingFollowsLoading'
<1> SUFFICES ASSUME Reading, PickingFollowsLoading, [BlocksNext]_vars PROVE PickingFollowsLoading'
  OBVIOUS
<1>1. CASE StartArchive
  <2>1. archive \in Archives /\ archive # <<>>
    BY <1>1 DEF StartArchive, Reading, Given
  <2>2. ZipObjects(archive) # <<>>
    BY <2>1, ZipObjectsAre
  <2>3. Len(ZipObjects(archive)) \in Nat
    <3>1. ZipObjects(archive) \in Seq({ZipObjects(archive)[i] : i \in DOMAIN ZipObjects(archive)})
      BY <2>1, ZipObjectsAre
    <3> QED
      BY <3>1
  <2>4. loaded = 0
    BY <1>1 DEF StartArchive, Reading, Given
  <2> QED
    BY <1>1, <2>2, <2>3, <2>4 DEF StartArchive, PickingFollowsLoading
<1>2. CASE LoadEntry
  <2>1. Len(archive) \in Nat /\ loaded \in Nat
    BY <1>2, NextEntry DEF Reading
  <2> QED
    BY <1>2, <2>1 DEF LoadEntry, Counted, StatusAfter, PickingFollowsLoading
<1>3. CASE FinishArchive
  BY <1>3 DEF FinishArchive, PickingFollowsLoading
<1>4. CASE \/ FailToDecode \/ PickFile \/ ExtractLocalFile
           \/ InterpretText \/ DeleteLines \/ SelectLines
  <2>1. status' \notin {"start", "loading", "loaded"}
    BY <1>4 DEF FailToDecode, PickFile, ExtractLocalFile, InterpretText, DeleteLines, SelectLines
  <2> QED
    BY <2>1 DEF PickingFollowsLoading
<1>5. CASE UNCHANGED vars
  BY <1>5 DEF vars, PickingFollowsLoading
<1> QED
  BY <1>1, <1>2, <1>3, <1>4, <1>5 DEF BlocksNext

(* The picker takes the first node of the path.                             *)
LEMMA GetFileIsFirst ==
    ASSUME NEW path, ProcessPath(path) # Null, DOMAIN nodes \subseteq Nat,
           NEW h \in DOMAIN nodes, nodes[h].path = ProcessPath(path),
           \A k \in DOMAIN nodes : nodes[k].path = ProcessPath(path) => h <= k
    PROVE  GetFile(path) = IF nodes[h].file = Directory THEN Null ELSE nodes[h].file
<1> DEFINE found == {k \in DOMAIN nodes : nodes[k].path = ProcessPath(path)}
<1>1. h \in found /\ \A k \in found : h <= k /\ k \in Nat
  OBVIOUS
<1>2. (CHOOSE i \in found : \A j \in found : i <= j) = h
  <2> HIDE DEF found
  <2>1. \A i \in found : (\A j \in found : i <= j) => i = h
    BY <1>1
  <2> QED
    BY <1>1, <2>1
<1> QED
  BY <1>1, <1>2 DEF GetFile

(* What the picker finds: the first node of the path is a file exactly if   *)
(* the archive has an entry there, and none before it inside a directory of *)
(* the same path.                                                           *)
LEMMA PickFileTakesTheEntry ==
    ASSUME Reading, NodesFollowEntries, PickingFollowsLoading, status = "loaded", NEW path
    PROVE  LET parts  == ProcessPath(path)
               there  == {i \in EntriesRead : PathOf(i) = parts}
               inside == {i \in EntriesRead : IsInside(PathOf(i), parts)}
           IN  IF parts = Null \/ there = {} \/ \E i \in there, j \in inside : j < i
               THEN GetFile(path) = Null
               ELSE /\ GetFile(path) # Null
                    /\ \E i \in there : GetFile(path) = CreateFile(archive[i])
<1> DEFINE parts == ProcessPath(path)
           there == {i \in EntriesRead : PathOf(i) = parts}
           inside == {i \in EntriesRead : IsInside(PathOf(i), parts)}
           At(k) == k \in DOMAIN nodes /\ nodes[k].path = parts
           IsFile(k) == nodes[k].file # Directory
<1>0. archive # <<>> /\ loaded <= Len(archive) /\ loaded \in Nat
  BY DEF PickingFollowsLoading, Reading
<1>1. /\ FilesAreApart /\ DOMAIN nodes \subseteq Nat
      /\ \A i \in EntriesRead : \E k \in DOMAIN nodes : nodes[k] = Node(PathOf(i), CreateFile(archive[i]))
  <2>1. nodes \in Seq({nodes[i] : i \in DOMAIN nodes}) /\ FilesAreApart
    BY DEF Reading, Tree, FilesAreApart
  <2>2. DOMAIN nodes \subseteq Nat
    BY <2>1
  <2> QED
    BY <1>0, <2>1, <2>2 DEF Reading, LoadedArchivesAreWhole
<1>2. /\ \A k \in DOMAIN nodes : nodes[k].file # Directory =>
             /\ nodes[k].path \in Seq(STRING) /\ nodes[k].path # <<>>
             /\ \E i \in EntriesRead : nodes[k] = Node(PathOf(i), CreateFile(archive[i]))
      /\ \A k, l \in DOMAIN nodes, i, j \in EntriesRead :
             /\ k < l
             /\ nodes[k].file # Directory /\ nodes[k].path = PathOf(i)
             /\ nodes[l].file # Directory /\ nodes[l].path = PathOf(j)
             => i < j
      /\ \A l \in DOMAIN nodes : nodes[l].file # Directory =>
             \A k \in 1..Len(nodes[l].path) - 1 :
                 \E e \in DOMAIN nodes :
                     /\ e < l
                     /\ nodes[e].path = Prefix(nodes[l].path, k) /\ nodes[e].file = Directory
      /\ \A k \in DOMAIN nodes : nodes[k].file = Directory =>
             \E l \in DOMAIN nodes :
                 /\ k < l /\ nodes[l].file # Directory
                 /\ IsInside(nodes[l].path, nodes[k].path)
                 /\ \A e \in k..(l - 1) : nodes[e].file = Directory
  BY <1>0 DEF NodesFollowEntries
<1>3. EntriesRead \subseteq Int /\ \A i \in EntriesRead : i \in DOMAIN archive /\ ~archive[i].dir
  <2>1. archive \in Seq({archive[i] : i \in DOMAIN archive})
    BY <1>0, EntriesOfArchive
  <2>2. \A i \in 1..loaded : i \in DOMAIN archive /\ i \in Int
    BY <1>0, <2>1
  <2> QED
    BY <2>2 DEF EntriesRead
<1>4. \A i \in EntriesRead : CreateFile(archive[i]) \in StoredFiles
  BY <1>0, <1>3, EntriesOfArchive
<1>5. \A i \in EntriesRead : \E k \in DOMAIN nodes :
          /\ nodes[k].path = PathOf(i) /\ nodes[k].file = CreateFile(archive[i])
          /\ nodes[k].file # Directory /\ nodes[k].file # Null
  <2> SUFFICES ASSUME NEW i \in EntriesRead
               PROVE  \E k \in DOMAIN nodes :
                          /\ nodes[k].path = PathOf(i) /\ nodes[k].file = CreateFile(archive[i])
                          /\ nodes[k].file # Directory /\ nodes[k].file # Null
    OBVIOUS
  <2>1. PICK k \in DOMAIN nodes : nodes[k] = Node(PathOf(i), CreateFile(archive[i]))
    BY <1>1
  <2>2. nodes[k].path = PathOf(i) /\ nodes[k].file = CreateFile(archive[i])
    BY <2>1 DEF Node
  <2> QED
    BY <1>4, <2>2, DirectoryAssumption
<1>6. ASSUME NEW k \in DOMAIN nodes, NEW l \in DOMAIN nodes, nodes[k].path = nodes[l].path,
             nodes[k].file # Directory, nodes[l].file # Directory
      PROVE  k = l
  BY <1>1, <1>6 DEF FilesAreApart
<1>7. ASSUME parts # Null, NEW h \in DOMAIN nodes, nodes[h].path = parts,
             \A k \in DOMAIN nodes : nodes[k].path = parts => h <= k
      PROVE  GetFile(path) = IF nodes[h].file = Directory THEN Null ELSE nodes[h].file
  BY <1>1, <1>7, GetFileIsFirst
<1>8. CASE \A k \in DOMAIN nodes : nodes[k].path # parts
  <2>1. there = {}
    BY <1>5, <1>8
  <2>2. GetFile(path) = Null
    BY <1>8 DEF GetFile
  <2> QED
    BY <2>1, <2>2
<1>9. CASE parts = Null
  BY <1>9 DEF GetFile
<1>10. CASE parts # Null /\ \E k \in DOMAIN nodes : nodes[k].path = parts
  <2>1. PICK h \in DOMAIN nodes :
          nodes[h].path = parts /\ \A k \in DOMAIN nodes : nodes[k].path = parts => h <= k
    <3> DEFINE found == {k \in DOMAIN nodes : nodes[k].path = parts}
    <3>1. found \subseteq Nat /\ found # {}
      BY <1>1, <1>10
    <3> HIDE DEF found
    <3>2. PICK h \in found : \A k \in found : h <= k
      BY <3>1, FirstPosition
    <3> QED
      BY <3>2 DEF found
  <2>2. GetFile(path) = IF nodes[h].file = Directory THEN Null ELSE nodes[h].file
    BY <1>7, <1>10, <2>1
  <2>3. CASE nodes[h].file = Directory
    <3>1. GetFile(path) = Null
      BY <2>2, <2>3
    <3>2. ASSUME there # {}
          PROVE  \E i \in there, j \in inside : j < i
      <4>1. PICK i \in EntriesRead : PathOf(i) = parts
        BY <3>2
      <4>2. PICK f \in DOMAIN nodes : nodes[f].path = parts /\ nodes[f].file # Directory
        BY <1>5, <4>1
      <4>3. PICK l \in DOMAIN nodes :
              /\ h < l /\ nodes[l].file # Directory
              /\ IsInside(nodes[l].path, parts)
              /\ \A e \in h..(l - 1) : nodes[e].file = Directory
        BY <1>2, <2>1, <2>3
      <4>4. l < f
        <5>1. h <= f
          BY <2>1, <4>2
        <5>2. nodes[l].path # parts
          <6>1. nodes[l].path \in Seq(STRING)
            BY <1>2, <4>3
          <6>2. Len(nodes[l].path) > Len(parts)
            BY <4>3 DEF IsInside
          <6> QED
            BY <6>1, <6>2
        <5>3. f # l
          BY <4>2, <5>2
        <5>4. f \notin h..(l - 1)
          BY <4>2, <4>3
        <5>5. h \in Nat /\ f \in Nat /\ l \in Nat
          BY <1>1
        <5> QED
          BY <5>1, <5>3, <5>4, <5>5
      <4>5. PICK j \in EntriesRead : nodes[l] = Node(PathOf(j), CreateFile(archive[j]))
        BY <1>2, <4>3
      <4>6. nodes[l].path = PathOf(j)
        BY <4>5 DEF Node
      <4>7. j < i
        BY <1>2, <4>1, <4>2, <4>3, <4>4, <4>6
      <4> QED
        BY <4>1, <4>3, <4>6, <4>7
    <3> QED
      BY <3>1, <3>2
  <2>4. CASE nodes[h].file # Directory
    <3>1. PICK i \in EntriesRead : nodes[h] = Node(PathOf(i), CreateFile(archive[i]))
      BY <1>2, <2>4
    <3>2. PathOf(i) = parts /\ nodes[h].file = CreateFile(archive[i])
      BY <2>1, <3>1 DEF Node
    <3>3. GetFile(path) = CreateFile(archive[i]) /\ GetFile(path) # Null
      BY <1>4, <2>2, <2>4, <3>2, DirectoryAssumption
    <3>4. ASSUME NEW e \in there, NEW j \in inside, j < e
          PROVE  FALSE
      <4>1. PathOf(e) = parts /\ e \in EntriesRead /\ j \in EntriesRead /\ IsInside(PathOf(j), parts)
        BY <3>4
      <4>2. PICK g \in DOMAIN nodes : nodes[g].path = PathOf(j) /\ nodes[g].file # Directory
        BY <1>5, <4>1
      <4>3. parts \in Seq(STRING) /\ parts # <<>> /\ PathOf(j) \in Seq(STRING)
        BY <1>2, <2>1, <2>4, <4>2
      <4>4. Len(parts) \in 1..Len(PathOf(j)) - 1 /\ Prefix(PathOf(j), Len(parts)) = parts
        BY <4>1, <4>3 DEF IsInside
      <4>5. PICK k \in DOMAIN nodes : k < g /\ nodes[k].path = parts
        BY <1>2, <4>2, <4>4
      <4>6. h <= k
        BY <2>1, <4>5
      <4>7. h < g
        BY <1>1, <4>5, <4>6
      <4>8. e < j
        BY <1>2, <2>1, <2>4, <4>1, <4>2, <4>7
      <4> QED
        BY <1>3, <3>4, <4>1, <4>8
    <3>5. i \in there
      BY <3>2
    <3> QED
      BY <1>10, <3>3, <3>4, <3>5, <3>2
  <2> QED
    BY <2>3, <2>4
<1> QED
  BY <1>8, <1>9, <1>10

LEMMA PickingInit == BlocksInit => NodesFollowEntries /\ PickingFollowsLoading /\ PicksTheEntry
BY DEF BlocksInit, NodesFollowEntries, PickingFollowsLoading, PicksTheEntry

LEMMA LastBlock ==
    /\ FailToDecode => last'.block = "undecodable"
    /\ PickFile => last'.block = "FilePicker"
    /\ ExtractLocalFile => last'.block = "LocalFileExtractor"
    /\ InterpretText => last'.block = "TextFileInterpreter"
    /\ DeleteLines => last'.block = "TextLineDeleter"
    /\ SelectLines => last'.block = "TextRangeSelector"
<1>1. \A result, block, properties : Gives(result, block, properties) => last'.block = block
  BY DEF Gives
<1>2. PickFile => last'.block = "FilePicker"
  BY <1>1 DEF PickFile
<1>3. ExtractLocalFile => last'.block = "LocalFileExtractor"
  BY <1>1 DEF ExtractLocalFile
<1>4. InterpretText => last'.block = "TextFileInterpreter"
  BY <1>1 DEF InterpretText
<1>5. DeleteLines => last'.block = "TextLineDeleter"
  BY <1>1, Zenon DEF DeleteLines
<1>6. SelectLines => last'.block = "TextRangeSelector"
  BY <1>1 DEF SelectLines
<1>7. FailToDecode => last'.block = "undecodable"
  BY DEF FailToDecode
<1> QED
  BY <1>2, <1>3, <1>4, <1>5, <1>6, <1>7

LEMMA PicksTheEntryNext ==
    Reading /\ NodesFollowEntries /\ PickingFollowsLoading /\ PicksTheEntry /\ [BlocksNext]_vars
        => PicksTheEntry'
<1> SUFFICES ASSUME Reading, NodesFollowEntries, PickingFollowsLoading, PicksTheEntry,
                    [BlocksNext]_vars
             PROVE  PicksTheEntry'
  OBVIOUS
<1>1. CASE StartArchive \/ FinishArchive
  <2>1. status' \notin {"file", "err"}
    BY <1>1 DEF StartArchive, FinishArchive
  <2> QED
    BY <2>1 DEF PicksTheEntry
<1>2. CASE LoadEntry
  <2>1. last'.block # "FilePicker"
    BY <1>2 DEF LoadEntry, PickingFollowsLoading
  <2> QED
    BY <2>1 DEF PicksTheEntry
<1>3. CASE PickFile
  <2>1. PICK path \in Picks :
          /\ file' = GetFile(path)
          /\ last' = [block |-> "FilePicker", properties |-> path, input |-> file]
          /\ status' = IF GetFile(path) = Null THEN "err" ELSE "file"
    BY <1>3 DEF PickFile, Gives
  <2>2. status = "loaded" /\ UNCHANGED <<nodes, archive, loaded>>
    BY <1>3 DEF PickFile
  <2>3. EntriesRead' = EntriesRead /\ \A i : PathOf(i)' = PathOf(i)
    BY <2>2, EntriesStay
  <2>4. last'.properties = path
    BY <2>1
  <2> DEFINE there == {i \in EntriesRead : PathOf(i) = ProcessPath(path)}
             inside == {i \in EntriesRead : IsInside(PathOf(i), ProcessPath(path))}
             hidden == \/ ProcessPath(path) = Null
                       \/ there = {}
                       \/ \E i \in there, j \in inside : j < i
  <2>5. IF hidden THEN GetFile(path) = Null
        ELSE GetFile(path) # Null /\ \E i \in there : GetFile(path) = CreateFile(archive[i])
    BY <2>2, PickFileTakesTheEntry
  <2>6. IF hidden THEN status' = "err"
        ELSE status' = "file" /\ \E i \in there : file' = CreateFile(archive'[i])
    <3> HIDE DEF hidden, there
    <3> QED
      BY <2>1, <2>2, <2>5
  <2> QED
    BY <2>3, <2>4, <2>6 DEF PicksTheEntry
<1>4. CASE FailToDecode \/ ExtractLocalFile \/ InterpretText \/ DeleteLines \/ SelectLines
  <2>1. last'.block \in {"undecodable", "LocalFileExtractor", "TextFileInterpreter",
                         "TextLineDeleter", "TextRangeSelector"}
    BY <1>4, LastBlock
  <2> QED
    BY <2>1 DEF PicksTheEntry
<1>5. CASE UNCHANGED vars
  <2>1. UNCHANGED <<nodes, archive, loaded, status, file, last>>
    BY <1>5 DEF vars
  <2>2. EntriesRead' = EntriesRead /\ \A i : PathOf(i)' = PathOf(i)
    BY <2>1, EntriesStay
  <2> QED
    BY <2>1, <2>2 DEF PicksTheEntry
<1> QED
  BY <1>1, <1>2, <1>3, <1>4, <1>5 DEF BlocksNext

(* Reading an archive entry by entry gives a tree with exactly its files,   *)
(* each at its path and with its name and content, unless it fails: no      *)
(* entry is lost or takes the place of another.  The picker then gives the  *)
(* file of a path, unless there is none or a directory came before it.      *)
THEOREM ArchivesAreReadWholeHolds == BlocksSpec => []ArchivesAreReadWhole
<1> DEFINE Picking == Reading /\ NodesFollowEntries /\ PickingFollowsLoading /\ PicksTheEntry
<1>1. BlocksInit => Picking
  BY ReadingInit, PickingInit
<1>2. Picking /\ [BlocksNext]_vars => Picking'
  BY ReadingNext, FollowingNext, PickingFollowsLoadingNext, PicksTheEntryNext
<1>3. Picking => ArchivesAreReadWhole
  BY DEF Reading, Tree, ArchivesAreReadWhole
<1> QED
  BY <1>1, <1>2, <1>3, PTL DEF BlocksSpec

-----------------------------------------------------------------------------
(* Why reading fails, and the blocks on texts *)

LEMMA ArchiveEntries ==
    ASSUME Reading, status \notin {"start", "err"}, archive # <<>>
    PROVE  /\ \A k, l \in DOMAIN archive : archive[k].path = archive[l].path => k = l
           /\ \A k \in DOMAIN archive : ~archive[k].dir =>
                  /\ OnlyNames(archive[k].path) /\ archive[k].path # <<>>
                  /\ archive[k].content \in Seq(STRING) /\ archive[k].content # <<>>
<1>1. PICK entries \in Archives : archive = ZipObjects(entries)
  BY DEF Reading, Given
<1>2. /\ \A k, l \in DOMAIN archive : archive[k].path = archive[l].path => k = l
      /\ \A k \in DOMAIN archive : \E e \in DOMAIN entries :
             /\ entries[e] \in ZipEntry
             /\ archive[k] = Renamed(entries[e], SafeName(entries[e].path))
  BY <1>1, ZipObjectsAre
<1>3. ASSUME NEW k \in DOMAIN archive, ~archive[k].dir
      PROVE  /\ OnlyNames(archive[k].path) /\ archive[k].path # <<>>
             /\ archive[k].content \in Seq(STRING) /\ archive[k].content # <<>>
  <2>1. PICK e \in DOMAIN entries :
          /\ entries[e] \in ZipEntry
          /\ archive[k] = Renamed(entries[e], SafeName(entries[e].path))
    BY <1>2
  <2> DEFINE entry == entries[e]
  <2> HIDE DEF entry
  <2>2. entry \in ZipEntry /\ archive[k] = Renamed(entry, SafeName(entry.path))
    BY <2>1 DEF entry
  <2>3. /\ archive[k].path = SafeName(entry.path) /\ archive[k].dir = entry.dir
        /\ ~entry.dir => archive[k].content = entry.content
    BY <2>2, RenamedEntries
  <2>4. /\ entry.path \in Seq(STRING) /\ entry.path # <<>>
        /\ entry.path[Len(entry.path)] # Empty \/ Len(entry.path) = 1
        /\ entry.content \in Seq(STRING) /\ entry.content # <<>>
    BY <1>3, <2>2, <2>3, FileEntries
  <2>5. OnlyNames(SafeName(entry.path)) /\ SafeName(entry.path) # <<>>
    BY <2>4, SafeNamesAreClean
  <2> QED
    BY <1>3, <2>3, <2>4, <2>5
<1> QED
  BY <1>2, <1>3

(* The path at which an entry is put. *)
LEMMA PathsOfEntries ==
    ASSUME Reading, status \notin {"start", "err"}, archive # <<>>, NEW k \in DOMAIN archive, ~archive[k].dir
    PROVE  PathOf(k) = NamesOf(archive[k].path)
<1> DEFINE path == archive[k].path
<1>1. OnlyNames(path) /\ path # <<>> /\ AbsolutePath(path) \in GivenPaths
  BY ArchiveEntries, EntriesOfArchive
<1>2. /\ NamesOf(path) \in Seq(PlainName)
      /\ path = NamesOf(path) \/ path = <<Empty>> \o NamesOf(path)
  BY <1>1, CleanPaths
<1>3. AbsolutePath(path) = <<Empty>> \o path
  BY Zenon DEF AbsolutePath, Empty
<1> HIDE DEF path
<1>4. ProcessPath(AbsolutePath(path)) = NamesOf(path)
  BY <1>1, <1>2, <1>3, PlainPathsStay
<1> QED
  BY <1>4 DEF PathOf, path

FailsOnClash(path) ==
    \/ \E i \in EntriesRead : archive[i].path = <<Empty>> \o path \/ path = <<Empty>> \o archive[i].path
    \/ path = <<Empty>>

LEMMA LoadEntryFailsOnClashes ==
    ASSUME Reading, NodesFollowEntries, PickingFollowsLoading, LoadEntry, status' = "err"
    PROVE  FailsOnClash(archive[loaded + 1].path)
<1> DEFINE entry == archive[loaded + 1]
           path == entry.path
           names == NamesOf(path)
           put == CreateFile(entry)
<1>1. status = "loading" /\ loaded < Len(archive) /\ loaded \in Nat /\ archive # <<>> /\ status' = StatusAfter(entry)
  BY DEF LoadEntry, Reading, PickingFollowsLoading
<1>2. loaded + 1 \in DOMAIN archive
  BY NextEntry
<1>3. ~entry.dir /\ ~IsPut(AbsolutePath(path), put)
  BY <1>1 DEF StatusAfter
<1>4. OnlyNames(path) /\ path # <<>>
  BY <1>1, <1>2, <1>3, ArchiveEntries
<1>5. ProcessPath(AbsolutePath(path)) = names
  BY <1>1, <1>2, <1>3, PathsOfEntries DEF PathOf
<1>6. /\ names \in Seq(PlainName)
      /\ path = names \/ path = <<Empty>> \o names
      /\ names = <<>> => path = <<Empty>>
      /\ names # <<>> => BaseName(path) = names[Len(names)]
  BY <1>4, CleanPaths
<1>7. put.name = BaseName(path)
  BY DEF CreateFile
<1>8. names # Null
  <2>1. \A i \in 1..Len(names) : names[i] \in STRING
    BY <1>6, PlainNames
  <2>2. names \in Seq(STRING)
    BY <1>6, <2>1, ListsInto
  <2> QED
    BY <2>2, PathAssumption
<1>9. ~CanPut(names, put)
  BY <1>3, <1>5, <1>8 DEF IsPut
<1> HIDE DEF names, put
<1>10. CASE names = <<>>
  BY <1>6, <1>10 DEF FailsOnClash
<1>11. CASE names # <<>>
  <2>1. HasFile(names)
    BY <1>6, <1>7, <1>9, <1>11 DEF CanPut
  <2>2. PICK k \in DOMAIN nodes : nodes[k].path = names /\ nodes[k].file # Directory
    BY <2>1 DEF HasFile
  <2>3. PICK i \in EntriesRead : nodes[k] = Node(PathOf(i), CreateFile(archive[i]))
    BY <1>1, <2>2 DEF NodesFollowEntries
  <2>4. PathOf(i) = names
    BY <2>2, <2>3 DEF Node
  <2>5. i \in DOMAIN archive /\ i # loaded + 1 /\ ~archive[i].dir
    <3>1. i \in 1..loaded /\ ~archive[i].dir
      BY DEF EntriesRead
    <3>2. archive \in Seq({archive[l] : l \in DOMAIN archive})
      BY NextEntry
    <3>3. DOMAIN archive = 1..Len(archive) /\ Len(archive) \in Nat
      BY <3>2
    <3> QED
      BY <1>1, <3>1, <3>3
  <2> DEFINE other == archive[i].path
  <2>6. NamesOf(other) = names
    BY <1>1, <2>4, <2>5, PathsOfEntries
  <2>7. OnlyNames(other) /\ other # <<>>
    BY <1>1, <2>5, ArchiveEntries
  <2>8. other = names \/ other = <<Empty>> \o names
    BY <2>6, <2>7, CleanPaths
  <2>9. other # path
    BY <1>1, <1>2, <2>5, ArchiveEntries
  <2> HIDE DEF other
  <2>10. other = <<Empty>> \o path \/ path = <<Empty>> \o other
    BY <1>6, <2>8, <2>9
  <2> QED
    BY <2>10 DEF FailsOnClash, other
<1> QED
  BY <1>10, <1>11

LEMMA FailsOnlyOnClashesNext ==
    Reading /\ NodesFollowEntries /\ PickingFollowsLoading /\ FailsOnlyOnClashes /\ [BlocksNext]_vars
        => FailsOnlyOnClashes'
<1> SUFFICES ASSUME Reading, NodesFollowEntries, PickingFollowsLoading, FailsOnlyOnClashes,
                    [BlocksNext]_vars
             PROVE  FailsOnlyOnClashes'
  OBVIOUS
<1>1. CASE StartArchive \/ FinishArchive
  <2>1. status' # "err"
    BY <1>1 DEF StartArchive, FinishArchive
  <2> QED
    BY <2>1 DEF FailsOnlyOnClashes
<1>2. CASE LoadEntry /\ status' = "err"
  <2> DEFINE path == archive[loaded + 1].path
  <2>1. FailsOnClash(path)
    BY <1>2, LoadEntryFailsOnClashes
  <2>2. archive' = archive /\ loaded' = loaded + 1 /\ loaded \in Nat
    BY <1>2 DEF LoadEntry, Counted, Reading
  <2>3. EntriesRead \subseteq EntriesRead' \ {loaded'}
    <3>1. \A i \in 1..loaded : i \in 1..(loaded + 1) /\ i # loaded + 1
      BY <2>2
    <3> QED
      BY <2>2, <3>1 DEF EntriesRead
  <2>4. path = archive'[loaded'].path
    BY <2>2
  <2> HIDE DEF path
  <2>5. \/ \E i \in EntriesRead' \ {loaded'} :
               archive'[i].path = <<Empty>> \o path \/ path = <<Empty>> \o archive'[i].path
        \/ path = <<Empty>>
    BY <2>1, <2>2, <2>3 DEF FailsOnClash
  <2> QED
    BY <2>4, <2>5, Zenon DEF FailsOnlyOnClashes, Empty
<1>3. CASE LoadEntry /\ status' # "err"
  BY <1>3 DEF FailsOnlyOnClashes
<1>4. CASE \/ FailToDecode \/ PickFile \/ ExtractLocalFile
           \/ InterpretText \/ DeleteLines \/ SelectLines
  <2>1. last'.block # "none"
    BY <1>4, LastBlock
  <2> QED
    BY <2>1 DEF FailsOnlyOnClashes
<1>5. CASE UNCHANGED vars
  <2>1. UNCHANGED <<nodes, archive, loaded, status, last>>
    BY <1>5 DEF vars
  <2>2. EntriesRead' = EntriesRead
    BY <2>1, EntriesStay
  <2> QED
    BY <2>1, <2>2 DEF FailsOnlyOnClashes
<1> QED
  BY <1>1, <1>2, <1>3, <1>4, <1>5 DEF BlocksNext

(* A text file: the blocks on texts find one. *)
IsText(text) ==
    /\ text = [name |-> text.name, content |-> text.content]
    /\ text.content \in Seq(STRING)

TextsAreGiven ==
    /\ status = "file" => IsText(file) /\ file.content # <<>>
    /\ status = "text" => IsText(file)

LEMMA NewText ==
    ASSUME NEW name, NEW content \in Seq(STRING)
    PROVE  LET text == [name |-> name, content |-> content]
           IN  IsText(text) /\ text.content = content
BY DEF IsText

LEMMA OtherContent ==
    ASSUME NEW text, IsText(text), NEW content \in Seq(STRING)
    PROVE  LET other == [text EXCEPT !.content = content]
           IN  IsText(other) /\ other.content = content
<1>1. PICK name, given : text = [name |-> name, content |-> given]
  BY DEF IsText
<1>2. [text EXCEPT !.content = content] = [name |-> name, content |-> content]
  BY <1>1
<1> QED
  BY <1>2, NewText

LEMMA SplitLinesUnfolded ==
    ASSUME NEW pieces
    PROVE  SplitLines(pieces) = pieces \/ SplitLines(pieces) = Front(pieces)
BY Zenon DEF SplitLines

LEMMA DeleteLinesGives ==
    ASSUME TextsAreGiven, DeleteLines
    PROVE  \E numbers \in LineLists :
               /\ last' = [block |-> "TextLineDeleter", properties |-> numbers, input |-> file]
               /\ IF ToSet(numbers) \subseteq DOMAIN file.content
                  THEN /\ status' = "text" /\ IsText(file')
                       /\ file'.content = LinesAt(DOMAIN file.content \ ToSet(numbers), file.content)
                  ELSE status' = "err"
<1>1. status = "text" /\ IsText(file) /\ file.content \in Seq(STRING)
  BY DEF DeleteLines, TextsAreGiven, IsText
<1>2. PICK numbers \in LineLists :
        IF \E k \in DOMAIN numbers : numbers[k] > Len(file.content)
        THEN /\ status' = "err"
             /\ Gives(Null, "TextLineDeleter", numbers)
        ELSE /\ status' = "text"
             /\ Gives([file EXCEPT !.content = WithoutLines(@, Deletions(numbers))],
                      "TextLineDeleter", numbers)
  BY Zenon DEF DeleteLines
<1> DEFINE text == file.content
           left == WithoutLines(text, Deletions(numbers))
<1>3. numbers \in Seq(Nat \ {0})
  BY LinesAssumption
<1>4. last' = [block |-> "TextLineDeleter", properties |-> numbers, input |-> file]
  BY <1>2, Zenon DEF Gives
<1>5. ToSet(numbers) \subseteq DOMAIN text <=> ~ \E k \in DOMAIN numbers : numbers[k] > Len(text)
  <2>1. DOMAIN text = 1..Len(text) /\ Len(text) \in Nat
    BY <1>1
  <2>2. \A k \in DOMAIN numbers : numbers[k] \in Nat \ {0}
    BY <1>3
  <2> HIDE DEF text
  <2>3. \A k \in DOMAIN numbers : numbers[k] \in DOMAIN text <=> ~(numbers[k] > Len(text))
    BY <2>1, <2>2
  <2> QED
    BY <2>3, Zenon DEF ToSet
<1>6. CASE ToSet(numbers) \subseteq DOMAIN text
  <2>1. status' = "text" /\ file' = [file EXCEPT !.content = left]
    BY <1>2, <1>5, <1>6 DEF Gives
  <2>2. left = LinesAt(DOMAIN text \ ToSet(numbers), text) /\ left \in Seq(STRING)
    BY <1>1, <1>3, <1>6, WithoutLinesIs
  <2> HIDE DEF left
  <2>3. IsText(file') /\ file'.content = left
    BY <1>1, <2>1, <2>2, OtherContent
  <2> QED
    BY <1>4, <1>6, <2>1, <2>2, <2>3
<1>7. CASE ~(ToSet(numbers) \subseteq DOMAIN text)
  BY <1>2, <1>4, <1>5, <1>7
<1> QED
  BY <1>6, <1>7

LEMMA SelectLinesGives ==
    ASSUME TextsAreGiven, SelectLines
    PROVE  \E range \in LineRanges :
               /\ last' = [block |-> "TextRangeSelector", properties |-> range, input |-> file]
               /\ status' = "text" /\ IsText(file')
               /\ file'.content = LinesAt((range.from .. range.to) \cap DOMAIN file.content, file.content)
<1>1. status = "text" /\ status' = "text" /\ IsText(file) /\ file.content \in Seq(STRING)
  BY DEF SelectLines, TextsAreGiven, IsText
<1>2. PICK range \in LineRanges :
        Gives([file EXCEPT !.content = Slice(@, range.from, range.to)], "TextRangeSelector", range)
  BY Zenon DEF SelectLines
<1>3. range.from \in Nat \ {0} /\ range.to \in Nat \ {0}
  BY LinesAssumption
<1> DEFINE left == Slice(file.content, range.from, range.to)
<1>4. /\ last' = [block |-> "TextRangeSelector", properties |-> range, input |-> file]
      /\ file' = [file EXCEPT !.content = left]
  BY <1>2, Zenon DEF Gives
<1>5. left = LinesAt((range.from .. range.to) \cap DOMAIN file.content, file.content) /\ left \in Seq(STRING)
  BY <1>1, <1>3, SliceIs
<1> HIDE DEF left
<1>6. IsText(file') /\ file'.content = left
  BY <1>1, <1>4, <1>5, OtherContent
<1> QED
  BY <1>1, <1>4, <1>5, <1>6

LEMMA TextsAreGivenNext ==
    Reading /\ NodesFollowEntries /\ PickingFollowsLoading /\ TextsAreGiven /\ [BlocksNext]_vars
        => TextsAreGiven'
<1> SUFFICES ASSUME Reading, NodesFollowEntries, PickingFollowsLoading, TextsAreGiven,
                    [BlocksNext]_vars
             PROVE  TextsAreGiven'
  OBVIOUS
<1>1. CASE StartArchive \/ LoadEntry \/ FinishArchive \/ FailToDecode
  <2>1. status' \notin {"file", "text"}
    BY <1>1 DEF StartArchive, LoadEntry, FinishArchive, FailToDecode, StatusAfter
  <2> QED
    BY <2>1 DEF TextsAreGiven
<1>2. CASE PickFile
  <2>1. PICK path \in Picks : /\ file' = GetFile(path)
                              /\ status' = IF GetFile(path) = Null THEN "err" ELSE "file"
    BY <1>2 DEF PickFile, Gives
  <2>2. CASE GetFile(path) = Null
    BY <2>1, <2>2 DEF TextsAreGiven
  <2>3. CASE GetFile(path) # Null
    <3>1. status = "loaded" /\ archive # <<>> /\ loaded <= Len(archive) /\ loaded \in Nat
      BY <1>2 DEF PickFile, PickingFollowsLoading, Reading
    <3>2. PICK i \in EntriesRead : GetFile(path) = CreateFile(archive[i])
      BY <2>3, <3>1, PickFileTakesTheEntry
    <3>3. i \in DOMAIN archive /\ ~archive[i].dir
      <4>1. archive \in Seq({archive[l] : l \in DOMAIN archive})
        BY <3>1, EntriesOfArchive
      <4>2. DOMAIN archive = 1..Len(archive) /\ Len(archive) \in Nat
        BY <4>1
      <4> QED
        BY <3>1, <4>2 DEF EntriesRead
    <3>4. archive[i].content \in Seq(STRING) /\ archive[i].content # <<>>
      BY <3>1, <3>3, ArchiveEntries
    <3>5. IsText(file') /\ file'.content = archive[i].content
      BY <2>1, <3>2, <3>4, NewText DEF CreateFile
    <3> QED
      BY <2>1, <2>3, <3>4, <3>5 DEF TextsAreGiven
  <2> QED
    BY <2>2, <2>3
<1>3. CASE ExtractLocalFile
  <2>1. CASE status' = "err"
    BY <2>1 DEF TextsAreGiven
  <2>2. CASE status' # "err"
    <3>1. PICK path \in LocalPaths :
            /\ path \in DOMAIN Disk /\ status' = "file"
            /\ file' = [name |-> BaseName(path), content |-> Disk[path]]
      BY <1>3, <2>2, Zenon DEF ExtractLocalFile, Gives
    <3>2. Disk[path] \in Seq(STRING) /\ Disk[path] # <<>>
      BY <3>1, LinesAssumption
    <3>3. IsText(file') /\ file'.content = Disk[path]
      BY <3>1, <3>2, NewText
    <3> QED
      BY <3>1, <3>2, <3>3 DEF TextsAreGiven
  <2> QED
    BY <2>1, <2>2
<1>4. CASE InterpretText
  <2>1. /\ IsText(file) /\ file.content \in Seq(STRING) /\ file.content # <<>> /\ status' = "text"
        /\ file' = [file EXCEPT !.content = SplitLines(file.content)]
    BY <1>4 DEF InterpretText, Gives, TextsAreGiven, IsText
  <2>2. SplitLines(file.content) \in Seq(STRING)
    BY <2>1, SplitLinesUnfolded, FrontOfList
  <2>3. IsText(file')
    BY <2>1, <2>2, OtherContent
  <2> QED
    BY <2>1, <2>3 DEF TextsAreGiven
<1>5. CASE DeleteLines
  <2>1. status' = "err" \/ (status' = "text" /\ IsText(file'))
    BY <1>5, DeleteLinesGives
  <2> QED
    BY <2>1 DEF TextsAreGiven
<1>6. CASE SelectLines
  <2>1. status' = "text" /\ IsText(file')
    BY <1>6, SelectLinesGives
  <2> QED
    BY <2>1 DEF TextsAreGiven
<1>7. CASE UNCHANGED vars
  BY <1>7 DEF vars, TextsAreGiven
<1> QED
  BY <1>1, <1>2, <1>3, <1>4, <1>5, <1>6, <1>7 DEF BlocksNext

LEMMA LinesAreWhatIsAskedNext ==
    PickingFollowsLoading /\ TextsAreGiven /\ LinesAreWhatIsAsked /\ [BlocksNext]_vars
        => LinesAreWhatIsAsked'
<1> SUFFICES ASSUME PickingFollowsLoading, TextsAreGiven, LinesAreWhatIsAsked, [BlocksNext]_vars
             PROVE  LinesAreWhatIsAsked'
  OBVIOUS
<1>1. CASE StartArchive \/ LoadEntry \/ FinishArchive
  <2>1. last' = last /\ last.block = "none"
    BY <1>1 DEF StartArchive, LoadEntry, FinishArchive, PickingFollowsLoading
  <2> QED
    BY <2>1 DEF LinesAreWhatIsAsked
<1>2. CASE FailToDecode \/ PickFile \/ ExtractLocalFile \/ InterpretText
  <2>1. last'.block \notin {"TextLineDeleter", "TextRangeSelector"}
    BY <1>2, LastBlock
  <2> QED
    BY <2>1 DEF LinesAreWhatIsAsked
<1>3. CASE DeleteLines
  <2>1. PICK numbers \in LineLists :
          /\ last' = [block |-> "TextLineDeleter", properties |-> numbers, input |-> file]
          /\ IF ToSet(numbers) \subseteq DOMAIN file.content
             THEN /\ status' = "text" /\ IsText(file')
                  /\ file'.content = LinesAt(DOMAIN file.content \ ToSet(numbers), file.content)
             ELSE status' = "err"
    BY <1>3, DeleteLinesGives
  <2>2. last'.block = "TextLineDeleter" /\ last'.properties = numbers /\ last'.input = file
    BY <2>1
  <2>3. /\ status' = "text" => file'.content = LinesAt(DOMAIN file.content \ ToSet(numbers), file.content)
        /\ status' = "err" <=> ~(ToSet(numbers) \subseteq DOMAIN file.content)
    BY <2>1
  <2> QED
    BY <2>2, <2>3 DEF LinesAreWhatIsAsked
<1>4. CASE SelectLines
  <2>1. PICK range \in LineRanges :
          /\ last' = [block |-> "TextRangeSelector", properties |-> range, input |-> file]
          /\ file'.content = LinesAt((range.from .. range.to) \cap DOMAIN file.content, file.content)
    BY <1>4, SelectLinesGives
  <2>2. last'.block = "TextRangeSelector" /\ last'.properties = range /\ last'.input = file
    BY <2>1
  <2> QED
    BY <2>1, <2>2 DEF LinesAreWhatIsAsked
<1>5. CASE UNCHANGED vars
  BY <1>5 DEF vars, LinesAreWhatIsAsked
<1> QED
  BY <1>1, <1>2, <1>3, <1>4, <1>5 DEF BlocksNext

(* For any archives, texts and numbers of lines: reading an archive fails   *)
(* only if two of its entries differ in a separator at the beginning alone, *)
(* or one has no name; deleting lines leaves those that are not named, in   *)
(* their order, and fails exactly if one that is named is not there; a      *)
(* range gives its lines.                                                   *)
THEOREM FileBlocksDoWhatTheySayHolds == BlocksSpec => []FileBlocksDoWhatTheySay
<1> DEFINE Working == /\ Reading /\ NodesFollowEntries /\ PickingFollowsLoading
                      /\ FailsOnlyOnClashes /\ TextsAreGiven /\ LinesAreWhatIsAsked
<1>1. BlocksInit => Working
  <2> SUFFICES ASSUME BlocksInit PROVE Working
    OBVIOUS
  <2>1. FailsOnlyOnClashes /\ TextsAreGiven /\ LinesAreWhatIsAsked
    BY DEF BlocksInit, FailsOnlyOnClashes, TextsAreGiven, LinesAreWhatIsAsked
  <2> QED
    BY <2>1, ReadingInit, PickingInit
<1>2. Working /\ [BlocksNext]_vars => Working'
  BY ReadingNext, FollowingNext, PickingFollowsLoadingNext, FailsOnlyOnClashesNext,
     TextsAreGivenNext, LinesAreWhatIsAskedNext
<1>3. Working => FileBlocksDoWhatTheySay
  BY DEF FileBlocksDoWhatTheySay
<1> QED
  BY <1>1, <1>2, <1>3, PTL DEF BlocksSpec

(* The blocks change the file system by putFile alone, so that what they    *)
(* make of it is a store too.                                               *)
THEOREM BlocksImplementStoreHolds == BlocksSpec => ImplementsStore
<1>1. BlocksInit => Init
  BY DEF BlocksInit
<1>2. Reading /\ [BlocksNext]_vars => [Next]_nodes
  <2> SUFFICES ASSUME Reading, [BlocksNext]_vars PROVE [Next]_nodes
    OBVIOUS
  <2>1. CASE LoadEntry
    <3>1. CASE archive[loaded + 1].dir
      BY <2>1, <3>1 DEF LoadEntry
    <3>2. CASE ~archive[loaded + 1].dir
      BY <2>1, <3>2, NextEntry DEF LoadEntry, Next
    <3> QED
      BY <3>1, <3>2
  <2>2. CASE ~LoadEntry
    BY <2>2 DEF BlocksNext, vars, StartArchive, FinishArchive, FailToDecode, PickFile,
                ExtractLocalFile, InterpretText, DeleteLines, SelectLines
  <2> QED
    BY <2>1, <2>2
<1>3. BlocksSpec => Spec
  BY <1>1, <1>2, ReadingInit, ReadingNext, PTL DEF BlocksSpec, Spec
<1> QED
  BY <1>3, ImplementsStoreHolds

=============================================================================
