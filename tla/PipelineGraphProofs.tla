------------------------- MODULE PipelineGraphProofs -------------------------
(***************************************************************************)
(* Lemmas about lists and about the queries of a pipe list that the proofs *)
(* of the modules built on PipelineGraph share.                            *)
(***************************************************************************)
EXTENDS PipelineGraph, FiniteSetTheorems, WellFoundedInduction, TLAPS

(* Appending to a list adds exactly the new element to its members. *)
LEMMA AppendMembers ==
    ASSUME NEW S, NEW s \in Seq(S), NEW e \in S
    PROVE  /\ Append(s, e) \in Seq(S)
           /\ Len(Append(s, e)) = Len(s) + 1
           /\ DOMAIN Append(s, e) = 1..(Len(s) + 1)
           /\ \A i \in 1..Len(s) : Append(s, e)[i] = s[i]
           /\ Append(s, e)[Len(s) + 1] = e
           /\ Members(Append(s, e)) = Members(s) \cup {e}
<1>1. /\ Append(s, e) \in Seq(S)
      /\ Len(Append(s, e)) = Len(s) + 1
      /\ DOMAIN Append(s, e) = 1..(Len(s) + 1)
      /\ DOMAIN s = 1..Len(s)
      /\ Len(s) \in Nat
      /\ \A i \in 1..Len(s) : Append(s, e)[i] = s[i]
      /\ Append(s, e)[Len(s) + 1] = e
  OBVIOUS
<1>2. Members(Append(s, e)) = Members(s) \cup {e}
  <2>1. \A i \in 1..(Len(s) + 1) : i \in 1..Len(s) \/ i = Len(s) + 1
    BY <1>1
  <2>2. \A i \in 1..Len(s) : i \in 1..(Len(s) + 1)
    BY <1>1
  <2>3. Len(s) + 1 \in 1..(Len(s) + 1)
    BY <1>1
  <2> QED
    BY <1>1, <2>1, <2>2, <2>3 DEF Members
<1> QED
  BY <1>1, <1>2

(* Popping a nonempty list keeps its other elements where they are. *)
LEMMA PopMembers ==
    ASSUME NEW S, NEW s \in Seq(S), s # << >>
    PROVE  /\ Len(s) \in Nat \ {0}
           /\ s[Len(s)] \in S
           /\ SubSeq(s, 1, Len(s) - 1) \in Seq(S)
           /\ DOMAIN SubSeq(s, 1, Len(s) - 1) = 1..(Len(s) - 1)
           /\ \A i \in 1..(Len(s) - 1) : SubSeq(s, 1, Len(s) - 1)[i] = s[i]
           /\ Members(s) = Members(SubSeq(s, 1, Len(s) - 1)) \cup {s[Len(s)]}
<1>1. /\ Len(s) \in Nat \ {0}
      /\ DOMAIN s = 1..Len(s)
      /\ s[Len(s)] \in S
  OBVIOUS
<1>2. /\ SubSeq(s, 1, Len(s) - 1) \in Seq(S)
      /\ DOMAIN SubSeq(s, 1, Len(s) - 1) = 1..(Len(s) - 1)
      /\ \A i \in 1..(Len(s) - 1) : SubSeq(s, 1, Len(s) - 1)[i] = s[i]
  BY <1>1
<1>3. \A n \in Nat \ {0} : 1..n = 1..(n - 1) \cup {n}
  OBVIOUS
<1>4. 1..Len(s) = 1..(Len(s) - 1) \cup {Len(s)}
  BY <1>1, <1>3
<1>5. Members(s) = Members(SubSeq(s, 1, Len(s) - 1)) \cup {s[Len(s)]}
  <2> DEFINE t == SubSeq(s, 1, Len(s) - 1)
  <2>1. Members(s) = {s[i] : i \in 1..(Len(s) - 1)} \cup {s[Len(s)]}
    BY <1>1, <1>4 DEF Members
  <2>2. DOMAIN t = 1..(Len(s) - 1) /\ \A i \in 1..(Len(s) - 1) : t[i] = s[i]
    BY <1>2
  <2> HIDE DEF t
  <2>3. Members(t) = {s[i] : i \in 1..(Len(s) - 1)}
    BY <2>2 DEF Members
  <2> QED
    BY <2>1, <2>3 DEF t
<1> QED
  BY <1>1, <1>2, <1>5

(* Replacing an element keeps the others and the length. *)
LEMMA ReplaceElement ==
    ASSUME NEW S, NEW s \in Seq(S), NEW k \in DOMAIN s, NEW e \in S
    PROVE  /\ [s EXCEPT ![k] = e] \in Seq(S)
           /\ Len([s EXCEPT ![k] = e]) = Len(s)
           /\ DOMAIN [s EXCEPT ![k] = e] = DOMAIN s
           /\ [s EXCEPT ![k] = e][k] = e
           /\ \A i \in DOMAIN s : i # k => [s EXCEPT ![k] = e][i] = s[i]
OBVIOUS

-----------------------------------------------------------------------------
(* The members of a pipe list are pipes between blocks. *)
LEMMA PipeListMembers ==
    ASSUME NEW pipes \in Seq(Pipe), NEW i \in DOMAIN pipes
    PROVE  /\ i \in Nat \ {0}
           /\ pipes[i] \in PipeSet(pipes)
           /\ pipes[i].from \in Blocks
           /\ pipes[i].to \in Blocks
<1>1. i \in Nat \ {0} /\ pipes[i] \in Pipe
  OBVIOUS
<1> QED
  BY <1>1 DEF Pipe, PipeSet, Members

(* The lists getStartingBlocks returns are lists of blocks, name exactly   *)
(* the starting blocks, and name each of them once.                        *)
LEMMA StartingBlockListsType ==
    ASSUME NEW pipes \in Seq(Pipe), NEW list \in StartingBlockLists(pipes)
    PROVE  /\ list \in Seq(Blocks)
           /\ Members(list) = StartingBlocks(pipes)
           /\ \A i, j \in DOMAIN list : list[i] = list[j] => i = j
<1>1. StartingBlocks(pipes) \subseteq Blocks
  BY PipeListMembers DEF StartingBlocks
<1>2. PICK n \in 0..Len(pipes) : list \in [1..n -> StartingBlocks(pipes)]
  BY DEF StartingBlockLists
<1>3. list \in Seq(Blocks) /\ DOMAIN list = 1..n /\ n \in Nat
  <2>1. n \in Nat
    BY <1>2
  <2>2. list \in Seq(StartingBlocks(pipes))
    BY <1>2, <2>1
  <2> QED
    BY <1>1, <1>2, <2>1, <2>2
<1>4. Members(list) = StartingBlocks(pipes)
  BY <1>2 DEF StartingBlockLists
<1>5. ASSUME NEW i \in DOMAIN list, NEW j \in DOMAIN list,
             list[i] = list[j], i < j
      PROVE  FALSE
  <2>1. ListedBefore(pipes, list[i], list[i])
    BY <1>5 DEF StartingBlockLists
  <2>2. \A k \in DOMAIN pipes : k \in Nat
    OBVIOUS
  <2> QED
    BY <2>1, <2>2 DEF ListedBefore, OutgoingPipes
<1>6. ASSUME NEW i \in DOMAIN list, NEW j \in DOMAIN list, list[i] = list[j]
      PROVE  i = j
  <2>1. i < j \/ j < i \/ i = j
    BY <1>3
  <2> QED
    BY <1>5, <1>6, <2>1
<1> QED
  BY <1>3, <1>4, <1>6

(* Reachable is closed under pipes and holds the starting blocks. *)
LEMMA ReachableClosed ==
    ASSUME NEW pipes \in Seq(Pipe)
    PROVE  /\ StartingBlocks(pipes) \subseteq Reachable(pipes)
           /\ \A p \in PipeSet(pipes) :
                 p.from \in Reachable(pipes) => p.to \in Reachable(pipes)
<1>1. \A p \in PipeSet(pipes) : p.from \in Blocks /\ p.to \in Blocks
  BY PipeListMembers DEF PipeSet, Members
<1>2. StartingBlocks(pipes) \subseteq Blocks
  BY PipeListMembers DEF StartingBlocks
<1> QED
  BY <1>1, <1>2 DEF Reachable

(* Among the pipes into a block one comes first. *)
LEMMA SmallestIndex ==
    ASSUME NEW I, I \subseteq Nat, I # {}
    PROVE  \E i \in I : \A j \in I : i <= j
<1> DEFINE less == OpToRel(<, Nat)
<1>1. IsWellFoundedOn(less, Nat)
  BY NatLessThanWellFounded
<1>2. \A i, j \in Nat : j < i => <<j, i>> \in less
  BY DEF OpToRel
<1> HIDE DEF less
<1>3. PICK i \in I : \A j \in I : ~(<<j, i>> \in less)
  BY <1>1, WFMin
<1>4. ASSUME NEW j \in I PROVE i <= j
  <2>1. i \in Nat /\ j \in Nat
    OBVIOUS
  <2>2. ~(<<j, i>> \in less)
    BY <1>3
  <2>3. ~(j < i)
    BY <1>2, <2>1, <2>2, Zenon
  <2> QED
    BY <2>1, <2>3
<1> QED
  BY <1>4


-----------------------------------------------------------------------------
(* The orders of the blocks *)

LEMMA ElementsAreFinite ==
    ASSUME NEW n \in Nat, NEW f, DOMAIN f = 1..n
    PROVE  IsFiniteSet({f[i] : i \in 1..n})
<1> DEFINE T == {f[i] : i \in 1..n}
           g == [i \in 1..n |-> f[i]]
<1>1. g \in [1..n -> T]
  OBVIOUS
<1>2. \A t \in T : \E i \in 1..n : g[i] = t
  OBVIOUS
<1>3. IsFiniteSet(1..n)
  BY FS_Interval
<1> HIDE DEF T, g
<1>4. g \in Surjection(1..n, T)
  BY <1>1, <1>2 DEF Surjection
<1>5. IsFiniteSet(T)
  BY <1>3, <1>4, FS_Surjection
<1> QED
  BY <1>5 DEF T

LEMMA PipedBlocksAreFinite ==
    ASSUME NEW pipes \in Seq(Pipe)
    PROVE  /\ PipedBlocks(pipes) \subseteq Blocks
           /\ IsFiniteSet(PipedBlocks(pipes))
           /\ Cardinality(PipedBlocks(pipes)) \in Nat
<1> DEFINE n == Len(pipes)
           froms == [i \in 1..n |-> pipes[i].from]
           tos == [i \in 1..n |-> pipes[i].to]
           F == {froms[i] : i \in 1..n}
           T == {tos[i] : i \in 1..n}
<1>1. n \in Nat /\ DOMAIN pipes = 1..n
  OBVIOUS
<1>2. /\ DOMAIN froms = 1..n /\ \A i \in 1..n : froms[i] = pipes[i].from
      /\ DOMAIN tos = 1..n /\ \A i \in 1..n : tos[i] = pipes[i].to
  OBVIOUS
<1> HIDE DEF froms, tos, n
<1>3. IsFiniteSet(F) /\ IsFiniteSet(T)
  BY <1>1, <1>2, ElementsAreFinite
<1>4. PipedBlocks(pipes) = F \cup T
  <2>1. \A b : b \in F <=> \E p \in PipeSet(pipes) : b = p.from
    BY <1>1, <1>2 DEF PipeSet, Members
  <2>2. \A b : b \in T <=> \E p \in PipeSet(pipes) : b = p.to
    BY <1>1, <1>2 DEF PipeSet, Members
  <2> HIDE DEF F, T
  <2> QED
    BY <2>1, <2>2 DEF PipedBlocks
<1>5. IsFiniteSet(PipedBlocks(pipes))
  <2> HIDE DEF F, T
  <2> QED
    BY <1>3, <1>4, FS_Union
<1>6. PipedBlocks(pipes) \subseteq Blocks
  <2>1. \A p \in PipeSet(pipes) : p.from \in Blocks /\ p.to \in Blocks
    BY PipeListMembers DEF PipeSet, Members
  <2> QED
    BY <2>1 DEF PipedBlocks
<1> QED
  BY <1>5, <1>6, FS_CardinalityType

(* An order the sorting returns is a list of the blocks of the pipes. *)
LEMMA OrdersType ==
    ASSUME NEW pipes \in Seq(Pipe), NEW order \in TopologicalOrders(pipes)
    PROVE  /\ order \in Seq(Blocks)
           /\ Members(order) = PipedBlocks(pipes)
<1> DEFINE n == Cardinality(PipedBlocks(pipes))
<1>1. n \in Nat /\ PipedBlocks(pipes) \subseteq Blocks
  BY PipedBlocksAreFinite
<1>2. order \in [1..n -> PipedBlocks(pipes)] /\ Members(order) = PipedBlocks(pipes)
  BY DEF TopologicalOrders
<1> HIDE DEF n
<1>3. order \in Seq(PipedBlocks(pipes))
  BY <1>1, <1>2
<1> QED
  BY <1>1, <1>2, <1>3

=============================================================================
