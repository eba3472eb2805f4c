--------------------------- MODULE ChainNodeProofs ---------------------------
(***************************************************************************)
(* What the proofs about the parts that follow the chain share: blocks and *)
(* their ancestors, the node's guarantees, and least numbers.              *)
(***************************************************************************)
EXTENDS ChainNode, SequenceTheorems, FiniteSetTheorems, TLAPS

-----------------------------------------------------------------------------
(* Blocks, ancestors and chains, and what the node guarantees. *)

(* A block is a function on 1..h for a height h within the bound. *)
LEMMA BlockShape ==
  ASSUME NEW b \in Blocks
  PROVE  /\ Height(b) \in 0..MaxHeight
         /\ b \in BlocksAt(Height(b))
<1>1. PICK h \in 0..MaxHeight : b \in [1..h -> Branches]
  BY DEF Blocks, BlocksAt
<1>2. h \in Nat
  BY <1>1, ChainAssumption
<1>3. b \in Seq(Branches)
  BY <1>1, <1>2, SeqDef
<1>4. Len(b) = h
  BY <1>1, <1>2, <1>3, LenProperties
<1>. QED
  BY <1>1, <1>4 DEF Height, BlocksAt

(* A function on 1..h is a block of height h. *)
LEMMA BlockIntro ==
  ASSUME NEW h \in 0..MaxHeight, NEW b \in [1..h -> Branches]
  PROVE  b \in Blocks /\ Height(b) = h
<1>1. h \in Nat
  BY ChainAssumption
<1>2. b \in Seq(Branches)
  BY <1>1, SeqDef
<1>3. Len(b) = h
  BY <1>1, <1>2, LenProperties
<1>. QED
  BY <1>3 DEF Blocks, BlocksAt, Height

(* The ancestor of a block at a height is a block of that height on its chain. *)
LEMMA AncestorIsBlock ==
  ASSUME NEW b \in Blocks, NEW h \in 0..Height(b)
  PROVE  /\ AncestorAt(b, h) \in Blocks
         /\ Height(AncestorAt(b, h)) = h
         /\ OnChain(AncestorAt(b, h), b)
<1>1. Height(b) \in 0..MaxHeight /\ b \in [1..Height(b) -> Branches]
  BY BlockShape DEF BlocksAt
<1>2. h \in 0..MaxHeight
  BY <1>1, ChainAssumption
<1>3. AncestorAt(b, h) \in [1..h -> Branches]
  BY <1>1, <1>2, ChainAssumption DEF AncestorAt
<1>4. AncestorAt(b, h) \in Blocks /\ Height(AncestorAt(b, h)) = h
  BY <1>2, <1>3, BlockIntro
<1>. QED
  BY <1>1, <1>4 DEF OnChain

(* A block is the ancestor of itself at its own height. *)
LEMMA AncestorSelf ==
  ASSUME NEW b \in Blocks
  PROVE  AncestorAt(b, Height(b)) = b /\ OnChain(b, b)
<1>1. Height(b) \in 0..MaxHeight /\ b \in [1..Height(b) -> Branches]
  BY BlockShape DEF BlocksAt
<1>2. AncestorAt(b, Height(b)) = b
  BY <1>1 DEF AncestorAt
<1>. QED
  BY <1>1, <1>2, ChainAssumption DEF OnChain

(* The blocks below a common height of a chain are those of its prefix. *)
LEMMA AncestorOfAncestor ==
  ASSUME NEW f \in Blocks, NEW b \in Blocks, OnChain(f, b),
         NEW h \in 0..Height(f)
  PROVE  AncestorAt(b, h) = AncestorAt(f, h)
<1>1. f = [i \in 1..Height(f) |-> b[i]]
  BY DEF OnChain, AncestorAt
<1>2. Height(f) \in Nat
  BY BlockShape, ChainAssumption
<1>3. \A i \in 1..h : f[i] = b[i]
  BY <1>1, <1>2
<1>. QED
  BY <1>3 DEF AncestorAt

(* OnChain is transitive. *)
LEMMA OnChainTransitive ==
  ASSUME NEW x \in Blocks, NEW y \in Blocks, NEW z \in Blocks,
         OnChain(x, y), OnChain(y, z)
  PROVE  OnChain(x, z)
<1>1. /\ Height(x) \in Nat /\ Height(y) \in Nat /\ Height(z) \in Nat
      /\ Height(x) <= Height(y) /\ Height(y) <= Height(z)
  BY BlockShape, ChainAssumption DEF OnChain
<1>2. AncestorAt(z, Height(x)) = AncestorAt(y, Height(x))
  BY <1>1, AncestorOfAncestor
<1>. QED
  BY <1>1, <1>2 DEF OnChain

LEMMA GenesisIsBlock == Genesis \in Blocks /\ Height(Genesis) = 0
<1>1. Genesis \in [1..0 -> Branches]
  BY DEF Genesis
<1>2. 0 \in 0..MaxHeight
  BY ChainAssumption
<1>. QED
  BY <1>1, <1>2, BlockIntro

LEMMA ChainStart == ChainInit => ChainTypeOK
BY GenesisIsBlock, AncestorSelf DEF ChainInit, ChainTypeOK

(* A step of the node keeps its state well typed, the finalized block on    *)
(* the best chain, and never reverts a finalized block.                     *)
LEMMA ChainStep ==
  ASSUME ChainTypeOK, ChainNext \/ UNCHANGED chainVars
  PROVE  /\ ChainTypeOK'
         /\ OnChain(finalized, finalized')
         /\ Height(finalized) <= Height(finalized')
<1>. USE DEF ChainTypeOK
<1>1. CASE NewBest
  BY <1>1, AncestorSelf DEF NewBest, OnChain
<1>2. CASE Finalize
  <2>1. PICK h \in (Height(finalized) + 1)..Height(best) :
              finalized' = AncestorAt(best, h) /\ best' = best
    BY <1>2 DEF Finalize
  <2>2. Height(finalized) \in Nat /\ Height(best) \in Nat
    BY BlockShape, ChainAssumption
  <2>3. h \in 0..Height(best)
    BY <2>2
  <2>4. /\ finalized' \in Blocks /\ Height(finalized') = h
        /\ OnChain(finalized', best)
    BY <2>1, <2>3, AncestorIsBlock
  <2>5. AncestorAt(best, Height(finalized)) = AncestorAt(finalized', Height(finalized))
    BY <2>2, <2>4, AncestorOfAncestor
  <2>. QED
    BY <2>1, <2>2, <2>4, <2>5 DEF OnChain
<1>3. CASE UNCHANGED chainVars
  BY <1>3, AncestorSelf DEF chainVars, OnChain
<1>. QED
  BY <1>1, <1>2, <1>3 DEF ChainNext

-----------------------------------------------------------------------------
(* Numbers *)

(* A set of numbers that is not empty has a least one: among the intervals  *)
(* below its members one is included in no other.                           *)
LEMMA LeastMember ==
  ASSUME NEW T, T \subseteq Nat, T # {}
  PROVE  \E m \in T : \A n \in T : m <= n
<1>. DEFINE Below == {1..n : n \in T}
            R == StrictSubsetOrdering(Nat)
            F == FiniteSubsetsOf(Nat)
<1>1. IsWellFoundedOn(R, F)
  BY FS_StrictSubsetOrderingWellFounded
<1>2. Below \subseteq F /\ Below # {}
  <2>1. \A n \in T : 1..n \subseteq Nat /\ IsFiniteSet(1..n)
    BY FS_Interval
  <2>. QED
    BY <2>1 DEF FiniteSubsetsOf
<1>. HIDE DEF R, F, Below
<1>3. PICK x \in Below : \A y \in Below : ~ (<<y, x>> \in R)
  BY <1>1, <1>2, WFMin
<1>4. PICK m \in T : x = 1..m
  BY <1>3 DEF Below
<1>5. ASSUME NEW n \in T, n < m PROVE FALSE
  <2>1. m \in Nat /\ n \in Nat
    OBVIOUS
  <2>2. 1..n \subseteq 1..m /\ 1..n # 1..m /\ 1..n \subseteq Nat /\ 1..m \subseteq Nat
    <3>1. m \in 1..m /\ m \notin 1..n
      BY <1>5, <2>1
    <3>. QED
      BY <1>5, <2>1, <3>1
  <2>3. <<1..n, 1..m>> \in R
    BY <2>2 DEF R, StrictSubsetOrdering
  <2>. QED
    BY <1>3, <1>4, <2>3 DEF Below
<1>. QED
  BY <1>5

(* What holds of 0 and of each successor holds of all numbers. *)
LEMMA Induction ==
  ASSUME NEW S, 0 \in S, \A n \in Nat : n \in S => n + 1 \in S
  PROVE  Nat \subseteq S
<1>1. SUFFICES ASSUME Nat \ S # {} PROVE FALSE
  OBVIOUS
<1>2. PICK m \in Nat \ S : \A n \in Nat \ S : m <= n
  BY <1>1, LeastMember
<1>3. m - 1 \in Nat /\ m - 1 \in S
  BY <1>2
<1>. QED
  BY <1>2, <1>3
=============================================================================
