------------------------------ MODULE ChainNode ------------------------------
(***************************************************************************)
(* The Avail node as the SDK sees it through JSON-RPC.  The node is not in *)
(* the repository; this module is the environment the client modules run   *)
(* in, reconstructed from the calls the client makes:                      *)
(*   system_latestBlockInfo(use_best)   (Chain::block_info)                *)
(*   chain_getBlockHash(height)         (Chain::block_hash).               *)
(*                                                                         *)
(* A block is the path of branch choices that leads to it from genesis, so *)
(* its height is the length of the path and, like a block hash, the value  *)
(* determines every ancestor.  Genesis is the empty path.                  *)
(***************************************************************************)
EXTENDS Integers, Sequences

CONSTANTS
  Branches,   \* the different blocks an author can put on one parent
  MaxHeight,  \* bound: blocks above this height are not produced
  NoBlock     \* stands for "no block"

ASSUME ChainAssumption ==
  /\ MaxHeight \in Nat
  /\ NoBlock \notin UNION {[1..h -> Branches] : h \in 0..MaxHeight}

VARIABLES
  best,       \* head of the node's best chain
  finalized   \* last block GRANDPA finalized on it

chainVars == <<best, finalized>>

(* The blocks at height h, and all blocks. *)
BlocksAt(h) == [1..h -> Branches]
Blocks == UNION {BlocksAt(h) : h \in 0..MaxHeight}

Genesis == <<>>
Height(b) == Len(b)

(* chain_getBlockHash(h) on the chain that ends in b, for h \in 0..Height(b) *)
AncestorAt(b, h) == [i \in 1..h |-> b[i]]

(* a is b or an ancestor of b *)
OnChain(a, b) == Height(a) <= Height(b) /\ a = AncestorAt(b, Height(a))

Parent(b) == AncestorAt(b, Height(b) - 1)

-----------------------------------------------------------------------------
ChainTypeOK ==
  /\ best \in Blocks
  /\ finalized \in Blocks
  /\ OnChain(finalized, best)

ChainInit ==
  /\ best = Genesis
  /\ finalized = Genesis

(***************************************************************************)
(* The node imports a block that becomes the best one: a child of best, or *)
(* the head of another fork (a reorganisation, possibly to a chain that is *)
(* heavier but shorter).  Finalized blocks are never reverted and a node   *)
(* does not go back to an ancestor of its best block.                      *)
(***************************************************************************)
NewBest ==
  \E b \in Blocks :
    /\ OnChain(finalized, b)
    /\ ~ OnChain(b, best)
    /\ best' = b
    /\ UNCHANGED finalized

(* GRANDPA finalizes a later block of the best chain. *)
Finalize ==
  \E h \in (Height(finalized) + 1)..Height(best) :
    /\ finalized' = AncestorAt(best, h)
    /\ UNCHANGED best

ChainNext == NewBest \/ Finalize
=============================================================================
