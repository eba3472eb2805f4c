------------------------------ MODULE BlockBody ------------------------------
(***************************************************************************)
(* What the node's blocks hold, and how the node finds a block and the     *)
(* extrinsics of a block the client asks for: system_fetchExtrinsicsV1 and *)
(* the block identifiers of core/src/types (HashNumber).                   *)
(***************************************************************************)
EXTENDS ChainNode, SequencesExt

CONSTANT
  Body(_)   \* the extrinsics of a block: [tx, call, app, size] records

NoApp == -1   \* app of an extrinsic that is not signed

(* Application ids are u32; tx is the hash of the extrinsic's bytes, and     *)
(* stands for them.                                                         *)
ASSUME BodyAssumption ==
  \A b \in Blocks :
    /\ Len(Body(b)) \in Nat /\ DOMAIN Body(b) = 1..Len(Body(b))
    /\ \A i \in DOMAIN Body(b) : Body(b)[i].app \in Nat \union {NoApp} /\ Body(b)[i].size \in Nat
    /\ \A i, j \in DOMAIN Body(b) : Body(b)[i].tx = Body(b)[j].tx => Body(b)[i] = Body(b)[j]

-----------------------------------------------------------------------------
(* HashNumber: a block is named by its hash or by its height. *)
ByHash(b) == [by |-> "hash", block |-> b]
ByNumber(n) == [by |-> "number", height |-> n]
BlockIds == {ByHash(b) : b \in Blocks} \union {ByNumber(n) : n \in 0..MaxHeight}

(* The blocks the node may take an identifier for: a height stands for the  *)
(* block of the best chain; a block that is not on it may be known or not.  *)
Meant(id) ==
  IF id.by = "hash" THEN {id.block} \union (IF OnChain(id.block, best) THEN {} ELSE {NoBlock})
  ELSE {IF id.height <= Height(best) THEN AncestorAt(best, id.height) ELSE NoBlock}

(* ExtrinsicFilter, as the node applies it. *)
AnyTx == [on |-> "all"]
TxHash(x) == [on |-> "tx", value |-> x]
TxIndex(i) == [on |-> "index", index |-> i]
PalletCall(c) == [on |-> "call", value |-> c]

Passes(filter, app, b, i) ==
  /\ CASE filter.on = "all"   -> TRUE
       [] filter.on = "tx"    -> Body(b)[i].tx = filter.value
       [] filter.on = "index" -> i = filter.index
       [] filter.on = "call"  -> Body(b)[i].call = filter.value
  /\ app # NoApp => Body(b)[i].app = app

(* system_fetchExtrinsicsV1: the extrinsics of b that pass, as the set of    *)
(* their indices; the answer has them in the order of the block.            *)
Fetch(filter, app, b) == {i \in DOMAIN Body(b) : Passes(filter, app, b, i)}

(* The first and the last of a list given by its indices, if it has any. *)
Lowest(S) == {i \in S : \A j \in S : i <= j}
Highest(S) == {i \in S : \A j \in S : j <= i}

-----------------------------------------------------------------------------
(* The data grid of a block.  What is submitted for one application in a    *)
(* block is one stream, the encoded list of its extrinsics, cut into        *)
(* scalars; the streams follow each other in the order of the application   *)
(* ids, everything else in the block first, as application 0.  A scalar is  *)
(* whole: how the bytes after the last extrinsic are filled up is taken to  *)
(* be the same in the program's stream and in the grid.                     *)
AppOf(x) == IF x.app = NoApp THEN 0 ELSE x.app

(* The members of a finite set of numbers in their order. *)
Ascending(S) ==
  CHOOSE s \in [1..Cardinality(S) -> S] : \A i, j \in DOMAIN s : i < j => s[i] < s[j]

(* The sequences of s one after the other, up to each of them. *)
Joined(s) ==
  LET upTo[k \in 0..Len(s)] == IF k = 0 THEN <<>> ELSE upTo[k - 1] \o s[k]
  IN  upTo

OfApp(b, app) ==
  LET at == Ascending({i \in DOMAIN Body(b) : AppOf(Body(b)[i]) = app})
  IN  [k \in DOMAIN at |-> Body(b)[at[k]]]

Scalars(x) == [i \in 1..x.size |-> <<x.tx, i>>]

(* The scalars of an encoded list: its length, then its extrinsics. *)
AppStream(list) ==
  IF list = <<>> THEN <<>>
  ELSE <<<<"length", Len(list)>>>> \o Joined([i \in DOMAIN list |-> Scalars(list[i])])[Len(list)]

AppsOf(b) == Ascending({AppOf(Body(b)[i]) : i \in DOMAIN Body(b)})

Streams(b) == [k \in DOMAIN AppsOf(b) |-> AppStream(OfApp(b, AppsOf(b)[k]))]

Grid(b) == Joined(Streams(b))[Len(Streams(b))]

(* The DataLookup of the header: the size, and where the stream of each      *)
(* application but 0, the first if it is there, starts.                     *)
DataLookup(b) ==
  LET apps == AppsOf(b)
      zero == IF \E k \in DOMAIN apps : apps[k] = 0 THEN 1 ELSE 0
  IN  [size |-> Len(Grid(b)),
       index |-> [i \in 1..(Len(apps) - zero) |->
                    [app |-> apps[i + zero], start |-> Len(Joined(Streams(b))[i + zero - 1])]]]
=============================================================================
