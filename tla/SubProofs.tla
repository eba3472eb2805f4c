------------------------------ MODULE SubProofs ------------------------------
(***************************************************************************)
(* Safety of the block subscription for every set of branches and every    *)
(* bound on the height: type correctness; that what a finalized            *)
(* subscription delivers is, and stays, on the finalized chain; that in    *)
(* best mode it hands out linked blocks; and that it implements the        *)
(* abstract cursor BlockCursor.                                            *)
(***************************************************************************)
EXTENDS SubHistory, ChainNodeProofs

-----------------------------------------------------------------------------
(* The invariant *)

(* What a cached height and a pending RPC owe to the node's state. *)
CacheInv ==
  /\ latestFinalized # NoHeight => latestFinalized <= Height(finalized)
  /\ pc = "hist" => latestFinalized # NoHeight /\ cursor < latestFinalized
  /\ pc = "hash" /\ mode = "final" => cursor <= Height(finalized)

(* The state of the two concrete subscriptions is kept apart. *)
ModeInv ==
  /\ pc = "build" => mode = "uninit" /\ cursor = NoHeight
  /\ pc \in {"latest", "hist", "head", "hash"} => mode # "uninit"
  /\ mode = "uninit" => last = NoBlock
  /\ mode # "best" => blockProcessed = {}
  /\ pc # "idle" => ret = "none"

IInv == TypeOK /\ CacheInv /\ ModeInv /\ FinalizedDelivered

-----------------------------------------------------------------------------
LEMMA HeightsFacts ==
  /\ Heights \subseteq Nat
  /\ \A h \in 0..MaxHeight : h \in Heights /\ h + 1 \in Heights
  /\ \A h \in Heights : h # NoHeight
  /\ \A b \in Blocks : /\ Height(b) \in Heights /\ Height(b) + 1 \in Heights
                       /\ b # NoBlock
<1>1. /\ Heights \subseteq Nat
      /\ \A h \in 0..MaxHeight : h \in Heights /\ h + 1 \in Heights
  BY ChainAssumption DEF Heights
<1>2. \A b \in Blocks : Height(b) \in 0..MaxHeight
  BY BlockShape
<1>3. NoBlock \notin Blocks
  BY ChainAssumption DEF Blocks, BlocksAt
<1>. QED
  BY <1>1, <1>2, <1>3, SubAssumption

(* Stepping back stays among the heights and never goes up. *)
LEMMA StepBackFacts ==
  ASSUME NEW h \in Heights, NEW p \in BOOLEAN
  PROVE  StepBack(h, p) \in Heights /\ StepBack(h, p) <= h
  BY ChainAssumption DEF Heights, StepBack, SatSub1

(* The await a call is routed to fits the cached height. *)
LEMMA RouteFacts ==
  ASSUME NEW h \in Heights, NEW l \in Heights \cup {NoHeight}
  PROVE  /\ Route(h, l) \in {"latest", "hist", "head"}
         /\ Route(h, l) = "hist" => l # NoHeight /\ h < l
  BY HeightsFacts DEF Route

-----------------------------------------------------------------------------
LEMMA InitIInv == Init => IInv
<1>. SUFFICES ASSUME Init PROVE IInv
  OBVIOUS
<1>1. Genesis \in Blocks /\ Height(Genesis) = 0
  BY GenesisIsBlock
<1>2. ChainTypeOK
  BY ChainStart DEF Init
<1>. USE DEF Init, ChainInit, SubInit
<1>3. SubTypeOK
  BY DEF SubTypeOK
<1>. QED
  BY <1>2, <1>3 DEF IInv, TypeOK, CacheInv, ModeInv, FinalizedDelivered

(* The node moves under a subscription at rest or waiting for an answer. *)
LEMMA ChainKeepsIInv ==
  ASSUME IInv, ChainNext, UNCHANGED subVars
  PROVE  IInv'
<1>. USE DEF IInv, TypeOK
<1>1. ChainTypeOK' /\ OnChain(finalized, finalized')
      /\ Height(finalized) <= Height(finalized')
  BY ChainStep
<1>2. SubTypeOK'
  BY DEF SubTypeOK, subVars, Heights, Blocks, BlocksAt
<1>3. Height(finalized) \in Nat /\ Height(finalized') \in Nat
  BY <1>1, HeightsFacts DEF ChainTypeOK
<1>4. CacheInv'
  BY <1>1, <1>3, HeightsFacts DEF CacheInv, subVars, SubTypeOK, ModeInv
<1>5. ModeInv'
  BY DEF ModeInv, subVars
<1>6. FinalizedDelivered'
  BY <1>1, OnChainTransitive DEF FinalizedDelivered, subVars, SubTypeOK, ChainTypeOK
<1>. QED
  BY <1>1, <1>2, <1>4, <1>5, <1>6

-----------------------------------------------------------------------------
(* Setters *)

LEMMA SettersKeepIInv ==
  ASSUME IInv, UNCHANGED chainVars,
         \/ \E v \in BOOLEAN : UseBestBlock(v)
         \/ \E v \in Heights : SetBlockHeight(v)
  PROVE  IInv'
<1>. USE DEF IInv, TypeOK, chainVars
<1>1. ChainTypeOK'
  BY DEF ChainTypeOK
<1>2. SubTypeOK' /\ CacheInv' /\ ModeInv' /\ FinalizedDelivered'
  <2>1. CASE \E v \in BOOLEAN : UseBestBlock(v)
    BY <2>1 DEF UseBestBlock, SubTypeOK, CacheInv, ModeInv, FinalizedDelivered,
                Heights, Blocks, BlocksAt
  <2>2. CASE \E v \in Heights : SetBlockHeight(v)
    BY <2>2 DEF SetBlockHeight, SubTypeOK, CacheInv, ModeInv,
                FinalizedDelivered, Heights, Blocks, BlocksAt
  <2>. QED
    BY <2>1, <2>2
<1>. QED
  BY <1>1, <1>2

(* Entering next() or prev() on a concrete subscription at a known height. *)
LEMMA EnterKeepsIInv ==
  ASSUME IInv, UNCHANGED chainVars, UNCHANGED last,
         useBest' \in BOOLEAN, call' \in {"next", "prev"},
         ret' = "none",
         NEW m \in {"best", "final"}, NEW op \in {"next", "prev"},
         NEW h \in Heights,
         mode # "uninit" => m = mode,
         Enter(m, op, h)
  PROVE  IInv'
<1>. USE DEF IInv, TypeOK, chainVars
<1>1. ChainTypeOK'
  BY DEF ChainTypeOK
<1>2. cursor' \in Heights
  BY StepBackFacts DEF Enter, SubTypeOK
<1>3. /\ mode' = m /\ latestFinalized' = latestFinalized
      /\ pc' = Route(cursor', latestFinalized)
      /\ blockProcessed' \in {blockProcessed, {}}
      /\ processedPrevious' \in BOOLEAN
  BY DEF Enter, SubTypeOK
<1>4. /\ pc' \in {"latest", "hist", "head"}
      /\ pc' = "hist" => latestFinalized # NoHeight /\ cursor' < latestFinalized
  BY <1>2, <1>3, RouteFacts DEF SubTypeOK
<1>5. SubTypeOK'
  BY <1>2, <1>3, <1>4 DEF SubTypeOK, Heights, Blocks, BlocksAt
<1>6. CacheInv'
  BY <1>3, <1>4 DEF CacheInv
<1>7. ModeInv'
  BY <1>3, <1>4 DEF ModeInv
<1>8. FinalizedDelivered'
  BY <1>3 DEF FinalizedDelivered, ModeInv
<1>. QED
  BY <1>1, <1>5, <1>6, <1>7, <1>8

LEMMA StartKeepsIInv ==
  ASSUME IInv, UNCHANGED chainVars, NEW op \in {"next", "prev"}, Start(op)
  PROVE  IInv'
<1>. USE DEF IInv, TypeOK
<1>1. CASE cursor = NoHeight
  <2>1. /\ pc' = "build" /\ mode = "uninit" /\ call' = op /\ ret' = "none"
        /\ UNCHANGED <<mode, cursor, blockProcessed, processedPrevious,
                       latestFinalized, useBest, last, best, finalized>>
    BY <1>1, HeightsFacts DEF Start, SubTypeOK, chainVars
  <2>2. SubTypeOK'
    BY <2>1 DEF SubTypeOK, Heights, Blocks, BlocksAt
  <2>3. ChainTypeOK' /\ CacheInv' /\ ModeInv' /\ FinalizedDelivered'
    BY <1>1, <2>1 DEF ChainTypeOK, CacheInv, ModeInv, FinalizedDelivered
  <2>. QED
    BY <2>2, <2>3
<1>2. CASE cursor # NoHeight
  <2>1. /\ Enter(Concrete, op, cursor) /\ call' = op /\ ret' = "none"
        /\ UNCHANGED <<useBest, last>>
    BY <1>2 DEF Start
  <2>2. /\ Concrete \in {"best", "final"} /\ (mode # "uninit" => Concrete = mode)
        /\ cursor \in Heights /\ useBest \in BOOLEAN
    BY <1>2 DEF Concrete, SubTypeOK
  <2>3. useBest' \in BOOLEAN /\ UNCHANGED last
    BY <2>1, <2>2
  <2>. QED
    BY <2>1, <2>2, <2>3, EnterKeepsIInv
<1>. QED
  BY <1>1, <1>2

-----------------------------------------------------------------------------
(* Answers *)

LEMMA BuildKeepsIInv ==
  ASSUME IInv, UNCHANGED chainVars, BuildReply
  PROVE  IInv'
<1>. USE DEF IInv, TypeOK
<1>. DEFINE h == IF useBest THEN Height(best) ELSE Height(finalized)
<1>1. h \in Heights
  BY HeightsFacts DEF ChainTypeOK
<1>2. /\ Enter(Concrete, call, h)
      /\ UNCHANGED <<useBest, call, ret, last>>
  BY DEF BuildReply
<1>3. Concrete \in {"best", "final"} /\ mode = "uninit"
  BY DEF BuildReply, ModeInv, Concrete
<1>4. useBest' \in BOOLEAN /\ call' \in {"next", "prev"} /\ UNCHANGED last
      /\ call \in {"next", "prev"}
      /\ ret' = "none"
  BY <1>2 DEF SubTypeOK, ModeInv, BuildReply
<1>. HIDE DEF h
<1>. QED
  BY <1>1, <1>2, <1>3, <1>4, EnterKeepsIInv

LEMMA LatestKeepsIInv ==
  ASSUME IInv, UNCHANGED chainVars, LatestReply
  PROVE  IInv'
<1>. USE DEF IInv, TypeOK, chainVars, LatestReply
<1>1. latestFinalized' = Height(finalized) /\ Height(finalized) \in Heights
  BY HeightsFacts DEF ChainTypeOK
<1>2. cursor \in Heights /\ mode # "uninit"
  BY DEF SubTypeOK, ModeInv
<1>3. /\ pc' \in {"latest", "hist", "head"}
      /\ pc' = "hist" => latestFinalized' # NoHeight /\ cursor < latestFinalized'
  BY <1>1, <1>2, RouteFacts
<1>4. ChainTypeOK' /\ SubTypeOK'
  BY <1>1, <1>3 DEF ChainTypeOK, SubTypeOK, Heights, Blocks, BlocksAt
<1>5. CacheInv'
  <2>1. cursor' = cursor /\ finalized' = finalized /\ Height(finalized) \in Nat
    BY <1>1, HeightsFacts
  <2>. QED
    BY <1>1, <1>3, <2>1 DEF CacheInv
<1>6. ModeInv' /\ FinalizedDelivered'
  BY <1>2, <1>3 DEF ModeInv, FinalizedDelivered
<1>. QED
  BY <1>4, <1>5, <1>6

(* A call ends with a block of the chain the subscription follows. *)
LEMMA DeliverKeepsIInv ==
  ASSUME IInv, UNCHANGED chainVars, mode # "uninit", NEW b \in Blocks,
         mode = "final" => OnChain(b, finalized),
         Deliver(b)
  PROVE  IInv'
<1>. USE DEF IInv, TypeOK, chainVars, Deliver
<1>1. /\ Height(b) \in Heights /\ Height(b) + 1 \in Heights /\ b # NoBlock
  BY HeightsFacts
<1>2. ChainTypeOK' /\ SubTypeOK'
  BY <1>1 DEF ChainTypeOK, SubTypeOK
<1>3. CacheInv' /\ ModeInv'
  BY DEF CacheInv, ModeInv, SubTypeOK
<1>4. FinalizedDelivered'
  BY DEF FinalizedDelivered
<1>. QED
  BY <1>2, <1>3, <1>4

LEMMA AbortKeepsIInv ==
  ASSUME IInv, UNCHANGED chainVars, NEW how \in {"error", "cancelled"},
         Abort(how)
  PROVE  IInv'
<1>. USE DEF IInv, TypeOK, chainVars, Abort
<1>1. ChainTypeOK' /\ SubTypeOK'
  BY DEF ChainTypeOK, SubTypeOK, Heights, Blocks, BlocksAt
<1>2. CacheInv' /\ ModeInv' /\ FinalizedDelivered'
  BY DEF CacheInv, ModeInv, FinalizedDelivered
<1>. QED
  BY <1>1, <1>2

(* run_historical compares with a cached height, run_head with a polled one: *)
(* a finalized subscription asks for a hash only where the chain is final.   *)
LEMMA WantedIsFinal ==
  ASSUME IInv
  PROVE  /\ pc = "hist" => Wanted <= Height(finalized)
         /\ pc = "hash" /\ mode = "final" => Wanted <= Height(finalized)
         /\ pc \in {"hist", "hash"} => Wanted \in Nat
<1>1. /\ pc \in {"hist", "hash"} => cursor \in Nat
      /\ Height(finalized) \in Nat
      /\ latestFinalized # NoHeight => latestFinalized \in Nat
  BY HeightsFacts DEF IInv, TypeOK, ChainTypeOK, SubTypeOK, ModeInv
<1>. QED
  BY <1>1 DEF IInv, CacheInv, Wanted

LEMMA HashKeepsIInv ==
  ASSUME IInv, UNCHANGED chainVars, HashFound
  PROVE  IInv'
<1>. DEFINE b == AncestorAt(best, Wanted)
<1>1. /\ pc \in {"hist", "hash"} /\ Wanted \in 0..Height(best) /\ Deliver(b)
      /\ best \in Blocks /\ finalized \in Blocks /\ OnChain(finalized, best)
      /\ mode # "uninit"
  BY WantedIsFinal, HeightsFacts DEF HashFound, IInv, TypeOK, ChainTypeOK, ModeInv
<1>2. b \in Blocks
  BY <1>1, AncestorIsBlock
<1>3. ASSUME mode = "final" PROVE OnChain(b, finalized)
  <2>1. Wanted \in 0..Height(finalized)
    BY <1>1, <1>3, WantedIsFinal, HeightsFacts
  <2>2. b = AncestorAt(finalized, Wanted)
    BY <1>1, <2>1, AncestorOfAncestor
  <2>. QED
    BY <1>1, <2>1, <2>2, AncestorIsBlock
<1>. HIDE DEF b
<1>. QED
  BY <1>1, <1>2, <1>3, DeliverKeepsIInv

LEMMA HeadKeepsIInv ==
  ASSUME IInv, UNCHANGED chainVars, FinalizedHead \/ BestHead
  PROVE  IInv'
<1>. USE DEF IInv, TypeOK
<1>1. CASE AskHash /\ pc = "head" /\ (mode = "final" => cursor <= Height(finalized))
  <2>1. SubTypeOK' /\ ChainTypeOK'
    BY <1>1 DEF AskHash, SubTypeOK, ChainTypeOK, chainVars, Heights, Blocks, BlocksAt
  <2>2. CacheInv' /\ ModeInv' /\ FinalizedDelivered'
    BY <1>1 DEF AskHash, CacheInv, ModeInv, FinalizedDelivered, chainVars
  <2>. QED
    BY <2>1, <2>2
<1>2. CASE mode = "final" /\ Deliver(finalized)
  BY <1>2, AncestorSelf, DeliverKeepsIInv DEF ChainTypeOK
<1>3. CASE mode = "best" /\ Deliver(best)
  BY <1>3, DeliverKeepsIInv DEF ChainTypeOK
<1>. QED
  BY <1>1, <1>2, <1>3 DEF FinalizedHead, BestHead

-----------------------------------------------------------------------------
LEMMA NextKeepsIInv == IInv /\ [Next]_vars => IInv'
<1>. SUFFICES ASSUME IInv, [Next]_vars PROVE IInv'
  OBVIOUS
<1>1. CASE ChainNext /\ UNCHANGED subVars
  BY <1>1, ChainKeepsIInv
<1>2. ASSUME UNCHANGED chainVars, SubNext PROVE IInv'
  <2>1. CASE SubOp
    BY <1>2, <2>1, SettersKeepIInv, StartKeepsIInv DEF SubOp
  <2>2. CASE BuildReply
    BY <1>2, <2>2, BuildKeepsIInv
  <2>3. CASE LatestReply
    BY <1>2, <2>3, LatestKeepsIInv
  <2>4. CASE HashFound
    BY <1>2, <2>4, HashKeepsIInv
  <2>5. CASE FinalizedHead \/ BestHead
    BY <1>2, <2>5, HeadKeepsIInv
  <2>6. CASE HashMissing \/ RpcFails \/ Cancel
    BY <1>2, <2>6, AbortKeepsIInv DEF HashMissing, RpcFails, Cancel
  <2>. QED
    BY <1>2, <2>1, <2>2, <2>3, <2>4, <2>5, <2>6 DEF SubNext, Reply
<1>3. CASE UNCHANGED vars
  BY <1>3 DEF vars, IInv, TypeOK, ChainTypeOK, SubTypeOK, CacheInv, ModeInv,
              FinalizedDelivered, Heights, Blocks, BlocksAt
<1>. QED
  BY <1>1, <1>2, <1>3 DEF Next

-----------------------------------------------------------------------------
(* The delivering steps deliver a block of the node. *)
LEMMA DeliveredIsBlock ==
  ASSUME IInv
  PROVE  /\ best \in Blocks /\ finalized \in Blocks
         /\ HashFound => AncestorAt(best, Wanted) \in Blocks
         /\ HashFound \/ FinalizedHead \/ BestHead => mode # "uninit"
<1>1. best \in Blocks /\ finalized \in Blocks /\ Height(best) \in Nat
  BY HeightsFacts DEF IInv, TypeOK, ChainTypeOK
<1>2. HashFound => Wanted \in 0..Height(best)
  BY <1>1, WantedIsFinal DEF HashFound
<1>. QED
  BY <1>1, <1>2, AncestorIsBlock
     DEF HashFound, FinalizedHead, BestHead, IInv, ModeInv

(* Past the opening, a step of the Sub delivers the block at the cursor or   *)
(* leaves the position as it is.                                            *)
Stays ==
  /\ UNCHANGED <<cursor, processedPrevious, blockProcessed, last>>
  /\ pc' = "idle" => ret' # "ok"

Delivers ==
  /\ pc' = "idle" /\ ret' = "ok" /\ last' \in Blocks
  /\ mode = "final" => /\ processedPrevious' /\ cursor' = cursor + 1
                       /\ Height(last') = cursor
  /\ mode = "best" => last' \in blockProcessed'

LEMMA SubStepOutcome ==
  ASSUME IInv, pc # "idle", pc # "build", UNCHANGED chainVars,
         Reply \/ RpcFails \/ Cancel
  PROVE  /\ mode' = mode /\ useBest' = useBest /\ mode # "uninit"
         /\ Stays \/ Delivers
<1>. USE DEF Stays, Delivers
<1>1. mode # "uninit" /\ ret = "none" /\ cursor \in Nat
  BY HeightsFacts DEF IInv, ModeInv, TypeOK, SubTypeOK
<1>2. ASSUME NEW b \in Blocks, Deliver(b), mode = "final" => Height(b) = cursor,
             UNCHANGED useBest
      PROVE  /\ mode' = mode /\ pc' = "idle" /\ ret' = "ok" /\ last' \in Blocks
             /\ mode = "final" => /\ processedPrevious' /\ cursor' = cursor + 1
                                  /\ Height(last') = cursor
             /\ mode = "best" => last' \in blockProcessed'
  BY <1>2 DEF Deliver
<1>3. CASE LatestReply
  BY <1>1, <1>3 DEF LatestReply
<1>4. CASE HashFound
  <2>1. Wanted \in 0..Height(best) /\ Deliver(AncestorAt(best, Wanted)) /\ best \in Blocks
    BY <1>4, WantedIsFinal, HeightsFacts DEF HashFound, IInv, TypeOK, ChainTypeOK
  <2>2. AncestorAt(best, Wanted) \in Blocks /\ Height(AncestorAt(best, Wanted)) = Wanted
    BY <2>1, AncestorIsBlock
  <2>3. mode = "final" => Wanted = cursor
    BY DEF Wanted
  <2>. QED
    BY <1>1, <1>2, <2>1, <2>2, <2>3 DEF Deliver
<1>5. CASE FinalizedHead \/ BestHead
  <2>1. CASE AskHash
    BY <1>1, <2>1 DEF AskHash
  <2>2. CASE FinalizedHead /\ cursor = Height(finalized) /\ Deliver(finalized)
    BY <1>1, <1>2, <2>2, DeliveredIsBlock DEF Deliver
  <2>3. CASE BestHead /\ Deliver(best)
    BY <1>1, <1>2, <2>3, DeliveredIsBlock DEF Deliver, BestHead
  <2>. QED
    BY <1>5, <2>1, <2>2, <2>3 DEF FinalizedHead, BestHead
<1>6. CASE HashMissing \/ RpcFails \/ Cancel
  BY <1>1, <1>6 DEF HashMissing, RpcFails, Cancel, Abort
<1>7. CASE BuildReply
  BY <1>7 DEF BuildReply
<1>. QED
  BY <1>3, <1>4, <1>5, <1>6, <1>7 DEF Reply

-----------------------------------------------------------------------------
LEMMA SpecIInv == Spec => []IInv
  BY InitIInv, NextKeepsIInv, PTL DEF Spec

(* Type correctness of the node and the subscription. *)
THEOREM TypeCorrect == Spec => []TypeOK
  BY SpecIInv, PTL DEF IInv

(* What a finalized subscription delivers stays finalized. *)
THEOREM FinalizedDeliveredHolds == Spec => []FinalizedDelivered
  BY SpecIInv, PTL DEF IInv

(* The historical path reads only final heights: its cached bound may be   *)
(* stale but never wrong, in either mode.                                  *)
THEOREM HistoricalIsFinalHolds == Spec => []HistoricalIsFinal
<1>1. IInv => HistoricalIsFinal
  BY WantedIsFinal DEF HistoricalIsFinal
<1>. QED
  BY <1>1, SpecIInv, PTL

-----------------------------------------------------------------------------
(* Where the cursor stands relative to the blocks delivered *)

StandInv ==
  /\ mode = "uninit" => ~ processedPrevious
  /\ mode = "final" /\ processedPrevious
       => last \in Blocks /\ cursor = Height(last) + 1
  /\ mode = "best" => \A b \in blockProcessed : Height(b) = cursor
  /\ mode = "best" /\ blockProcessed # {} => last \in blockProcessed

CInv == IInv /\ StandInv

LEMMA InitStand == Init => StandInv
  BY DEF Init, SubInit, StandInv

(* Only a delivery and a change of position touch what StandInv relates. *)
LEMMA EnterKeepsStand ==
  ASSUME IInv, StandInv, UNCHANGED last,
         NEW m \in {"best", "final"}, NEW op \in {"next", "prev"}, NEW h,
         mode # "uninit" => m = mode /\ h = cursor,
         Enter(m, op, h)
  PROVE  StandInv'
<1>1. CASE op = "prev"
  BY <1>1 DEF Enter, StandInv
<1>2. CASE op = "next"
  BY <1>2 DEF Enter, StandInv, IInv, ModeInv
<1>. QED
  BY <1>1, <1>2

LEMMA DeliverKeepsStand ==
  ASSUME IInv, StandInv, NEW b \in Blocks, mode # "uninit", Deliver(b)
  PROVE  StandInv'
<1>1. CASE mode = "final"
  BY <1>1 DEF Deliver, StandInv
<1>2. CASE mode = "best" /\ Height(b) = cursor
  BY <1>2 DEF Deliver, StandInv
<1>3. CASE mode = "best" /\ Height(b) # cursor
  BY <1>3 DEF Deliver, StandInv
<1>. QED
  BY <1>1, <1>2, <1>3 DEF IInv, TypeOK, SubTypeOK

LEMMA ConcreteFacts ==
  ASSUME IInv
  PROVE  /\ Concrete \in {"best", "final"}
         /\ mode # "uninit" => Concrete = mode
         /\ call \in {"next", "prev"}
  BY DEF IInv, TypeOK, SubTypeOK, Concrete

LEMMA NextKeepsStand == CInv /\ [Next]_vars => StandInv'
<1>. SUFFICES ASSUME IInv, StandInv, [Next]_vars PROVE StandInv'
  BY DEF CInv
<1>1. CASE UNCHANGED subVars
  BY <1>1 DEF subVars, StandInv
<1>2. CASE SubOp
  <2>1. ASSUME NEW v \in BOOLEAN, UseBestBlock(v) PROVE StandInv'
    BY <2>1 DEF UseBestBlock, StandInv
  <2>2. ASSUME NEW v \in Heights, SetBlockHeight(v) PROVE StandInv'
    BY <2>2 DEF SetBlockHeight, StandInv
  <2>3. ASSUME NEW op \in {"next", "prev"}, Start(op) PROVE StandInv'
    <3>1. CASE cursor = NoHeight
      BY <2>3, <3>1 DEF Start, StandInv
    <3>2. CASE cursor # NoHeight
      BY <2>3, <3>2, ConcreteFacts, EnterKeepsStand DEF Start
    <3>. QED
      BY <3>1, <3>2
  <2>. QED
    BY <1>2, <2>1, <2>2, <2>3 DEF SubOp
<1>3. CASE BuildReply
  <2>1. mode = "uninit" /\ UNCHANGED last
    BY <1>3 DEF BuildReply, IInv, ModeInv
  <2>. QED
    BY <1>3, <2>1, ConcreteFacts, EnterKeepsStand DEF BuildReply
<1>4. CASE LatestReply
  BY <1>4 DEF LatestReply, StandInv
<1>5. CASE HashFound
  BY <1>5, DeliveredIsBlock, DeliverKeepsStand DEF HashFound
<1>6. CASE FinalizedHead \/ BestHead
  <2>1. CASE AskHash
    BY <2>1 DEF AskHash, StandInv
  <2>2. CASE Deliver(finalized) \/ Deliver(best)
    BY <1>6, <2>2, DeliveredIsBlock, DeliverKeepsStand
  <2>. QED
    BY <1>6, <2>1, <2>2 DEF FinalizedHead, BestHead
<1>7. CASE HashMissing \/ RpcFails \/ Cancel
  BY <1>7 DEF HashMissing, RpcFails, Cancel, Abort, StandInv
<1>. QED
  BY <1>1, <1>2, <1>3, <1>4, <1>5, <1>6, <1>7
     DEF Next, SubNext, Reply, vars, subVars

LEMMA SpecCInv == Spec => []CInv
<1>1. Init => CInv
  BY InitIInv, InitStand DEF CInv
<1>2. CInv /\ [Next]_vars => CInv'
  BY NextKeepsIInv, NextKeepsStand DEF CInv
<1>. QED
  BY <1>1, <1>2, PTL DEF Spec

-----------------------------------------------------------------------------
(* A block above the one delivered last, on the same chain, is its child. *)
LEMMA LinkedOnChain ==
  ASSUME NEW x \in Blocks, NEW y \in Blocks, NEW c \in Blocks,
         OnChain(x, c), OnChain(y, c), Height(y) = Height(x) + 1
  PROVE  x = Parent(y)
<1>1. Height(x) \in Nat /\ Height(y) \in Nat
  BY HeightsFacts
<1>2. AncestorAt(c, Height(x)) = AncestorAt(y, Height(x))
  BY <1>1, AncestorOfAncestor
<1>. QED
  BY <1>1, <1>2 DEF Parent, OnChain

(* In best mode a delivered block is the child of the one delivered before, *)
(* unless that one was reorganised away or the cursor was moved.            *)
THEOREM BestLinkedHolds == Spec => BestLinked
<1>. DEFINE Linked == (mode = "best" /\ pc # "idle" /\ ret' = "ok"
                       /\ blockProcessed # {} /\ OnChain(last, best))
                      => last = Parent(last')
<1>1. CInv /\ [Next]_vars => [Linked]_vars
  <2>. SUFFICES ASSUME CInv, Next, mode = "best", pc # "idle", ret' = "ok",
                       ~ UNCHANGED vars,
                       blockProcessed # {}, OnChain(last, best)
                PROVE  last = Parent(last')
    OBVIOUS
  <2>. USE DEF CInv
  <2>1. /\ last \in Blocks /\ Height(last) = cursor /\ cursor \in Nat
        /\ last \in blockProcessed
        /\ best \in Blocks /\ Height(best) \in Nat
    BY HeightsFacts DEF StandInv, IInv, TypeOK, SubTypeOK, ChainTypeOK
  <2>2. CASE HashFound
    <3>1. Wanted = cursor + 1 /\ Wanted \in 0..Height(best)
          /\ last' = AncestorAt(best, Wanted)
      BY <2>1, <2>2 DEF HashFound, Wanted, Deliver
    <3>. QED
      BY <2>1, <3>1, AncestorIsBlock, LinkedOnChain
  <2>3. CASE BestHead /\ Deliver(best)
    <3>1. last' = best /\ Height(best) \in {cursor, cursor + 1} /\ best # last
      BY <2>1, <2>3, AncestorIsBlock DEF BestHead, Deliver, AskHash
    <3>2. Height(best) = cursor + 1
      BY <2>1, <3>1, AncestorSelf DEF OnChain
    <3>. QED
      BY <2>1, <3>1, <3>2, AncestorSelf, LinkedOnChain
  <2>4. HashFound \/ (BestHead /\ Deliver(best))
    <3>1. ret = "none" /\ ~ UNCHANGED subVars /\ ~ SubOp
      BY DEF IInv, ModeInv, subVars, SubOp, UseBestBlock, SetBlockHeight, Start
    <3>2. Reply \/ RpcFails \/ Cancel
      BY <3>1 DEF Next, SubNext
    <3>. QED
      BY <3>1, <3>2 DEF Reply, BuildReply, LatestReply, HashMissing,
            FinalizedHead, BestHead, AskHash, RpcFails, Cancel, Abort
  <2>. QED
    BY <2>2, <2>3, <2>4
<1>. QED
  BY <1>1, SpecCInv, PTL DEF Spec, BestLinked

-----------------------------------------------------------------------------
(* Refinement of the abstract cursor *)

LEMMA InitRefines == Init => Abstract!Init
  BY DEF Init, SubInit, ChainInit, At, Seen, Phase, Genesis,
         Abstract!Init, Abstract!ChainInit, Abstract!Genesis

(* Entering next() or prev() aims the abstract cursor. *)
LEMMA EnterRefines ==
  ASSUME CInv, UNCHANGED last,
         NEW m \in {"best", "final"}, NEW op \in {"next", "prev"},
         NEW h \in Heights,
         mode # "uninit" => m = mode /\ h = cursor,
         Enter(m, op, h)
  PROVE  Abstract!Aim(m, op, IF mode = "uninit" THEN h ELSE At)
<1>. USE DEF CInv
<1>1. h \in Nat /\ Phase' = "open" /\ mode' = m
  <2>1. h \in Nat /\ cursor' \in Heights
    BY HeightsFacts, StepBackFacts DEF Enter, IInv, TypeOK, SubTypeOK
  <2>2. pc' = Route(cursor', latestFinalized) /\ mode' = m
    BY DEF Enter
  <2>3. pc' \in {"latest", "hist", "head"}
    BY <2>1, <2>2, RouteFacts DEF IInv, TypeOK, SubTypeOK
  <2>. QED
    BY <2>1, <2>2, <2>3 DEF Phase
<1>. DEFINE start == IF mode = "uninit" THEN h ELSE At
<1>2. /\ At' = IF op = "prev" THEN SatSub1(start) ELSE start
      /\ Seen' = IF op = "prev" THEN {} ELSE Seen
  <2>1. CASE mode = "uninit"
    <3>1. ~ processedPrevious /\ blockProcessed = {} /\ Seen = {}
      BY <2>1 DEF StandInv, IInv, ModeInv, Seen
    <3>2. /\ ~ processedPrevious' /\ blockProcessed' = {}
          /\ cursor' = IF op = "prev" THEN SatSub1(h) ELSE h
      BY <3>1 DEF Enter, StepBack, IInv, TypeOK, SubTypeOK
    <3>. QED
      BY <1>1, <2>1, <3>1, <3>2 DEF At, Seen
  <2>2. CASE mode # "uninit" /\ op = "next"
    BY <2>2 DEF Enter, At, Seen
  <2>3. CASE mode # "uninit" /\ op = "prev"
    <3>1. cursor' = SatSub1(At)
      <4>1. CASE mode = "final" /\ processedPrevious
        <5>1. Height(last) \in Nat /\ cursor = Height(last) + 1
          BY <4>1, HeightsFacts DEF StandInv
        <5>. QED
          BY <4>1, <5>1, <2>3 DEF Enter, StepBack, SatSub1, At
      <4>2. CASE ~ (mode = "final" /\ processedPrevious)
        BY <4>2, <1>1, <2>3 DEF Enter, StepBack, At
      <4>. QED
        BY <4>1, <4>2
    <3>2. ~ processedPrevious' /\ blockProcessed' = {}
      BY <2>3 DEF Enter
    <3>. QED
      BY <2>3, <3>1, <3>2 DEF At, Seen
  <2>. QED
    BY <2>1, <2>2, <2>3
<1>. QED
  BY <1>1, <1>2 DEF Abstract!Aim, Abstract!Below, SatSub1

(* A delivery at the height the cursor asks for is an abstract delivery. *)
LEMMA DeliverRefines ==
  ASSUME CInv, UNCHANGED chainVars, mode # "uninit", Phase = "open",
         NEW b \in Blocks, Deliver(b), b \notin Seen,
         OnChain(b, IF mode = "final" THEN finalized ELSE best),
         \/ Seen = {} /\ Height(b) = At
         \/ Seen # {} /\ Height(b) = At + 1
         \/ Seen # {} /\ Height(b) = At /\ mode = "best"
  PROVE  Abstract!Next
<1>. USE DEF CInv, chainVars
<1>. DEFINE tip == IF mode = "final" THEN finalized ELSE best
<1>1. /\ tip \in Blocks /\ Height(b) \in 0..Height(tip)
      /\ b = AncestorAt(tip, Height(b))
  <2>1. tip \in Blocks /\ OnChain(b, tip)
    BY DEF IInv, TypeOK, ChainTypeOK
  <2>2. Height(tip) \in Nat /\ Height(b) \in Nat
    BY <2>1, HeightsFacts
  <2>. HIDE DEF tip
  <2>. QED
    BY <2>1, <2>2 DEF OnChain
<1>2. /\ At' = Height(b) /\ last' = b /\ mode' = mode
      /\ Phase' = "idle" /\ call' = call
      /\ Seen' = IF Height(b) = At THEN Seen \cup {b} ELSE {b}
  <2>1. CASE mode = "final"
    <3>1. Height(b) \in Nat
      BY HeightsFacts
    <3>2. processedPrevious' = TRUE /\ cursor' = Height(b) + 1 /\ last' = b
          /\ mode' = "final" /\ pc' = "idle" /\ call' = call
      BY <2>1 DEF Deliver
    <3>3. At' = Height(b) /\ Seen' = {b}
      BY <3>1, <3>2 DEF At, Seen
    <3>4. Height(b) = At => Seen = {}
      BY <2>1, <3>1 DEF At, Seen, StandInv
    <3>. QED
      BY <2>1, <3>2, <3>3, <3>4 DEF Phase
  <2>2. CASE mode = "best"
    BY <2>2 DEF Deliver, At, Seen, Phase
  <2>. QED
    BY <2>1, <2>2 DEF IInv, TypeOK, SubTypeOK
<1>. HIDE DEF tip
<1>3. Abstract!Deliver
  <2>. USE DEF Abstract!Height, Abstract!AncestorAt, Height, AncestorAt
  <2>1. tip = Abstract!Tip(mode)
    BY DEF tip, Abstract!Tip
  <2>. QED
    BY <1>1, <1>2, <2>1 DEF Abstract!Deliver
<1>. QED
  BY <1>3 DEF Abstract!Next, Abstract!CursorNext, Abstract!chainVars

LEMMA ChainRefines ==
  ASSUME ChainNext, UNCHANGED subVars
  PROVE  Abstract!Next
<1>1. UNCHANGED <<mode, At, Seen, last, Phase, call>>
  BY DEF subVars, At, Seen, Phase
<1>2. Abstract!ChainNext
  BY DEF ChainNext, NewBest, Finalize, Blocks, BlocksAt, OnChain, AncestorAt,
         Height, Abstract!ChainNext, Abstract!NewBest, Abstract!Finalize,
         Abstract!Blocks, Abstract!BlocksAt, Abstract!OnChain,
         Abstract!AncestorAt, Abstract!Height
<1>. QED
  BY <1>1, <1>2 DEF Abstract!Next

LEMMA SetHeightRefines ==
  ASSUME CInv, UNCHANGED chainVars, NEW v \in Heights, SetBlockHeight(v)
  PROVE  Abstract!Next
<1>1. At' = v /\ Seen' = {} /\ UNCHANGED <<mode, last, Phase, call>> /\ Phase = "idle"
  BY DEF SetBlockHeight, At, Seen, Phase
<1>2. Abstract!Jump
  BY <1>1 DEF Abstract!Jump, Heights
<1>. QED
  BY <1>2 DEF Abstract!Next, Abstract!CursorNext, Abstract!chainVars, chainVars

LEMMA HashRefines ==
  ASSUME CInv, UNCHANGED chainVars, HashFound
  PROVE  Abstract!Next
<1>. USE DEF CInv
<1>. DEFINE b == AncestorAt(best, Wanted)
<1>1. /\ mode \in {"best", "final"} /\ pc \in {"hist", "hash"}
      /\ best \in Blocks /\ finalized \in Blocks /\ OnChain(finalized, best)
      /\ Wanted \in 0..Height(best) /\ Deliver(b) /\ cursor \in Nat
  BY WantedIsFinal, HeightsFacts
     DEF HashFound, IInv, ModeInv, TypeOK, SubTypeOK, ChainTypeOK
<1>2. b \in Blocks /\ Height(b) = Wanted /\ OnChain(b, best)
  BY <1>1, AncestorIsBlock
<1>3. ASSUME mode = "final" PROVE OnChain(b, finalized)
  <2>1. Wanted \in 0..Height(finalized)
    BY <1>1, <1>3, WantedIsFinal, HeightsFacts
  <2>2. b = AncestorAt(finalized, Wanted)
    BY <1>1, <2>1, AncestorOfAncestor
  <2>. QED
    BY <1>1, <2>1, <2>2, AncestorIsBlock
<1>. HIDE DEF b
<1>0. Phase = "open"
  BY <1>1 DEF Phase
<1>4. /\ b \notin Seen
      /\ \/ Seen = {} /\ Height(b) = At
         \/ Seen # {} /\ Height(b) = At + 1
  <2>1. CASE mode = "best"
    BY <1>1, <1>2, <2>1 DEF At, Seen, Wanted, StandInv
  <2>2. CASE mode = "final" /\ processedPrevious
    BY <1>1, <1>2, <2>2, HeightsFacts DEF At, Seen, Wanted, StandInv
  <2>3. CASE mode = "final" /\ ~ processedPrevious
    BY <1>1, <1>2, <2>3 DEF At, Seen, Wanted
  <2>. QED
    BY <1>1, <2>1, <2>2, <2>3 DEF IInv, TypeOK, SubTypeOK
<1>. QED
  BY <1>0, <1>1, <1>2, <1>3, <1>4, DeliverRefines

LEMMA HeadRefines ==
  ASSUME CInv, UNCHANGED chainVars, FinalizedHead \/ BestHead
  PROVE  Abstract!Next \/ UNCHANGED Abstract!vars
<1>. USE DEF CInv
<1>0. /\ best \in Blocks /\ finalized \in Blocks /\ cursor \in Nat
      /\ Height(best) \in Nat /\ Height(finalized) \in Nat
  BY HeightsFacts
     DEF FinalizedHead, BestHead, IInv, TypeOK, SubTypeOK, ChainTypeOK
<1>. /\ Phase = "open"
  BY DEF FinalizedHead, BestHead, Phase
<1>1. CASE AskHash
  BY <1>1 DEF AskHash, At, Seen, Phase, Abstract!vars, chainVars
<1>2. CASE FinalizedHead /\ Deliver(finalized)
  <2>1. mode = "final" /\ cursor = Height(finalized)
    BY <1>2, <1>0 DEF FinalizedHead, Deliver, AskHash
  <2>2. finalized \notin Seen
        /\ \/ Seen = {} /\ Height(finalized) = At
           \/ Seen # {} /\ Height(finalized) = At + 1
    <3>1. CASE processedPrevious
      BY <1>0, <2>1, <3>1, HeightsFacts DEF At, Seen, StandInv
    <3>2. CASE ~ processedPrevious
      BY <2>1, <3>2 DEF At, Seen
    <3>. QED
      BY <3>1, <3>2
  <2>. QED
    BY <1>0, <1>2, <2>1, <2>2, AncestorSelf, DeliverRefines
<1>3. CASE BestHead /\ Deliver(best)
  <2>1. mode = "best" /\ best \notin blockProcessed /\ blockProcessed # {}
        /\ Height(best) \in {cursor, cursor + 1}
    BY <1>3 DEF BestHead, Deliver, AskHash
  <2>2. At = cursor /\ Seen = blockProcessed
    BY <2>1 DEF At, Seen
  <2>. QED
    BY <1>0, <1>3, <2>1, <2>2, AncestorSelf, DeliverRefines
<1>. QED
  BY <1>1, <1>2, <1>3 DEF FinalizedHead, BestHead

LEMMA StartRefines ==
  ASSUME CInv, UNCHANGED chainVars, NEW op \in {"next", "prev"}, Start(op)
  PROVE  Abstract!Next
<1>. USE DEF CInv
<1>1. Phase = "idle" /\ call' = op
  BY DEF Start, Phase
<1>2. CASE cursor = NoHeight
  <2>1. mode = "uninit" /\ At = NoHeight
    BY <1>2, HeightsFacts DEF IInv, TypeOK, SubTypeOK, StandInv, At
  <2>2. UNCHANGED <<mode, At, Seen, last>> /\ Phase' = "opening"
    BY <1>2, <2>1 DEF Start, At, Seen, Phase
  <2>. QED
    BY <1>1, <2>1, <2>2
       DEF Abstract!Next, Abstract!CursorNext, Abstract!Begin, Abstract!chainVars, chainVars
<1>3. CASE cursor # NoHeight
  <2>1. /\ Concrete \in {"best", "final"} /\ cursor \in Heights /\ UNCHANGED last
        /\ mode # "uninit" => Concrete = mode
        /\ Enter(Concrete, op, cursor)
    BY <1>3, ConcreteFacts DEF Start, IInv, TypeOK, SubTypeOK
  <2>2. Abstract!Aim(Concrete, op, IF mode = "uninit" THEN cursor ELSE At)
    BY <2>1, EnterRefines
  <2>3. (IF mode = "uninit" THEN cursor ELSE At) = At
    BY DEF At
  <2>4. At # NoHeight
    <3>1. CASE mode = "final" /\ processedPrevious
      <4>1. Height(last) \in Nat /\ cursor = Height(last) + 1
        BY <3>1, HeightsFacts DEF StandInv
      <4>2. At = Height(last)
        BY <3>1, <4>1 DEF At
      <4>. QED
        BY <4>1, <4>2, SubAssumption
    <3>2. CASE ~ (mode = "final" /\ processedPrevious)
      BY <1>3, <3>2 DEF At
    <3>. QED
      BY <3>1, <3>2
  <2>. QED
    BY <1>1, <2>1, <2>2, <2>3, <2>4
       DEF Abstract!Next, Abstract!CursorNext, Abstract!Begin, Abstract!chainVars, chainVars
<1>. QED
  BY <1>2, <1>3

LEMMA BuildRefines ==
  ASSUME CInv, UNCHANGED chainVars, BuildReply
  PROVE  Abstract!Next
<1>. USE DEF CInv
<1>. DEFINE h == IF useBest THEN Height(best) ELSE Height(finalized)
<1>1. mode = "uninit" /\ Phase = "opening" /\ h \in Heights
  BY HeightsFacts DEF BuildReply, Phase, IInv, ModeInv, TypeOK, ChainTypeOK
<1>2. Concrete \in {"best", "final"} /\ call \in {"next", "prev"}
  BY ConcreteFacts
<1>3. h = Abstract!Height(Abstract!Tip(Concrete))
  BY <1>1 DEF Concrete, Height, Abstract!Height, Abstract!Tip
<1>4. Enter(Concrete, call, h) /\ UNCHANGED <<last, call>>
  BY DEF BuildReply
<1>. HIDE DEF h
<1>5. Abstract!Aim(Concrete, call, h)
  BY <1>1, <1>2, <1>4, EnterRefines
<1>6. Abstract!Opened
  BY <1>1, <1>2, <1>3, <1>4, <1>5 DEF Abstract!Opened
<1>. QED
  BY <1>6 DEF Abstract!Next, Abstract!CursorNext, Abstract!chainVars, chainVars

LEMMA StepRefines ==
  CInv /\ [Next]_vars => Abstract!Next \/ UNCHANGED Abstract!vars
<1>. SUFFICES ASSUME CInv, [Next]_vars
              PROVE  Abstract!Next \/ UNCHANGED Abstract!vars
  OBVIOUS
<1>. DEFINE Goal == Abstract!Next \/ UNCHANGED Abstract!vars
<1>1. CASE ChainNext /\ UNCHANGED subVars
  BY <1>1, ChainRefines
<1>2. ASSUME UNCHANGED chainVars, SubOp PROVE Goal
  <2>1. ASSUME NEW v \in BOOLEAN, UseBestBlock(v) PROVE Goal
    BY <1>2, <2>1 DEF UseBestBlock, At, Seen, Phase, Abstract!vars, chainVars
  <2>2. ASSUME NEW v \in Heights, SetBlockHeight(v) PROVE Goal
    BY <1>2, <2>2, SetHeightRefines
  <2>3. ASSUME NEW op \in {"next", "prev"}, Start(op) PROVE Goal
    BY <1>2, <2>3, StartRefines
  <2>. HIDE DEF Goal
  <2>. QED
    BY <1>2, <2>1, <2>2, <2>3 DEF SubOp
<1>3. ASSUME UNCHANGED chainVars, BuildReply PROVE Goal
  BY <1>3, BuildRefines DEF CInv
<1>4. ASSUME UNCHANGED chainVars, LatestReply PROVE Goal
  <2>1. pc = "latest" /\ pc' \in {"latest", "hist", "head"}
    BY <1>4 DEF LatestReply, Route
  <2>. QED
    BY <1>4, <2>1 DEF LatestReply, At, Seen, Phase, Abstract!vars, chainVars
<1>5. ASSUME UNCHANGED chainVars, HashMissing \/ RpcFails \/ Cancel PROVE Goal
  <2>1. Abstract!Fail
    BY <1>5 DEF HashMissing, RpcFails, Cancel, Abort, At, Seen, Phase, Abstract!Fail
  <2>. QED
    BY <1>5, <2>1 DEF Abstract!Next, Abstract!CursorNext, Abstract!chainVars, chainVars
<1>6. CASE UNCHANGED vars
  BY <1>6 DEF vars, At, Seen, Phase, Abstract!vars
<1>. QED
  BY <1>1, <1>2, <1>3, <1>4, <1>5, <1>6, HashRefines, HeadRefines
     DEF Next, SubNext, Reply, CInv

(* next(), prev() and set_block_height() behave like the abstract cursor. *)
THEOREM SubImplementsCursor == Spec => ImplementsCursor
  BY InitRefines, StepRefines, SpecCInv, PTL
     DEF Spec, ImplementsCursor, Abstract!Spec

-----------------------------------------------------------------------------
(* A failed next() leaves the cursor where it stood. *)

(* While next() runs, and after it failed, the cursor stands where the call  *)
(* began, unless it had no height yet.                                      *)
EntryInv ==
  /\ (pc # "idle" \/ ret = "error") /\ call = "next" /\ entry[1] # NoHeight
       => Position = entry
  /\ pc = "build" => entry[1] = NoHeight

HistoryInv == CInv /\ EntryInv

(* A step of a call that is under way moves the cursor only if it delivers,  *)
(* and opens the subscription only if it had no height.                     *)
LEMMA ReplyKeepsPosition ==
  ASSUME CInv, pc # "idle", pc # "build", Reply \/ RpcFails \/ Cancel
  PROVE  /\ UNCHANGED call /\ pc' # "build"
         /\ Position' = Position \/ (pc' = "idle" /\ ret' = "ok")
<1>. USE DEF Position, At, Seen
<1>1. CASE LatestReply
  <2>1. pc' # "build"
    BY <1>1 DEF LatestReply, Route
  <2>. QED
    BY <1>1, <2>1 DEF LatestReply
<1>2. CASE HashFound
  BY <1>2 DEF HashFound, Deliver
<1>3. CASE FinalizedHead \/ BestHead
  BY <1>3 DEF FinalizedHead, BestHead, AskHash, Deliver
<1>4. CASE HashMissing \/ RpcFails \/ Cancel
  BY <1>4 DEF HashMissing, RpcFails, Cancel, Abort
<1>5. CASE BuildReply
  BY <1>5 DEF BuildReply
<1>. QED
  BY <1>1, <1>2, <1>3, <1>4, <1>5 DEF Reply

LEMMA HistoryStep == HistoryInv /\ [HistoryNext]_<<vars, entry>> => EntryInv'
<1>. SUFFICES ASSUME CInv, EntryInv, [HistoryNext]_<<vars, entry>> PROVE EntryInv'
  BY DEF HistoryInv
<1>1. CASE UNCHANGED <<vars, entry>>
  BY <1>1 DEF vars, EntryInv, Position, At, Seen
<1>2. ASSUME Next, pc = "idle", pc' = "idle", entry' = Position' PROVE EntryInv'
  BY <1>2 DEF EntryInv
<1>3. ASSUME Next, pc = "idle", pc' # "idle", entry' = Position PROVE EntryInv'
  <2>1. PICK o \in {"next", "prev"} : Start(o)
    BY <1>3 DEF Next, SubNext, SubOp, subVars, UseBestBlock, SetBlockHeight, Reply, BuildReply,
                LatestReply, HashFound, HashMissing, FinalizedHead, BestHead, RpcFails, Cancel
  <2>2. CASE cursor = NoHeight
    <3>1. mode = "uninit"
      BY <2>2, HeightsFacts DEF CInv, IInv, TypeOK, SubTypeOK
    <3>2. entry' = <<NoHeight, Seen>>
      BY <1>3, <2>2, <3>1 DEF Position, At
    <3>. QED
      BY <3>2 DEF EntryInv
  <2>3. CASE cursor # NoHeight
    <3>1. call' = o /\ Enter(Concrete, o, cursor) /\ UNCHANGED last
      BY <2>1, <2>3 DEF Start
    <3>2. Concrete \in {"best", "final"} /\ (mode # "uninit" => Concrete = mode)
      BY ConcreteFacts DEF CInv
    <3>3. pc' # "build" /\ mode' = Concrete
      BY <3>1 DEF Enter, Route
    <3>4. o = "next" => Position' = Position
      <4>1. mode = "uninit" => ~ processedPrevious /\ blockProcessed = {}
        BY DEF CInv, StandInv, IInv, ModeInv
      <4>2. o = "next" => UNCHANGED <<cursor, processedPrevious, blockProcessed>>
        BY <3>1 DEF Enter
      <4>. QED
        BY <3>1, <3>2, <3>3, <4>1, <4>2 DEF Position, At, Seen
    <3>. QED
      BY <1>3, <3>1, <3>3, <3>4 DEF EntryInv
  <2>. QED
    BY <2>2, <2>3
<1>4. ASSUME Next, pc # "idle", entry' = entry PROVE EntryInv'
  <2>1. CASE UNCHANGED subVars
    BY <1>4, <2>1 DEF subVars, EntryInv, Position, At, Seen
  <2>2. CASE pc = "build"
    <3>1. entry'[1] = NoHeight
      BY <1>4, <2>2 DEF EntryInv
    <3>. QED
      BY <3>1 DEF EntryInv
  <2>3. CASE pc # "build" /\ (Reply \/ RpcFails \/ Cancel)
    <3>1. /\ UNCHANGED call /\ pc' # "build"
          /\ Position' = Position \/ (pc' = "idle" /\ ret' = "ok")
      BY <1>4, <2>3, ReplyKeepsPosition
    <3>. QED
      BY <1>4, <3>1 DEF EntryInv
  <2>. QED
    BY <1>4, <2>1, <2>2, <2>3
       DEF Next, SubNext, SubOp, UseBestBlock, SetBlockHeight, Start
<1>. QED
  BY <1>1, <1>2, <1>3, <1>4 DEF HistoryNext

(* After an error of next() the cursor is where it was when it was called,   *)
(* so the call can be repeated.                                             *)
THEOREM NextErrorKeepsCursorHolds == HistorySpec => []NextErrorKeepsCursor
<1>1. HistoryInit => HistoryInv
  BY InitIInv, InitStand DEF HistoryInit, HistoryInv, CInv, EntryInv, Init, SubInit
<1>2. HistoryInv /\ [HistoryNext]_<<vars, entry>> => HistoryInv'
  <2>1. [HistoryNext]_<<vars, entry>> => [Next]_vars
    BY DEF HistoryNext
  <2>. QED
    BY <2>1, HistoryStep, NextKeepsIInv, NextKeepsStand DEF HistoryInv, CInv
<1>3. HistoryInv => NextErrorKeepsCursor
  BY DEF HistoryInv, EntryInv, NextErrorKeepsCursor
<1>. QED
  BY <1>1, <1>2, <1>3, PTL DEF HistorySpec
=============================================================================
