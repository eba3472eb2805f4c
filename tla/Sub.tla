--------------------------------- MODULE Sub ---------------------------------
(***************************************************************************)
(* The block subscription of the SDK (client/src/subscription/sub.rs): a   *)
(* pull cursor over the finalized or the best chain.  Every await on an    *)
(* RPC is a value of pc, so the node runs on between the calls; a call can *)
(* fail at every await (the retries of utils.rs exhausted) and its future  *)
(* can be dropped there.  `&mut self` keeps other operations out meanwhile.*)
(***************************************************************************)
EXTENDS ChainNode

CONSTANT NoHeight     \* None, where the code has an Option<u32> height

ASSUME SubAssumption == NoHeight \notin Nat

VARIABLES
  mode,               \* the variant of enum Sub: "uninit", "best", "final"
  useBest,            \* UnInitSub.use_best_block
  cursor,             \* block_height | current_block_height | next_block_height
  blockProcessed,     \* BestBlockSub.block_processed (used as a set)
  processedPrevious,  \* FinalizedBlockSub.processed_previous_block
  latestFinalized,    \* latest_finalized_height, the cached Option
  pc,                 \* the await the current call is at, or "idle"
  call,               \* the operation in progress: "next" or "prev"
  ret,                \* how the last call ended
  last                \* the block of the last Ok(BlockInfo)

subVars == <<mode, useBest, cursor, blockProcessed, processedPrevious,
             latestFinalized, pc, call, ret, last>>
vars == <<best, finalized, mode, useBest, cursor, blockProcessed,
          processedPrevious, latestFinalized, pc, call, ret, last>>

Heights == 0..(MaxHeight + 1)

SubTypeOK ==
  /\ mode \in {"uninit", "best", "final"}
  /\ useBest \in BOOLEAN
  /\ cursor \in Heights \cup {NoHeight}
  /\ mode # "uninit" => cursor \in Heights
  /\ blockProcessed \in SUBSET Blocks
  /\ processedPrevious \in BOOLEAN
  /\ latestFinalized \in Heights \cup {NoHeight}
  /\ pc \in {"idle", "build", "latest", "hist", "head", "hash"}
  /\ call \in {"next", "prev"}
  /\ ret \in {"none", "ok", "error", "cancelled"}
  /\ last \in Blocks \cup {NoBlock}

(* The variables of every module are well typed. *)
TypeOK == ChainTypeOK /\ SubTypeOK

SubInit ==
  /\ mode = "uninit"
  /\ useBest = FALSE
  /\ cursor = NoHeight
  /\ blockProcessed = {}
  /\ processedPrevious = FALSE
  /\ latestFinalized = NoHeight
  /\ pc = "idle"
  /\ call = "next"
  /\ ret = "none"
  /\ last = NoBlock

-----------------------------------------------------------------------------
(* Synchronous setters *)

(* Without effect once the subscription is initialized. *)
UseBestBlock(v) ==
  /\ pc = "idle"
  /\ mode = "uninit"
  /\ useBest' = v
  /\ UNCHANGED <<mode, cursor, blockProcessed, processedPrevious,
                 latestFinalized, pc, call, ret, last>>

SetBlockHeight(v) ==
  /\ pc = "idle"
  /\ cursor' = v
  /\ blockProcessed' = {}
  /\ processedPrevious' = FALSE
  /\ UNCHANGED <<mode, useBest, latestFinalized, pc, call, ret, last>>

-----------------------------------------------------------------------------
(* next() and prev() up to their first await *)

(* Mutant of SatSub1: the subtraction does not saturate. *)
PlainSub1(h) == h - 1

SatSub1(h) == IF h = 0 THEN 0 ELSE h - 1

(* Mutant of StepBack: the block just returned is not stepped over. *)
StepBackOnce(h, processed) == SatSub1(h)

(* prev() moves the cursor before it knows whether it will succeed. *)
StepBack(h, processed) ==
  IF processed THEN SatSub1(SatSub1(h)) ELSE SatSub1(h)

(* Mutant of Route: the cached height itself counts as historical. *)
RouteInclusive(h, latest) ==
  IF latest = NoHeight THEN "latest" ELSE IF latest >= h THEN "hist" ELSE "head"

(* next() once the latest finalized height is known: replay or follow. *)
Route(h, latest) ==
  IF latest = NoHeight THEN "latest" ELSE IF latest > h THEN "hist" ELSE "head"

(* A call runs on the concrete subscription m at height h. *)
Enter(m, op, h) ==
  /\ mode' = m
  /\ IF op = "prev"
     THEN /\ cursor' = StepBack(h, m = "final" /\ processedPrevious)
          /\ blockProcessed' = {}
          /\ processedPrevious' = FALSE
     ELSE /\ cursor' = h
          /\ UNCHANGED <<blockProcessed, processedPrevious>>
  /\ pc' = Route(cursor', latestFinalized)
  /\ UNCHANGED latestFinalized

Concrete == IF mode # "uninit" THEN mode
            ELSE IF useBest THEN "best" ELSE "final"

Start(op) ==
  /\ pc = "idle"
  /\ call' = op
  /\ ret' = "none"
  /\ IF cursor = NoHeight
     THEN /\ pc' = "build"
          /\ UNCHANGED <<mode, cursor, blockProcessed, processedPrevious,
                         latestFinalized>>
     ELSE Enter(Concrete, op, cursor)
  /\ UNCHANGED <<useBest, last>>

(* UnInitSub::build: no height was set, so the subscription starts at the  *)
(* head; only now is *self replaced, and the call goes on.                 *)
BuildReply ==
  /\ pc = "build"
  /\ Enter(Concrete, call, IF useBest THEN Height(best) ELSE Height(finalized))
  /\ UNCHANGED <<useBest, call, ret, last>>

(* fetch_latest_finalized_height: asked once, then cached for good. *)
LatestReply ==
  /\ pc = "latest"
  /\ latestFinalized' = Height(finalized)
  /\ pc' = Route(cursor, latestFinalized')
  /\ UNCHANGED <<mode, useBest, cursor, blockProcessed, processedPrevious,
                 call, ret, last>>

-----------------------------------------------------------------------------
(* The end of a call *)

(* Mutant of Deliver: the finalized cursor moves on by two. *)
DeliverSkipping(b) ==
  /\ last' = b
  /\ ret' = "ok"
  /\ pc' = "idle"
  /\ cursor' = IF mode = "final" THEN Height(b) + 2 ELSE Height(b)
  /\ IF mode = "final"
     THEN processedPrevious' = TRUE /\ UNCHANGED blockProcessed
     ELSE /\ blockProcessed' =
               IF Height(b) = cursor THEN blockProcessed \cup {b} ELSE {b}
          /\ UNCHANGED processedPrevious
  /\ UNCHANGED <<mode, useBest, latestFinalized, call>>

Deliver(b) ==
  /\ last' = b
  /\ ret' = "ok"
  /\ pc' = "idle"
  /\ IF mode = "final"
     THEN /\ cursor' = Height(b) + 1
          /\ processedPrevious' = TRUE
          /\ UNCHANGED blockProcessed
     ELSE /\ cursor' = Height(b)
          /\ blockProcessed' =
               IF Height(b) = cursor THEN blockProcessed \cup {b} ELSE {b}
          /\ UNCHANGED processedPrevious
  /\ UNCHANGED <<mode, useBest, latestFinalized, call>>

(* Err, or a dropped future: what the call wrote so far stays. *)
Abort(how) ==
  /\ ret' = how
  /\ pc' = "idle"
  /\ UNCHANGED <<mode, useBest, cursor, blockProcessed, processedPrevious,
                 latestFinalized, call, last>>

RpcFails == pc # "idle" /\ Abort("error")
Cancel   == pc # "idle" /\ Abort("cancelled")

-----------------------------------------------------------------------------
(* The awaits of next().  A poll that finds nothing new sleeps and asks     *)
(* again: it changes no variable, so it is not an action.                   *)

(* The height asked for by hash: run_historical, and run_head behind the head. *)
Wanted == IF mode = "best" /\ blockProcessed # {} THEN cursor + 1 ELSE cursor

HashFound ==
  /\ pc \in {"hist", "hash"}
  /\ Wanted <= Height(best)
  /\ Deliver(AncestorAt(best, Wanted))

(* The node has no block at that height: "Expected to fetch block hash". *)
HashMissing ==
  /\ pc \in {"hist", "hash"}
  /\ Wanted > Height(best)
  /\ Abort("error")

(* Mutant of AskHash: the cursor moves on before the answer is there. *)
AskHashAdvancing ==
  /\ pc' = "hash"
  /\ cursor' = cursor + 1
  /\ UNCHANGED <<mode, useBest, blockProcessed, processedPrevious,
                 latestFinalized, call, ret, last>>

AskHash == /\ pc' = "hash"
           /\ UNCHANGED <<mode, useBest, cursor, blockProcessed,
                          processedPrevious, latestFinalized, call, ret, last>>

(* Mutants of FinalizedHead: it polls the best head; it waits for a head   *)
(* beyond the height it wants.                                             *)
FinalizedHeadOfBest ==
  /\ pc = "head"
  /\ mode = "final"
  /\ cursor <= Height(best)
  /\ IF cursor = Height(best) THEN Deliver(best) ELSE AskHash

FinalizedHeadBeyond ==
  /\ pc = "head"
  /\ mode = "final"
  /\ cursor < Height(finalized)
  /\ AskHash

FinalizedHead ==
  /\ pc = "head"
  /\ mode = "final"
  /\ cursor <= Height(finalized)
  /\ IF cursor = Height(finalized) THEN Deliver(finalized) ELSE AskHash

(* Mutant of BestHead: no catching up, whatever head is polled is returned. *)
BestHeadJumping ==
  /\ pc = "head"
  /\ mode = "best"
  /\ cursor <= Height(best)
  /\ best \notin blockProcessed
  /\ IF blockProcessed # {} THEN Deliver(best) ELSE AskHash

BestHead ==
  /\ pc = "head"
  /\ mode = "best"
  /\ cursor <= Height(best)
  /\ best \notin blockProcessed
  /\ IF blockProcessed # {} /\ Height(best) \in {cursor, cursor + 1}
     THEN Deliver(best)
     ELSE AskHash

Reply == BuildReply \/ LatestReply \/ HashFound \/ HashMissing
         \/ FinalizedHead \/ BestHead

SubOp == \/ \E v \in BOOLEAN : UseBestBlock(v)
         \/ \E v \in Heights : SetBlockHeight(v)
         \/ \E op \in {"next", "prev"} : Start(op)

SubNext == SubOp \/ Reply \/ RpcFails \/ Cancel

-----------------------------------------------------------------------------
Init == ChainInit /\ SubInit

Next == \/ ChainNext /\ UNCHANGED subVars
        \/ SubNext /\ UNCHANGED chainVars

Spec == Init /\ [][Next]_vars

(***************************************************************************)
(* The node answers an RPC that was sent (or the call fails), and the poll *)
(* loop keeps polling, since the executor runs a task whose timer fired.   *)
(* Nothing makes the application call or the chain grow.                   *)
(***************************************************************************)
FairSpec == Spec /\ WF_vars(Reply /\ UNCHANGED chainVars)

-----------------------------------------------------------------------------
(* Properties *)

(* What a finalized subscription returned is on the finalized chain, and    *)
(* stays there however the best chain is reorganised afterwards.            *)
FinalizedDelivered ==
  mode = "final" /\ last # NoBlock => OnChain(last, finalized)

(* The historical path (run_historical) asks only for heights that are      *)
(* final, although the height it compares with was cached long ago: what it *)
(* is answered is never missing and cannot be reorganised away.             *)
HistoricalIsFinal == pc = "hist" => Wanted <= Height(finalized)

(* In best mode, unless the application moved the cursor or the block      *)
(* returned last was reorganised away, next() returns a child of that      *)
(* block: catching up leaves no gap between a polled head and the hash     *)
(* that is asked for afterwards.                                           *)
BestLinked ==
  [][ (mode = "best" /\ pc # "idle" /\ ret' = "ok"
       /\ blockProcessed # {} /\ OnChain(last, best))
      => last = Parent(last') ]_vars

(* Where the cursor stands: on a height it delivered, or before a height. *)
At   == IF mode = "final" /\ processedPrevious THEN cursor - 1 ELSE cursor
Seen == IF mode # "final" THEN blockProcessed
        ELSE IF processedPrevious THEN {last} ELSE {}

Phase == IF pc = "idle" THEN "idle" ELSE IF pc = "build" THEN "opening" ELSE "open"

Abstract == INSTANCE BlockCursor
              WITH stream <- mode, at <- At, seen <- Seen, phase <- Phase

(* next(), prev() and set_block_height() implement the abstract cursor:    *)
(* across failed polls, errors and dropped calls no height is skipped, a   *)
(* call steps back once or not at all, and a block is delivered once per   *)
(* stand.                                                                  *)
ImplementsCursor == Abstract!Spec

(* A block for the call in progress is final already. *)
Due == /\ pc # "idle"
       /\ IF Concrete = "final"
          THEN cursor = NoHeight \/ cursor <= Height(finalized)
          ELSE cursor # NoHeight /\ cursor < Height(finalized)

(* A call whose block is already final returns, with a block or an error:  *)
(* the poll loops of run_head cannot sleep for ever on a block that exists. *)
CallReturns == Due ~> (pc = "idle")
=============================================================================
