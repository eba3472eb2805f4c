------------------------------ MODULE SubStream ------------------------------
(***************************************************************************)
(* The subscriptions that fetch a body for every block of a Sub            *)
(* (client/src/subscription/{block,extrinsic,justification}.rs):           *)
(* LegacyBlockSub, BlockHeaderSub, BlockEventsSub, ExtrinsicSub,           *)
(* EncodedExtrinsicSub and GrandpaJustificationSub.  They share one shape: *)
(* advance the Sub, fetch the body, rewind the Sub if that failed, and, in *)
(* the filtering ones, go on to the next block while the list is empty.    *)
(***************************************************************************)
EXTENDS Sub

CONSTANTS
  EmptyBranches,  \* a block made by such a branch has nothing that matches
  FreeHeight      \* bound: of the chain, unless the application only follows

ASSUME StreamAssumption == EmptyBranches \subseteq Branches /\ FreeHeight \in 0..MaxHeight

VARIABLES
  follows,  \* the application calls next() over and over and nothing else
  byHeight, \* GrandpaJustificationSub: the body is asked for by height
  stage,   \* "idle", "sub" (in self.sub.next/prev), "body" (fetching)
  op,      \* "next" (skips empty lists), "step" (does not), "prev"
  result,  \* how the last call of the stream ended
  body,    \* the block the last returned body belongs to
  from,    \* history: where the present forward run began
  got      \* history: the finalized blocks returned in that run

streamVars == <<follows, byHeight, stage, op, result, body, from, got>>
allVars == <<vars, streamVars>>

HasItems(b) == Height(b) > 0 /\ b[Height(b)] \notin EmptyBranches

StreamTypeOK ==
  /\ TypeOK
  /\ follows \in BOOLEAN
  /\ byHeight \in BOOLEAN
  /\ stage \in {"idle", "sub", "body"}
  /\ op \in {"next", "step", "prev"}
  /\ result \in {"none", "ok", "error", "dropped"}
  /\ body \in Blocks \cup {NoBlock}
  /\ from \in Heights \cup {NoHeight}
  /\ got \in SUBSET Blocks

StreamInit ==
  /\ Init
  /\ follows \in BOOLEAN
  /\ byHeight \in BOOLEAN
  /\ stage = "idle"
  /\ op = "next"
  /\ result = "none"
  /\ body = NoBlock
  /\ from = NoHeight
  /\ got = {}

(* A new run begins where the cursor now stands. *)
NewRun == from' = At' /\ got' = {}

-----------------------------------------------------------------------------
(* Mutant of Configure: every stream can follow the best chain. *)
ConfigureAny ==
  /\ stage = "idle"
  /\ \/ \E v \in BOOLEAN : UseBestBlock(v) /\ UNCHANGED <<from, got>>
     \/ \E v \in 0..FreeHeight : SetBlockHeight(v) /\ NewRun
  /\ UNCHANGED <<follows, byHeight, stage, op, result, body>>

(* GrandpaJustificationSub has no use_best_block. *)
Configure ==
  /\ stage = "idle"
  /\ \/ \E v \in BOOLEAN : ~ byHeight /\ UseBestBlock(v) /\ UNCHANGED <<from, got>>
     \/ \E v \in 0..FreeHeight : SetBlockHeight(v) /\ NewRun
  /\ UNCHANGED <<follows, byHeight, stage, op, result, body>>

Call(o) ==
  /\ stage = "idle"
  /\ stage' = "sub"
  /\ op' = o
  /\ result' = "none"
  /\ IF o = "prev" THEN Start("prev") /\ NewRun
     ELSE Start("next") /\ UNCHANGED <<from, got>>
  /\ UNCHANGED <<follows, byHeight, body>>

(* self.sub.next().await? : an error of the Sub ends the call. *)
SubStep(step) ==
  /\ stage = "sub"
  /\ step
  /\ stage' = IF pc' # "idle" THEN "sub" ELSE IF ret' = "ok" THEN "body" ELSE "idle"
  /\ result' = IF stage' = "idle" THEN "error" ELSE result
  /\ IF pc = "build" THEN NewRun ELSE UNCHANGED <<from, got>>
  /\ UNCHANGED <<follows, byHeight, op, body>>

(* The body of the block, by hash or, for a justification, by height. *)
Fetched == IF byHeight THEN AncestorAt(best, Height(last)) ELSE last

BodyArrives ==
  /\ stage = "body"
  /\ IF op = "next" /\ ~ HasItems(Fetched)
     THEN /\ Start("next")
          /\ stage' = "sub"
          /\ UNCHANGED <<result, body, got>>
     ELSE /\ stage' = "idle"
          /\ result' = "ok"
          /\ body' = Fetched
          /\ got' = IF mode = "final" THEN got \cup {last} ELSE got
          /\ UNCHANGED subVars
  /\ UNCHANGED <<follows, byHeight, op, from>>

(* Mutants of BodyFails: no rewind; a rewind by one block too many. *)
BodyFailsOnward ==
  /\ stage = "body"
  /\ stage' = "idle"
  /\ result' = "error"
  /\ UNCHANGED <<subVars, follows, byHeight, op, body, from, got>>

BodyFailsFurtherBack ==
  /\ stage = "body"
  /\ SetBlockHeight(SatSub1(Height(last)))
  /\ stage' = "idle"
  /\ result' = "error"
  /\ UNCHANGED <<follows, byHeight, op, body, from, got>>

(* Err from the fetch: self.sub.set_block_height(info.height). *)
BodyFails ==
  /\ stage = "body"
  /\ SetBlockHeight(Height(last))
  /\ stage' = "idle"
  /\ result' = "error"
  /\ UNCHANGED <<follows, byHeight, op, body, from, got>>

(* The caller drops the future.  In the middle of a fetch nothing rewinds   *)
(* the Sub: the block just taken from it is lost, and a new run begins.     *)
Drop ==
  /\ \/ stage = "sub" /\ Cancel /\ UNCHANGED <<from, got>>
     \/ stage = "body" /\ UNCHANGED subVars /\ from' = At + 1 /\ got' = {}
  /\ stage' = "idle"
  /\ result' = "dropped"
  /\ UNCHANGED <<follows, byHeight, op, body>>

StreamOp == \/ Configure
            \/ \E o \in {"next", "step", "prev"} : Call(o)
            \/ SubStep(Reply) \/ SubStep(RpcFails)
            \/ BodyArrives \/ BodyFails \/ Drop

(* An application that only calls next() on a finalized subscription, and   *)
(* calls it again whenever it returned.                                     *)
FollowOp == Call("next") \/ SubStep(Reply) \/ SubStep(RpcFails)
            \/ BodyArrives \/ BodyFails

StreamNext ==
  \/ /\ ChainNext
     /\ follows \/ Height(best') <= FreeHeight
     /\ UNCHANGED <<subVars, streamVars>>
  \/ ~ follows /\ StreamOp /\ UNCHANGED chainVars
  \/ follows /\ FollowOp /\ UNCHANGED chainVars

(* Failures are transient: an RPC that is repeated for ever is answered some *)
(* time (SF).                                                               *)
Fair(step) == follows /\ step /\ UNCHANGED chainVars

StreamSpec ==
  /\ StreamInit
  /\ [][StreamNext]_allVars
  /\ WF_allVars(Fair(Call("next")))
  /\ SF_allVars(Fair(SubStep(BuildReply)))
  /\ SF_allVars(Fair(SubStep(LatestReply)))
  /\ SF_allVars(Fair(SubStep(FinalizedHead)))
  /\ SF_allVars(Fair(SubStep(HashFound)))
  /\ SF_allVars(Fair(BodyArrives))

-----------------------------------------------------------------------------
(* Properties *)

(* The highest block the stream is done with. *)
Frontier == IF Seen = {} \/ stage = "body" THEN At - 1 ELSE At

(* Following the finalized chain, no block that has items is skipped: each *)
(* one between the start of the run and the cursor was returned, whatever  *)
(* fetches failed and were retried on the way.                             *)
NoneSkipped ==
  mode = "final" /\ from # NoHeight =>
    \A h \in from..Frontier :
      LET b == AncestorAt(finalized, h)
      IN  HasItems(b) => b \in got

(* Following the finalized chain, a block is not returned twice in a run:  *)
(* the rewind after a failed fetch repeats the fetch, never a result.      *)
ReturnedOnce ==
  [][ (stage = "body" /\ result' = "ok" /\ mode = "final") => last \notin got ]_allVars

(* What is returned with a block's hash is that block's content, also when *)
(* it was asked for by height.                                             *)
BodyMatchesHash == result = "ok" => body = last

(* The finalized blocks with items that a run has yet to return. *)
Missing ==
  {h \in 1..Height(finalized) : /\ from # NoHeight /\ from <= h
                                /\ HasItems(AncestorAt(finalized, h))
                                /\ AncestorAt(finalized, h) \notin got}

(* An application that follows is returned every finalized block with       *)
(* items, from the start of the run on, in the end: the chain comes to rest *)
(* at MaxHeight, and the stream catches up with it.                         *)
EventuallyReturned == (follows /\ Missing # {}) ~> (Missing = {})
=============================================================================
