---------------------------- MODULE BlockQueries ----------------------------
(***************************************************************************)
(* Questions about one block while the chain moves: Chain::block_state,    *)
(* the reads of a Block (header, author, event count, weight), its encoded *)
(* and decoded extrinsics, the events of an extrinsic the program found    *)
(* earlier, and Block::justification.  A question that takes several RPCs  *)
(* is answered from several states of the node.                            *)
(***************************************************************************)
EXTENDS BlockBody

CONSTANTS
  Kinds,     \* call types the program asks for
  Filters,   \* filters it sets, AnyTx among them
  Apps       \* application ids it sets, NoApp among them

VARIABLES
  want,     \* what was asked, "" before the first question
  asked,    \* of which block
  awaits,   \* "idle", or the RPC under way
  snap,     \* chain_info: the best and the finalized block
  height,   \* of the block that was asked for by hash
  target,   \* the hash a read asks for
  held,     \* the extrinsic in hand, with its metadata
  answer,   \* how the last question ended
  was       \* history: whether, since block_state was asked, the block was
            \* on the best chain and whether it was not, {"on", "off"}

viewVars == <<want, asked, awaits, snap, height, target, held, answer, was>>

Nothing == [of |-> "nothing"]

On(id, b) ==
  IF id.by = "hash" THEN OnChain(id.block, b) ELSE id.height <= Height(b)
Now(id, b) == IF On(id, b) THEN "on" ELSE "off"

ViewInit ==
  /\ want = "" /\ asked = ByNumber(0) /\ awaits = "idle"
  /\ snap = <<Genesis, Genesis>> /\ height = 0 /\ target = NoBlock
  /\ held = Nothing /\ answer = Nothing /\ was = {}

(* The locals of a future that ended are gone. *)
Quiet ==
  /\ want' = "" /\ asked' = ByNumber(0) /\ awaits' = "idle"
  /\ snap' = <<Genesis, Genesis>> /\ height' = 0 /\ target' = NoBlock
  /\ answer' = Nothing /\ was' = {}

(* The program is done with an answer. *)
Done ==
  /\ awaits = "idle" /\ want # ""
  /\ Quiet
  /\ UNCHANGED <<chainVars, held>>

ChainMoves ==
  /\ ChainNext
  /\ want = "" \/ awaits # "idle"
  /\ was' = IF want = "state" THEN was \union {Now(asked, best')} ELSE was
  /\ UNCHANGED <<want, asked, awaits, snap, height, target, held, answer>>

Question(what, id, rpc) ==
  /\ want = "" /\ (held = Nothing \/ what = "events")
  /\ want' = what
  /\ asked' = id
  /\ awaits' = rpc
  /\ answer' = Nothing
  /\ was' = IF what = "state" THEN {Now(id, best)} ELSE {}
  /\ target' = IF id.by = "hash" THEN id.block ELSE NoBlock
  /\ UNCHANGED <<chainVars, snap, height, held>>

Replies(a) == awaits' = "idle" /\ answer' = a
Goes(rpc) == awaits' = rpc /\ UNCHANGED answer

(* The ? of an RPC. *)
QuestionFails ==
  /\ awaits # "idle"
  /\ Replies(Nothing)
  /\ UNCHANGED <<chainVars, want, asked, snap, height, target, held, was>>

-----------------------------------------------------------------------------
(* Chain::block_state *)

AskState(id) == Question("state", id, "chain info")

State(s) == [of |-> "state", state |-> s]

ByHeights(info, n) ==
  IF n > Height(info[1]) THEN State("DoesNotExist")
  ELSE IF n > Height(info[2]) THEN State("Included")
  ELSE State("Finalized")

GotChainInfo ==
  /\ awaits = "chain info"
  /\ snap' = <<best, finalized>>
  /\ IF asked.by = "number" THEN Replies(ByHeights(snap', asked.height))
     ELSE IF asked.block = finalized THEN Replies(State("Finalized"))
     ELSE IF asked.block = best THEN Replies(State("Included"))
     ELSE Goes("height")
  /\ UNCHANGED <<chainVars, want, asked, height, target, held, was>>

GotHeight ==
  /\ awaits = "height" /\ want = "state"
  /\ \E b \in Meant(asked) :
       IF b = NoBlock THEN Replies(State("DoesNotExist")) /\ UNCHANGED height
       ELSE height' = Height(b) /\ Goes("hash")
  /\ UNCHANGED <<chainVars, want, asked, snap, target, held, was>>

(* Mutant of GotHash: the hash found at the height is not compared. *)
GotHashAny ==
  /\ awaits = "hash" /\ want = "state"
  /\ IF height > Height(best) THEN Replies(State("DoesNotExist"))
     ELSE Replies(ByHeights(snap, height))
  /\ UNCHANGED <<chainVars, want, asked, snap, height, target, held, was>>

GotHash ==
  /\ awaits = "hash" /\ want = "state"
  /\ IF height > Height(best) THEN Replies(State("DoesNotExist"))
     ELSE IF AncestorAt(best, height) # asked.block THEN Replies(State("Discarded"))
     ELSE Replies(ByHeights(snap, height))
  /\ UNCHANGED <<chainVars, want, asked, snap, height, target, held, was>>

-----------------------------------------------------------------------------
(* What is read by the hash of the block *)

(* hash_string_number::to_hash, to its RPC if it needs one. *)
Read(what, id) == Question(what, id, IF id.by = "hash" THEN "read" ELSE "resolve")

BlockHeader(id) == Read("header", id)
BlockAuthor(id) == Read("author", id)
BlockEventCount(id) == Read("event count", id)
BlockWeight(id) == Read("weight", id)

(* events of a BlockExtrinsic or BlockEncodedExtrinsic. *)
ExtrinsicEvents == held # Nothing /\ Read("events", held.id)

GotResolved ==
  /\ awaits = "resolve"
  /\ IF asked.height > Height(best) THEN Replies(Nothing) /\ UNCHANGED target
     ELSE target' = AncestorAt(best, asked.height) /\ Goes("read")
  /\ UNCHANGED <<chainVars, want, asked, snap, height, held, was>>

(* An extrinsic without events, here one whose index is not in the block,    *)
(* is an error; so is a block without a header.                             *)
Content(b) ==
  IF want = "events" /\ held.index \notin DOMAIN Body(b) THEN Nothing
  ELSE [of |-> want, block |-> b]

(* Mutant of GotRead: the block of this height is read. *)
GotReadAtHeight ==
  /\ awaits = "read"
  /\ LET b == AncestorAt(best, Height(target))
     IN  IF Height(target) > Height(best) THEN Replies(Nothing)
         ELSE IF want = "author" THEN Goes("validators")
         ELSE Replies(Content(b))
  /\ UNCHANGED <<chainVars, want, asked, snap, height, target, held, was>>

GotRead ==
  /\ awaits = "read"
  /\ \E b \in Meant(ByHash(target)) :
       IF b = NoBlock THEN Replies(Nothing)
       ELSE IF want = "author" THEN Goes("validators")
       ELSE Replies(Content(b))
  /\ UNCHANGED <<chainVars, want, asked, snap, height, target, held, was>>

(* The author's index points into the validators at the same block. *)
GotValidators ==
  /\ awaits = "validators"
  /\ \E b \in Meant(ByHash(target)) : Replies(IF b = NoBlock THEN Nothing ELSE Content(b))
  /\ UNCHANGED <<chainVars, want, asked, snap, height, target, held, was>>

-----------------------------------------------------------------------------
(* Chain::block_info_from, Block::justification *)

BlockInfoFrom(id) ==
  Question("info", id, IF id.by = "hash" THEN "height" ELSE "hash")

GotInfo ==
  /\ want = "info" /\ awaits \in {"height", "hash"}
  /\ \E b \in Meant(asked) : Replies(IF b = NoBlock THEN Nothing ELSE Content(b))
  /\ UNCHANGED <<chainVars, want, asked, snap, height, target, held, was>>

(* Block::justification: a hash is turned into a height first. *)
Justification(id) ==
  Question("justification", id, IF id.by = "hash" THEN "height" ELSE "proof")

GotProofHeight ==
  /\ want = "justification" /\ awaits = "height"
  /\ \E b \in Meant(asked) :
       IF b = NoBlock THEN Replies(Nothing) /\ UNCHANGED height
       ELSE height' = Height(b) /\ Goes("proof")
  /\ UNCHANGED <<chainVars, want, asked, snap, target, held, was>>

(* grandpa_proveFinality: of a finalized block, and not of every one. *)
GotProof ==
  /\ awaits = "proof"
  /\ LET n == IF asked.by = "hash" THEN height ELSE asked.height
     IN  \/ n <= Height(finalized) /\ Replies(Content(AncestorAt(finalized, n)))
         \/ Replies(Nothing)
  /\ UNCHANGED <<chainVars, want, asked, snap, height, target, held, was>>

-----------------------------------------------------------------------------
(* The extrinsics of a block: one RPC, and what is made of its answer *)

Encoded == "encoded"   \* the kind of a BlockEncodedExtrinsicsQuery

ASSUME KindsAssumption == Encoded \notin Kinds

(* What is sent for the caller's filter: kept with the call type as its      *)
(* default, or replaced by the call type.                                   *)
Kept(filter, kind) == IF filter = AnyTx THEN PalletCall(kind) ELSE filter
Replaced(kind) == PalletCall(kind)

(* What a method takes of the answer. *)
Pick(how, list) ==
  CASE how = "first" -> Lowest(list)
    [] how = "last"  -> Highest(list)
    [] OTHER         -> list

Query(id, how, kind, filter, app, sent) ==
  /\ want = "" /\ held = Nothing
  /\ want' = how
  /\ asked' = id
  /\ \E b \in Meant(id) :
       LET list == Pick(how, Fetch(sent, app, b))
       IN  answer' = IF b # NoBlock /\ (\A i \in list : Body(b)[i].call = kind
                                           \/ kind = Encoded \/ how = "count")
                     THEN [of |-> "list", kind |-> kind, filter |-> filter, app |-> app,
                           block |-> b, list |-> list]
                     ELSE Nothing
  /\ was' = {}
  /\ UNCHANGED <<chainVars, awaits, snap, height, target, held>>

(* BlockEncodedExtrinsicsQuery. *)
EncodedFirst(id, f, app) == Query(id, "first", Encoded, f, app, f)
EncodedLast(id, f, app) == Query(id, "last", Encoded, f, app, f)
EncodedAll(id, f, app) == Query(id, "all", Encoded, f, app, f)
EncodedCount(id, f, app) == Query(id, "count", Encoded, f, app, f)
EncodedGet(id, f) == f.on \in {"tx", "index"} /\ EncodedFirst(id, f, NoApp)

(* BlockExtrinsicsQuery. *)
TypedFirst(id, kind, f, app) ==
  Query(id, "first", kind, f, app, Kept(f, kind))

(* Mutant of TypedLast: the caller's filter is replaced by the call type. *)
TypedLastReplaced(id, kind, f, app) ==
  Query(id, "last", kind, f, app, Replaced(kind))

TypedLast(id, kind, f, app) ==
  Query(id, "last", kind, f, app, Kept(f, kind))

TypedAll(id, kind, f, app) ==
  Query(id, "all", kind, f, app, Kept(f, kind))

TypedCount(id, kind, f, app) ==
  Query(id, "count", kind, f, app, Replaced(kind))

TypedGet(id, kind, f) == f.on \in {"tx", "index"} /\ TypedFirst(id, kind, f, NoApp)

(* The program keeps an extrinsic it was given, with the identifier the     *)
(* view had, and later lets go of it.                                       *)
Hold ==
  /\ answer.of = "list" /\ want # "count"
  /\ \E i \in answer.list :
       held' = [of |-> "extrinsic", id |-> asked, block |-> answer.block,
                index |-> i, settled |-> OnChain(answer.block, finalized)]
  /\ Quiet
  /\ UNCHANGED chainVars

LetGo ==
  /\ want = "" /\ held # Nothing
  /\ held' = Nothing
  /\ UNCHANGED <<chainVars, want, asked, awaits, snap, height, target, answer, was>>

-----------------------------------------------------------------------------
ViewNext ==
  \/ ChainMoves
  \/ \E id \in BlockIds :
       \/ AskState(id) \/ BlockInfoFrom(id) \/ Justification(id)
       \/ BlockHeader(id) \/ BlockAuthor(id) \/ BlockEventCount(id) \/ BlockWeight(id)
       \/ \E f \in Filters : EncodedGet(id, f) \/ \E kind \in Kinds : TypedGet(id, kind, f)
       \/ \E f \in Filters, app \in Apps :
            \/ EncodedFirst(id, f, app) \/ EncodedLast(id, f, app)
            \/ EncodedAll(id, f, app) \/ EncodedCount(id, f, app)
            \/ \E kind \in Kinds :
                 \/ TypedFirst(id, kind, f, app) \/ TypedLast(id, kind, f, app)
                 \/ TypedAll(id, kind, f, app) \/ TypedCount(id, kind, f, app)
  \/ GotChainInfo \/ GotHeight \/ GotHash
  \/ ExtrinsicEvents \/ GotResolved \/ GotRead \/ GotValidators
  \/ GotInfo \/ GotProofHeight \/ GotProof
  \/ Hold \/ LetGo \/ Done \/ QuestionFails

ViewSpec == ChainInit /\ ViewInit /\ [][ViewNext]_<<chainVars, viewVars>>

-----------------------------------------------------------------------------
(* What block_state answered was true of the block at some moment while it   *)
(* was asked, although it was put together from three states of the node;   *)
(* Finalized holds from then on.                                            *)
StateHeld ==
  answer.of = "state" =>
    CASE answer.state = "Finalized" -> On(asked, finalized)
      [] answer.state = "Included"  -> "on" \in was
      [] answer.state \in {"Discarded", "DoesNotExist"} -> "off" \in was

(* What is read of a block is that block's: of the one whose hash was given, *)
(* or of one that has the height.  The events of an extrinsic are those of   *)
(* its own block if its view had the hash or the block was final when the   *)
(* extrinsic was found.  A justification is of the block that was asked for  *)
(* by its hash if that block is final.                                      *)
OwnBlock ==
  /\ answer.of \in {"header", "author", "event count", "weight", "info"} =>
       IF asked.by = "hash" THEN answer.block = asked.block
       ELSE Height(answer.block) = asked.height
  /\ answer.of = "events" =>
       (held.id.by = "hash" \/ held.settled => answer.block = held.block)
  /\ answer.of = "justification" =>
       (asked.by = "hash" /\ OnChain(asked.block, finalized) => answer.block = asked.block)

(* The extrinsics a query returns are of the type it is for, pass every      *)
(* filter the caller set, and are the first, the last or all of these in     *)
(* the block; without a filter of the caller, count agrees with all.        *)
QueryExact ==
  answer.of = "list" =>
    LET b == answer.block
        fits == {i \in DOMAIN Body(b) : /\ Passes(answer.filter, answer.app, b, i)
                                        /\ answer.kind \in {Encoded, Body(b)[i].call}}
    IN  CASE want = "first" -> answer.list = Lowest(fits)
          [] want = "last"  -> answer.list = Highest(fits)
          [] want = "all"   -> answer.list = fits
          [] want = "count" -> answer.filter = AnyTx =>
                                 Cardinality(answer.list) = Cardinality(fits)
=============================================================================
