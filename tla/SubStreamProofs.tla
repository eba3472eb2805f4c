--------------------------- MODULE SubStreamProofs ---------------------------
(***************************************************************************)
(* Safety of the body-fetching streams for every set of branches, every    *)
(* choice of blocks without items and every bound on the height: on the    *)
(* finalized chain no block with items is skipped and none is returned     *)
(* twice, and a body belongs to the hash it is returned with.              *)
(***************************************************************************)
EXTENDS SubStream, SubProofs

(* Where a call of the stream is, and where the Sub below it is. *)
StageInv ==
  /\ stage = "sub" <=> pc # "idle"
  /\ stage # "idle" => result = "none"
  /\ stage = "body" => mode # "uninit" /\ last \in Blocks
  /\ stage = "body" /\ mode = "final" => processedPrevious
  /\ stage = "body" /\ mode = "best" => last \in blockProcessed
  /\ byHeight => ~ useBest /\ mode # "best"

(* The run: it begins where the cursor stood, what it returned is behind the *)
(* frontier, and the frontier is behind the finalized block.                 *)
RunInv ==
  /\ mode = "uninit" => from = cursor
  /\ mode # "final" => got = {}
  /\ mode = "final" =>
       /\ \A b \in got : Height(b) <= Frontier
       /\ from # NoHeight => Frontier < from \/ Frontier <= Height(finalized)

StreamInv ==
  CInv /\ StreamTypeOK /\ StageInv /\ RunInv /\ NoneSkipped /\ BodyMatchesHash

(* On the finalized chain the frontier is one below the cursor, two while    *)
(* the body of the block below the cursor is being fetched.                  *)
FrontierFact ==
  /\ cursor # NoHeight => cursor \in Nat /\ cursor \in Heights
  /\ mode # "uninit" => cursor # NoHeight
  /\ mode = "final" =>
       /\ Frontier = IF stage = "body" THEN cursor - 2 ELSE cursor - 1
       /\ At \in Heights
       /\ processedPrevious => last \in Blocks /\ Height(last) = cursor - 1
       /\ ~ processedPrevious => At = cursor
  /\ mode # "final" => At = cursor

LEMMA FrontierIs == CInv /\ StageInv => FrontierFact
<1>. SUFFICES ASSUME CInv, StageInv PROVE FrontierFact
  OBVIOUS
<1>1. /\ cursor # NoHeight => cursor \in Nat /\ cursor \in Heights
      /\ mode # "uninit" => cursor # NoHeight
  BY HeightsFacts DEF CInv, IInv, TypeOK, SubTypeOK
<1>2. CASE mode = "final" /\ processedPrevious
  <2>1. last \in Blocks /\ cursor = Height(last) + 1 /\ Height(last) \in Heights
        /\ Height(last) \in Nat
    BY <1>2, HeightsFacts DEF CInv, StandInv
  <2>2. At = Height(last) /\ Seen # {}
    BY <1>2, <2>1 DEF At, Seen
  <2>. QED
    BY <1>1, <1>2, <2>1, <2>2 DEF FrontierFact, Frontier
<1>3. CASE mode = "final" /\ ~ processedPrevious
  BY <1>1, <1>3 DEF FrontierFact, Frontier, At, Seen, StageInv
<1>4. CASE mode # "final"
  BY <1>1, <1>4 DEF FrontierFact, At
<1>. QED
  BY <1>2, <1>3, <1>4

-----------------------------------------------------------------------------
(* The streams use the Sub as Next allows. *)

LEMMA StepsOfSub ==
  ASSUME CInv, StreamTypeOK, StageInv, [StreamNext]_allVars
  PROVE  [Next]_vars
<1>1. CASE UNCHANGED allVars
  BY <1>1 DEF allVars, vars
<1>2. ASSUME ChainNext, UNCHANGED <<subVars, streamVars>> PROVE Next
  BY <1>2 DEF Next
<1>3. ASSUME UNCHANGED chainVars, StreamOp \/ FollowOp PROVE [Next]_vars
  <2>1. CASE Configure
    <3>1. \A v \in 0..FreeHeight : v \in Heights
      BY StreamAssumption, ChainAssumption DEF Heights
    <3>. QED
      BY <1>3, <2>1, <3>1 DEF Configure, Next, SubNext, SubOp
  <2>2. CASE \E o \in {"next", "step", "prev"} : Call(o)
    BY <1>3, <2>2 DEF Call, Next, SubNext, SubOp
  <2>3. CASE SubStep(Reply) \/ SubStep(RpcFails)
    BY <1>3, <2>3 DEF SubStep, Next, SubNext
  <2>4. CASE BodyArrives
    <3>1. CASE Start("next")
      BY <1>3, <3>1 DEF Next, SubNext, SubOp
    <3>2. CASE UNCHANGED subVars
      BY <1>3, <3>2 DEF subVars, chainVars, vars
    <3>. QED
      BY <2>4, <3>1, <3>2 DEF BodyArrives
  <2>5. CASE BodyFails
    <3>1. Height(last) \in Heights
      BY <2>5, HeightsFacts DEF BodyFails, StageInv
    <3>. QED
      BY <1>3, <2>5, <3>1 DEF BodyFails, Next, SubNext, SubOp
  <2>6. CASE Drop
    <3>1. CASE Cancel
      BY <1>3, <3>1 DEF Next, SubNext
    <3>2. CASE UNCHANGED subVars
      BY <1>3, <3>2 DEF subVars, chainVars, vars
    <3>. QED
      BY <2>6, <3>1, <3>2 DEF Drop
  <2>. QED
    BY <1>3, <2>1, <2>2, <2>3, <2>4, <2>5, <2>6 DEF StreamOp, FollowOp
<1>. QED
  BY <1>1, <1>2, <1>3 DEF StreamNext

LEMMA CInvStep == CInv /\ [Next]_vars => CInv'
  BY NextKeepsIInv, NextKeepsStand DEF CInv

-----------------------------------------------------------------------------
(* What a step may do to the run. *)

(* The frontier stays, and so does the run. *)
LEMMA RunKept ==
  ASSUME RunInv, NoneSkipped, mode' = mode,
         UNCHANGED <<from, got, finalized>>,
         mode = "uninit" => cursor' = cursor,
         mode = "final" => Frontier' = Frontier
  PROVE  RunInv' /\ NoneSkipped'
  BY DEF RunInv, NoneSkipped

(* A new run begins above the frontier. *)
LEMMA RunAfresh ==
  ASSUME got' = {}, mode' = "uninit" => from' = cursor',
         mode' = "final" => /\ from' \in Int /\ Frontier' \in Int
                            /\ Frontier' < from'
  PROVE  RunInv' /\ NoneSkipped'
  BY DEF RunInv, NoneSkipped

(* The frontier moves up to the block the Sub delivered last: it was         *)
(* returned, or has nothing in it.                                           *)
LEMMA RunExtended ==
  ASSUME StreamInv, mode = "final", mode' = mode, stage = "body",
         UNCHANGED <<from, finalized>>,
         got' \in {got, got \cup {last}},
         HasItems(last) => got' = got \cup {last},
         Frontier' = cursor - 1
  PROVE  RunInv' /\ NoneSkipped'
<1>1. /\ Frontier = cursor - 2 /\ cursor \in Nat
      /\ last \in Blocks /\ Height(last) = cursor - 1
  BY FrontierIs DEF StreamInv, StageInv, FrontierFact
<1>2. OnChain(last, finalized) /\ last # NoBlock
  BY <1>1, HeightsFacts DEF StreamInv, CInv, IInv, FinalizedDelivered
<1>3. /\ Height(last) <= Height(finalized)
      /\ last = AncestorAt(finalized, cursor - 1)
  BY <1>1, <1>2 DEF OnChain
<1>4. RunInv'
  <2>1. \A b \in got : Height(b) \in Nat
    BY HeightsFacts DEF StreamInv, StreamTypeOK
  <2>2. \A b \in got' : Height(b) <= Frontier'
    BY <1>1, <2>1 DEF StreamInv, RunInv
  <2>. QED
    BY <1>1, <1>3, <2>2 DEF RunInv
<1>5. NoneSkipped'
  <2>. SUFFICES ASSUME from # NoHeight, NEW h \in from..(cursor - 1),
                       HasItems(AncestorAt(finalized, h))
                PROVE  AncestorAt(finalized, h) \in got'
    BY DEF NoneSkipped
  <2>1. from \in Nat
    BY HeightsFacts DEF StreamInv, StreamTypeOK
  <2>2. CASE h = cursor - 1
    BY <1>3, <2>2
  <2>3. CASE h # cursor - 1
    <3>1. h \in from..Frontier
      BY <1>1, <2>1, <2>3
    <3>. QED
      BY <3>1 DEF StreamInv, NoneSkipped
  <2>. QED
    BY <2>2, <2>3
<1>. QED
  BY <1>4, <1>5

(* The node moves: what was behind the frontier stays what it was. *)
LEMMA ChainKeepsStream ==
  ASSUME StreamInv, CInv', ChainNext, UNCHANGED <<subVars, streamVars>>
  PROVE  StreamInv'
<1>. USE DEF StreamInv
<1>1. ChainTypeOK /\ OnChain(finalized, finalized') /\ ChainTypeOK'
      /\ Height(finalized) <= Height(finalized')
  BY ChainStep DEF CInv, IInv, TypeOK
<1>2. StreamTypeOK' /\ StageInv' /\ BodyMatchesHash'
  BY DEF StreamTypeOK, StageInv, BodyMatchesHash, CInv, IInv, subVars, streamVars,
         Heights, Blocks, BlocksAt
<1>3. Frontier' = Frontier
  BY DEF Frontier, At, Seen, subVars, streamVars
<1>4. /\ Height(finalized) \in Nat /\ Height(finalized') \in Nat
      /\ finalized \in Blocks /\ finalized' \in Blocks
  BY <1>1, HeightsFacts DEF ChainTypeOK
<1>5. mode = "final" => Frontier \in Int
  BY FrontierIs DEF FrontierFact
<1>6. RunInv'
  BY <1>1, <1>3, <1>4, <1>5 DEF RunInv, subVars, streamVars
<1>7. NoneSkipped'
  <2>. SUFFICES ASSUME mode = "final", from # NoHeight, NEW h \in from..Frontier,
                       HasItems(AncestorAt(finalized', h))
                PROVE  AncestorAt(finalized', h) \in got
    BY <1>3 DEF NoneSkipped, subVars, streamVars
  <2>1. from \in Nat
    BY HeightsFacts DEF StreamTypeOK
  <2>2. Frontier <= Height(finalized)
    BY <1>5, <2>1 DEF RunInv
  <2>3. h \in 0..Height(finalized)
    BY <1>4, <1>5, <2>1, <2>2
  <2>4. AncestorAt(finalized', h) = AncestorAt(finalized, h)
    BY <1>1, <1>4, <2>3, AncestorOfAncestor
  <2>. QED
    BY <2>4 DEF NoneSkipped
<1>. QED
  BY <1>2, <1>6, <1>7

-----------------------------------------------------------------------------
(* The calls of the application *)

LEMMA ConfigureKeepsStream ==
  ASSUME StreamInv, CInv', Configure, UNCHANGED chainVars
  PROVE  StreamInv'
<1>. USE DEF StreamInv
<1>1. CASE \E v \in BOOLEAN : ~ byHeight /\ UseBestBlock(v) /\ UNCHANGED <<from, got>>
  <2>1. /\ mode = "uninit" /\ pc = "idle"
        /\ UNCHANGED <<mode, cursor, pc, last, from, got, finalized, blockProcessed, byHeight,
                       processedPrevious, follows, stage, op, result, body>>
    BY <1>1 DEF UseBestBlock, Configure, chainVars
  <2>2. StreamTypeOK' /\ StageInv' /\ BodyMatchesHash'
    BY <1>1, <2>1 DEF StreamTypeOK, StageInv, BodyMatchesHash, CInv, IInv, Configure,
                      Heights, Blocks, BlocksAt
  <2>. QED
    BY <2>1, <2>2, RunKept
<1>2. ASSUME NEW v \in 0..FreeHeight, SetBlockHeight(v), NewRun PROVE StreamInv'
  <2>1. v \in Heights /\ v \in Nat
    BY StreamAssumption, ChainAssumption DEF Heights
  <2>2. /\ cursor' = v /\ ~ processedPrevious' /\ blockProcessed' = {} /\ pc = "idle"
        /\ stage = "idle"
        /\ UNCHANGED <<mode, useBest, pc, last, byHeight, follows, stage, op, result, body>>
    BY <1>2 DEF SetBlockHeight, Configure
  <2>3. from' = v /\ got' = {} /\ Frontier' = v - 1
    BY <1>2, <2>2 DEF NewRun, At, Seen, Frontier
  <2>4. StreamTypeOK' /\ StageInv' /\ BodyMatchesHash'
    BY <2>1, <2>2, <2>3 DEF StreamTypeOK, StageInv, BodyMatchesHash, CInv, IInv,
                      Heights, Blocks, BlocksAt
  <2>. QED
    BY <2>1, <2>2, <2>3, <2>4, RunAfresh
<1>. QED
  BY <1>1, <1>2 DEF Configure

LEMMA CallKeepsStream ==
  ASSUME StreamInv, CInv', UNCHANGED chainVars,
         NEW o \in {"next", "step", "prev"}, Call(o)
  PROVE  StreamInv'
<1>. USE DEF StreamInv
<1>. DEFINE d == IF o = "prev" THEN "prev" ELSE "next"
<1>1. /\ stage = "idle" /\ stage' = "sub" /\ op' = o /\ result' = "none"
      /\ UNCHANGED <<follows, byHeight, body, finalized>>
      /\ Start(d) /\ UNCHANGED <<useBest, last>> /\ pc = "idle"
      /\ IF o = "prev" THEN NewRun ELSE UNCHANGED <<from, got>>
  BY DEF Call, chainVars, Start
<1>. HIDE DEF d
<1>2. BodyMatchesHash'
  BY <1>1 DEF BodyMatchesHash
<1>3. FrontierFact
  BY FrontierIs
<1>4. CASE cursor = NoHeight
  <2>1. /\ mode = "uninit" /\ pc' = "build"
        /\ UNCHANGED <<mode, cursor, blockProcessed, processedPrevious>>
    BY <1>1, <1>3, <1>4 DEF Start, FrontierFact
  <2>2. from' = cursor' /\ got' = {}
    BY <1>1, <1>4, <2>1 DEF NewRun, At, RunInv
  <2>3. StreamTypeOK' /\ StageInv'
    BY <1>1, <1>4, <2>1, <2>2 DEF StreamTypeOK, StageInv, CInv, IInv,
                      Heights, Blocks, BlocksAt
  <2>. QED
    BY <1>2, <2>1, <2>2, <2>3, RunAfresh
<1>5. CASE cursor # NoHeight
  <2>1. /\ Enter(Concrete, d, cursor) /\ cursor \in Heights /\ cursor \in Nat
        /\ Concrete \in {"best", "final"} /\ (mode # "uninit" => Concrete = mode)
    BY <1>1, <1>3, <1>5, ConcreteFacts DEF Start, FrontierFact, CInv
  <2>0. d = IF o = "prev" THEN "prev" ELSE "next"
    BY DEF d
  <2>2. mode' = Concrete /\ pc' = Route(cursor', latestFinalized)
        /\ latestFinalized \in Heights \cup {NoHeight} /\ processedPrevious \in BOOLEAN
    BY <2>1 DEF Enter, StreamTypeOK, TypeOK, SubTypeOK
  <2>3. cursor' \in Heights /\ cursor' \in Nat
    BY <2>1, <2>2, StepBackFacts, HeightsFacts DEF Enter
  <2>4. pc' # "idle"
    BY <2>2, <2>3, RouteFacts
  <2>5. StageInv'
    BY <1>1, <2>1, <2>2, <2>4 DEF StageInv, Concrete
  <2>6. CASE o = "prev"
    <3>1. ~ processedPrevious' /\ blockProcessed' = {}
      BY <2>0, <2>1, <2>6 DEF Enter
    <3>2. from' = cursor' /\ got' = {} /\ Frontier' = cursor' - 1
      BY <1>1, <2>6, <3>1 DEF NewRun, At, Seen, Frontier
    <3>3. StreamTypeOK'
      BY <1>1, <2>3, <3>2 DEF StreamTypeOK, CInv, IInv, Heights, Blocks, BlocksAt
    <3>4. from' \in Int /\ Frontier' \in Int /\ Frontier' < from'
      <4>1. \A n \in Nat : n \in Int /\ n - 1 \in Int /\ n - 1 < n
        OBVIOUS
      <4>. QED
        BY <2>3, <3>2, <4>1, Zenon
    <3>5. RunInv' /\ NoneSkipped'
      BY <3>2, <3>4, RunAfresh
    <3>. QED
      BY <1>2, <2>5, <3>3, <3>5
  <2>7. CASE o # "prev"
    <3>1. cursor' = cursor /\ UNCHANGED <<processedPrevious, blockProcessed, from, got>>
      BY <1>1, <2>0, <2>1, <2>7 DEF Enter
    <3>2. StreamTypeOK'
      BY <1>1, <3>1 DEF StreamTypeOK, CInv, IInv, Heights, Blocks, BlocksAt
    <3>3. CASE mode = "uninit"
      <4>1. from' = cursor /\ got' = {} /\ ~ processedPrevious'
        BY <3>1, <3>3 DEF RunInv, CInv, StandInv
      <4>2. mode' = "final" => Frontier' = cursor - 1
        BY <1>1, <2>1, <3>1, <4>1 DEF Frontier, At, Seen
      <4>. QED
        BY <1>2, <2>1, <2>2, <2>5, <3>2, <4>1, <4>2, RunAfresh
    <3>4. CASE mode # "uninit"
      <4>1. mode' = mode
        BY <2>1, <2>2, <3>4
      <4>2. Frontier' = Frontier
        BY <1>1, <3>1, <4>1 DEF Frontier, At, Seen
      <4>. QED
        BY <1>1, <1>2, <2>5, <3>1, <3>2, <3>4, <4>1, <4>2, RunKept
    <3>. QED
      BY <3>3, <3>4
  <2>. QED
    BY <2>6, <2>7
<1>. QED
  BY <1>4, <1>5

-----------------------------------------------------------------------------
(* A step of the Sub below the stream *)

LEMMA SubStepKeepsStream ==
  ASSUME StreamInv, CInv', UNCHANGED chainVars,
         SubStep(Reply) \/ SubStep(RpcFails)
  PROVE  StreamInv'
<1>. USE DEF StreamInv
<1>1. /\ stage = "sub" /\ pc # "idle" /\ (Reply \/ RpcFails)
      /\ stage' = (IF pc' # "idle" THEN "sub" ELSE IF ret' = "ok" THEN "body" ELSE "idle")
      /\ result' = (IF stage' = "idle" THEN "error" ELSE result)
      /\ UNCHANGED <<follows, byHeight, op, body, finalized>>
      /\ IF pc = "build" THEN NewRun ELSE UNCHANGED <<from, got>>
      /\ result = "none"
  BY DEF SubStep, StageInv, chainVars
<1>2. BodyMatchesHash'
  BY <1>1 DEF BodyMatchesHash
<1>3. FrontierFact
  BY FrontierIs
<1>4. CASE pc = "build"
  <2>1. mode = "uninit" /\ cursor = NoHeight /\ blockProcessed = {} /\ ~ processedPrevious
    BY <1>4 DEF CInv, IInv, ModeInv, StandInv
  <2>2. \/ BuildReply
        \/ /\ UNCHANGED <<mode, useBest, cursor, processedPrevious, blockProcessed>>
           /\ pc' = "idle" /\ ret' = "error"
    BY <1>1, <1>4, <2>1 DEF Reply, RpcFails, Abort, LatestReply, HashFound, HashMissing,
                     FinalizedHead, BestHead
  <2>3. /\ from' = At' /\ got' = {}
    BY <1>1, <1>4 DEF NewRun
  <2>4. CASE BuildReply
    <3>1. /\ mode' = Concrete /\ ~ processedPrevious' /\ blockProcessed' = {}
          /\ pc' = Route(cursor', latestFinalized) /\ useBest' = useBest
      BY <2>1, <2>4 DEF BuildReply, Enter
    <3>2. Concrete \in {"best", "final"}
      BY ConcreteFacts DEF CInv
    <3>3. cursor' \in Heights /\ cursor' \in Nat
          /\ latestFinalized \in Heights \cup {NoHeight}
      <4>1. cursor' \in Heights
        BY <3>1, <3>2 DEF CInv, IInv, TypeOK, SubTypeOK
      <4>. QED
        BY <4>1, HeightsFacts DEF CInv, IInv, TypeOK, SubTypeOK
    <3>4. pc' # "idle" /\ stage' = "sub"
      BY <1>1, <3>1, <3>3, RouteFacts
    <3>5. from' = cursor' /\ Frontier' = cursor' - 1
      BY <2>3, <3>1 DEF At, Seen, Frontier
    <3>6. StreamTypeOK' /\ StageInv'
      BY <1>1, <2>1, <2>3, <3>1, <3>2, <3>3, <3>4, <3>5
         DEF StreamTypeOK, StageInv, CInv, IInv, Concrete
    <3>7. from' \in Int /\ Frontier' \in Int /\ Frontier' < from'
      <4>1. \A n \in Nat : n \in Int /\ n - 1 \in Int /\ n - 1 < n
        OBVIOUS
      <4>. QED
        BY <3>3, <3>5, <4>1, Zenon
    <3>8. RunInv' /\ NoneSkipped'
      BY <2>3, <3>5, <3>7, RunAfresh
    <3>. QED
      BY <1>2, <3>6, <3>8
  <2>5. CASE /\ UNCHANGED <<mode, useBest, cursor, processedPrevious, blockProcessed>>
             /\ pc' = "idle" /\ ret' = "error"
    <3>1. from' = NoHeight /\ cursor' = NoHeight /\ stage' = "idle" /\ mode' = "uninit"
      BY <1>1, <2>1, <2>3, <2>5 DEF At
    <3>2. StreamTypeOK' /\ StageInv'
      BY <1>1, <2>1, <2>3, <2>5, <3>1 DEF StreamTypeOK, StageInv, CInv, IInv
    <3>3. RunInv' /\ NoneSkipped'
      BY <2>3, <3>1, RunAfresh
    <3>. QED
      BY <1>2, <3>2, <3>3
  <2>. QED
    BY <2>2, <2>4, <2>5
<1>5. CASE pc # "build"
  <2>1. /\ mode' = mode /\ useBest' = useBest /\ mode # "uninit"
        /\ Stays \/ Delivers
    BY <1>1, <1>5, SubStepOutcome DEF CInv
  <2>2. StageInv'
    BY <1>1, <2>1 DEF StageInv, Stays, Delivers
  <2>3. StreamTypeOK'
    BY <1>1, <1>5 DEF StreamTypeOK, CInv, IInv, Blocks, BlocksAt, Heights
  <2>4. FrontierFact'
    BY <2>2, FrontierIs, PTL
  <2>5. mode = "final" => Frontier' = Frontier
    <3>. SUFFICES ASSUME mode = "final" PROVE Frontier' = Frontier
      OBVIOUS
    <3>1. cursor \in Nat /\ Frontier = cursor - 1
      BY <1>1, <1>3 DEF FrontierFact
    <3>2. Frontier' = IF stage' = "body" THEN cursor' - 2 ELSE cursor' - 1
      BY <2>1, <2>4 DEF FrontierFact
    <3>3. CASE Stays
      BY <1>1, <3>1, <3>2, <3>3 DEF Stays
    <3>4. CASE Delivers
      BY <1>1, <3>1, <3>2, <3>4 DEF Delivers
    <3>. QED
      BY <2>1, <3>3, <3>4
  <2>6. RunInv' /\ NoneSkipped'
    BY <1>1, <1>5, <2>1, <2>5, RunKept
  <2>. QED
    BY <1>2, <2>2, <2>3, <2>6
<1>. QED
  BY <1>4, <1>5

-----------------------------------------------------------------------------
(* The fetch of a body *)

(* What is fetched is the content of the block the Sub delivered, also when  *)
(* it is asked for by height: only streams of final blocks do that.          *)
LEMMA FetchedIsLast ==
  ASSUME StreamInv, stage = "body"
  PROVE  Fetched = last /\ last \in Blocks
<1>. USE DEF StreamInv
<1>1. last \in Blocks /\ last # NoBlock /\ mode # "uninit"
  BY HeightsFacts DEF StageInv
<1>2. CASE byHeight
  <2>1. mode = "final"
    BY <1>1, <1>2 DEF StageInv, CInv, IInv, TypeOK, SubTypeOK
  <2>2. /\ OnChain(last, finalized) /\ OnChain(finalized, best)
        /\ finalized \in Blocks /\ best \in Blocks
    BY <1>1, <2>1 DEF CInv, IInv, FinalizedDelivered, TypeOK, ChainTypeOK
  <2>3. OnChain(last, best)
    BY <1>1, <2>2, OnChainTransitive
  <2>. QED
    BY <1>1, <1>2, <2>3 DEF Fetched, OnChain
<1>. QED
  BY <1>1, <1>2 DEF Fetched

LEMMA ArrivalKeepsStream ==
  ASSUME StreamInv, CInv', UNCHANGED chainVars, BodyArrives
  PROVE  StreamInv'
<1>. USE DEF StreamInv
<1>1. /\ stage = "body" /\ Fetched = last /\ last \in Blocks /\ finalized' = finalized
      /\ UNCHANGED <<follows, byHeight, op, from>> /\ result = "none" /\ mode # "uninit"
  BY FetchedIsLast DEF BodyArrives, chainVars, StageInv
<1>2. FrontierFact /\ (mode = "final" => cursor # NoHeight)
  BY FrontierIs DEF FrontierFact
<1>3. CASE op = "next" /\ ~ HasItems(Fetched)
  <2>1. /\ Start("next") /\ stage' = "sub" /\ UNCHANGED <<result, body, got>>
        /\ UNCHANGED <<useBest, last>>
    BY <1>3 DEF BodyArrives, Start
  <2>2. cursor # NoHeight /\ cursor \in Heights /\ Concrete = mode
    BY <1>1, <1>2, ConcreteFacts DEF FrontierFact, CInv
  <2>3. /\ mode' = mode /\ cursor' = cursor /\ pc' = Route(cursor', latestFinalized)
        /\ UNCHANGED <<processedPrevious, blockProcessed>>
    BY <2>1, <2>2 DEF Start, Enter
  <2>4. pc' # "idle"
    BY <2>2, <2>3, RouteFacts DEF CInv, IInv, TypeOK, SubTypeOK
  <2>5. StageInv' /\ BodyMatchesHash'
    BY <1>1, <2>1, <2>3, <2>4 DEF StageInv, BodyMatchesHash
  <2>6. StreamTypeOK'
    BY <1>1, <2>1 DEF StreamTypeOK, CInv, IInv, Blocks, BlocksAt, Heights
  <2>7. FrontierFact'
    BY <2>5, FrontierIs, PTL
  <2>8. RunInv' /\ NoneSkipped'
    <3>1. CASE mode = "final"
      <4>1. Frontier' = cursor - 1
        BY <2>1, <2>3, <2>7, <3>1 DEF FrontierFact
      <4>. QED
        BY <1>1, <1>3, <2>1, <2>3, <3>1, <4>1, RunExtended
    <3>2. CASE mode # "final"
      BY <1>1, <2>1, <2>3, <3>2, RunKept
    <3>. QED
      BY <3>1, <3>2
  <2>. QED
    BY <2>5, <2>6, <2>8
<1>4. CASE ~ (op = "next" /\ ~ HasItems(Fetched))
  <2>1. /\ stage' = "idle" /\ result' = "ok" /\ body' = last
        /\ got' = (IF mode = "final" THEN got \cup {last} ELSE got)
        /\ UNCHANGED subVars
    BY <1>1, <1>4 DEF BodyArrives
  <2>2. StageInv' /\ BodyMatchesHash'
    BY <1>1, <2>1 DEF StageInv, BodyMatchesHash, subVars
  <2>3. StreamTypeOK'
    BY <1>1, <2>1 DEF StreamTypeOK, CInv, IInv, Blocks, BlocksAt, Heights
  <2>4. FrontierFact' /\ UNCHANGED <<mode, cursor>>
    <3>1. FrontierFact'
      BY <2>2, FrontierIs, PTL
    <3>. QED
      BY <2>1, <3>1 DEF subVars
  <2>5. RunInv' /\ NoneSkipped'
    <3>1. CASE mode = "final"
      <4>1. Frontier' = cursor - 1
        BY <2>1, <2>4, <3>1 DEF FrontierFact
      <4>. QED
        BY <1>1, <2>1, <2>4, <3>1, <4>1, RunExtended
    <3>2. CASE mode # "final"
      BY <1>1, <2>1, <2>4, <3>2, RunKept
    <3>. QED
      BY <3>1, <3>2
  <2>. QED
    BY <2>2, <2>3, <2>5
<1>. QED
  BY <1>3, <1>4

(* The rewind puts the cursor below the block whose body is missing. *)
LEMMA FailureKeepsStream ==
  ASSUME StreamInv, CInv', UNCHANGED chainVars, BodyFails
  PROVE  StreamInv'
<1>. USE DEF StreamInv
<1>1. /\ stage = "body" /\ stage' = "idle" /\ result' = "error" /\ last \in Blocks
      /\ UNCHANGED <<follows, byHeight, op, body, from, got, finalized>>
      /\ pc = "idle" /\ cursor' = Height(last) /\ ~ processedPrevious' /\ blockProcessed' = {}
      /\ UNCHANGED <<mode, useBest, pc, last>> /\ mode # "uninit"
  BY DEF BodyFails, SetBlockHeight, StageInv, chainVars
<1>2. StageInv' /\ BodyMatchesHash'
  BY <1>1 DEF StageInv, BodyMatchesHash
<1>3. StreamTypeOK'
  BY <1>1 DEF StreamTypeOK, CInv, IInv, Blocks, BlocksAt, Heights
<1>4. FrontierFact /\ FrontierFact'
  BY <1>2, FrontierIs, PTL
<1>5. mode = "final" => Frontier' = Frontier
  <2>. SUFFICES ASSUME mode = "final" PROVE Frontier' = Frontier
    OBVIOUS
  <2>1. Frontier = cursor - 2 /\ cursor \in Nat /\ Height(last) = cursor - 1
    BY <1>1, <1>4 DEF FrontierFact, StageInv
  <2>2. Frontier' = cursor' - 1
    BY <1>1, <1>4 DEF FrontierFact
  <2>. QED
    BY <1>1, <2>1, <2>2
<1>. QED
  BY <1>1, <1>2, <1>3, <1>5, RunKept

LEMMA DropKeepsStream ==
  ASSUME StreamInv, CInv', UNCHANGED chainVars, Drop
  PROVE  StreamInv'
<1>. USE DEF StreamInv
<1>1. /\ stage' = "idle" /\ result' = "dropped" /\ finalized' = finalized
      /\ UNCHANGED <<follows, byHeight, op, body>>
  BY DEF Drop, chainVars
<1>2. CASE stage = "sub" /\ Cancel /\ UNCHANGED <<from, got>>
  <2>1. /\ UNCHANGED <<mode, useBest, cursor, blockProcessed, processedPrevious, last>>
        /\ pc' = "idle"
    BY <1>2 DEF Cancel, Abort
  <2>2. StageInv' /\ BodyMatchesHash'
    BY <1>1, <1>2, <2>1 DEF StageInv, BodyMatchesHash
  <2>3. StreamTypeOK'
    BY <1>1, <1>2 DEF StreamTypeOK, CInv, IInv, Blocks, BlocksAt, Heights
  <2>4. FrontierFact /\ FrontierFact'
    BY <2>2, FrontierIs, PTL
  <2>5. mode = "final" => Frontier' = Frontier
    BY <1>1, <1>2, <2>1, <2>4 DEF FrontierFact
  <2>. QED
    BY <1>1, <1>2, <2>1, <2>2, <2>3, <2>5, RunKept
<1>3. CASE stage = "body" /\ UNCHANGED subVars /\ from' = At + 1 /\ got' = {}
  <2>1. UNCHANGED <<mode, useBest, cursor, pc, blockProcessed, processedPrevious, last>>
        /\ mode # "uninit" /\ last \in Blocks
    BY <1>3 DEF subVars, StageInv
  <2>2. StageInv' /\ BodyMatchesHash'
    BY <1>1, <1>3, <2>1 DEF StageInv, BodyMatchesHash
  <2>3. FrontierFact /\ FrontierFact'
    BY <2>2, FrontierIs, PTL
  <2>4. At = Height(last) /\ Height(last) \in Nat /\ Height(last) + 1 \in Heights
    <3>1. Height(last) \in Nat /\ Height(last) + 1 \in Heights
      BY <2>1, HeightsFacts
    <3>2. CASE mode = "final"
      BY <1>3, <2>1, <2>3, <3>1, <3>2 DEF FrontierFact, StageInv, At
    <3>3. CASE mode = "best"
      BY <1>3, <3>1, <3>3 DEF StageInv, CInv, StandInv, At
    <3>. QED
      BY <2>1, <3>1, <3>2, <3>3 DEF CInv, IInv, TypeOK, SubTypeOK
  <2>5. StreamTypeOK'
    BY <1>1, <1>3, <2>4 DEF StreamTypeOK, CInv, IInv
  <2>6. mode = "final" => from' \in Int /\ Frontier' \in Int /\ Frontier' < from'
    <3>. SUFFICES ASSUME mode = "final"
                  PROVE  from' \in Int /\ Frontier' \in Int /\ Frontier' < from'
      OBVIOUS
    <3>1. Frontier' = cursor - 1 /\ cursor \in Nat /\ Height(last) = cursor - 1
      BY <1>1, <1>3, <2>1, <2>3 DEF FrontierFact, StageInv
    <3>. QED
      BY <1>3, <2>4, <3>1
  <2>. QED
    BY <1>3, <2>1, <2>2, <2>5, <2>6, RunAfresh
<1>. QED
  BY <1>2, <1>3 DEF Drop

-----------------------------------------------------------------------------
LEMMA InitStreamInv == StreamInit => StreamInv
<1>. SUFFICES ASSUME StreamInit PROVE StreamInv
  OBVIOUS
<1>1. CInv
  BY InitIInv, InitStand DEF StreamInit, CInv
<1>2. /\ mode = "uninit" /\ ~ useBest /\ cursor = NoHeight /\ pc = "idle"
  BY DEF StreamInit, Init, SubInit
<1>. QED
  BY <1>1, <1>2 DEF StreamInit, StreamInv, StreamTypeOK, StageInv, RunInv, NoneSkipped,
                    BodyMatchesHash, CInv, IInv

LEMMA StreamStep == StreamInv /\ [StreamNext]_allVars => StreamInv'
<1>. SUFFICES ASSUME StreamInv, [StreamNext]_allVars PROVE StreamInv'
  OBVIOUS
<1>1. CInv'
  BY StepsOfSub, CInvStep DEF StreamInv
<1>2. CASE UNCHANGED allVars
  <2>1. UNCHANGED <<vars, subVars, streamVars>> /\ Frontier' = Frontier
    BY <1>2 DEF allVars, streamVars, vars, subVars, Frontier, At, Seen
  <2>2. StreamTypeOK' /\ StageInv' /\ BodyMatchesHash'
    BY <1>1, <2>1 DEF StreamInv, StreamTypeOK, StageInv, BodyMatchesHash, vars, streamVars,
                      CInv, IInv, Heights, Blocks, BlocksAt
  <2>. QED
    BY <1>1, <2>1, <2>2, RunKept DEF StreamInv, vars, streamVars
<1>3. CASE ChainNext /\ UNCHANGED <<subVars, streamVars>>
  BY <1>1, <1>3, ChainKeepsStream
<1>4. ASSUME UNCHANGED chainVars, StreamOp \/ FollowOp PROVE StreamInv'
  <2>1. CASE Configure
    BY <1>1, <1>4, <2>1, ConfigureKeepsStream
  <2>2. CASE \E o \in {"next", "step", "prev"} : Call(o)
    BY <1>1, <1>4, <2>2, CallKeepsStream
  <2>3. CASE SubStep(Reply) \/ SubStep(RpcFails)
    BY <1>1, <1>4, <2>3, SubStepKeepsStream
  <2>4. CASE BodyArrives
    BY <1>1, <1>4, <2>4, ArrivalKeepsStream
  <2>5. CASE BodyFails
    BY <1>1, <1>4, <2>5, FailureKeepsStream
  <2>6. CASE Drop
    BY <1>1, <1>4, <2>6, DropKeepsStream
  <2>. QED
    BY <1>4, <2>1, <2>2, <2>3, <2>4, <2>5, <2>6 DEF StreamOp, FollowOp
<1>. QED
  BY <1>2, <1>3, <1>4 DEF StreamNext

LEMMA SpecStreamInv == StreamSpec => []StreamInv
  BY InitStreamInv, StreamStep, PTL DEF StreamSpec

(* The stream and the Sub below it are well typed in every reachable state. *)
THEOREM StreamTypeCorrect == StreamSpec => []StreamTypeOK
  BY SpecStreamInv, PTL DEF StreamInv

(* On the finalized chain a stream skips no block with items, whatever body  *)
(* could not be fetched and was fetched again.                              *)
THEOREM NoneSkippedHolds == StreamSpec => []NoneSkipped
  BY SpecStreamInv, PTL DEF StreamInv

(* What is returned with a hash is the content of the block with that hash,  *)
(* also where the code asks by height.                                      *)
THEOREM BodyMatchesHashHolds == StreamSpec => []BodyMatchesHash
  BY SpecStreamInv, PTL DEF StreamInv

(* No finalized block is returned twice in a run: everything returned is at  *)
(* or below the frontier, the block being fetched is above it.               *)
THEOREM ReturnedOnceHolds == StreamSpec => ReturnedOnce
<1>. DEFINE Once == (stage = "body" /\ result' = "ok" /\ mode = "final") => last \notin got
<1>1. StreamInv => Once
  <2>. SUFFICES ASSUME StreamInv, stage = "body", mode = "final" PROVE last \notin got
    OBVIOUS
  <2>1. Frontier = cursor - 2 /\ cursor \in Nat /\ Height(last) = cursor - 1
    BY FrontierIs DEF StreamInv, StageInv, FrontierFact
  <2>2. \A b \in got : Height(b) <= cursor - 2
    BY <2>1 DEF StreamInv, RunInv
  <2>. QED
    BY <2>1, <2>2
<1>. QED
  BY <1>1, SpecStreamInv, PTL DEF ReturnedOnce
=============================================================================
