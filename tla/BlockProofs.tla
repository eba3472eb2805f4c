---------------------------- MODULE BlockProofs ----------------------------
(***************************************************************************)
(* Theorems about the questions on one block and about the recovery map,   *)
(* for every body of every block, every filter and every shape of grid.    *)
(***************************************************************************)
EXTENDS BlockQueries, RecoveryMap, ChainNodeProofs

-----------------------------------------------------------------------------
(* BlockQueries: the invariant *)

ReadOf == {"header", "author", "event count", "weight", "events"}
ListOf == {"first", "last", "all", "count"}
BlockAnswers == ReadOf \union {"info", "justification"}

Answers ==
  {Nothing} \union [of : {"state"}, state : {"DoesNotExist", "Included", "Finalized", "Discarded"}]
            \union [of : BlockAnswers, block : Blocks]
            \union [of : {"list"}, kind : Kinds \union {Encoded}, filter : Filters, app : Apps \union {NoApp},
                    block : Blocks, list : SUBSET Nat]

ViewTypeOK ==
  /\ want \in {"", "state"} \union BlockAnswers \union ListOf
  /\ asked \in BlockIds
  /\ awaits \in {"idle", "chain info", "height", "hash", "resolve", "read", "validators", "proof"}
  /\ snap \in Blocks \X Blocks
  /\ height \in 0..MaxHeight
  /\ target \in Blocks \union {NoBlock}
  /\ held \in {Nothing} \union [of : {"extrinsic"}, id : BlockIds, block : Blocks,
                                index : Nat, settled : BOOLEAN]
  /\ answer \in Answers
  /\ was \subseteq {"on", "off"}

(* b is a block the identifier can stand for. *)
Names(id, b) == IF id.by = "hash" THEN b = id.block ELSE Height(b) = id.height

(* Which question waits for which RPC; what is answered is what was asked.   *)
PhaseInv ==
  /\ want = "" \/ awaits # "idle" => answer = Nothing
  /\ want = "" => awaits = "idle"
  /\ awaits = "chain info" => want = "state"
  /\ awaits \in {"height", "hash"} => want \in {"state", "info", "justification"}
  /\ awaits \in {"resolve", "read", "validators"} => want \in ReadOf
  /\ awaits = "proof" => want = "justification"
  /\ answer.of \in BlockAnswers => answer.of = want
  /\ answer.of = "list" => want \in ListOf
  /\ want = "events" => held # Nothing /\ asked = held.id

(* block_state: what the history owes to the two snapshots. *)
StateInv ==
  want = "state" /\ awaits # "idle" =>
    /\ Now(asked, best) \in was
    /\ awaits \in {"height", "hash"} =>
         /\ asked.by = "hash"
         /\ OnChain(snap[2], finalized)
         /\ Height(asked.block) > Height(snap[1]) => "off" \in was
    /\ awaits = "hash" => height = Height(asked.block)

(* A read asks for the block of its identifier, and the events of an         *)
(* extrinsic for its own block where that is certain.                       *)
ReadInv ==
  /\ awaits = "resolve" => asked.by = "number"
  /\ awaits \in {"read", "validators"} => target \in Blocks /\ Names(asked, target)
  /\ want = "events" /\ awaits \in {"read", "validators"}
       /\ (held.id.by = "hash" \/ held.settled) => target = held.block
  /\ awaits = "proof" /\ asked.by = "hash" => height = Height(asked.block)

(* The extrinsic in hand is of the block its view named. *)
HeldInv ==
  /\ held # Nothing => /\ Names(held.id, held.block)
                       /\ held.settled => OnChain(held.block, finalized)
  /\ answer.of = "list" => Names(asked, answer.block)

ViewInv ==
  /\ ChainTypeOK /\ ViewTypeOK
  /\ PhaseInv /\ StateInv /\ ReadInv /\ HeldInv
  /\ StateHeld /\ OwnBlock /\ QueryExact

-----------------------------------------------------------------------------
(* Identifiers, chains and lists *)

LEMMA NoBlockApart == NoBlock \notin Blocks
BY ChainAssumption DEF Blocks, BlocksAt

LEMMA IdShape ==
  ASSUME NEW id \in BlockIds
  PROVE  \/ id.by = "hash" /\ id.block \in Blocks /\ id = ByHash(id.block)
         \/ id.by = "number" /\ id.height \in 0..MaxHeight /\ id = ByNumber(id.height)
BY DEF BlockIds, ByHash, ByNumber

(* What the node takes an identifier for is a block it names, or no block    *)
(* if the best chain has none.                                              *)
LEMMA MeantNames ==
  ASSUME ChainTypeOK, NEW id \in BlockIds, NEW b \in Meant(id)
  PROVE  \/ b = NoBlock /\ ~ On(id, best)
         \/ b \in Blocks /\ b # NoBlock /\ Names(id, b)
<1>1. best \in Blocks /\ Height(best) \in Nat
  BY BlockShape, ChainAssumption DEF ChainTypeOK
<1>2. CASE id.by = "hash"
  BY <1>2, IdShape, NoBlockApart DEF Meant, On, Names
<1>3. CASE id.by = "number"
  <2>1. id.height \in 0..MaxHeight
    BY <1>3, IdShape
  <2>2. CASE id.height <= Height(best)
    <3>1. id.height \in 0..Height(best)
      BY <1>1, <2>1, <2>2, ChainAssumption
    <3>2. b = AncestorAt(best, id.height)
      BY <1>3, <2>2 DEF Meant
    <3>. QED
      BY <1>1, <1>3, <3>1, <3>2, AncestorIsBlock, NoBlockApart DEF Names
  <2>3. CASE ~ (id.height <= Height(best))
    BY <1>3, <2>3 DEF Meant, On
  <2>. QED
    BY <2>2, <2>3
<1>. QED
  BY <1>2, <1>3, IdShape

(* A block of the best chain that is not above the finalized one is final. *)
LEMMA BelowFinalized ==
  ASSUME ChainTypeOK, NEW b \in Blocks, OnChain(b, best), Height(b) <= Height(finalized)
  PROVE  OnChain(b, finalized)
<1>1. Height(b) \in 0..Height(finalized)
  BY BlockShape, ChainAssumption DEF ChainTypeOK
<1>2. AncestorAt(best, Height(b)) = AncestorAt(finalized, Height(b))
  BY <1>1, AncestorOfAncestor DEF ChainTypeOK
<1>. QED
  BY <1>1, <1>2 DEF OnChain

(* A bounded set of numbers that is not empty has a greatest one. *)
LEMMA GreatestMember ==
  ASSUME NEW n \in Nat, NEW S, S \subseteq 1..n, S # {}
  PROVE  \E m \in S : \A i \in S : i <= m
<1>. DEFINE T == {n - i : i \in S}
<1>1. T \subseteq Nat /\ T # {}
  OBVIOUS
<1>. HIDE DEF T
<1>2. PICK t \in T : \A u \in T : t <= u
  BY <1>1, LeastMember
<1>3. PICK m \in S : t = n - m
  BY <1>2 DEF T
<1>4. ASSUME NEW i \in S PROVE i <= m
  <2>1. n - i \in T
    BY DEF T
  <2>2. n - m <= n - i
    BY <1>2, <1>3, <2>1
  <2>. QED
    BY <2>2
<1>. QED
  BY <1>4

(* The first and the last of a list are those of a part that holds them. *)
LEMMA LowestSame ==
  ASSUME NEW n \in Nat, NEW S, S \subseteq 1..n, NEW T, T \subseteq S, Lowest(S) \subseteq T
  PROVE  Lowest(T) = Lowest(S)
<1>1. CASE S = {}
  BY <1>1 DEF Lowest
<1>2. CASE S # {}
  <2>1. PICK m \in S : \A i \in S : m <= i
    <3>1. S \subseteq Nat
      OBVIOUS
    <3>. QED
      BY <1>2, <3>1, LeastMember
  <2>2. m \in T
    BY <2>1 DEF Lowest
  <2>3. \A i \in S : i \in Nat
    OBVIOUS
  <2>4. \A x \in Lowest(S) \union Lowest(T) : x = m
    BY <2>1, <2>2, <2>3 DEF Lowest
  <2>5. m \in Lowest(S) /\ m \in Lowest(T)
    BY <2>1, <2>2 DEF Lowest
  <2>6. Lowest(S) = {m} /\ Lowest(T) = {m}
    BY <2>4, <2>5 DEF Lowest
  <2>. QED
    BY <2>6
<1>. QED
  BY <1>1, <1>2

LEMMA HighestSame ==
  ASSUME NEW n \in Nat, NEW S, S \subseteq 1..n, NEW T, T \subseteq S, Highest(S) \subseteq T
  PROVE  Highest(T) = Highest(S)
<1>1. CASE S = {}
  BY <1>1 DEF Highest
<1>2. CASE S # {}
  <2>1. PICK m \in S : \A i \in S : i <= m
    BY <1>2, GreatestMember
  <2>2. m \in T
    BY <2>1 DEF Highest
  <2>3. \A i \in S : i \in Nat
    OBVIOUS
  <2>4. \A x \in Highest(S) \union Highest(T) : x = m
    BY <2>1, <2>2, <2>3 DEF Highest
  <2>5. m \in Highest(S) /\ m \in Highest(T)
    BY <2>1, <2>2 DEF Highest
  <2>6. Highest(S) = {m} /\ Highest(T) = {m}
    BY <2>4, <2>5 DEF Highest
  <2>. QED
    BY <2>6
<1>. QED
  BY <1>1, <1>2

(* The extrinsics of b that a query for this type and filter is to return. *)
Fits(filter, app, kind, b) ==
  {i \in DOMAIN Body(b) : /\ Passes(filter, app, b, i)
                          /\ kind \in {Encoded, Body(b)[i].call}}

(* What is fetched holds all of them, and nothing else if the filter sent    *)
(* says as much as the caller's filter and the type.                        *)
LEMMA FitsFetched ==
  ASSUME NEW filter, NEW app, NEW kind, NEW b
  PROVE  /\ Fits(filter, app, kind, b) \subseteq Fetch(filter, app, b)
         /\ Fits(filter, app, Encoded, b) = Fetch(filter, app, b)
         /\ \A i \in Fetch(filter, app, b) :
               Body(b)[i].call = kind => i \in Fits(filter, app, kind, b)
         /\ kind # Encoded => Fits(AnyTx, app, kind, b) = Fetch(PalletCall(kind), app, b)
BY DEF Fits, Fetch, Passes, AnyTx, PalletCall

(* first, last and all: if what a method takes of the answer is of its type, *)
(* it is the first, the last or all of what it is to return.                *)
LEMMA PickExact ==
  ASSUME NEW b \in Blocks, NEW filter, NEW app, NEW kind, NEW sent,
         NEW how \in {"first", "last", "all"},
         \/ kind = Encoded /\ sent = filter
         \/ kind # Encoded /\ sent = Kept(filter, kind),
         \A i \in Pick(how, Fetch(sent, app, b)) : Body(b)[i].call = kind \/ kind = Encoded
  PROVE  Pick(how, Fetch(sent, app, b)) = Pick(how, Fits(filter, app, kind, b))
<1>. DEFINE S == Fetch(sent, app, b)
            T == Fits(filter, app, kind, b)
<1>1. CASE kind = Encoded \/ filter = AnyTx
  BY <1>1, FitsFetched DEF Kept
<1>2. CASE kind # Encoded /\ filter # AnyTx
  <2>1. T \subseteq S /\ \A i \in S : Body(b)[i].call = kind => i \in T
    BY <1>2, FitsFetched DEF Kept
  <2>2. Len(Body(b)) \in Nat /\ S \subseteq 1..Len(Body(b))
    BY BodyAssumption DEF Fetch
  <2>3. Pick(how, S) \subseteq T
    <3>1. Pick(how, S) \subseteq S
      BY DEF Pick, Lowest, Highest
    <3>. QED
      BY <1>2, <2>1, <3>1
  <2>. HIDE DEF S, T
  <2>4. how = "first" => Pick(how, S) = Pick(how, T)
    BY <2>1, <2>2, <2>3, LowestSame DEF Pick
  <2>5. how = "last" => Pick(how, S) = Pick(how, T)
    BY <2>1, <2>2, <2>3, HighestSame DEF Pick
  <2>6. how = "all" => Pick(how, S) = Pick(how, T)
    BY <2>1, <2>3 DEF Pick
  <2>7. Pick(how, S) = Pick(how, T)
    BY <2>4, <2>5, <2>6
  <2>. QED
    BY <2>7 DEF S, T
<1>. QED
  BY <1>1, <1>2

-----------------------------------------------------------------------------
(* BlockQueries: the steps *)

LEMMA ViewStart == ChainInit /\ ViewInit => ViewInv
<1>. SUFFICES ASSUME ChainInit, ViewInit PROVE ViewInv
  OBVIOUS
<1>0. 0 \in 0..MaxHeight
  BY ChainAssumption
<1>. USE DEF ViewInit, Nothing
<1>1. ChainTypeOK
  BY ChainStart
<1>2. ViewTypeOK
  <2>2. asked \in BlockIds
    BY <1>0 DEF BlockIds
  <2>3. snap \in Blocks \X Blocks
    BY GenesisIsBlock
  <2>. QED
    BY <1>0, <2>2, <2>3 DEF ViewTypeOK, Answers
<1>3. PhaseInv /\ StateInv /\ ReadInv /\ HeldInv
  BY DEF PhaseInv, StateInv, ReadInv, HeldInv, BlockAnswers, ReadOf
<1>4. StateHeld /\ OwnBlock /\ QueryExact
  BY DEF StateHeld, OwnBlock, QueryExact
<1>. QED
  BY <1>1, <1>2, <1>3, <1>4 DEF ViewInv

(* While there is no answer nothing is owed to it. *)
LEMMA NothingOwed ==
  ASSUME answer = Nothing
  PROVE  StateHeld /\ OwnBlock /\ QueryExact
BY DEF Nothing, StateHeld, OwnBlock, QueryExact

(* A question is asked: of an identifier, with its first RPC.                *)
FirstRpc(what, id) ==
  CASE what = "state" -> "chain info"
    [] what \in ReadOf -> IF id.by = "hash" THEN "read" ELSE "resolve"
    [] what = "info" -> IF id.by = "hash" THEN "height" ELSE "hash"
    [] what = "justification" -> IF id.by = "hash" THEN "height" ELSE "proof"

LEMMA QuestionKeeps ==
  ASSUME ViewInv, NEW what \in {"state"} \union BlockAnswers, NEW id \in BlockIds,
         Question(what, id, FirstRpc(what, id)),
         what = "events" => held # Nothing /\ id = held.id
  PROVE  ViewInv'
<1>. USE DEF Question, ViewInv
<1>1. ChainTypeOK' /\ UNCHANGED <<best, finalized>>
  BY DEF ChainTypeOK, chainVars
<1>2. what \in BlockAnswers <=> what \in ReadOf \/ what = "info" \/ what = "justification"
  BY DEF BlockAnswers
<1>3. ViewTypeOK'
  <2>1. target' \in Blocks \union {NoBlock}
    BY IdShape
  <2>2. was' \subseteq {"on", "off"}
    BY DEF Now
  <2>3. awaits' \in {"chain info", "height", "hash", "resolve", "read", "proof"}
    BY <1>2 DEF FirstRpc, ReadOf
  <2>4. answer' \in Answers
    BY DEF Answers
  <2>. QED
    BY <2>1, <2>2, <2>3, <2>4 DEF ViewTypeOK
<1>4. PhaseInv'
  BY <1>2 DEF PhaseInv, FirstRpc, ReadOf, BlockAnswers, Nothing
<1>5. StateInv'
  BY <1>1 DEF StateInv, FirstRpc, Now, On
<1>6. ReadInv'
  <2>1. awaits' = "resolve" => asked'.by = "number"
    BY <1>2, IdShape DEF FirstRpc, ReadOf
  <2>2. awaits' \in {"read", "validators"} =>
          id.by = "hash" /\ target' = id.block /\ target' \in Blocks
    BY <1>2, IdShape DEF FirstRpc, ReadOf
  <2>3. what = "events" /\ id.by = "hash" => held.block = id.block
    BY DEF HeldInv, Names
  <2>4. awaits' = "proof" => id.by = "number"
    BY <1>2, IdShape DEF FirstRpc, ReadOf
  <2>. QED
    BY <2>1, <2>2, <2>3, <2>4 DEF ReadInv, Names
<1>7. HeldInv'
  BY <1>1 DEF HeldInv, Nothing, OnChain, AncestorAt
<1>8. StateHeld' /\ OwnBlock' /\ QueryExact'
  BY DEF Nothing, StateHeld, OwnBlock, QueryExact
<1>. QED
  BY <1>1, <1>3, <1>4, <1>5, <1>6, <1>7, <1>8

(* A step of an answer: the question ends with a, which is owed what the     *)
(* promises say.                                                            *)
LEMMA ReplyKeeps ==
  ASSUME ViewInv, awaits # "idle", NEW a, Replies(a),
         UNCHANGED <<chainVars, want, asked, target, held, was>>,
         snap' \in Blocks \X Blocks, height' \in 0..MaxHeight,
         \/ a = Nothing
         \/ a \in [of : {"state"}, state : {"DoesNotExist", "Included", "Finalized", "Discarded"}]
            /\ StateHeld'
         \/ a \in [of : BlockAnswers, block : Blocks] /\ a.of = want /\ OwnBlock'
  PROVE  ViewInv'
<1>. USE DEF Replies, ViewInv
<1>1. ChainTypeOK' /\ UNCHANGED <<best, finalized>>
  BY DEF ChainTypeOK, chainVars
<1>2. want # ""
  BY DEF PhaseInv
<1>3. ViewTypeOK'
  BY DEF ViewTypeOK, Answers
<1>4. a.of # "list" /\ (a.of \in BlockAnswers => a.of = want)
  <2>1. Nothing.of = "nothing"
    BY DEF Nothing
  <2>2. \A x \in [of : {"state"}, state : {"DoesNotExist", "Included", "Finalized", "Discarded"}] :
          x.of = "state"
    OBVIOUS
  <2>3. \A x \in [of : BlockAnswers, block : Blocks] : x.of \in BlockAnswers
    OBVIOUS
  <2>. QED
    BY <2>1, <2>2, <2>3 DEF BlockAnswers, ReadOf
<1>5. PhaseInv'
  BY <1>2, <1>4 DEF PhaseInv
<1>6. StateInv' /\ ReadInv'
  BY DEF StateInv, ReadInv
<1>7. HeldInv'
  BY <1>1, <1>4 DEF HeldInv, OnChain, AncestorAt, Names
<1>8. StateHeld' /\ OwnBlock' /\ QueryExact'
  <2>1. QueryExact'
    BY <1>4 DEF QueryExact
  <2>2. CASE a = Nothing
    BY <2>2 DEF Nothing, StateHeld, OwnBlock, QueryExact
  <2>3. CASE a.of = "state" /\ StateHeld'
    BY <2>1, <2>3 DEF OwnBlock
  <2>4. CASE a.of \in BlockAnswers /\ OwnBlock'
    BY <2>1, <2>4 DEF StateHeld, BlockAnswers, ReadOf
  <2>. QED
    BY <2>2, <2>3, <2>4
<1>. QED
  BY <1>1, <1>3, <1>5, <1>6, <1>7, <1>8

(* A step to the next RPC of the same question. *)
LEMMA GoKeeps ==
  ASSUME ViewInv, awaits # "idle",
         NEW rpc \in {"height", "hash", "read", "validators", "proof"}, Goes(rpc),
         UNCHANGED <<chainVars, want, asked, held, was>>,
         snap' \in Blocks \X Blocks, height' \in 0..MaxHeight,
         target' \in Blocks \union {NoBlock},
         rpc \in {"height", "hash"} => want = "state",
         rpc \in {"read", "validators"} => want \in ReadOf,
         rpc = "proof" => want = "justification",
         StateInv', ReadInv'
  PROVE  ViewInv'
<1>. USE DEF Goes, ViewInv
<1>1. ChainTypeOK' /\ UNCHANGED <<best, finalized>>
  BY DEF ChainTypeOK, chainVars
<1>2. answer = Nothing /\ want # ""
  BY DEF PhaseInv
<1>3. ViewTypeOK'
  BY DEF ViewTypeOK
<1>4. PhaseInv'
  BY <1>2 DEF PhaseInv
<1>5. HeldInv'
  BY <1>1, <1>2 DEF HeldInv, OnChain, AncestorAt, Names, Nothing
<1>6. StateHeld' /\ OwnBlock' /\ QueryExact'
  BY <1>2 DEF Nothing, StateHeld, OwnBlock, QueryExact
<1>. QED
  BY <1>1, <1>3, <1>4, <1>5, <1>6

(* block_state takes the two snapshots first: a block above the best one is  *)
(* not on its chain, and what is final by the snapshot stays final.         *)
LEMMA ChainInfoKeeps ==
  ASSUME ViewInv, GotChainInfo
  PROVE  ViewInv'
<1>0. /\ ChainTypeOK /\ ViewTypeOK /\ PhaseInv /\ StateInv /\ ReadInv
      /\ best \in Blocks /\ finalized \in Blocks
      /\ Height(best) \in Nat /\ Height(finalized) \in Nat
  BY BlockShape, ChainAssumption DEF ViewInv, ChainTypeOK
<1>1. /\ awaits = "chain info" /\ snap' = <<best, finalized>>
      /\ want = "state" /\ Now(asked, best) \in was
      /\ UNCHANGED <<chainVars, want, asked, height, target, held, was, best, finalized>>
  BY <1>0 DEF GotChainInfo, PhaseInv, StateInv, chainVars
<1>2. snap' \in Blocks \X Blocks /\ height' \in 0..MaxHeight /\ asked \in BlockIds
      /\ target \in Blocks \union {NoBlock}
  BY <1>0, <1>1 DEF ViewTypeOK
<1>3. CASE asked.by = "number"
  <2>1. asked.height \in Nat
    BY <1>2, <1>3, IdShape, ChainAssumption
  <2>2. Replies(ByHeights(snap', asked.height))
    BY <1>3 DEF GotChainInfo
  <2>7. Height(best) \in Nat /\ Height(finalized) \in Nat /\ snap'[1] = best /\ snap'[2] = finalized
    BY <1>0, <1>1
  <2>8. IF asked.height <= Height(best) THEN "on" \in was ELSE "off" \in was
    BY <1>1, <1>3 DEF Now, On
  <2>9. asked.height > Height(best) => ~ (asked.height <= Height(best))
    BY <2>1, <2>7
  <2>3. \/ answer' = State("DoesNotExist") /\ asked.height > Height(best)
        \/ answer' = State("Included") /\ asked.height <= Height(best)
        \/ answer' = State("Finalized") /\ asked.height <= Height(finalized)
    BY <2>1, <2>2, <2>7 DEF ByHeights, Replies
  <2>4. StateHeld'
    <3>1. UNCHANGED <<asked, was>> /\ Height(finalized') = Height(finalized)
      BY <1>1
    <3>2. CASE answer' = State("DoesNotExist") /\ asked.height > Height(best)
      BY <2>8, <2>9, <3>1, <3>2 DEF StateHeld, State
    <3>3. CASE answer' = State("Included") /\ asked.height <= Height(best)
      BY <2>8, <3>1, <3>3 DEF StateHeld, State
    <3>4. CASE answer' = State("Finalized") /\ asked.height <= Height(finalized)
      BY <1>1, <1>3, <3>1, <3>4 DEF StateHeld, State, On
    <3>. QED
      BY <2>3, <3>2, <3>3, <3>4
  <2>5. PICK s \in {"DoesNotExist", "Included", "Finalized", "Discarded"} : Replies(State(s))
    BY <2>2, <2>3 DEF Replies
  <2>. QED
    BY <1>1, <1>2, <2>4, <2>5, ReplyKeeps DEF State
<1>4. CASE asked.by = "hash"
  <2>1. asked.block \in Blocks
    BY <1>2, <1>4, IdShape
  <2>0. Height(asked.block) \in Nat
    BY <2>1, BlockShape, ChainAssumption
  <2>2. CASE asked.block = finalized \/ asked.block = best
    <3>1. PICK s \in {"Included", "Finalized"} :
            Replies(State(s)) /\ asked.block = IF s = "Finalized" THEN finalized ELSE best
      BY <1>4, <2>2 DEF GotChainInfo
    <3>2. StateHeld'
      BY <1>0, <1>1, <1>4, <3>1, AncestorSelf DEF StateHeld, State, On, Now, Replies
    <3>. QED
      BY <1>1, <1>2, <3>1, <3>2, ReplyKeeps DEF State
  <2>3. CASE asked.block # finalized /\ asked.block # best
    <3>1. Goes("height")
      BY <1>4, <2>3 DEF GotChainInfo
    <3>2. OnChain(finalized, finalized)
      BY <1>0, AncestorSelf
    <3>3. Height(asked.block) > Height(best) => "off" \in was
      <4>1. Height(best) \in Nat /\ Now(asked, best) \in was
        BY <1>0, <1>1
      <4>2. ASSUME Height(asked.block) > Height(best) PROVE ~ OnChain(asked.block, best)
        BY <2>0, <4>1, <4>2 DEF OnChain
      <4>. QED
        BY <1>4, <4>1, <4>2 DEF Now, On
    <3>4. StateInv'
      <4>1. Now(asked, best)' = Now(asked, best) /\ snap'[1] = best /\ snap'[2] = finalized
        BY <1>1 DEF Now, On, OnChain, AncestorAt
      <4>2. OnChain(snap[2], finalized)' /\ Height(snap[1])' = Height(best)
        BY <1>1, <3>2, <4>1 DEF OnChain, AncestorAt
      <4>. QED
        BY <1>1, <1>4, <3>1, <3>3, <4>1, <4>2 DEF StateInv, Goes
    <3>5. ReadInv'
      BY <1>1, <3>1 DEF ReadInv, Goes
    <3>. QED
      BY <1>1, <1>2, <3>1, <3>4, <3>5, GoKeeps DEF ReadOf
  <2>. QED
    BY <2>2, <2>3
<1>. QED
  BY <1>2, <1>3, <1>4, IdShape

(* A block without a height is not on the best chain while it is asked for. *)
LEMMA HeightKeeps ==
  ASSUME ViewInv, GotHeight
  PROVE  ViewInv'
<1>0. /\ ChainTypeOK /\ ViewTypeOK /\ PhaseInv /\ StateInv /\ ReadInv
  BY DEF ViewInv
<1>1. /\ awaits = "height" /\ want = "state" /\ asked.by = "hash" /\ Now(asked, best) \in was
      /\ UNCHANGED <<chainVars, want, asked, snap, target, held, was, best, finalized>>
  BY <1>0 DEF GotHeight, StateInv, chainVars
<1>2. /\ asked \in BlockIds /\ asked.block \in Blocks
      /\ snap' \in Blocks \X Blocks /\ target' \in Blocks \union {NoBlock}
      /\ height \in 0..MaxHeight
  BY <1>0, <1>1, IdShape DEF ViewTypeOK
<1>3. PICK b \in Meant(asked) :
        IF b = NoBlock THEN Replies(State("DoesNotExist")) /\ UNCHANGED height
        ELSE height' = Height(b) /\ Goes("hash")
  BY DEF GotHeight
<1>4. CASE b = NoBlock
  <2>1. ~ On(asked, best)
    BY <1>0, <1>2, <1>4, MeantNames
  <2>2. StateHeld'
    BY <1>1, <1>3, <1>4, <2>1 DEF StateHeld, State, Now, Replies
  <2>. QED
    BY <1>1, <1>2, <1>3, <1>4, <2>2, ReplyKeeps DEF State
<1>5. CASE b # NoBlock
  <2>1. b = asked.block
    BY <1>0, <1>1, <1>2, <1>5, MeantNames DEF Names
  <2>2. height' = Height(asked.block) /\ height' \in 0..MaxHeight
    BY <1>2, <1>3, <1>5, <2>1, BlockShape
  <2>3. StateInv'
    <3>1. UNCHANGED <<Now(asked, best), OnChain(snap[2], finalized), Height(snap[1])>>
      BY <1>1 DEF Now, On, OnChain, AncestorAt
    <3>. QED
      BY <1>0, <1>1, <2>2, <3>1 DEF StateInv
  <2>4. ReadInv'
    BY <1>1, <1>3, <1>5 DEF ReadInv, Goes
  <2>. QED
    BY <1>1, <1>2, <1>3, <1>5, <2>2, <2>3, <2>4, GoKeeps
<1>. QED
  BY <1>4, <1>5

(* The third state of the node decides whether the block is on the chain;    *)
(* the snapshots decide how deep, and both were true while it was asked.    *)
LEMMA HashKeeps ==
  ASSUME ViewInv, GotHash
  PROVE  ViewInv'
<1>0. /\ ChainTypeOK /\ ViewTypeOK /\ PhaseInv /\ StateInv /\ ReadInv
      /\ best \in Blocks /\ finalized \in Blocks
      /\ Height(best) \in Nat /\ Height(finalized) \in Nat
  BY BlockShape, ChainAssumption DEF ViewInv, ChainTypeOK
<1>1. /\ awaits = "hash" /\ want = "state" /\ asked.by = "hash" /\ Now(asked, best) \in was
      /\ height = Height(asked.block)
      /\ UNCHANGED <<chainVars, want, asked, snap, height, target, held, was, best, finalized>>
  BY <1>0 DEF GotHash, StateInv, chainVars
<1>2. /\ asked \in BlockIds /\ asked.block \in Blocks
      /\ snap \in Blocks \X Blocks /\ target \in Blocks \union {NoBlock}
      /\ height \in 0..MaxHeight
  BY <1>0, <1>1, IdShape DEF ViewTypeOK
<1>3. /\ snap[1] \in Blocks /\ snap[2] \in Blocks
      /\ Height(snap[1]) \in Nat /\ Height(snap[2]) \in Nat /\ height \in Nat
  BY <1>2, BlockShape, ChainAssumption
<1>4. /\ Height(snap[2]) <= Height(finalized)
      /\ height > Height(snap[1]) => "off" \in was
  BY <1>0, <1>1 DEF StateInv, OnChain
<1>5. ASSUME NEW s \in {"DoesNotExist", "Included", "Finalized", "Discarded"}, Replies(State(s)),
             s \in {"DoesNotExist", "Discarded"} => "off" \in was,
             s = "Included" => "on" \in was,
             s = "Finalized" => On(asked, finalized)
      PROVE  ViewInv'
  <2>1. UNCHANGED On(asked, finalized)
    BY <1>1 DEF On, OnChain, AncestorAt
  <2>2. StateHeld'
    BY <1>1, <1>5, <2>1 DEF StateHeld, State, Replies
  <2>. QED
    BY <1>1, <1>2, <1>5, <2>2, ReplyKeeps DEF State
<1>6. CASE ~ OnChain(asked.block, best)
  <2>1. "off" \in was
    BY <1>1, <1>6 DEF Now, On
  <2>2. height > Height(best) \/ AncestorAt(best, height) # asked.block
    BY <1>0, <1>1, <1>3, <1>6 DEF OnChain
  <2>3. Replies(State("DoesNotExist")) \/ Replies(State("Discarded"))
    BY <2>2 DEF GotHash
  <2>. QED
    BY <1>5, <2>1, <2>3
<1>7. CASE OnChain(asked.block, best)
  <2>1. "on" \in was
    BY <1>1, <1>7 DEF Now, On
  <2>2. ~ (height > Height(best)) /\ AncestorAt(best, height) = asked.block
    BY <1>0, <1>1, <1>3, <1>7 DEF OnChain
  <2>3. Replies(ByHeights(snap, height))
    BY <2>2 DEF GotHash
  <2>4. CASE height > Height(snap[1])
    BY <1>4, <1>5, <2>3, <2>4 DEF ByHeights
  <2>5. CASE ~ (height > Height(snap[1])) /\ height > Height(snap[2])
    BY <1>5, <2>1, <2>3, <2>5 DEF ByHeights
  <2>6. CASE ~ (height > Height(snap[1])) /\ ~ (height > Height(snap[2]))
    <3>1. Height(asked.block) <= Height(finalized)
      BY <1>0, <1>1, <1>3, <1>4, <2>6
    <3>2. On(asked, finalized)
      BY <1>0, <1>1, <1>2, <1>7, <3>1, BelowFinalized DEF On
    <3>. QED
      BY <1>5, <2>3, <2>6, <3>2 DEF ByHeights
  <2>. QED
    BY <2>4, <2>5, <2>6
<1>. QED
  BY <1>6, <1>7

(* What is read of a block is an answer of the kind that was asked for. *)
LEMMA ContentIs ==
  ASSUME NEW b \in Blocks, want \in BlockAnswers
  PROVE  \/ Content(b) = Nothing
         \/ /\ Content(b) \in [of : BlockAnswers, block : Blocks]
            /\ Content(b).of = want /\ Content(b).block = b
BY DEF Content

(* A height is resolved on the best chain, which holds the final blocks. *)
LEMMA ResolvedKeeps ==
  ASSUME ViewInv, GotResolved
  PROVE  ViewInv'
<1>0. /\ ChainTypeOK /\ ViewTypeOK /\ PhaseInv /\ StateInv /\ ReadInv /\ HeldInv
      /\ best \in Blocks /\ finalized \in Blocks /\ Height(best) \in Nat
  BY BlockShape, ChainAssumption DEF ViewInv, ChainTypeOK
<1>1. /\ awaits = "resolve" /\ want \in ReadOf /\ asked.by = "number"
      /\ UNCHANGED <<chainVars, want, asked, snap, height, held, was>>
  BY <1>0 DEF GotResolved, PhaseInv, ReadInv
<1>2. /\ asked \in BlockIds /\ snap' \in Blocks \X Blocks /\ height' \in 0..MaxHeight
      /\ target \in Blocks \union {NoBlock}
  BY <1>0, <1>1 DEF ViewTypeOK
<1>3. asked.height \in Nat
  BY <1>1, <1>2, IdShape, ChainAssumption
<1>4. CASE asked.height > Height(best)
  BY <1>1, <1>2, <1>4, ReplyKeeps DEF GotResolved
<1>5. CASE ~ (asked.height > Height(best))
  <2>1. target' = AncestorAt(best, asked.height) /\ Goes("read")
    BY <1>5 DEF GotResolved
  <2>2. asked.height \in 0..Height(best)
    BY <1>0, <1>3, <1>5
  <2>3. target' \in Blocks /\ Height(target') = asked.height
    BY <1>0, <2>1, <2>2, AncestorIsBlock
  <2>4. ASSUME want = "events", held.id.by = "hash" \/ held.settled
        PROVE  target' = held.block
    <3>1. held # Nothing /\ asked = held.id /\ held.settled
      BY <1>0, <1>1, <2>4 DEF PhaseInv
    <3>2. held.block \in Blocks
      BY <1>0, <3>1 DEF ViewTypeOK
    <3>3. Height(held.block) = asked.height /\ OnChain(held.block, finalized)
      BY <1>0, <1>1, <3>1 DEF HeldInv, Names
    <3>4. OnChain(held.block, best)
      BY <1>0, <3>2, <3>3, OnChainTransitive DEF ChainTypeOK
    <3>. QED
      BY <2>1, <3>3, <3>4 DEF OnChain
  <2>5. ReadInv'
    BY <1>1, <2>1, <2>3, <2>4 DEF ReadInv, Names, Goes
  <2>6. StateInv'
    BY <1>1 DEF StateInv, ReadOf
  <2>. QED
    BY <1>1, <1>2, <2>1, <2>3, <2>5, <2>6, GoKeeps
<1>. QED
  BY <1>4, <1>5

(* A read at a hash is of the block of that hash. *)
LEMMA ReadKeeps ==
  ASSUME ViewInv, GotRead \/ GotValidators
  PROVE  ViewInv'
<1>0. /\ ChainTypeOK /\ ViewTypeOK /\ PhaseInv /\ StateInv /\ ReadInv
  BY DEF ViewInv
<1>1. /\ awaits \in {"read", "validators"} /\ want \in ReadOf
      /\ target \in Blocks /\ Names(asked, target)
      /\ UNCHANGED <<chainVars, want, asked, snap, height, target, held, was>>
  BY <1>0 DEF GotRead, GotValidators, PhaseInv, ReadInv
<1>2. /\ snap' \in Blocks \X Blocks /\ height' \in 0..MaxHeight
      /\ target' \in Blocks \union {NoBlock} /\ want \in BlockAnswers
  BY <1>0, <1>1 DEF ViewTypeOK, BlockAnswers
<1>3. \/ Replies(Nothing)
      \/ Replies(Content(target))
      \/ want = "author" /\ Goes("validators")
  <2>1. ByHash(target) \in BlockIds
    BY <1>1 DEF BlockIds
  <2>2. \A b \in Meant(ByHash(target)) : b = NoBlock \/ b = target
    BY <1>0, <2>1, MeantNames DEF Names, ByHash
  <2>. QED
    BY <2>2 DEF GotRead, GotValidators
<1>4. CASE Replies(Nothing)
  BY <1>1, <1>2, <1>4, ReplyKeeps
<1>5. CASE Replies(Content(target))
  <2>1. CASE Content(target) = Nothing
    BY <1>4, <1>5, <2>1
  <2>2. CASE /\ Content(target) \in [of : BlockAnswers, block : Blocks]
             /\ Content(target).of = want /\ Content(target).block = target
    <3>1. answer' = Content(target)
      BY <1>5 DEF Replies
    <3>2. want = "events" /\ (held.id.by = "hash" \/ held.settled) => target = held.block
      BY <1>0, <1>1 DEF ReadInv
    <3>3. OwnBlock'
      BY <1>1, <2>2, <3>1, <3>2 DEF OwnBlock, Names, ReadOf
    <3>. QED
      BY <1>1, <1>2, <1>5, <2>2, <3>3, ReplyKeeps
  <2>. QED
    BY <1>1, <1>2, <2>1, <2>2, ContentIs
<1>6. CASE want = "author" /\ Goes("validators")
  <2>1. ReadInv'
    BY <1>0, <1>1, <1>6 DEF ReadInv, Goes
  <2>2. StateInv'
    BY <1>1 DEF StateInv, ReadOf
  <2>. QED
    BY <1>1, <1>2, <1>6, <2>1, <2>2, GoKeeps
<1>. QED
  BY <1>3, <1>4, <1>5, <1>6

LEMMA InfoKeeps ==
  ASSUME ViewInv, GotInfo
  PROVE  ViewInv'
<1>0. /\ ChainTypeOK /\ ViewTypeOK /\ PhaseInv /\ StateInv /\ ReadInv
  BY DEF ViewInv
<1>1. /\ awaits # "idle" /\ want = "info"
      /\ UNCHANGED <<chainVars, want, asked, snap, height, target, held, was>>
  BY DEF GotInfo
<1>2. /\ snap' \in Blocks \X Blocks /\ height' \in 0..MaxHeight /\ asked \in BlockIds
      /\ want \in BlockAnswers
  BY <1>0, <1>1 DEF ViewTypeOK, BlockAnswers
<1>3. PICK b \in Meant(asked) : Replies(IF b = NoBlock THEN Nothing ELSE Content(b))
  BY DEF GotInfo
<1>4. CASE b = NoBlock \/ Content(b) = Nothing
  BY <1>1, <1>2, <1>3, <1>4, ReplyKeeps
<1>5. CASE b # NoBlock /\ Content(b) # Nothing
  <2>1. b \in Blocks /\ Names(asked, b)
    BY <1>0, <1>2, <1>5, MeantNames
  <2>2. /\ Content(b) \in [of : BlockAnswers, block : Blocks]
        /\ Content(b).of = want /\ Content(b).block = b
    BY <1>2, <1>5, <2>1, ContentIs
  <2>3. answer' = Content(b) /\ Replies(Content(b))
    BY <1>3, <1>5 DEF Replies
  <2>4. OwnBlock'
    BY <1>1, <2>1, <2>2, <2>3 DEF OwnBlock, Names
  <2>. QED
    BY <1>1, <1>2, <2>2, <2>3, <2>4, ReplyKeeps
<1>. QED
  BY <1>4, <1>5

LEMMA ProofHeightKeeps ==
  ASSUME ViewInv, GotProofHeight
  PROVE  ViewInv'
<1>0. /\ ChainTypeOK /\ ViewTypeOK /\ PhaseInv /\ StateInv /\ ReadInv
  BY DEF ViewInv
<1>1. /\ awaits = "height" /\ want = "justification"
      /\ UNCHANGED <<chainVars, want, asked, snap, target, held, was>>
  BY DEF GotProofHeight
<1>2. /\ snap' \in Blocks \X Blocks /\ height \in 0..MaxHeight /\ asked \in BlockIds
      /\ target' \in Blocks \union {NoBlock}
  BY <1>0, <1>1 DEF ViewTypeOK
<1>3. PICK b \in Meant(asked) :
        IF b = NoBlock THEN Replies(Nothing) /\ UNCHANGED height
        ELSE height' = Height(b) /\ Goes("proof")
  BY DEF GotProofHeight
<1>4. CASE b = NoBlock
  BY <1>1, <1>2, <1>3, <1>4, ReplyKeeps
<1>5. CASE b # NoBlock
  <2>1. b \in Blocks /\ Names(asked, b)
    BY <1>0, <1>2, <1>5, MeantNames
  <2>2. height' = Height(b) /\ height' \in 0..MaxHeight /\ Goes("proof")
    BY <1>3, <1>5, <2>1, BlockShape
  <2>3. ReadInv'
    BY <1>1, <2>1, <2>2 DEF ReadInv, Names, Goes
  <2>4. StateInv'
    BY <1>1 DEF StateInv
  <2>. QED
    BY <1>1, <1>2, <2>2, <2>3, <2>4, GoKeeps
<1>. QED
  BY <1>4, <1>5

(* A justification is of the final block at the height, which is the block   *)
(* that was asked for if that one is final.                                 *)
LEMMA ProofKeeps ==
  ASSUME ViewInv, GotProof
  PROVE  ViewInv'
<1>0. /\ ChainTypeOK /\ ViewTypeOK /\ PhaseInv /\ StateInv /\ ReadInv
      /\ finalized \in Blocks /\ Height(finalized) \in Nat
  BY BlockShape, ChainAssumption DEF ViewInv, ChainTypeOK
<1>1. /\ awaits = "proof" /\ want = "justification"
      /\ UNCHANGED <<chainVars, want, asked, snap, height, target, held, was, finalized>>
  BY <1>0 DEF GotProof, PhaseInv, chainVars
<1>2. /\ snap' \in Blocks \X Blocks /\ height' \in 0..MaxHeight /\ asked \in BlockIds
      /\ want \in BlockAnswers
  BY <1>0, <1>1 DEF ViewTypeOK, BlockAnswers
<1>. DEFINE n == IF asked.by = "hash" THEN height ELSE asked.height
            b == AncestorAt(finalized, n)
<1>3. \/ n <= Height(finalized) /\ Replies(Content(b))
      \/ Replies(Nothing)
  BY DEF GotProof
<1>4. n \in Nat
  BY <1>1, <1>2, IdShape, ChainAssumption
<1>5. CASE Replies(Nothing)
  BY <1>1, <1>2, <1>5, ReplyKeeps
<1>6. CASE n <= Height(finalized) /\ Replies(Content(b))
  <2>1. b \in Blocks
    <3>1. n \in 0..Height(finalized)
      BY <1>0, <1>4, <1>6
    <3>. QED
      BY <1>0, <3>1, AncestorIsBlock
  <2>2. CASE Content(b) = Nothing
    BY <1>5, <1>6, <2>2
  <2>3. CASE /\ Content(b) \in [of : BlockAnswers, block : Blocks]
             /\ Content(b).of = want /\ Content(b).block = b
    <3>1. answer' = Content(b)
      BY <1>6 DEF Replies
    <3>2. asked.by = "hash" /\ OnChain(asked.block, finalized) => b = asked.block
      BY <1>0, <1>1 DEF ReadInv, OnChain
    <3>3. OwnBlock'
      <4>1. UNCHANGED OnChain(asked.block, finalized)
        BY <1>1 DEF OnChain, AncestorAt
      <4>. QED
        BY <1>1, <2>3, <3>1, <3>2, <4>1 DEF OwnBlock
    <3>. QED
      BY <1>1, <1>2, <1>6, <2>3, <3>3, ReplyKeeps
  <2>. QED
    BY <1>2, <2>1, <2>2, <2>3, ContentIs
<1>. QED
  BY <1>3, <1>5, <1>6

(* The extrinsics of a block are queried in one RPC.  The filter sent says    *)
(* the caller's filter, or the type where that is the caller's default; a    *)
(* count sends the type and nothing else.                                   *)
LEMMA QueryKeeps ==
  ASSUME ViewInv, NEW id \in BlockIds, NEW how \in ListOf, NEW kind \in Kinds \union {Encoded},
         NEW filter \in Filters, NEW app \in Apps \union {NoApp}, NEW sent,
         Query(id, how, kind, filter, app, sent),
         \/ kind = Encoded /\ sent = filter
         \/ kind # Encoded /\ how # "count" /\ sent = Kept(filter, kind)
         \/ kind # Encoded /\ how = "count" /\ sent = Replaced(kind)
  PROVE  ViewInv'
<1>0. /\ ChainTypeOK /\ ViewTypeOK /\ PhaseInv /\ StateInv /\ ReadInv
  BY DEF ViewInv
<1>1. /\ want = "" /\ held = Nothing /\ awaits = "idle"
      /\ want' = how /\ asked' = id /\ was' = {}
      /\ UNCHANGED <<chainVars, awaits, snap, height, target, held, best, finalized>>
  BY <1>0 DEF Query, PhaseInv, chainVars
<1>2. PICK b \in Meant(id) :
        LET list == Pick(how, Fetch(sent, app, b))
        IN  answer' = IF b # NoBlock /\ (\A i \in list : Body(b)[i].call = kind
                                             \/ kind = Encoded \/ how = "count")
                      THEN [of |-> "list", kind |-> kind, filter |-> filter, app |-> app,
                            block |-> b, list |-> list]
                      ELSE Nothing
  BY DEF Query
<1>. DEFINE list == Pick(how, Fetch(sent, app, b))
<1>3. \/ answer' = Nothing
      \/ /\ b # NoBlock
         /\ \A i \in list : Body(b)[i].call = kind \/ kind = Encoded \/ how = "count"
         /\ answer' = [of |-> "list", kind |-> kind, filter |-> filter, app |-> app,
                       block |-> b, list |-> list]
  BY <1>2
<1>4. ChainTypeOK'
  BY <1>0, <1>1 DEF ChainTypeOK, OnChain, AncestorAt
<1>5. b # NoBlock => b \in Blocks /\ Names(id, b)
  BY <1>0, MeantNames
<1>6. b # NoBlock => list \subseteq Nat
  <2>1. b # NoBlock => \A i \in DOMAIN Body(b) : i \in Nat
    BY <1>5, BodyAssumption
  <2>. QED
    BY <2>1 DEF Pick, Fetch, Lowest, Highest
<1>. HIDE DEF list
<1>7. ViewTypeOK'
  <2>1. answer' \in Answers
    BY <1>3, <1>5, <1>6 DEF Answers
  <2>. QED
    BY <1>0, <1>1, <2>1 DEF ViewTypeOK
<1>8. answer'.of \in {"list", "nothing"} /\ (answer'.of = "list" => answer' # Nothing)
  BY <1>3 DEF Nothing
<1>9. PhaseInv'
  BY <1>1, <1>8 DEF PhaseInv, ListOf, BlockAnswers, ReadOf
<1>10. StateInv' /\ ReadInv'
  BY <1>1 DEF StateInv, ReadInv
<1>11. HeldInv'
  <2>1. answer'.of = "list" => answer'.block = b /\ b # NoBlock
    BY <1>3, <1>8
  <2>2. answer'.of = "list" => Names(asked', answer'.block)
    BY <1>1, <1>5, <2>1
  <2>3. held' = Nothing
    BY <1>1
  <2>. QED
    BY <2>2, <2>3 DEF HeldInv, Names
<1>12. StateHeld' /\ OwnBlock'
  BY <1>8 DEF StateHeld, OwnBlock
<1>13. QueryExact'
  <2>1. CASE answer' = Nothing
    BY <2>1 DEF QueryExact, Nothing
  <2>2. CASE /\ b # NoBlock
             /\ \A i \in list : Body(b)[i].call = kind \/ kind = Encoded \/ how = "count"
             /\ answer' = [of |-> "list", kind |-> kind, filter |-> filter, app |-> app,
                           block |-> b, list |-> list]
    <3>. DEFINE fits == Fits(filter, app, kind, b)
    <3>1. how # "count" => list = Pick(how, fits)
      BY <1>5, <2>2, PickExact DEF list, ListOf
    <3>2. how = "count" /\ filter = AnyTx => list = fits
      BY FitsFetched DEF list, Pick, Replaced
    <3>3. /\ how = "first" => list = Lowest(fits)
          /\ how = "last" => list = Highest(fits)
          /\ how = "all" => list = fits
      BY <3>1 DEF Pick
    <3>4. /\ answer'.block = b /\ answer'.filter = filter /\ answer'.app = app
          /\ answer'.kind = kind /\ answer'.list = list
      BY <2>2
    <3>. HIDE DEF fits
    <3>5. {i \in DOMAIN Body(b) : /\ Passes(answer'.filter, answer'.app, b, i)
                                  /\ answer'.kind \in {Encoded, Body(b)[i].call}} = fits
      BY <3>4 DEF fits, Fits
    <3>. QED
      BY <1>1, <3>2, <3>3, <3>4, <3>5 DEF QueryExact, ListOf
  <2>. QED
    BY <1>3, <2>1, <2>2
<1>. QED
  BY <1>4, <1>7, <1>9, <1>10, <1>11, <1>12, <1>13 DEF ViewInv

(* The program keeps an extrinsic, lets go of it or of an answer. *)
LEMMA HoldKeeps ==
  ASSUME ViewInv, Hold \/ LetGo \/ Done
  PROVE  ViewInv'
<1>0. /\ ChainTypeOK /\ ViewTypeOK /\ PhaseInv /\ StateInv /\ ReadInv /\ HeldInv
  BY DEF ViewInv
<1>1. /\ want' = "" /\ awaits' = "idle" /\ answer' = Nothing
      /\ UNCHANGED <<best, finalized>>
  BY <1>0 DEF Hold, LetGo, Done, Quiet, PhaseInv, chainVars
<1>2. ChainTypeOK'
  BY <1>0, <1>1 DEF ChainTypeOK, OnChain, AncestorAt
<1>3. \/ held' = Nothing
      \/ UNCHANGED held
      \/ /\ answer.of = "list"
         /\ \E i \in answer.list :
              held' = [of |-> "extrinsic", id |-> asked, block |-> answer.block,
                       index |-> i, settled |-> OnChain(answer.block, finalized)]
  BY DEF Hold, LetGo, Done
<1>4. answer.of = "list" => answer.block \in Blocks /\ answer.list \subseteq Nat /\ Names(asked, answer.block)
  <2>1. answer \in Answers /\ (answer.of = "list" => Names(asked, answer.block))
    BY <1>0 DEF ViewTypeOK, HeldInv
  <2>2. ASSUME answer.of = "list" PROVE answer.block \in Blocks /\ answer.list \subseteq Nat
    <3>0. answer # Nothing
      BY <2>2 DEF Nothing
    <3>1. answer \notin [of : {"state"}, state : {"DoesNotExist", "Included", "Finalized", "Discarded"}]
      BY <2>2
    <3>2. answer \notin [of : BlockAnswers, block : Blocks]
      BY <2>2 DEF BlockAnswers, ReadOf
    <3>3. answer \in [of : {"list"}, kind : Kinds \union {Encoded}, filter : Filters,
                      app : Apps \union {NoApp}, block : Blocks, list : SUBSET Nat]
      BY <2>1, <3>0, <3>1, <3>2 DEF Answers
    <3>. QED
      BY <3>3
  <2>. QED
    BY <2>1, <2>2
<1>5. ViewTypeOK'
  <2>1. asked' \in BlockIds /\ snap' \in Blocks \X Blocks /\ height' \in 0..MaxHeight
        /\ target' \in Blocks \union {NoBlock} /\ was' \subseteq {"on", "off"}
    <3>1. 0 \in 0..MaxHeight
      BY ChainAssumption
    <3>2. ByNumber(0) \in BlockIds
      BY <3>1 DEF BlockIds
    <3>. QED
      <4>1. CASE Quiet
        BY <3>1, <3>2, <4>1, GenesisIsBlock DEF Quiet
      <4>2. CASE LetGo
        BY <1>0, <4>2 DEF ViewTypeOK, LetGo
      <4>. QED
        BY <4>1, <4>2 DEF Hold, Done
  <2>2. held' \in {Nothing} \union [of : {"extrinsic"}, id : BlockIds, block : Blocks,
                                     index : Nat, settled : BOOLEAN]
    <3>1. OnChain(answer.block, finalized) \in BOOLEAN
      BY DEF OnChain
    <3>. QED
      <4>1. held \in {Nothing} \union [of : {"extrinsic"}, id : BlockIds, block : Blocks,
                                       index : Nat, settled : BOOLEAN]
        BY <1>0 DEF ViewTypeOK
      <4>2. asked \in BlockIds
        BY <1>0 DEF ViewTypeOK
      <4>. QED
        BY <1>3, <1>4, <3>1, <4>1, <4>2
  <2>. QED
    BY <1>1, <2>1, <2>2 DEF ViewTypeOK, Answers
<1>6. PhaseInv' /\ StateInv' /\ ReadInv'
  BY <1>1 DEF PhaseInv, StateInv, ReadInv, Nothing, BlockAnswers, ReadOf
<1>7. HeldInv'
  <2>1. held' # Nothing => /\ Names(held'.id, held'.block)
                           /\ held'.settled => OnChain(held'.block, finalized)
    BY <1>0, <1>3, <1>4 DEF HeldInv
  <2>. QED
    BY <1>1, <2>1 DEF HeldInv, Nothing, Names, OnChain, AncestorAt
<1>8. StateHeld' /\ OwnBlock' /\ QueryExact'
  BY <1>1 DEF Nothing, StateHeld, OwnBlock, QueryExact
<1>. QED
  BY <1>2, <1>5, <1>6, <1>7, <1>8 DEF ViewInv

(* The chain moves while a question is under way, or between two. *)
LEMMA ChainMovesKeeps ==
  ASSUME ViewInv, ChainMoves
  PROVE  ViewInv'
<1>0. /\ ChainTypeOK /\ ViewTypeOK /\ PhaseInv /\ StateInv /\ ReadInv /\ HeldInv
  BY DEF ViewInv
<1>1. /\ answer = Nothing
      /\ UNCHANGED <<want, asked, awaits, snap, height, target, held, answer>>
      /\ was' = IF want = "state" THEN was \union {Now(asked, best')} ELSE was
  BY <1>0 DEF ChainMoves, PhaseInv
<1>2. ChainTypeOK' /\ OnChain(finalized, finalized')
  BY <1>0, ChainStep DEF ChainMoves
<1>3. finalized \in Blocks /\ finalized' \in Blocks
  BY <1>0, <1>2 DEF ChainTypeOK
<1>4. ViewTypeOK'
  BY <1>0, <1>1 DEF ViewTypeOK, Now
<1>5. PhaseInv' /\ ReadInv'
  BY <1>0, <1>1 DEF PhaseInv, ReadInv, Names
<1>6. StateInv'
  <2>. SUFFICES ASSUME want = "state", awaits # "idle" PROVE StateInv'
    BY <1>1 DEF StateInv
  <2>1. Now(asked', best') \in was' /\ was \subseteq was'
    BY <1>1
  <2>2. awaits \in {"height", "hash"} => OnChain(snap[2], finalized')
    <3>1. snap[2] \in Blocks
      BY <1>0 DEF ViewTypeOK
    <3>. QED
      BY <1>0, <1>2, <1>3, <3>1, OnChainTransitive DEF StateInv
  <2>3. UNCHANGED <<Height(snap[1]), Height(asked.block)>>
    BY <1>1
  <2>. QED
    BY <1>0, <1>1, <2>1, <2>2, <2>3 DEF StateInv, OnChain, AncestorAt
<1>7. HeldInv'
  <2>1. held # Nothing /\ held.settled => OnChain(held.block, finalized')
    <3>1. held # Nothing => held.block \in Blocks
      BY <1>0 DEF ViewTypeOK
    <3>. QED
      BY <1>0, <1>2, <1>3, <3>1, OnChainTransitive DEF HeldInv
  <2>. QED
    BY <1>0, <1>1, <2>1 DEF HeldInv, Nothing, Names, OnChain, AncestorAt
<1>8. StateHeld' /\ OwnBlock' /\ QueryExact'
  BY <1>1 DEF Nothing, StateHeld, OwnBlock, QueryExact
<1>. QED
  BY <1>2, <1>4, <1>5, <1>6, <1>7, <1>8 DEF ViewInv

LEMMA ViewStep == ViewInv /\ [ViewNext]_<<chainVars, viewVars>> => ViewInv'
<1>. SUFFICES ASSUME ViewInv, [ViewNext]_<<chainVars, viewVars>> PROVE ViewInv'
  OBVIOUS
<1>1. CASE ChainMoves
  BY <1>1, ChainMovesKeeps
<1>2. ASSUME NEW id \in BlockIds,
             \/ AskState(id) \/ BlockInfoFrom(id) \/ Justification(id)
             \/ BlockHeader(id) \/ BlockAuthor(id) \/ BlockEventCount(id) \/ BlockWeight(id)
      PROVE  ViewInv'
  <2>1. PICK what \in {"state"} \union (BlockAnswers \ {"events"}) :
          Question(what, id, FirstRpc(what, id))
    BY <1>2 DEF AskState, BlockInfoFrom, Justification, BlockHeader, BlockAuthor,
                BlockEventCount, BlockWeight, Read, FirstRpc, BlockAnswers, ReadOf
  <2>. QED
    BY <2>1, QuestionKeeps
<1>3. CASE ExtrinsicEvents
  <2>1. held # Nothing /\ Question("events", held.id, FirstRpc("events", held.id))
    BY <1>3 DEF ExtrinsicEvents, Read, FirstRpc, ReadOf
  <2>2. held.id \in BlockIds
    BY <2>1 DEF ViewInv, ViewTypeOK
  <2>3. "events" \in BlockAnswers
    BY DEF BlockAnswers, ReadOf
  <2>. QED
    BY <2>1, <2>2, <2>3, QuestionKeeps
<1>4. ASSUME NEW id \in BlockIds, NEW f \in Filters, NEW app \in Apps \union {NoApp},
             \/ EncodedFirst(id, f, app) \/ EncodedLast(id, f, app)
             \/ EncodedAll(id, f, app) \/ EncodedCount(id, f, app)
      PROVE  ViewInv'
  <2>1. PICK how \in ListOf : Query(id, how, Encoded, f, app, f)
    BY <1>4 DEF EncodedFirst, EncodedLast, EncodedAll, EncodedCount, ListOf
  <2>. QED
    BY <2>1, QueryKeeps
<1>5. ASSUME NEW id \in BlockIds, NEW f \in Filters, NEW app \in Apps \union {NoApp},
             NEW kind \in Kinds,
             \/ TypedFirst(id, kind, f, app) \/ TypedLast(id, kind, f, app)
             \/ TypedAll(id, kind, f, app)
      PROVE  ViewInv'
  <2>1. PICK how \in ListOf \ {"count"} : Query(id, how, kind, f, app, Kept(f, kind))
    BY <1>5 DEF TypedFirst, TypedLast, TypedAll, ListOf
  <2>2. kind # Encoded
    BY KindsAssumption
  <2>. QED
    BY <2>1, <2>2, QueryKeeps
<1>6. ASSUME NEW id \in BlockIds, NEW f \in Filters, NEW app \in Apps, NEW kind \in Kinds,
             TypedCount(id, kind, f, app)
      PROVE  ViewInv'
  <2>1. "count" \in ListOf /\ kind # Encoded
    BY KindsAssumption DEF ListOf
  <2>2. Query(id, "count", kind, f, app, Replaced(kind))
    BY <1>6 DEF TypedCount
  <2>. QED
    BY <2>1, <2>2, QueryKeeps
<1>7. ASSUME NEW id \in BlockIds, NEW f \in Filters,
             EncodedGet(id, f) \/ \E kind \in Kinds : TypedGet(id, kind, f)
      PROVE  ViewInv'
  BY <1>4, <1>5, <1>7 DEF EncodedGet, TypedGet
<1>8. CASE GotChainInfo \/ GotHeight \/ GotHash
  BY <1>8, ChainInfoKeeps, HeightKeeps, HashKeeps
<1>9. CASE GotResolved \/ GotRead \/ GotValidators \/ GotInfo
  BY <1>9, ResolvedKeeps, ReadKeeps, InfoKeeps
<1>10. CASE GotProofHeight \/ GotProof
  BY <1>10, ProofHeightKeeps, ProofKeeps
<1>11. CASE Hold \/ LetGo \/ Done
  BY <1>11, HoldKeeps
<1>12. CASE QuestionFails
  <2>1. snap' \in Blocks \X Blocks /\ height' \in 0..MaxHeight
    BY <1>12 DEF QuestionFails, ViewInv, ViewTypeOK
  <2>. QED
    BY <1>12, <2>1, ReplyKeeps DEF QuestionFails
<1>13. CASE UNCHANGED <<chainVars, viewVars>>
  <2>1. UNCHANGED <<best, finalized, want, asked, awaits, snap, height, target, held, answer, was>>
    BY <1>13 DEF chainVars, viewVars
  <2>2. ChainTypeOK' /\ ViewTypeOK' /\ PhaseInv'
    <3>1. ChainTypeOK'
      BY <2>1 DEF ViewInv, ChainTypeOK, OnChain, AncestorAt
    <3>2. ViewTypeOK'
      BY <2>1 DEF ViewInv, ViewTypeOK
    <3>3. PhaseInv'
      BY <2>1 DEF ViewInv, PhaseInv
    <3>. QED
      BY <3>1, <3>2, <3>3
  <2>3. StateInv' /\ ReadInv' /\ HeldInv'
    BY <2>1 DEF ViewInv, StateInv, ReadInv, HeldInv, Now, On, Names, OnChain, AncestorAt
  <2>4. StateHeld' /\ OwnBlock'
    BY <2>1 DEF ViewInv, StateHeld, OwnBlock, On, OnChain, AncestorAt
  <2>5. QueryExact'
    BY <2>1 DEF ViewInv, QueryExact
  <2>. QED
    BY <2>2, <2>3, <2>4, <2>5 DEF ViewInv
<1>. QED
  BY <1>1, <1>2, <1>3, <1>4, <1>5, <1>6, <1>7, <1>8, <1>9, <1>10, <1>11, <1>12, <1>13 DEF ViewNext

LEMMA ViewInvariant == ViewSpec => []ViewInv
  BY ViewStart, ViewStep, PTL DEF ViewSpec

(* The node's chain and everything the client keeps of a question are well   *)
(* typed, whatever the chain does between two RPCs.                         *)
THEOREM ViewTypeCorrect == ViewSpec => [](ChainTypeOK /\ ViewTypeOK)
<1>1. ViewInv => ChainTypeOK /\ ViewTypeOK
  BY DEF ViewInv
<1>. QED
  BY <1>1, ViewInvariant, PTL

(* Chain::block_state: what it answers from three states of the node was     *)
(* true of the block at some moment while it was asked, and Finalized is    *)
(* true when it is answered.                                                *)
THEOREM StateHeldHolds == ViewSpec => []StateHeld
<1>1. ViewInv => StateHeld
  BY DEF ViewInv
<1>. QED
  BY <1>1, ViewInvariant, PTL

(* The reads of a Block, the events of an extrinsic found earlier and        *)
(* Block::justification answer for the block they were asked about.         *)
THEOREM OwnBlockHolds == ViewSpec => []OwnBlock
<1>1. ViewInv => OwnBlock
  BY DEF ViewInv
<1>. QED
  BY <1>1, ViewInvariant, PTL

(* The queries of a block's extrinsics return the first, the last or all of  *)
(* those that pass every filter and are of the type, for every block body.  *)
THEOREM QueryExactHolds == ViewSpec => []QueryExact
<1>1. ViewInv => QueryExact
  BY DEF ViewInv
<1>. QED
  BY <1>1, ViewInvariant, PTL

-----------------------------------------------------------------------------
(* RecoveryMap: the invariant *)

(* The cells of a native map lie where the formulas of the custody grid put  *)
(* them, for one width of the runtime's grid.                               *)
PlacedInv ==
  tool = "native" =>
    \E cols \in Nat \ {0} : \A s \in DOMAIN cells :
      /\ s \in Int
      /\ cells[s].virtualRow = CustodyVirtualRow(s \div cols, s % cols, cols, CustodyCols)
      /\ cells[s].custodyCol = CustodyCol(2 * (s % cols), CustodyCols)
      /\ cells[s].owner \in OwnersOf(cells[s].custodyCol)

(* The native program reads the header only when the bytes at the index it   *)
(* found have the hash of the receipt.                                      *)
HashedInv ==
  /\ ticket = NoTicket => reads = "done" /\ cells = NoCells
  /\ cells # NoCells => reads = "done"
  /\ tool = "native" /\ (reads \in {"header", "length"} \/ cells # NoCells) =>
       Body(ticket.block)[txIndex].tx = ticket.tx

(* The receipt is of an extrinsic of its block. *)
TicketInv ==
  ticket # NoTicket =>
    /\ ticket.block \in Blocks
    /\ \E i \in DOMAIN Body(ticket.block) :
         Body(ticket.block)[i].tx = ticket.tx /\ AppOf(Body(ticket.block)[i]) = ticket.app

(* What the native program draws: the range the header of the receipt's      *)
(* block has for the application, and its own encoding of the extrinsic.    *)
MappedInv ==
  /\ reads = "length" => lookup = DataLookup(ticket.block)
  /\ tool = "native" /\ (reads \in {"header", "length"} \/ cells # NoCells) =>
       txIndex \in DOMAIN Body(ticket.block)
  /\ tool = "native" /\ cells # NoCells =>
       LET r == Selected(ExpandLookup(DataLookup(ticket.block)), ticket.app)
       IN  /\ DOMAIN cells = r.from..(r.to - 1)
           /\ \A s \in DOMAIN cells : cells[s].chunk = Padded(r.to - r.from)[s - r.from + 1]

RecoveryInv == ChainTypeOK /\ PlacedInv /\ HashedInv /\ TicketInv /\ MappedInv

-----------------------------------------------------------------------------
(* The custody grid *)

(* Division with remainder. *)
LEMMA DivMod ==
  ASSUME NEW s \in Int, NEW c \in Nat \ {0}
  PROVE  /\ (s \div c) \in Int /\ (s % c) \in 0..(c - 1)
         /\ s = c * (s \div c) + (s % c)
OBVIOUS

(* Two numbers in base w are equal only digit by digit. *)
LEMMA DigitsApart ==
  ASSUME NEW w \in Nat \ {0}, NEW x \in Int, NEW y \in Int,
         NEW i \in 0..(w - 1), NEW j \in 0..(w - 1),
         x * w + i = y * w + j
  PROVE  x = y /\ i = j
<1>1. ASSUME NEW u \in Int, NEW v \in Int, u < v,
             NEW a \in 0..(w - 1), NEW b \in 0..(w - 1),
             u * w + a = v * w + b
      PROVE  FALSE
  <2>1. (v - u) * w = v * w - u * w
    OBVIOUS
  <2>2. (v - u) * w >= w
    <3>1. v - u \in Nat /\ v - u >= 1
      BY <1>1
    <3>2. \A k \in Nat : k >= 1 => k * w >= w
      OBVIOUS
    <3>. QED
      BY <3>1, <3>2
  <2>. QED
    BY <1>1, <2>1, <2>2
<1>2. x = y
  BY <1>1
<1>. QED
  BY <1>2

(* A column below the width lies in a band below the number of bands. *)
LEMMA BandBelow ==
  ASSUME NEW cols \in Nat \ {0}, NEW custody \in Nat \ {0}, NEW col \in 0..(cols - 1)
  PROVE  /\ CeilDiv(cols, custody) \in Nat \ {0}
         /\ (col \div custody) \in 0..(CeilDiv(cols, custody) - 1)
<1>. DEFINE w == CeilDiv(cols, custody)
            band == (col \div custody)
<1>1. /\ w \in Int /\ custody * w > cols - 1
  <2>1. cols + custody - 1 \in Int
    OBVIOUS
  <2>2. /\ w \in Int
        /\ cols + custody - 1 < custody * w + custody
    BY <2>1, DivMod DEF CeilDiv
  <2>. QED
    BY <2>2
<1>2. /\ band \in Int /\ custody * band <= col /\ col < custody * band + custody
  BY DivMod
<1>. HIDE DEF w, band
<1>3. custody * w > custody * band /\ custody * w > 0 /\ custody * band > - custody
  BY <1>1, <1>2
<1>4. \A p \in Nat \ {0}, u, v \in Int : p * u > p * v => u > v
  OBVIOUS
<1>5. w > band /\ w > 0 /\ band > -1
  <2>1. custody * 0 = 0 /\ custody * (-1) = - custody
    OBVIOUS
  <2>. QED
    BY <1>1, <1>2, <1>3, <1>4, <2>1
<1>. QED
  BY <1>1, <1>2, <1>5 DEF w, band

(* The place of a scalar in the custody grid tells which scalar it is. *)
LEMMA PlaceTells ==
  ASSUME NEW cols \in Nat \ {0}, NEW custody \in Nat \ {0}, NEW s \in Int, NEW t \in Int,
         CustodyVirtualRow(s \div cols, s % cols, cols, custody)
           = CustodyVirtualRow(t \div cols, t % cols, cols, custody),
         CustodyCol(2 * (s % cols), custody) = CustodyCol(2 * (t % cols), custody)
  PROVE  s = t
<1>. DEFINE w == CeilDiv(cols, custody)
            row(x) == (x \div cols)
            col(x) == (x % cols)
            band(x) == (col(x) \div custody)
<1>1. ASSUME NEW x \in Int
      PROVE  /\ row(x) \in Int /\ col(x) \in 0..(cols - 1) /\ col(x) \in Int
             /\ x = cols * row(x) + col(x)
  <2>1. /\ (x \div cols) \in Int /\ (x % cols) \in 0..(cols - 1)
        /\ x = cols * (x \div cols) + (x % cols)
    BY DivMod
  <2>. QED
    BY <2>1
<1>2. ASSUME NEW x \in Int
      PROVE  /\ w \in Nat \ {0} /\ band(x) \in 0..(w - 1)
             /\ (col(x) % custody) \in Int
             /\ col(x) = custody * band(x) + (col(x) % custody)
  <2>. HIDE DEF row, col
  <2>1. col(x) \in 0..(cols - 1) /\ col(x) \in Int
    BY <1>1
  <2>2. w \in Nat \ {0} /\ band(x) \in 0..(w - 1)
    BY <2>1, BandBelow
  <2>3. (col(x) % custody) \in 0..(custody - 1) /\ col(x) = custody * band(x) + (col(x) % custody)
    BY <2>1, DivMod
  <2>. QED
    BY <2>2, <2>3
<1>3. row(s) * w + band(s) = row(t) * w + band(t)
  BY DEF CustodyVirtualRow
<1>4. (col(s) % custody) = (col(t) % custody)
  <2>1. \A c \in Int : ((2 * c) \div 2) = c
    OBVIOUS
  <2>. QED
    BY <1>1, <2>1 DEF CustodyCol
<1>. HIDE DEF w, row, col, band
<1>5. row(s) = row(t) /\ band(s) = band(t)
  <2>1. row(s) \in Int /\ row(t) \in Int
    BY <1>1
  <2>2. w \in Nat \ {0} /\ band(s) \in 0..(w - 1) /\ band(t) \in 0..(w - 1)
    BY <1>2
  <2>. QED
    BY <1>3, <2>1, <2>2, DigitsApart
<1>6. col(s) = col(t)
  BY <1>2, <1>4, <1>5
<1>. QED
  BY <1>1, <1>5, <1>6

-----------------------------------------------------------------------------
(* The members of a set in their order *)

Increasing(s) == \A i, j \in DOMAIN s : i < j => s[i] < s[j]

(* A finite set of numbers can be put in order. *)
LEMMA OrderExists ==
  ASSUME NEW S, S \subseteq Nat, IsFiniteSet(S)
  PROVE  \E s \in [1..Cardinality(S) -> S] : Increasing(s)
<1>. DEFINE Ordered(T) == \E s \in [1..Cardinality(T) -> T] : Increasing(s)
            P == {n \in Nat : \A T : T \subseteq Nat /\ IsFiniteSet(T) /\ Cardinality(T) = n => Ordered(T)}
<1>1. 0 \in P
  <2>1. SUFFICES ASSUME NEW T, Cardinality(T) = 0, IsFiniteSet(T) PROVE Ordered(T)
    OBVIOUS
  <2>. DEFINE s == [i \in 1..0 |-> 0]
  <2>2. s \in [1..0 -> T] /\ Increasing(s)
    BY DEF Increasing
  <2>. QED
    BY <2>1, <2>2
<1>2. ASSUME NEW n \in Nat, n \in P PROVE n + 1 \in P
  <2>1. SUFFICES ASSUME NEW T, T \subseteq Nat, IsFiniteSet(T), Cardinality(T) = n + 1
                 PROVE  Ordered(T)
    OBVIOUS
  <2>2. T # {}
    BY <2>1, FS_EmptySet
  <2>3. PICK m \in T : \A t \in T : m <= t
    BY <2>1, <2>2, LeastMember
  <2>. DEFINE U == T \ {m}
  <2>4. U \subseteq Nat /\ IsFiniteSet(U) /\ Cardinality(U) = n
    <3>1. IsFiniteSet(U) /\ Cardinality(U) = Cardinality(T) - 1
      BY <2>1, FS_RemoveElement
    <3>. QED
      BY <2>1, <3>1
  <2>5. PICK u \in [1..n -> U] : Increasing(u)
    BY <1>2, <2>4
  <2>. DEFINE s == [i \in 1..n + 1 |-> IF i = 1 THEN m ELSE u[i - 1]]
  <2>6. \A i \in 1..n + 1 : i # 1 => i - 1 \in 1..n /\ s[i] = u[i - 1] /\ s[i] \in U
    <3>1. ASSUME NEW i \in 1..n + 1, i # 1 PROVE i - 1 \in 1..n
      BY <3>1
    <3>. HIDE DEF U
    <3>. QED
      BY <3>1
  <2>7. s \in [1..n + 1 -> T]
    BY <2>6
  <2>8. Increasing(s)
    <3>1. SUFFICES ASSUME NEW i \in 1..n + 1, NEW j \in 1..n + 1, i < j PROVE s[i] < s[j]
      BY DEF Increasing
    <3>2. j # 1 /\ j - 1 \in 1..n /\ s[j] = u[j - 1] /\ s[j] \in T /\ s[j] # m
      BY <2>6, <3>1
    <3>3. CASE i = 1
      <4>1. s[i] = m /\ m <= s[j] /\ m \in Nat /\ s[j] \in Nat
        BY <2>1, <2>3, <3>2, <3>3
      <4>. HIDE DEF s
      <4>. QED
        BY <3>2, <4>1
    <3>4. CASE i # 1
      <4>1. i - 1 \in 1..n /\ s[i] = u[i - 1] /\ i - 1 < j - 1
        BY <2>6, <3>1, <3>4
      <4>2. u[i - 1] < u[j - 1]
        <5>1. DOMAIN u = 1..n
          BY <2>5
        <5>. QED
          BY <2>5, <3>2, <4>1, <5>1 DEF Increasing
      <4>. QED
        BY <3>2, <4>1, <4>2
    <3>. QED
      BY <3>3, <3>4
  <2>. HIDE DEF s
  <2>. QED
    BY <2>1, <2>7, <2>8
<1>. HIDE DEF P
<1>3. Nat \subseteq P
  BY <1>1, <1>2, Induction
<1>4. Cardinality(S) \in Nat
  BY FS_CardinalityType
<1>. QED
  BY <1>3, <1>4 DEF P

(* Ascending has every member of the set, each once. *)
LEMMA AscendingOrders ==
  ASSUME NEW S, S \subseteq Nat, IsFiniteSet(S)
  PROVE  /\ Cardinality(S) \in Nat
         /\ Ascending(S) \in [1..Cardinality(S) -> S]
         /\ Increasing(Ascending(S))
         /\ \A x \in S : \E i \in 1..Cardinality(S) : Ascending(S)[i] = x
<1>. DEFINE n == Cardinality(S)
            s == Ascending(S)
<1>1. n \in Nat
  BY FS_CardinalityType
<1>2. s \in [1..n -> S] /\ Increasing(s)
  <2>1. \E t \in [1..n -> S] : \A i, j \in DOMAIN t : i < j => t[i] < t[j]
    BY OrderExists DEF Increasing
  <2>2. s = CHOOSE t \in [1..n -> S] : \A i, j \in DOMAIN t : i < j => t[i] < t[j]
    BY DEF Ascending
  <2>. HIDE DEF n, s
  <2>. QED
    BY <2>1, <2>2 DEF Increasing
<1>. HIDE DEF s, n
<1>3. s \in Injection(1..n, S)
  <2>1. ASSUME NEW i \in 1..n, NEW j \in 1..n, i # j PROVE s[i] # s[j]
    <3>1. DOMAIN s = 1..n /\ s[i] \in Nat /\ s[j] \in Nat
      BY <1>2
    <3>2. i < j \/ j < i
      BY <1>1, <2>1
    <3>. QED
      BY <1>2, <3>1, <3>2 DEF Increasing
  <2>. QED
    BY <1>2, <2>1 DEF Injection, IsInjective
<1>4. Cardinality(1..n) = Cardinality(S)
  BY <1>1, FS_Interval DEF n
<1>5. s \in Surjection(1..n, S)
  BY <1>3, <1>4, FS_Injection
<1>. QED
  BY <1>1, <1>2, <1>5 DEF Surjection, s, n

-----------------------------------------------------------------------------
(* Sequences one after the other *)

(* upTo is the sequences of s joined, up to each of the first n. *)
IsJoined(upTo, s, n) ==
  upTo = [k \in 0..n |-> IF k = 0 THEN <<>> ELSE upTo[k - 1] \o s[k]]

LEMMA JoinedExists ==
  ASSUME NEW s, NEW n \in Nat
  PROVE  \E upTo : IsJoined(upTo, s, n)
<1>. DEFINE P == {m \in Nat : \E upTo : IsJoined(upTo, s, m)}
<1>1. 0 \in P
  <2>. DEFINE upTo == [k \in 0..0 |-> <<>>]
  <2>1. IsJoined(upTo, s, 0)
    BY DEF IsJoined
  <2>. QED
    BY <2>1
<1>2. ASSUME NEW m \in Nat, m \in P PROVE m + 1 \in P
  <2>1. PICK old : IsJoined(old, s, m)
    BY <1>2
  <2>. DEFINE upTo == [k \in 0..m + 1 |-> IF k = m + 1 THEN old[m] \o s[k] ELSE old[k]]
  <2>2. ASSUME NEW k \in 0..m + 1
        PROVE  upTo[k] = IF k = 0 THEN <<>> ELSE upTo[k - 1] \o s[k]
    <3>1. CASE k = m + 1
      <4>1. upTo[k] = old[m] \o s[k] /\ upTo[k - 1] = old[m] /\ k # 0
        BY <3>1
      <4>. HIDE DEF upTo
      <4>. QED
        BY <4>1
    <3>2. CASE k # m + 1
      <4>1. k \in 0..m /\ upTo[k] = old[k] /\ (k # 0 => upTo[k - 1] = old[k - 1])
        BY <3>2
      <4>2. old[k] = IF k = 0 THEN <<>> ELSE old[k - 1] \o s[k]
        BY <2>1, <4>1 DEF IsJoined
      <4>. HIDE DEF upTo
      <4>. QED
        BY <4>1, <4>2
    <3>. QED
      BY <3>1, <3>2
  <2>3. IsJoined(upTo, s, m + 1)
    <3>1. upTo = [k \in 0..m + 1 |-> upTo[k]]
      OBVIOUS
    <3>. HIDE DEF upTo
    <3>. QED
      BY <2>2, <3>1 DEF IsJoined
  <2>. QED
    BY <2>3
<1>. HIDE DEF P
<1>3. Nat \subseteq P
  BY <1>1, <1>2, Induction
<1>. QED
  BY <1>3 DEF P

LEMMA JoinedUpTo ==
  ASSUME NEW s, Len(s) \in Nat
  PROVE  /\ Joined(s)[0] = <<>>
         /\ \A k \in 1..Len(s) : Joined(s)[k] = Joined(s)[k - 1] \o s[k]
<1>. DEFINE upTo == CHOOSE u : IsJoined(u, s, Len(s))
<1>1. IsJoined(upTo, s, Len(s))
  BY JoinedExists
<1>2. Joined(s) = upTo
  BY DEF Joined, IsJoined
<1>. HIDE DEF upTo
<1>3. 0 \in 0..Len(s) /\ \A k \in 1..Len(s) : k \in 0..Len(s) /\ k # 0
  OBVIOUS
<1>. QED
  BY <1>1, <1>2, <1>3 DEF IsJoined

(* Every member of s is a sequence over V. *)
AllOver(V, s) == \A k \in 1..Len(s) : s[k] \in Seq(V)

(* Joined so far over V, each sequence behind what precedes it. *)
Follows(V, a, t, b) ==
  /\ a \in Seq(V) /\ t \in Seq(V) /\ b \in Seq(V)
  /\ Len(b) = Len(a) + Len(t)
  /\ \A j \in 1..Len(a) : b[j] = a[j]
  /\ \A j \in 1..Len(t) : b[Len(a) + j] = t[j]

LEMMA FollowsWhenJoined ==
  ASSUME NEW V, NEW a \in Seq(V), NEW t \in Seq(V)
  PROVE  Follows(V, a, t, a \o t)
BY DEF Follows

LEMMA JoinedFollows ==
  ASSUME NEW V, NEW s, Len(s) \in Nat, AllOver(V, s)
  PROVE  /\ \A k \in 0..Len(s) : Joined(s)[k] \in Seq(V)
         /\ \A k \in 1..Len(s) : Follows(V, Joined(s)[k - 1], s[k], Joined(s)[k])
<1>. DEFINE n == Len(s)
            J == Joined(s)
            P == {k \in Nat : k <= n => J[k] \in Seq(V)}
<1>1. J[0] = <<>> /\ \A k \in 1..n : J[k] = J[k - 1] \o s[k]
  BY JoinedUpTo
<1>. HIDE DEF J
<1>2. 0 \in P
  <2>1. <<>> \in Seq(V)
    OBVIOUS
  <2>2. J[0] \in Seq(V)
    BY <1>1, <2>1, Zenon
  <2>. QED
    BY <2>2
<1>3. ASSUME NEW k \in Nat, k \in P PROVE k + 1 \in P
  <2>1. SUFFICES ASSUME k + 1 <= n PROVE J[k + 1] \in Seq(V)
    OBVIOUS
  <2>2. k + 1 \in 1..n /\ (k + 1) - 1 = k /\ k <= n
    BY <2>1
  <2>3. J[k] \in Seq(V) /\ s[k + 1] \in Seq(V)
    BY <1>3, <2>2 DEF AllOver
  <2>4. J[k + 1] = J[k] \o s[k + 1]
    BY <1>1, <2>2
  <2>5. \A x, y \in Seq(V) : x \o y \in Seq(V)
    OBVIOUS
  <2>. QED
    BY <2>3, <2>4, <2>5, Zenon
<1>. HIDE DEF P
<1>4. Nat \subseteq P
  BY <1>2, <1>3, Induction
<1>5. ASSUME NEW k \in 0..n PROVE J[k] \in Seq(V)
  <2>1. k \in Nat /\ k <= n
    OBVIOUS
  <2>. QED
    BY <1>4, <2>1 DEF P
<1>6. ASSUME NEW k \in 1..n PROVE Follows(V, J[k - 1], s[k], J[k])
  <2>1. k - 1 \in 0..n
    OBVIOUS
  <2>2. J[k - 1] \in Seq(V)
    BY <1>5, <2>1, Zenon
  <2>3. s[k] \in Seq(V) /\ J[k] = J[k - 1] \o s[k]
    BY <1>1 DEF AllOver
  <2>. QED
    BY <2>2, <2>3, FollowsWhenJoined, Zenon
<1>. QED
  BY <1>5, <1>6 DEF J, n

(* a is the beginning of b. *)
Begins(a, b) == Len(a) <= Len(b) /\ \A j \in 1..Len(a) : b[j] = a[j]

(* What is joined up to k stays the beginning of what is joined. *)
LEMMA JoinedKeeps ==
  ASSUME NEW V, NEW s, Len(s) \in Nat, AllOver(V, s), NEW k \in 0..Len(s)
  PROVE  Begins(Joined(s)[k], Joined(s)[Len(s)])
<1>. DEFINE n == Len(s)
            J == Joined(s)
            P == {d \in Nat : k + d <= n => Begins(J[k], J[k + d])}
<1>1. \A i \in 0..n : J[i] \in Seq(V)
  BY JoinedFollows
<1>2. \A i \in 1..n : Follows(V, J[i - 1], s[i], J[i])
  BY JoinedFollows
<1>. HIDE DEF J
<1>3. 0 \in P
  <2>1. k + 0 = k /\ Len(J[k]) \in Nat
    BY <1>1
  <2>. QED
    BY <2>1 DEF Begins
<1>4. ASSUME NEW d \in Nat, d \in P PROVE d + 1 \in P
  <2>1. SUFFICES ASSUME k + (d + 1) <= n PROVE Begins(J[k], J[k + (d + 1)])
    OBVIOUS
  <2>2. /\ k + d \in 0..n /\ k + (d + 1) \in 1..n /\ (k + (d + 1)) - 1 = k + d
        /\ k + d <= n
    BY <2>1
  <2>3. Follows(V, J[k + d], s[k + (d + 1)], J[k + (d + 1)])
    BY <1>2, <2>2
  <2>4. Begins(J[k], J[k + d])
    BY <1>4, <2>2
  <2>5. J[k] \in Seq(V)
    BY <1>1
  <2>6. ASSUME NEW a \in Seq(V), NEW b, NEW t, NEW c, Begins(a, b), Follows(V, b, t, c)
        PROVE  Begins(a, c)
    <3>1. Len(a) \in Nat /\ Len(b) \in Nat /\ Len(t) \in Nat /\ Len(c) = Len(b) + Len(t)
      BY <2>6 DEF Follows
    <3>2. Len(a) <= Len(c)
      BY <2>6, <3>1 DEF Begins
    <3>3. ASSUME NEW j \in 1..Len(a) PROVE c[j] = a[j]
      <4>1. j \in 1..Len(b)
        BY <2>6, <3>1 DEF Begins
      <4>. QED
        BY <2>6, <4>1 DEF Begins, Follows
    <3>. QED
      BY <3>2, <3>3 DEF Begins
  <2>. QED
    BY <2>3, <2>4, <2>5, <2>6
<1>. HIDE DEF P
<1>5. Nat \subseteq P
  BY <1>3, <1>4, Induction
<1>6. n - k \in P /\ k + (n - k) = n /\ n <= n
  BY <1>5
<1>. QED
  BY <1>6 DEF P, J, n

-----------------------------------------------------------------------------
(* The streams of a block *)

(* The scalars the grid of b is made of. *)
Values(b) == ({"length"} \union {Body(b)[i].tx : i \in DOMAIN Body(b)}) \X Nat

LEMMA BodyShape ==
  ASSUME NEW b \in Blocks
  PROVE  /\ Len(Body(b)) \in Nat /\ DOMAIN Body(b) = 1..Len(Body(b))
         /\ \A i \in DOMAIN Body(b) : AppOf(Body(b)[i]) \in Nat
         /\ \A i \in DOMAIN Body(b) : Scalars(Body(b)[i]) \in Seq(Values(b))
<1>1. Len(Body(b)) \in Nat /\ DOMAIN Body(b) = 1..Len(Body(b))
  BY BodyAssumption
<1>2. ASSUME NEW i \in DOMAIN Body(b) PROVE AppOf(Body(b)[i]) \in Nat
  BY BodyAssumption DEF AppOf
<1>3. ASSUME NEW i \in DOMAIN Body(b) PROVE Scalars(Body(b)[i]) \in Seq(Values(b))
  <2>. DEFINE x == Body(b)[i]
  <2>1. x.size \in Nat
    BY BodyAssumption
  <2>2. \A j \in 1..x.size : <<x.tx, j>> \in Values(b)
    BY DEF Values
  <2>3. Scalars(x) = [j \in 1..x.size |-> <<x.tx, j>>]
    BY DEF Scalars
  <2>. HIDE DEF x
  <2>. QED
    BY <2>1, <2>2, <2>3 DEF x
<1>. QED
  BY <1>1, <1>2, <1>3

(* OfApp has the extrinsics of the application and no others. *)
LEMMA OfAppHas ==
  ASSUME NEW b \in Blocks, NEW app
  PROVE  /\ Len(OfApp(b, app)) \in Nat /\ DOMAIN OfApp(b, app) = 1..Len(OfApp(b, app))
         /\ \A k \in DOMAIN OfApp(b, app) :
              \E i \in DOMAIN Body(b) : OfApp(b, app)[k] = Body(b)[i]
         /\ \A i \in DOMAIN Body(b) : AppOf(Body(b)[i]) = app =>
              \E k \in DOMAIN OfApp(b, app) : OfApp(b, app)[k] = Body(b)[i]
<1>. DEFINE S == {i \in DOMAIN Body(b) : AppOf(Body(b)[i]) = app}
            n == Cardinality(S)
            at == Ascending(S)
            list == OfApp(b, app)
<1>1. S \subseteq Nat /\ IsFiniteSet(S) /\ S \subseteq DOMAIN Body(b)
  <2>1. S \subseteq 1..Len(Body(b)) /\ Len(Body(b)) \in Nat
    BY BodyShape
  <2>2. IsFiniteSet(1..Len(Body(b)))
    BY <2>1, FS_Interval
  <2>. HIDE DEF S
  <2>3. IsFiniteSet(S)
    BY <2>1, <2>2, FS_Subset
  <2>. QED
    BY <2>1, <2>3 DEF S
<1>2. n \in Nat /\ at \in [1..n -> S] /\ \A x \in S : \E k \in 1..n : at[k] = x
  <2>. HIDE DEF S
  <2>. QED
    BY <1>1, AscendingOrders
<1>3. list = [k \in 1..n |-> Body(b)[at[k]]]
  <2>1. list = [k \in DOMAIN at |-> Body(b)[at[k]]]
    BY DEF OfApp
  <2>. HIDE DEF list, at
  <2>. QED
    BY <1>2, <2>1
<1>4. \A i \in DOMAIN Body(b) : AppOf(Body(b)[i]) = app => i \in S
  OBVIOUS
<1>. HIDE DEF S, n, at, list
<1>5. Len(list) = n /\ DOMAIN list = 1..n
  BY <1>2, <1>3
<1>6. ASSUME NEW k \in 1..n PROVE \E i \in DOMAIN Body(b) : list[k] = Body(b)[i]
  <2>1. at[k] \in DOMAIN Body(b) /\ list[k] = Body(b)[at[k]]
    BY <1>1, <1>2, <1>3
  <2>. QED
    BY <2>1
<1>7. ASSUME NEW i \in DOMAIN Body(b), AppOf(Body(b)[i]) = app
      PROVE  \E k \in 1..n : list[k] = Body(b)[i]
  <2>1. PICK k \in 1..n : at[k] = i
    BY <1>2, <1>4, <1>7
  <2>. QED
    BY <1>3, <2>1
<1>. QED
  BY <1>2, <1>5, <1>6, <1>7 DEF list

(* The stream of an application that has extrinsics is not empty. *)
LEMMA StreamShape ==
  ASSUME NEW b \in Blocks, NEW app
  PROVE  /\ AppStream(OfApp(b, app)) \in Seq(Values(b))
         /\ OfApp(b, app) # <<>> => Len(AppStream(OfApp(b, app))) >= 1
<1>. DEFINE list == OfApp(b, app)
            n == Len(list)
            s == [i \in DOMAIN list |-> Scalars(list[i])]
            V == Values(b)
            head == <<<<"length", n>>>>
<1>1. /\ n \in Nat /\ DOMAIN list = 1..n
      /\ \A k \in 1..n : \E i \in DOMAIN Body(b) : list[k] = Body(b)[i]
  BY OfAppHas
<1>2. AppStream(list) = IF list = <<>> THEN <<>> ELSE head \o Joined(s)[n]
  BY DEF AppStream
<1>. HIDE DEF list, n, V
<1>3. \A k \in 1..n : s[k] \in Seq(V)
  BY <1>1, BodyShape DEF V
<1>4. Len(s) = n
  BY <1>1, <1>3
<1>. HIDE DEF s
<1>5. Joined(s)[n] \in Seq(V)
  <2>1. AllOver(V, s) /\ Len(s) \in Nat /\ n \in 0..Len(s)
    BY <1>1, <1>3, <1>4 DEF AllOver
  <2>. QED
    BY <2>1, JoinedFollows
<1>6. head \in Seq(V) /\ Len(head) = 1
  <2>1. <<"length", n>> \in V
    BY <1>1 DEF V, Values
  <2>. QED
    BY <2>1
<1>. HIDE DEF head
<1>7. head \o Joined(s)[n] \in Seq(V) /\ Len(head \o Joined(s)[n]) >= 1
  <2>1. \A x, y \in Seq(V) : x \o y \in Seq(V) /\ Len(x \o y) >= Len(x)
    OBVIOUS
  <2>2. Len(head \o Joined(s)[n]) >= Len(head) /\ head \o Joined(s)[n] \in Seq(V)
    BY <1>5, <1>6, <2>1, Zenon
  <2>. QED
    BY <1>6, <2>2
<1>8. <<>> \in Seq(V)
  OBVIOUS
<1>. QED
  BY <1>2, <1>7, <1>8, Zenon DEF list, V

(* AppsOf has the application of every extrinsic, in order. *)
LEMMA AppsHas ==
  ASSUME NEW b \in Blocks
  PROVE  /\ Len(AppsOf(b)) \in Nat /\ AppsOf(b) \in [1..Len(AppsOf(b)) -> Nat]
         /\ Increasing(AppsOf(b))
         /\ \A k \in 1..Len(AppsOf(b)) : OfApp(b, AppsOf(b)[k]) # <<>>
         /\ \A i \in DOMAIN Body(b) :
              \E k \in 1..Len(AppsOf(b)) : AppsOf(b)[k] = AppOf(Body(b)[i])
<1>. DEFINE D == DOMAIN Body(b)
            S == {AppOf(Body(b)[i]) : i \in D}
            n == Cardinality(S)
            apps == AppsOf(b)
<1>1. S \subseteq Nat
  BY BodyShape
<1>2. IsFiniteSet(S)
  <2>. DEFINE f == [i \in D |-> AppOf(Body(b)[i])]
  <2>1. IsFiniteSet(D)
    <3>1. D = 1..Len(Body(b)) /\ Len(Body(b)) \in Nat
      BY BodyShape
    <3>. QED
      BY <3>1, FS_Interval
  <2>2. f \in Surjection(D, S)
    BY DEF Surjection
  <2>. HIDE DEF f, D, S
  <2>. QED
    BY <2>1, <2>2, FS_Surjection
<1>3. apps = Ascending(S)
  BY DEF AppsOf
<1>4. ASSUME NEW i \in D PROVE AppOf(Body(b)[i]) \in S
  OBVIOUS
<1>5. ASSUME NEW a \in S PROVE OfApp(b, a) # <<>>
  <2>1. PICK i \in D : a = AppOf(Body(b)[i])
    OBVIOUS
  <2>2. DOMAIN OfApp(b, a) # {}
    BY <2>1, OfAppHas
  <2>. QED
    BY <2>2
<1>. HIDE DEF S, n, apps
<1>6. n \in Nat /\ apps \in [1..n -> S] /\ Increasing(apps) /\ \A x \in S : \E k \in 1..n : apps[k] = x
  BY <1>1, <1>2, <1>3, AscendingOrders DEF n
<1>7. Len(apps) = n /\ apps \in [1..n -> Nat]
  <2>1. apps \in [1..n -> Nat]
    BY <1>1, <1>6
  <2>2. \A t \in [1..n -> Nat] : Len(t) = n
    BY <1>6
  <2>. QED
    BY <2>1, <2>2, Zenon
<1>8. \A k \in 1..n : apps[k] \in S
  BY <1>6
<1>. QED
  BY <1>4, <1>5, <1>6, <1>7, <1>8 DEF apps, D

LEMMA StreamsShape ==
  ASSUME NEW b \in Blocks
  PROVE  /\ Len(Streams(b)) = Len(AppsOf(b)) /\ Len(AppsOf(b)) \in Nat
         /\ AllOver(Values(b), Streams(b))
         /\ \A k \in 1..Len(AppsOf(b)) : /\ Streams(b)[k] = AppStream(OfApp(b, AppsOf(b)[k]))
                                        /\ Len(Streams(b)[k]) >= 1
<1>. DEFINE n == Len(AppsOf(b))
            s == Streams(b)
            V == Values(b)
<1>1. n \in Nat /\ DOMAIN AppsOf(b) = 1..n /\ \A k \in 1..n : OfApp(b, AppsOf(b)[k]) # <<>>
  BY AppsHas
<1>2. s = [k \in DOMAIN AppsOf(b) |-> AppStream(OfApp(b, AppsOf(b)[k]))]
  BY DEF Streams
<1>. HIDE DEF n, s, V
<1>3. \A k \in 1..n : /\ s[k] = AppStream(OfApp(b, AppsOf(b)[k]))
                     /\ s[k] \in Seq(V) /\ Len(s[k]) >= 1
  BY <1>1, <1>2, StreamShape DEF V
<1>4. Len(s) = n
  BY <1>1, <1>2, <1>3
<1>. QED
  BY <1>1, <1>3, <1>4 DEF AllOver, n, s, V

-----------------------------------------------------------------------------
(* The ranges of the header's lookup *)

(* Application 0, if a block has it, is the first. *)
LEMMA ZeroFirst ==
  ASSUME NEW b \in Blocks, NEW k \in 1..Len(AppsOf(b)), AppsOf(b)[k] = 0
  PROVE  k = 1
<1>. DEFINE apps == AppsOf(b)
            n == Len(apps)
<1>1. n \in Nat /\ apps \in [1..n -> Nat] /\ Increasing(apps)
  BY AppsHas
<1>. HIDE DEF apps, n
<1>2. k \in 1..n /\ apps[k] = 0
  BY DEF apps, n
<1>3. ASSUME 1 < k PROVE FALSE
  <2>1. 1 \in DOMAIN apps /\ k \in DOMAIN apps
    BY <1>1, <1>2, <1>3
  <2>2. apps[1] < apps[k] /\ apps[1] \in Nat
    BY <1>1, <1>3, <2>1 DEF Increasing
  <2>. QED
    BY <1>2, <2>2
<1>. QED
  BY <1>2, <1>3

(* expand_lookup gives each application where its stream is, behind an       *)
(* empty range when application 0 has none.                                 *)
LEMMA RangesExpanded ==
  ASSUME NEW b \in Blocks, Len(AppsOf(b)) # 0
  PROVE  \E zero \in {0, 1} :
           LET n      == Len(AppsOf(b))
               ranges == ExpandLookup(DataLookup(b))
           IN  /\ DOMAIN ranges = 1..(n + 1 - zero)
               /\ \A k \in 1..n : /\ ranges[k + 1 - zero].app = AppsOf(b)[k]
                                  /\ ranges[k + 1 - zero].from = Len(Joined(Streams(b))[k - 1])
                                  /\ ranges[k + 1 - zero].to = Len(Joined(Streams(b))[k])
               /\ zero = 0 => ranges[1].app = 0 /\ \A k \in 1..n : AppsOf(b)[k] # 0
<1>. DEFINE apps == AppsOf(b)
            n == Len(apps)
            J == Joined(Streams(b))
            L(k) == Len(J[k])
            zero == IF \E k \in DOMAIN apps : apps[k] = 0 THEN 1 ELSE 0
            l == DataLookup(b)
<1>1. n \in Nat /\ n # 0 /\ DOMAIN apps = 1..n
  BY AppsHas
<1>2. /\ L(0) = 0 /\ \A k \in 0..n : L(k) \in Nat
      /\ \A k \in 1..n : L(k) = L(k - 1) + Len(Streams(b)[k]) /\ Len(Streams(b)[k]) >= 1
  <2>. DEFINE V == Values(b)
  <2>1. /\ Len(Streams(b)) = n /\ AllOver(V, Streams(b))
        /\ \A k \in 1..n : Len(Streams(b)[k]) >= 1
    BY StreamsShape
  <2>. HIDE DEF V, n
  <2>2. /\ \A k \in 0..n : J[k] \in Seq(V)
        /\ \A k \in 1..n : Follows(V, J[k - 1], Streams(b)[k], J[k])
        /\ J[0] = <<>>
    BY <1>1, <2>1, JoinedFollows, JoinedUpTo, Zenon
  <2>3. ASSUME NEW k \in 0..n PROVE L(k) \in Nat
    <3>1. J[k] \in Seq(V)
      BY <2>2
    <3>. QED
      BY <3>1
  <2>4. ASSUME NEW k \in 1..n PROVE L(k) = L(k - 1) + Len(Streams(b)[k])
    <3>1. Follows(V, J[k - 1], Streams(b)[k], J[k])
      BY <2>2
    <3>. QED
      BY <3>1 DEF Follows
  <2>5. L(0) = 0
    BY <2>2
  <2>. QED
    BY <2>1, <2>3, <2>4, <2>5
<1>3. /\ zero \in {0, 1} /\ (zero = 0 => \A k \in 1..n : apps[k] # 0) /\ (zero = 1 => apps[1] = 0)
  <2>1. \A k \in 1..n : apps[k] = 0 => k = 1
    BY ZeroFirst
  <2>. HIDE DEF apps, n
  <2>. QED
    BY <1>1, <2>1
<1>4. /\ l.size = L(n)
      /\ l.index = [i \in 1..(n - zero) |-> [app |-> apps[i + zero], start |-> L(i + zero - 1)]]
  BY StreamsShape DEF DataLookup, Grid
<1>. DEFINE start(i) == IF i = 0 THEN 0 ELSE l.index[i].start
            items == n - zero
            range(i) == [app |-> IF i = 0 THEN 0 ELSE l.index[i].app, from |-> start(i),
                         to |-> IF i = items THEN l.size ELSE start(i + 1)]
            many == IF start(items) < l.size THEN items + 1 ELSE items
<1>. HIDE DEF apps, n, L, J, zero, l
<1>5. items \in Nat /\ Len(l.index) = items
  <2>1. items \in Nat
    BY <1>1, <1>3
  <2>. DEFINE item(i) == [app |-> apps[i + zero], start |-> L(i + zero - 1)]
  <2>2. l.index = [i \in 1..items |-> item(i)]
    BY <1>4
  <2>. HIDE DEF items, item
  <2>. QED
    BY <2>1, <2>2
<1>6. ExpandLookup(l) = [i \in 1..many |-> range(i - 1)]
  <2>. HIDE DEF items
  <2>. QED
    BY <1>5 DEF ExpandLookup
<1>7. \A i \in 1..items : start(i) = L(i + zero - 1) /\ l.index[i].app = apps[i + zero]
  BY <1>4
<1>8. zero = 1 => start(0) = L(0 + zero - 1)
  BY <1>2
<1>9. many = items + 1
  <2>1. start(items) = L(n - 1)
    <3>1. CASE items = 0
      <4>1. zero = 1 /\ n - 1 = 0
        BY <1>1, <1>3, <3>1
      <4>. QED
        BY <1>2, <3>1, <4>1
    <3>2. CASE items # 0
      <4>1. items \in 1..items /\ items + zero - 1 = n - 1
        BY <1>1, <1>3, <1>5, <3>2
      <4>. QED
        BY <1>7, <4>1
    <3>. QED
      BY <3>1, <3>2
  <2>2. n \in 1..n /\ n - 1 \in 0..n /\ n \in 0..n
    BY <1>1
  <2>3. L(n) = L(n - 1) + Len(Streams(b)[n]) /\ Len(Streams(b)[n]) >= 1 /\ L(n - 1) \in Nat /\ L(n) \in Nat
    BY <1>2, <2>2
  <2>4. L(n - 1) < L(n)
    BY <2>3
  <2>. HIDE DEF start
  <2>. QED
    BY <1>4, <2>1, <2>4
<1>. HIDE DEF many
<1>10. ASSUME NEW k \in 1..n
       PROVE  /\ k + 1 - zero \in 1..many
              /\ range(k - zero).app = apps[k]
              /\ range(k - zero).from = L(k - 1)
              /\ range(k - zero).to = L(k)
  <2>. DEFINE i == k - zero
  <2>1. i \in 0..items /\ i + zero = k /\ i + zero - 1 = k - 1 /\ k + 1 - zero \in 1..many
    BY <1>1, <1>3, <1>9
  <2>2. i = 0 => zero = 1 /\ k = 1
    BY <1>3
  <2>3. start(i) = L(k - 1)
    <3>1. CASE i = 0
      BY <1>2, <2>2, <3>1
    <3>2. CASE i # 0
      BY <1>7, <2>1, <3>2
    <3>. QED
      BY <3>1, <3>2
  <2>4. (IF i = 0 THEN 0 ELSE l.index[i].app) = apps[k]
    <3>1. CASE i = 0
      BY <1>3, <2>2, <3>1
    <3>2. CASE i # 0
      BY <1>7, <2>1, <3>2
    <3>. QED
      BY <3>1, <3>2
  <2>5. (IF i = items THEN l.size ELSE start(i + 1)) = L(k)
    <3>1. CASE i = items
      <4>1. k = n
        BY <1>1, <1>3, <3>1
      <4>. QED
        BY <1>4, <3>1, <4>1
    <3>2. CASE i # items
      <4>1. i + 1 \in 1..items /\ (i + 1) + zero - 1 = k
        BY <1>1, <1>3, <2>1, <3>2
      <4>2. start(i + 1) = L((i + 1) + zero - 1)
        BY <1>7, <4>1
      <4>. QED
        BY <3>2, <4>1, <4>2
    <3>. QED
      BY <3>1, <3>2
  <2>. HIDE DEF start
  <2>. QED
    BY <2>1, <2>3, <2>4, <2>5
<1>. DEFINE ranges == ExpandLookup(l)
<1>11. DOMAIN ranges = 1..(n + 1 - zero)
  <2>1. items + 1 = n + 1 - zero
    BY <1>1, <1>3
  <2>. QED
    BY <1>6, <1>9, <2>1
<1>12. ASSUME NEW k \in 1..n PROVE ranges[k + 1 - zero] = range(k - zero)
  <2>1. (k + 1 - zero) - 1 = k - zero
    BY <1>1, <1>3
  <2>2. k + 1 - zero \in 1..many
    BY <1>10
  <2>3. \A i \in 1..many : ranges[i] = range(i - 1)
    BY <1>6
  <2>. HIDE DEF range, ranges
  <2>. QED
    BY <2>1, <2>2, <2>3
<1>13. ranges[1].app = 0
  <2>1. 1 \in 1..many /\ 1 - 1 = 0
    BY <1>5, <1>9
  <2>2. ranges[1] = range(1 - 1)
    BY <1>6, <2>1
  <2>. QED
    BY <2>1, <2>2
<1>. HIDE DEF ranges, range
<1>14. \A k \in 1..n : /\ ranges[k + 1 - zero].app = apps[k]
                       /\ ranges[k + 1 - zero].from = L(k - 1)
                       /\ ranges[k + 1 - zero].to = L(k)
  BY <1>10, <1>12
<1>15. zero = 0 => ranges[1].app = 0 /\ \A k \in 1..n : apps[k] # 0
  BY <1>3, <1>13
<1>. QED
  BY <1>3, <1>11, <1>14, <1>15, Zenon DEF ranges, apps, n, L, J, l

(* The range main selects for an application the block has. *)
LEMMA StreamSelected ==
  ASSUME NEW b \in Blocks, NEW k \in 1..Len(AppsOf(b))
  PROVE  LET r == Selected(ExpandLookup(DataLookup(b)), AppsOf(b)[k])
         IN  /\ r.from = Len(Joined(Streams(b))[k - 1])
             /\ r.to = Len(Joined(Streams(b))[k])
<1>. DEFINE apps == AppsOf(b)
            n == Len(apps)
            ranges == ExpandLookup(DataLookup(b))
            mine == {i \in DOMAIN ranges : ranges[i].app = apps[k]}
            whole == {i \in mine : ranges[i].from < ranges[i].to}
<1>1. n \in Nat /\ n # 0 /\ k \in 1..n
  BY AppsHas
<1>2. PICK zero \in {0, 1} :
        /\ DOMAIN ranges = 1..(n + 1 - zero)
        /\ \A j \in 1..n : /\ ranges[j + 1 - zero].app = apps[j]
                           /\ ranges[j + 1 - zero].from = Len(Joined(Streams(b))[j - 1])
                           /\ ranges[j + 1 - zero].to = Len(Joined(Streams(b))[j])
        /\ zero = 0 => ranges[1].app = 0 /\ \A j \in 1..n : apps[j] # 0
  BY <1>1, RangesExpanded, Zenon
<1>3. \A i, j \in 1..n : apps[i] = apps[j] => i = j
  <2>1. apps \in [1..n -> Nat] /\ Increasing(apps)
    BY AppsHas
  <2>. HIDE DEF apps, n
  <2>. QED
    BY <1>1, <2>1 DEF Increasing
<1>. HIDE DEF apps, n, ranges
<1>4. k + 1 - zero \in DOMAIN ranges
  BY <1>1, <1>2
<1>5. ASSUME NEW i \in DOMAIN ranges, ranges[i].app = apps[k] PROVE i = k + 1 - zero
  <2>1. CASE zero = 0 /\ i = 1
    BY <1>1, <1>2, <1>5, <2>1
  <2>2. CASE ~ (zero = 0 /\ i = 1)
    <3>. DEFINE j == i + zero - 1
    <3>1. j \in 1..n /\ j + 1 - zero = i
      BY <1>1, <1>2, <2>2
    <3>2. ranges[i].app = apps[j]
      BY <1>2, <3>1
    <3>3. j = k
      BY <1>1, <1>3, <1>5, <3>1, <3>2
    <3>. QED
      BY <3>1, <3>3
  <2>. QED
    BY <2>1, <2>2
<1>. DEFINE at == k + 1 - zero
<1>6. ranges[at].app = apps[k]
  BY <1>1, <1>2
<1>. HIDE DEF at
<1>7. mine = {at}
  BY <1>4, <1>5, <1>6 DEF at
<1>8. whole = {} \/ whole = {at}
  BY <1>7
<1>9. (IF whole # {} THEN whole ELSE mine) = {at}
  BY <1>7, <1>8
<1>10. Lowest({at}) = {at}
  <2>1. at \in Int
    BY <1>1, <1>2 DEF at
  <2>. QED
    BY <2>1 DEF Lowest
<1>11. Selected(ranges, apps[k]) = ranges[at]
  <2>1. Selected(ranges, apps[k]) = ranges[CHOOSE i \in Lowest(IF whole # {} THEN whole ELSE mine) : TRUE]
    BY DEF Selected
  <2>. HIDE DEF whole, mine
  <2>2. Selected(ranges, apps[k]) = ranges[CHOOSE i \in {at} : TRUE]
    BY <1>9, <1>10, <2>1, Zenon
  <2>3. (CHOOSE i \in {at} : TRUE) = at
    OBVIOUS
  <2>. QED
    BY <2>2, <2>3
<1>12. /\ ranges[at].from = Len(Joined(Streams(b))[k - 1])
       /\ ranges[at].to = Len(Joined(Streams(b))[k])
  BY <1>1, <1>2 DEF at
<1>. QED
  BY <1>11, <1>12 DEF ranges, apps

-----------------------------------------------------------------------------
(* The chunks of an application with one extrinsic *)

(* The grid has each stream where the streams before it end. *)
LEMMA GridHolds ==
  ASSUME NEW b \in Blocks, NEW k \in 1..Len(AppsOf(b))
  PROVE  LET from == Len(Joined(Streams(b))[k - 1])
             to   == Len(Joined(Streams(b))[k])
         IN  /\ from \in Nat /\ to = from + Len(Streams(b)[k]) /\ Len(Streams(b)[k]) \in Nat
             /\ \A j \in 1..Len(Streams(b)[k]) : Grid(b)[from + j] = Streams(b)[k][j]
<1>. DEFINE s == Streams(b)
            n == Len(s)
            J == Joined(s)
            V == Values(b)
<1>1. n \in Nat /\ AllOver(V, s) /\ k \in 1..n
  BY StreamsShape
<1>2. Grid(b) = J[n]
  BY DEF Grid
<1>3. Follows(V, J[k - 1], s[k], J[k])
  <2>. HIDE DEF s, V
  <2>. QED
    BY <1>1, JoinedFollows
<1>4. Begins(J[k], J[n])
  <2>. HIDE DEF s, V
  <2>1. k \in 0..n
    BY <1>1
  <2>. QED
    BY <1>1, <2>1, JoinedKeeps, Zenon
<1>. HIDE DEF s, n, J, V
<1>5. /\ Len(J[k - 1]) \in Nat /\ Len(s[k]) \in Nat /\ Len(J[k]) \in Nat
      /\ Len(J[k]) = Len(J[k - 1]) + Len(s[k])
  <2>1. /\ J[k - 1] \in Seq(V) /\ s[k] \in Seq(V) /\ J[k] \in Seq(V)
        /\ Len(J[k]) = Len(J[k - 1]) + Len(s[k])
    BY <1>3, Zenon DEF Follows
  <2>2. \A x \in Seq(V) : Len(x) \in Nat
    OBVIOUS
  <2>. QED
    BY <2>1, <2>2, Zenon
<1>6. ASSUME NEW j \in 1..Len(s[k]) PROVE J[n][Len(J[k - 1]) + j] = s[k][j]
  <2>1. Len(J[k - 1]) + j \in 1..Len(J[k])
    <3>1. \A x, y, z \in Nat : z = x + y => \A i \in 1..y : x + i \in 1..z
      OBVIOUS
    <3>. QED
      BY <1>5, <3>1, Zenon
  <2>. QED
    BY <1>3, <1>4, <2>1 DEF Follows, Begins
<1>. QED
  BY <1>2, <1>5, <1>6 DEF J, s

(* expand_lookup and the selection of main: for every application that has   *)
(* extrinsics in a block, the range taken from the header's lookup is where *)
(* the grid holds the application's stream, all of it and nothing else.     *)
THEOREM StreamReadBack ==
  ASSUME NEW b \in Blocks, NEW i \in DOMAIN Body(b)
  PROVE  LET app    == AppOf(Body(b)[i])
             r      == Selected(ExpandLookup(DataLookup(b)), app)
             stream == AppStream(OfApp(b, app))
         IN  /\ r.from \in Nat /\ Len(stream) \in Nat /\ r.to = r.from + Len(stream)
             /\ \A j \in 1..Len(stream) : Grid(b)[r.from + j] = stream[j]
<1>. DEFINE app == AppOf(Body(b)[i])
            r == Selected(ExpandLookup(DataLookup(b)), app)
            stream == AppStream(OfApp(b, app))
<1>1. PICK k \in 1..Len(AppsOf(b)) : AppsOf(b)[k] = app
  BY AppsHas
<1>2. stream = Streams(b)[k]
  BY <1>1, StreamsShape
<1>3. r.from = Len(Joined(Streams(b))[k - 1]) /\ r.to = Len(Joined(Streams(b))[k])
  BY <1>1, StreamSelected
<1>4. LET from == Len(Joined(Streams(b))[k - 1])
          to   == Len(Joined(Streams(b))[k])
      IN  /\ from \in Nat /\ to = from + Len(Streams(b)[k]) /\ Len(Streams(b)[k]) \in Nat
          /\ \A j \in 1..Len(Streams(b)[k]) : Grid(b)[from + j] = Streams(b)[k][j]
  BY GridHolds
<1>. HIDE DEF stream, r, app
<1>5. /\ r.from \in Nat /\ Len(stream) \in Nat /\ r.to = r.from + Len(stream)
      /\ \A j \in 1..Len(stream) : Grid(b)[r.from + j] = stream[j]
  BY <1>2, <1>3, <1>4, Zenon
<1>. QED
  BY <1>5 DEF stream, r, app

(* An application with one extrinsic has that one. *)
LEMMA OneOfApp ==
  ASSUME NEW b \in Blocks, NEW i \in DOMAIN Body(b), Len(OfApp(b, AppOf(Body(b)[i]))) = 1
  PROVE  OfApp(b, AppOf(Body(b)[i])) = <<Body(b)[i]>>
<1>. DEFINE list == OfApp(b, AppOf(Body(b)[i]))
<1>1. DOMAIN list = 1..1 /\ \E k \in DOMAIN list : list[k] = Body(b)[i]
  BY OfAppHas
<1>2. list = [k \in DOMAIN list |-> list[k]]
  <2>1. list = [k \in DOMAIN Ascending({j \in DOMAIN Body(b) : AppOf(Body(b)[j]) = AppOf(Body(b)[i])}) |->
                  Body(b)[Ascending({j \in DOMAIN Body(b) : AppOf(Body(b)[j]) = AppOf(Body(b)[i])})[k]]]
    BY DEF OfApp
  <2>. QED
    BY <2>1
<1>. HIDE DEF list
<1>3. list[1] = Body(b)[i] /\ DOMAIN list = {1}
  BY <1>1
<1>. QED
  BY <1>2, <1>3 DEF list

-----------------------------------------------------------------------------
(* RecoveryMap: the steps *)

LEMMA RecoveryStart == ChainInit /\ RecoveryInit => RecoveryInv
<1>. SUFFICES ASSUME ChainInit, RecoveryInit PROVE RecoveryInv
  OBVIOUS
<1>1. /\ cells = NoCells /\ DOMAIN NoCells = {} /\ reads = "done" /\ ticket = NoTicket
      /\ ChainTypeOK
  BY ChainStart DEF RecoveryInit, NoCells
<1>2. 1 \in Nat \ {0}
  OBVIOUS
<1>3. PlacedInv
  BY <1>1, <1>2 DEF PlacedInv
<1>4. HashedInv /\ TicketInv /\ MappedInv
  BY <1>1 DEF HashedInv, TicketInv, MappedInv
<1>. QED
  BY <1>1, <1>3, <1>4 DEF RecoveryInv

(* The cells of a map that is drawn lie where the formulas put them. *)
LEMMA DrawnPlaced ==
  ASSUME tool = "native", NEW g \in RuntimeGrids, NEW r,
         NEW drawn, drawn = [s \in r.from..(r.to - 1) |-> Cell(s, r, g.cols)],
         \A s \in DOMAIN drawn : drawn[s].owner # NoOwner, cells' = drawn,
         UNCHANGED <<tool, profile>>
  PROVE  PlacedInv'
<1>1. g.cols \in Nat \ {0}
  BY RecoveryAssumption
<1>2. ASSUME NEW s \in DOMAIN drawn
      PROVE  /\ s \in Int
             /\ drawn[s].virtualRow
                  = CustodyVirtualRow(s \div g.cols, s % g.cols, g.cols, CustodyCols)
             /\ drawn[s].custodyCol = CustodyCol(2 * (s % g.cols), CustodyCols)
             /\ drawn[s].owner \in OwnersOf(drawn[s].custodyCol)
  <2>. DEFINE cust == CustodyCol(2 * (s % g.cols), CustodyCols)
  <2>1. s \in Int
    OBVIOUS
  <2>2. drawn[s] = Cell(s, r, g.cols)
    OBVIOUS
  <2>3. /\ drawn[s].virtualRow
             = CustodyVirtualRow(s \div g.cols, s % g.cols, g.cols, CustodyCols)
        /\ drawn[s].custodyCol = cust
        /\ drawn[s].owner
             = IF OwnersOf(cust) = {} THEN NoOwner ELSE CHOOSE o \in OwnersOf(cust) : TRUE
    BY <2>2 DEF Cell
  <2>. HIDE DEF cust
  <2>4. OwnersOf(cust) # {}
    BY <2>3
  <2>5. drawn[s].owner \in OwnersOf(cust)
    BY <2>3, <2>4
  <2>. QED
    BY <2>1, <2>3, <2>5 DEF cust
<1>3. \A c : OwnersOf(c)' = OwnersOf(c)
  BY DEF OwnersOf, ActiveOwners
<1>. QED
  BY <1>1, <1>2, <1>3 DEF PlacedInv

(* A block that is found by its hash is that block. *)
LEMMA MeantByHash ==
  ASSUME NEW x, NEW b \in Meant(ByHash(x)), b # NoBlock
  PROVE  b = x
BY DEF Meant, ByHash

LEMMA CellsKeep ==
  ASSUME RecoveryInv, [RecoveryNext]_<<chainVars, recoveryVars>>
  PROVE  PlacedInv' /\ HashedInv'
<1>1. ASSUME UNCHANGED <<tool, profile, cells>> PROVE PlacedInv'
  BY <1>1 DEF RecoveryInv, PlacedInv, OwnersOf, ActiveOwners
<1>2. CASE UNCHANGED recoveryVars
  BY <1>1, <1>2 DEF recoveryVars, RecoveryInv, HashedInv
<1>3. CASE WriteReceipt
  <2>1. UNCHANGED <<tool, profile, reads, txIndex, lookup, cells>> /\ ticket = NoTicket
    BY <1>3 DEF WriteReceipt
  <2>. QED
    BY <1>1, <1>3, <2>1 DEF RecoveryInv, HashedInv
<1>4. CASE Run
  <2>1. /\ UNCHANGED <<tool, profile, ticket, cells>> /\ cells = NoCells /\ ticket # NoTicket
        /\ reads' \in {"failed", "hash"}
    BY <1>4 DEF Run
  <2>. QED
    BY <1>1, <2>1 DEF RecoveryInv, HashedInv
<1>5. CASE CheckHash \/ FindExtrinsic \/ CheckBytes \/ ReadLookup \/ ReadingFails
  <2>1. UNCHANGED <<tool, profile, ticket, cells>> /\ reads # "done"
    BY <1>5 DEF CheckHash, FindExtrinsic, CheckBytes, ReadLookup, ReadingFails, Fails
  <2>2. cells = NoCells
    BY <2>1 DEF RecoveryInv, HashedInv
  <2>3. ASSUME tool = "native", reads' \in {"header", "length"}
        PROVE  Body(ticket.block)[txIndex'].tx = ticket.tx
    <3>1. CASE CheckBytes
      BY <2>3, <3>1, MeantByHash DEF CheckBytes, Next_, Fails
    <3>2. CASE ReadLookup
      BY <2>3, <3>2 DEF ReadLookup, Next_, Fails, RecoveryInv, HashedInv
    <3>. QED
      BY <1>5, <2>3, <3>1, <3>2 DEF CheckHash, FindExtrinsic, ReadingFails, Next_, Fails
  <2>. QED
    BY <1>1, <2>1, <2>2, <2>3 DEF RecoveryInv, HashedInv
<1>6. CASE DrawMap
  <2>1. PICK g \in RuntimeGrids :
          LET ranges == ExpandLookup(lookup)
              r      == Selected(ranges, ticket.app)
              rows   == IF tool = "native" THEN ComputedGridRows(lookup.size, g.cols) ELSE g.rows
              drawn  == [s \in r.from..(r.to - 1) |-> Cell(s, r, g.cols)]
          IN  IF /\ HasRange(ranges, ticket.app)
                 /\ rows <= g.rows /\ r.to <= rows * g.cols
                 /\ tool = "native" => /\ FitsRange(r.to - r.from)
                                       /\ \A s \in DOMAIN drawn : drawn[s].owner # NoOwner
              THEN cells' = drawn /\ Next_("done") /\ UNCHANGED <<txIndex, lookup>>
              ELSE Fails
    BY <1>6 DEF DrawMap
  <2>2. UNCHANGED <<tool, profile, ticket>> /\ reads = "length"
    BY <1>6 DEF DrawMap
  <2>. DEFINE r == Selected(ExpandLookup(lookup), ticket.app)
              drawn == [s \in r.from..(r.to - 1) |-> Cell(s, r, g.cols)]
  <2>3. \/ Fails
        \/ /\ cells' = drawn /\ reads' = "done" /\ UNCHANGED txIndex
           /\ tool = "native" => \A s \in DOMAIN drawn : drawn[s].owner # NoOwner
    BY <2>1 DEF Next_
  <2>. HIDE DEF r
  <2>4. CASE Fails
    BY <1>1, <2>2, <2>4 DEF Fails, RecoveryInv, HashedInv
  <2>5. CASE /\ cells' = drawn /\ reads' = "done" /\ UNCHANGED txIndex
             /\ tool = "native" => \A s \in DOMAIN drawn : drawn[s].owner # NoOwner
    <3>1. HashedInv'
      BY <2>2, <2>5 DEF RecoveryInv, HashedInv
    <3>2. PlacedInv'
      <4>1. CASE tool = "native"
        BY <2>2, <2>5, <4>1, DrawnPlaced
      <4>2. CASE tool # "native"
        BY <2>2, <4>2 DEF PlacedInv
      <4>. QED
        BY <4>1, <4>2
    <3>. QED
      BY <3>1, <3>2
  <2>. QED
    BY <2>3, <2>4, <2>5
<1>. QED
  BY <1>2, <1>3, <1>4, <1>5, <1>6 DEF RecoveryNext, recoveryVars

LEMMA TicketKeeps ==
  ASSUME RecoveryInv, [RecoveryNext]_<<chainVars, recoveryVars>>
  PROVE  ChainTypeOK' /\ TicketInv'
<1>1. ChainTypeOK'
  <2>1. ChainNext \/ UNCHANGED chainVars
    BY DEF RecoveryNext, WriteReceipt, Run, CheckHash, FindExtrinsic, CheckBytes, ReadLookup,
           DrawMap, ReadingFails
  <2>. QED
    BY <2>1, ChainStep DEF RecoveryInv
<1>2. TicketInv'
  <2>1. CASE WriteReceipt
    <3>1. PICK h \in 1..Height(best) :
            LET b == AncestorAt(best, h)
            IN  \E i \in DOMAIN Body(b) :
                  ticket' = [block |-> b, tx |-> Body(b)[i].tx, app |-> AppOf(Body(b)[i])]
      BY <2>1 DEF WriteReceipt
    <3>. DEFINE b == AncestorAt(best, h)
    <3>2. b \in Blocks
      <4>1. best \in Blocks /\ h \in 0..Height(best)
        BY DEF RecoveryInv, ChainTypeOK
      <4>. QED
        BY <4>1, AncestorIsBlock
    <3>3. PICK i \in DOMAIN Body(b) :
            ticket' = [block |-> b, tx |-> Body(b)[i].tx, app |-> AppOf(Body(b)[i])]
      BY <3>1
    <3>. HIDE DEF b
    <3>4. /\ ticket'.block = b /\ ticket'.tx = Body(b)[i].tx /\ ticket'.app = AppOf(Body(b)[i])
          /\ i \in DOMAIN Body(b)
      BY <3>3
    <3>. QED
      BY <3>2, <3>4 DEF TicketInv
  <2>2. CASE ~ WriteReceipt
    <3>1. UNCHANGED ticket
      BY <2>2 DEF RecoveryNext, recoveryVars, Run, CheckHash, FindExtrinsic, CheckBytes,
                  ReadLookup, DrawMap, ReadingFails
    <3>. QED
      BY <3>1 DEF RecoveryInv, TicketInv
  <2>. QED
    BY <2>1, <2>2
<1>. QED
  BY <1>1, <1>2

(* The chunks of a map that is drawn are those of the range it was drawn     *)
(* for.                                                                     *)
LEMMA DrawnMapped ==
  ASSUME tool = "native", NEW r, NEW cols,
         NEW drawn, drawn = [s \in r.from..(r.to - 1) |-> Cell(s, r, cols)], cells' = drawn
  PROVE  /\ DOMAIN cells' = r.from..(r.to - 1)
         /\ \A s \in DOMAIN cells' : cells'[s].chunk = Padded(r.to - r.from)[s - r.from + 1]
<1>1. DOMAIN drawn = r.from..(r.to - 1)
  OBVIOUS
<1>2. ASSUME NEW s \in DOMAIN drawn
      PROVE  drawn[s].chunk = Padded(r.to - r.from)[s - r.from + 1]
  <2>1. drawn[s] = Cell(s, r, cols)
    OBVIOUS
  <2>. QED
    BY <2>1 DEF Cell
<1>. QED
  BY <1>1, <1>2

LEMMA MappedKeeps ==
  ASSUME RecoveryInv, [RecoveryNext]_<<chainVars, recoveryVars>>
  PROVE  MappedInv'
<1>1. CASE UNCHANGED recoveryVars
  BY <1>1 DEF recoveryVars, RecoveryInv, MappedInv, Padded
<1>2. CASE WriteReceipt
  <2>1. UNCHANGED <<tool, reads, cells>> /\ ticket = NoTicket
    BY <1>2 DEF WriteReceipt
  <2>. QED
    BY <2>1 DEF RecoveryInv, HashedInv, MappedInv
<1>3. CASE Run
  <2>1. UNCHANGED cells /\ cells = NoCells /\ reads' \in {"failed", "hash"}
    BY <1>3 DEF Run
  <2>. QED
    BY <2>1 DEF MappedInv
<1>4. CASE CheckHash \/ FindExtrinsic \/ CheckBytes \/ ReadLookup \/ ReadingFails
  <2>1. UNCHANGED <<tool, ticket, cells>> /\ reads # "done"
    BY <1>4 DEF CheckHash, FindExtrinsic, CheckBytes, ReadLookup, ReadingFails, Fails
  <2>2. cells' = NoCells
    BY <2>1 DEF RecoveryInv, HashedInv
  <2>3. ASSUME reads' = "length" PROVE lookup' = DataLookup(ticket.block)
    <3>1. CASE ReadLookup
      BY <2>3, <3>1, MeantByHash DEF ReadLookup, Next_, Fails
    <3>. QED
      BY <1>4, <2>3, <3>1 DEF CheckHash, FindExtrinsic, CheckBytes, ReadingFails, Next_, Fails
  <2>4. ASSUME tool = "native", reads' \in {"header", "length"}
        PROVE  txIndex' \in DOMAIN Body(ticket.block)
    <3>1. CASE CheckBytes
      BY <2>4, <3>1, MeantByHash DEF CheckBytes, Next_, Fails
    <3>2. CASE ReadLookup
      BY <2>4, <3>2 DEF ReadLookup, Next_, Fails, RecoveryInv, MappedInv
    <3>. QED
      BY <1>4, <2>4, <3>1, <3>2 DEF CheckHash, FindExtrinsic, ReadingFails, Next_, Fails
  <2>. QED
    BY <2>1, <2>2, <2>3, <2>4 DEF MappedInv
<1>5. CASE DrawMap
  <2>. DEFINE r == Selected(ExpandLookup(lookup), ticket.app)
  <2>1. UNCHANGED <<tool, ticket>> /\ reads = "length"
    BY <1>5 DEF DrawMap
  <2>2. PICK g \in RuntimeGrids :
          \/ Fails
          \/ /\ cells' = [s \in r.from..(r.to - 1) |-> Cell(s, r, g.cols)]
             /\ reads' = "done" /\ UNCHANGED txIndex
    BY <1>5 DEF DrawMap, Next_
  <2>3. lookup = DataLookup(ticket.block)
    BY <2>1 DEF RecoveryInv, MappedInv
  <2>4. CASE Fails
    <3>1. cells = NoCells
      BY <2>1 DEF RecoveryInv, HashedInv
    <3>. QED
      BY <2>4, <3>1 DEF Fails, MappedInv
  <2>5. CASE /\ cells' = [s \in r.from..(r.to - 1) |-> Cell(s, r, g.cols)]
             /\ reads' = "done" /\ UNCHANGED txIndex
    <3>1. CASE tool = "native"
      <4>1. /\ DOMAIN cells' = r.from..(r.to - 1)
            /\ \A s \in DOMAIN cells' : cells'[s].chunk = Padded(r.to - r.from)[s - r.from + 1]
        <5>. HIDE DEF r
        <5>. QED
          BY <2>5, <3>1, DrawnMapped
      <4>2. \A n : Padded(n)' = Padded(n)
        BY <2>1, <2>5 DEF Padded
      <4>3. txIndex' \in DOMAIN Body(ticket'.block)
        BY <2>1, <2>5, <3>1 DEF RecoveryInv, MappedInv
      <4>4. Selected(ExpandLookup(DataLookup(ticket'.block)), ticket'.app) = r
        BY <2>1, <2>3
      <4>. HIDE DEF r
      <4>. QED
        BY <2>5, <4>1, <4>2, <4>3, <4>4 DEF MappedInv
    <3>2. CASE tool # "native"
      BY <2>1, <2>5, <3>2 DEF MappedInv
    <3>. QED
      BY <3>1, <3>2
  <2>. QED
    BY <2>2, <2>4, <2>5
<1>. QED
  BY <1>1, <1>2, <1>3, <1>4, <1>5 DEF RecoveryNext, recoveryVars

LEMMA RecoveryStep ==
  RecoveryInv /\ [RecoveryNext]_<<chainVars, recoveryVars>> => RecoveryInv'
BY CellsKeep, TicketKeeps, MappedKeeps DEF RecoveryInv

LEMMA RecoveryInvariant == RecoverySpec => []RecoveryInv
  BY RecoveryStart, RecoveryStep, PTL DEF RecoverySpec

(* custody_virtual_row, custody_col, filter_active_owners: no two scalars    *)
(* share a place in the custody grid and each has an active owner of its    *)
(* column, for every width of the grid and every number of custody columns. *)
THEOREM CellsApartHolds == RecoverySpec => []CellsApart
<1>1. RecoveryInv => CellsApart
  <2>. SUFFICES ASSUME RecoveryInv, tool = "native", NEW s \in DOMAIN cells, NEW t \in DOMAIN cells
                PROVE  /\ cells[s].owner \in ActiveOwners
                       /\ cells[s].owner.col = cells[s].custodyCol
                       /\ cells[s].virtualRow = cells[t].virtualRow
                            /\ cells[s].custodyCol = cells[t].custodyCol => s = t
    BY DEF CellsApart
  <2>1. PICK cols \in Nat \ {0} : \A x \in DOMAIN cells :
          /\ x \in Int
          /\ cells[x].virtualRow = CustodyVirtualRow(x \div cols, x % cols, cols, CustodyCols)
          /\ cells[x].custodyCol = CustodyCol(2 * (x % cols), CustodyCols)
          /\ cells[x].owner \in OwnersOf(cells[x].custodyCol)
    BY DEF RecoveryInv, PlacedInv
  <2>2. cells[s].owner \in ActiveOwners /\ cells[s].owner.col = cells[s].custodyCol
    BY <2>1 DEF OwnersOf
  <2>3. ASSUME cells[s].virtualRow = cells[t].virtualRow,
               cells[s].custodyCol = cells[t].custodyCol
        PROVE  s = t
    <3>1. CustodyCols \in Nat \ {0}
      BY RecoveryAssumption
    <3>. QED
      <4>1. /\ CustodyVirtualRow(s \div cols, s % cols, cols, CustodyCols)
                  = CustodyVirtualRow(t \div cols, t % cols, cols, CustodyCols)
            /\ CustodyCol(2 * (s % cols), CustodyCols) = CustodyCol(2 * (t % cols), CustodyCols)
            /\ s \in Int /\ t \in Int
        BY <2>1, <2>3
      <4>. QED
        BY <3>1, <4>1, PlaceTells
  <2>. QED
    BY <2>2, <2>3
<1>. QED
  BY <1>1, RecoveryInvariant, PTL

(* build_payload_recovery_map_native: a finished map is of the transaction   *)
(* of the receipt, in the block of the receipt, although its index was      *)
(* found by height on a chain that may since have lost that block.          *)
THEOREM MapOfTicketHolds == RecoverySpec => []MapOfTicket
<1>1. RecoveryInv => MapOfTicket
  BY DEF RecoveryInv, HashedInv, MapOfTicket
<1>. QED
  BY <1>1, RecoveryInvariant, PTL

(* What a finished native map expects is what the grid holds, if the         *)
(* application has one extrinsic in the block.                              *)
LEMMA ChunksAreThere ==
  ASSUME RecoveryInv, cells # NoCells, tool = "native",
         Len(OfApp(ticket.block, ticket.app)) = 1
  PROVE  /\ Cardinality(DOMAIN cells) = Len(AppStream(OfApp(ticket.block, ticket.app)))
         /\ \A s \in DOMAIN cells : cells[s].chunk = Grid(ticket.block)[s + 1]
<1>. DEFINE b == ticket.block
            x == Body(b)[txIndex]
            r == Selected(ExpandLookup(DataLookup(b)), ticket.app)
            stream == AppStream(OfApp(b, ticket.app))
            m == Len(stream)
<1>1. ticket # NoTicket
  BY DEF RecoveryInv, HashedInv
<1>2. b \in Blocks /\ txIndex \in DOMAIN Body(b) /\ x.tx = ticket.tx
  BY <1>1 DEF RecoveryInv, TicketInv, HashedInv, MappedInv
<1>3. AppOf(x) = ticket.app
  <2>1. PICK i \in DOMAIN Body(b) : Body(b)[i].tx = ticket.tx /\ AppOf(Body(b)[i]) = ticket.app
    BY <1>1 DEF RecoveryInv, TicketInv
  <2>2. Body(b)[i] = x
    BY <1>2, <2>1, BodyAssumption
  <2>. QED
    BY <2>1, <2>2
<1>4. OfApp(b, ticket.app) = <<x>>
  <2>1. Len(OfApp(b, AppOf(Body(b)[txIndex]))) = 1
    BY <1>3
  <2>. QED
    BY <1>2, <1>3, <2>1, OneOfApp
<1>5. /\ r.from \in Nat /\ m \in Nat /\ r.to = r.from + m
      /\ \A j \in 1..m : Grid(b)[r.from + j] = stream[j]
  BY <1>2, <1>3, StreamReadBack
<1>6. /\ DOMAIN cells = r.from..(r.to - 1)
      /\ \A s \in DOMAIN cells : cells[s].chunk = Padded(r.to - r.from)[s - r.from + 1]
  BY DEF RecoveryInv, MappedInv
<1>7. r.to - r.from = m
  <2>. HIDE DEF r, m
  <2>. QED
    BY <1>5
<1>8. \A j \in 1..m : Padded(m)[j] = stream[j]
  <2>1. stream = AppStream(<<Body(ticket.block)[txIndex]>>)
    BY <1>4
  <2>. HIDE DEF stream
  <2>. QED
    BY <1>5, <2>1 DEF Padded
<1>. HIDE DEF b, x, r, stream, m
<1>9. Cardinality(DOMAIN cells) = m
  <2>1. Cardinality(r.from..(r.to - 1)) = IF r.from > r.to - 1 THEN 0 ELSE (r.to - 1) - r.from + 1
    <3>1. r.from \in Int /\ r.to - 1 \in Int
      BY <1>5
    <3>. QED
      BY <3>1, FS_Interval
  <2>. QED
    BY <1>5, <1>6, <2>1
<1>10. ASSUME NEW s \in DOMAIN cells PROVE cells[s].chunk = Grid(b)[s + 1]
  <2>. DEFINE j == s - r.from + 1
  <2>1. j \in 1..m /\ r.from + j = s + 1
    BY <1>5, <1>6
  <2>2. cells[s].chunk = Padded(m)[j]
    BY <1>6, <1>7
  <2>. HIDE DEF j
  <2>. QED
    BY <1>5, <1>8, <2>1, <2>2
<1>. QED
  BY <1>9, <1>10 DEF b, stream, m

(* build_payload_recovery_map_native: what a finished map expects in each    *)
(* cell is what the grid of the receipt's block holds there, for any        *)
(* extrinsics of any size in the block and any chain the node moves to, if  *)
(* the application has one extrinsic in it.                                 *)
THEOREM ChunksMatchHolds == RecoverySpec => []ChunksMatch
<1>1. RecoveryInv => MapOfTicket
  BY DEF RecoveryInv, HashedInv, MapOfTicket
<1>2. RecoveryInv => ChunksMatch
  BY <1>1, ChunksAreThere DEF ChunksMatch
<1>. QED
  BY <1>2, RecoveryInvariant, PTL
=============================================================================
