---------------------------- MODULE ClientProofs ----------------------------
(***************************************************************************)
(* Theorems about the parts of the client that run by themselves: the      *)
(* storage iterators, the HTTP transport, the retry loop and the handles   *)
(* of the C interface.                                                     *)
(***************************************************************************)
EXTENDS StorageIter, RpcTransport, RetryPolicy, FfiHandles, FiniteSetTheorems, TLAPS

-----------------------------------------------------------------------------
(* StorageIter: the iterators of core/src/substrate/storage.rs return every *)
(* entry once and in order, for every number of entries and every size of a *)
(* page.                                                                    *)

(* The page holds the keys that follow lastKey, the nearest one last. *)
PageInv ==
  /\ Len(page) <= NumEntries - lastKey
  /\ page = [i \in 1..Len(page) |-> lastKey + Len(page) + 1 - i]

(* lastKey is the entry returned last. *)
GotInv ==
  /\ Len(got) = lastKey
  /\ \A i \in 1..Len(got) : got[i].entry = i

StageInv ==
  /\ stage = "value" => page # <<>>
  /\ stage = "keys"  => page = <<>> /\ ~ isDone
  /\ isDone => lastKey = NumEntries /\ page = <<>>

IterShape ==
  /\ shape \in Shapes
  /\ wanted \in BOOLEAN
  /\ reply \in {"pending", "some", "none", "error"}
  /\ page \in Seq(Int)
  /\ lastKey \in 0..NumEntries
  /\ isDone \in BOOLEAN
  /\ stage \in {"idle", "keys", "value"}
  /\ got \in Seq([entry : Int, keys : Seq(Int)])

IterInv == IterShape /\ PageInv /\ GotInv /\ StageInv

LEMMA ElementType ==
  ASSUME NEW S, NEW s \in Seq(S), NEW i \in 1..Len(s)
  PROVE  s[i] \in S
OBVIOUS

LEMMA Retype ==
  ASSUME NEW S, NEW T, NEW s \in Seq(S), \A i \in 1..Len(s) : s[i] \in T
  PROVE  s \in Seq(T)
<1>1. Len(s) \in Nat /\ s = [i \in 1..Len(s) |-> s[i]]
  OBVIOUS
<1> QED BY <1>1

(* A page is the keys after the last one, reversed. *)
LEMMA ReversedPage ==
  ASSUME NEW k \in 0..NumEntries, NEW p, p = Reverse(KeysAfter(k))
  PROVE  /\ p \in Seq(Int)
         /\ Len(p) <= NumEntries - k
         /\ p = [i \in 1..Len(p) |-> k + Len(p) + 1 - i]
         /\ p = <<>> => k = NumEntries
<1> DEFINE n == IF PageSize < NumEntries - k THEN PageSize ELSE NumEntries - k
<1>1. n \in Nat /\ n <= NumEntries - k /\ (n = 0 => k = NumEntries)
  BY StorageAssumption
<1> HIDE DEF n
<1>2. KeysAfter(k) = [i \in 1..n |-> k + i]
  BY DEF KeysAfter, n
<1>3. /\ KeysAfter(k) \in Seq(Int)
      /\ Len(KeysAfter(k)) = n
      /\ \A i \in 1..n : KeysAfter(k)[i] = k + i
  BY <1>1, <1>2
<1>4. p = [i \in 1..n |-> KeysAfter(k)[n - i + 1]]
  BY <1>3 DEF Reverse
<1>5. p = [i \in 1..n |-> k + n + 1 - i]
  BY <1>1, <1>3, <1>4
<1>6. p \in Seq(Int) /\ Len(p) = n
  BY <1>1, <1>5
<1> QED
  BY <1>1, <1>5, <1>6

(* Taking the last key of a page leaves the keys that follow it. *)
LEMMA RestOfPage ==
  ASSUME IterInv, page # <<>>
  PROVE  /\ Last(page) = lastKey + 1
         /\ Last(page) \in 1..NumEntries
         /\ Front(page) \in Seq(Int)
         /\ Len(Front(page)) = Len(page) - 1
         /\ Front(page) = [i \in 1..Len(Front(page)) |->
                             lastKey + 1 + Len(Front(page)) + 1 - i]
<1>1. Len(page) \in Nat \ {0} /\ lastKey \in Nat
  BY StorageAssumption DEF IterInv, IterShape
<1>2. \A i \in 1..Len(page) : page[i] = lastKey + Len(page) + 1 - i
  BY DEF IterInv, PageInv
<1>3. Last(page) = lastKey + 1
  BY <1>1, <1>2 DEF Last
<1>4. Last(page) \in 1..NumEntries
  BY <1>1, <1>3, StorageAssumption DEF IterInv, IterShape, PageInv
<1>5. Front(page) = [i \in 1..Len(page) - 1 |-> page[i]]
  BY <1>1 DEF Front, IterInv, IterShape
<1>6. \A i \in 1..Len(page) - 1 : page[i] \in Int
  BY <1>1, <1>2
<1>7. Front(page) \in Seq(Int) /\ Len(Front(page)) = Len(page) - 1
  BY <1>1, <1>5, <1>6
<1>8. Front(page) = [i \in 1..Len(page) - 1 |-> lastKey + Len(page) + 1 - i]
  BY <1>1, <1>2, <1>5
<1> QED
  BY <1>1, <1>3, <1>4, <1>7, <1>8

(* What is decoded of a storage key is one key or two. *)
LEMMA DecodedType ==
  ASSUME NEW n \in Int, shape \in Shapes
  PROVE  DecodedKeys(n) \in Seq(Int)
<1>1. FirstKey \in Int /\ Hash \in Int
  BY DEF FirstKey, Hash
<1>2. shape.double \in BOOLEAN /\ shape.hash1 \in Hashers /\ shape.hash2 \in Hashers
  BY DEF Shapes
<1>3. CASE ~ shape.double
  <2>1. FromHash(shape.hash1, StorageKey(n)).key = n
    BY <1>3 DEF StorageKey, Hashed, FromHash
  <2> QED BY <1>3, <2>1 DEF DecodedKeys
<1>4. CASE shape.double
  <2> DEFINE first == FromHash(shape.hash1, StorageKey(n))
             second == FromHash(shape.hash2, first.rest)
  <2>1. first.key \in Int /\ second.key \in Int
    <3>1. CASE shape.hash1 = "concat" /\ shape.hash2 = "concat"
      BY <1>1, <1>4, <3>1 DEF StorageKey, Hashed, FromHash
    <3>2. CASE shape.hash1 = "concat" /\ shape.hash2 # "concat"
      BY <1>1, <1>4, <3>2 DEF StorageKey, Hashed, FromHash
    <3>3. CASE shape.hash1 # "concat" /\ shape.hash2 = "concat"
      BY <1>1, <1>4, <3>3 DEF StorageKey, Hashed, FromHash
    <3>4. CASE shape.hash1 # "concat" /\ shape.hash2 # "concat"
      BY <1>1, <1>4, <3>4 DEF StorageKey, Hashed, FromHash
    <3> QED BY <3>1, <3>2, <3>3, <3>4
  <2>2. DecodedKeys(n) = <<first.key, second.key>>
    BY <1>4 DEF DecodedKeys
  <2> HIDE DEF first, second
  <2> QED BY <2>1, <2>2
<1> QED BY <1>2, <1>3, <1>4

LEMMA IterStart == IterInit => IterInv
<1> SUFFICES ASSUME IterInit PROVE IterInv
  OBVIOUS
<1>1. IterShape
  <2>1. <<>> \in Seq([entry : Int, keys : Seq(Int)]) /\ <<>> \in Seq(Int)
    OBVIOUS
  <2>2. 0 \in 0..NumEntries
    BY StorageAssumption
  <2> QED BY <2>1, <2>2 DEF IterInit, IterShape
<1>2. PageInv
  <2>1. page = <<>> /\ Len(page) = 0 /\ lastKey = 0
    BY DEF IterInit
  <2>2. <<>> = [i \in 1..0 |-> 0 + 0 + 1 - i]
    OBVIOUS
  <2> QED BY <2>1, <2>2, StorageAssumption DEF PageInv
<1>3. GotInv /\ StageInv
  BY DEF IterInit, GotInv, StageInv
<1> QED BY <1>1, <1>2, <1>3 DEF IterInv

LEMMA IterStep == IterInv /\ [IterNext]_iterVars => IterInv'
<1> SUFFICES ASSUME IterInv, [IterNext]_iterVars PROVE IterInv'
  OBVIOUS
<1> USE DEF IterInv
<1>1. ASSUME NEW keyValue \in BOOLEAN, Ask(keyValue) PROVE IterInv'
  BY <1>1 DEF Ask, IterShape, PageInv, GotInv, StageInv
<1>2. CASE GotKeys
  <2>1. /\ page' \in Seq(Int)
        /\ Len(page') <= NumEntries - lastKey
        /\ page' = [i \in 1..Len(page') |-> lastKey + Len(page') + 1 - i]
        /\ page' = <<>> => lastKey = NumEntries
    BY <1>2, ReversedPage DEF GotKeys, IterShape
  <2>2. IterShape'
    BY <1>2, <2>1 DEF GotKeys, IterShape
  <2>3. PageInv' /\ GotInv'
    BY <1>2, <2>1 DEF GotKeys, PageInv, GotInv
  <2>4. StageInv'
    BY <1>2, <2>1 DEF GotKeys, StageInv, IterShape
  <2> QED BY <2>2, <2>3, <2>4
<1>3. CASE GotValue
  <2>1. page # <<>>
    BY <1>3 DEF GotValue, StageInv
  <2>2. /\ lastKey' = lastKey + 1 /\ lastKey' \in 1..NumEntries
        /\ page' \in Seq(Int)
        /\ Len(page') = Len(page) - 1
        /\ page' = [i \in 1..Len(page') |-> lastKey + 1 + Len(page') + 1 - i]
    BY <1>3, <2>1, RestOfPage DEF GotValue
  <2>3. got' = Append(got, Item(lastKey'))
    BY <1>3 DEF GotValue
  <2>4. /\ Item(lastKey').entry = lastKey'
        /\ Item(lastKey') \in [entry : Int, keys : Seq(Int)]
    <3>1. lastKey' \in Int
      BY <2>2, StorageAssumption
    <3>2. DecodedKeys(lastKey') \in Seq(Int)
      BY <3>1, DecodedType DEF IterShape
    <3> QED BY <3>1, <3>2 DEF Item
  <2>5. IterShape'
    BY <1>3, <2>2, <2>3, <2>4, StorageAssumption DEF GotValue, IterShape
  <2>6. PageInv'
    <3>1. Len(page) \in Nat /\ lastKey \in Nat
      BY StorageAssumption DEF IterShape
    <3> QED BY <2>2, <3>1, StorageAssumption DEF PageInv
  <2>7. GotInv'
    <3>1. Len(got') = lastKey + 1 /\ got'[lastKey + 1] = Item(lastKey')
      BY <2>3 DEF IterShape, GotInv
    <3>2. \A i \in 1..Len(got) : got'[i] = got[i]
      BY <2>3 DEF IterShape
    <3>3. Len(got) = lastKey /\ lastKey \in Nat
      BY StorageAssumption DEF GotInv, IterShape
    <3>4. Len(got') = lastKey'
      BY <2>2, <3>1
    <3>5. \A i \in 1..Len(got') : got'[i].entry = i
      <4> TAKE i \in 1..Len(got')
      <4>1. CASE i \in 1..Len(got)
        BY <3>2, <4>1 DEF GotInv
      <4>2. CASE i = lastKey + 1
        BY <2>2, <2>4, <3>1, <4>2
      <4> QED BY <3>1, <3>3, <4>1, <4>2
    <3> QED BY <3>4, <3>5 DEF GotInv
  <2>8. StageInv'
    <3>1. ~ isDone
      BY <2>1 DEF StageInv
    <3> QED BY <1>3, <3>1 DEF GotValue, StageInv
  <2> QED BY <2>5, <2>6, <2>7, <2>8
<1>4. CASE NoValue
  BY <1>4 DEF NoValue, IterShape, PageInv, GotInv, StageInv
<1>5. CASE ReadFails
  BY <1>5 DEF ReadFails, IterShape, PageInv, GotInv, StageInv
<1>6. CASE Abandon
  BY <1>6 DEF Abandon, IterShape, PageInv, GotInv, StageInv
<1>7. CASE UNCHANGED iterVars
  BY <1>7 DEF iterVars, IterShape, PageInv, GotInv, StageInv
<1> QED
  BY <1>1, <1>2, <1>3, <1>4, <1>5, <1>6, <1>7 DEF IterNext

LEMMA IterInvHolds == IterSpec => []IterInv
<1> QED BY IterStart, IterStep, PTL DEF IterSpec

(* The types of the iterator and of what it returned. *)
THEOREM IterTypeCorrect == IterSpec => []IterTypeOK
<1>1. IterInv => IterTypeOK
  <2> SUFFICES ASSUME IterInv PROVE IterTypeOK
    OBVIOUS
  <2>1. page \in Seq(1..NumEntries)
    <3>1. \A i \in 1..Len(page) : page[i] \in 1..NumEntries
      BY StorageAssumption DEF IterInv, IterShape, PageInv
    <3> QED BY <3>1, Retype DEF IterInv, IterShape
  <2>2. got \in Seq([entry : 1..NumEntries, keys : Seq(Int)])
    <3>1. \A i \in 1..Len(got) : got[i] \in [entry : 1..NumEntries, keys : Seq(Int)]
      <4> TAKE i \in 1..Len(got)
      <4>1. got[i] \in [entry : Int, keys : Seq(Int)]
        BY ElementType DEF IterInv, IterShape
      <4>2. got[i].entry \in 1..NumEntries
        BY StorageAssumption DEF IterInv, IterShape, GotInv
      <4> QED BY <4>1, <4>2
    <3> QED BY <3>1, Retype DEF IterInv, IterShape
  <2> QED BY <2>1, <2>2 DEF IterInv, IterShape, IterTypeOK
<1> QED BY <1>1, IterInvHolds, PTL

(* No entry is skipped and none returned twice: the n-th item a caller gets  *)
(* from next or next_key_value is the n-th entry of the map at the block,    *)
(* through page boundaries, failed reads and dropped futures.               *)
THEOREM EachOnceInOrderHolds == IterSpec => []EachOnceInOrder
<1>1. IterInv => EachOnceInOrder
  BY DEF IterInv, IterShape, GotInv, EachOnceInOrder
<1> QED BY <1>1, IterInvHolds, PTL

(* is_done is set only when all entries were returned. *)
THEOREM DoneIsCompleteHolds == IterSpec => []DoneIsComplete
<1>1. IterInv => DoneIsComplete
  BY DEF IterInv, GotInv, StageInv, DoneIsComplete
<1> QED BY <1>1, IterInvHolds, PTL

-----------------------------------------------------------------------------
(* RpcTransport: for every set of tasks and every capacity of the request   *)
(* channel.                                                                 *)

Calls == [at : {"idle", "sending", "waiting"}, id : Int,
          got : {"pending", "error", "ok"}, what : Int]

TransportTypeOK ==
  /\ nextId \in Nat
  /\ caller \in [Callers -> Calls]
  /\ queue \in Seq(Nat)
  /\ post \in Nat \union {NoRequest}
  /\ posted \subseteq Nat
  /\ open \in BOOLEAN

(* A request is in the channel once, and only before it is posted. *)
QueueInv ==
  /\ \A i, j \in 1..Len(queue) : queue[i] = queue[j] => i = j
  /\ \A i \in 1..Len(queue) : queue[i] < nextId /\ queue[i] \notin posted

(* What is posted was numbered by the counter. *)
PostedInv ==
  /\ \A n \in posted : n < nextId
  /\ post # NoRequest => post \in posted

(* A call that waits for the channel has a number nobody else uses. *)
SendingInv ==
  \A c \in Callers : caller[c].at = "sending" =>
    /\ caller[c].id \in Nat /\ caller[c].id < nextId
    /\ caller[c].id \notin posted
    /\ \A i \in 1..Len(queue) : queue[i] # caller[c].id
    /\ \A d \in Callers : caller[d].at = "sending" /\ caller[d].id = caller[c].id => d = c

TransportInv ==
  TransportTypeOK /\ QueueInv /\ PostedInv /\ SendingInv /\ OwnAnswer

-----------------------------------------------------------------------------
(* Head, tail and append, for the request channel. *)
LEMMA AppendFacts ==
  ASSUME NEW q \in Seq(Nat), NEW n \in Nat
  PROVE  /\ Append(q, n) \in Seq(Nat)
         /\ Len(Append(q, n)) = Len(q) + 1
         /\ \A i \in 1..Len(q) : Append(q, n)[i] = q[i]
         /\ Append(q, n)[Len(q) + 1] = n
OBVIOUS

LEMMA TailFacts ==
  ASSUME NEW q \in Seq(Nat), q # <<>>
  PROVE  /\ Head(q) = q[1] /\ q[1] \in Nat
         /\ Len(q) \in Nat \ {0}
         /\ Tail(q) \in Seq(Nat)
         /\ Len(Tail(q)) = Len(q) - 1
         /\ \A i \in 1..Len(Tail(q)) : Tail(q)[i] = q[i + 1] /\ i + 1 \in 1..Len(q)
OBVIOUS

(* An answer ends at most calls that wait, and gives no call the result of  *)
(* another request.                                                         *)
LEMMA DeliverKeeps ==
  ASSUME TransportTypeOK, OwnAnswer, NEW result \in {"ok", "error"}, NEW what \in Int,
         Deliver(result, what)
  PROVE  /\ caller' \in [Callers -> Calls]
         /\ OwnAnswer'
         /\ \A c \in Callers : caller'[c].id = caller[c].id
         /\ \A c \in Callers : caller'[c].at = "sending" <=> caller[c].at = "sending"
<1>1. NoRequest \in Int
  BY DEF NoRequest
<1>2. \A c \in Callers : caller[c] \in Calls
  BY DEF TransportTypeOK
<1>3. \A c \in Callers :
        IF caller[c].at = "waiting" /\ caller[c].id = post
        THEN /\ caller'[c].at = "idle" /\ caller'[c].id = caller[c].id
             /\ caller'[c].got = IF result = "ok" /\ what = post THEN "ok" ELSE "error"
             /\ caller'[c].what = IF result = "ok" /\ what = post THEN what ELSE NoRequest
             /\ caller'[c] \in Calls
        ELSE caller'[c] = caller[c]
  BY <1>1, <1>2 DEF Deliver, Calls
<1>4. caller' \in [Callers -> Calls]
  BY <1>2, <1>3 DEF Deliver
<1>5. OwnAnswer'
  BY <1>3 DEF OwnAnswer
<1> QED BY <1>3, <1>4, <1>5

LEMMA TransportStart == TransportInit => TransportInv
BY DEF TransportInit, TransportInv, TransportTypeOK, Calls, Idle, NoRequest, QueueInv,
       PostedInv, SendingInv, OwnAnswer

(* The end of a post: whatever comes back, the worker is free again. *)
LEMMA PostEnds ==
  ASSUME TransportInv, NEW result \in {"ok", "error"}, NEW what \in Int,
         Deliver(result, what), post' = NoRequest, UNCHANGED <<nextId, queue, posted, open>>
  PROVE  TransportInv'
<1>1. /\ caller' \in [Callers -> Calls]
      /\ OwnAnswer'
      /\ \A c \in Callers : caller'[c].id = caller[c].id
      /\ \A c \in Callers : caller'[c].at = "sending" <=> caller[c].at = "sending"
  BY DeliverKeeps DEF TransportInv
<1>2. TransportTypeOK'
  BY <1>1 DEF TransportInv, TransportTypeOK
<1>3. QueueInv' /\ PostedInv'
  BY DEF TransportInv, QueueInv, PostedInv
<1>4. SendingInv'
  BY <1>1 DEF TransportInv, SendingInv
<1> QED BY <1>1, <1>2, <1>3, <1>4 DEF TransportInv

LEMMA TransportStep == TransportInv /\ [TransportNext]_rpcVars => TransportInv'
<1> SUFFICES ASSUME TransportInv, [TransportNext]_rpcVars PROVE TransportInv'
  OBVIOUS
<1> USE DEF TransportInv
<1>1. ASSUME NEW c \in Callers, MakeRequest(c) PROVE TransportInv'
  <2>1. /\ nextId \in Nat /\ nextId' = nextId + 1
        /\ UNCHANGED <<queue, post, posted, open>>
        /\ caller[c] \in Calls
    BY <1>1 DEF MakeRequest, TransportTypeOK
  <2>2. /\ caller' \in [Callers -> Calls]
        /\ caller'[c].at = "sending" /\ caller'[c].id = nextId /\ caller'[c].got = "pending"
        /\ \A d \in Callers : d # c => caller'[d] = caller[d]
    <3> DEFINE call == [at |-> "sending", id |-> nextId, got |-> "pending", what |-> NoRequest]
    <3>2. NoRequest \in Int /\ nextId \in Int
      BY <2>1 DEF NoRequest
    <3>3. call \in Calls /\ call.at = "sending" /\ call.id = nextId /\ call.got = "pending"
      BY <3>2 DEF Calls
    <3>4. caller' = [caller EXCEPT ![c] = call]
      BY <1>1 DEF MakeRequest
    <3> HIDE DEF call
    <3> QED BY <3>3, <3>4 DEF TransportTypeOK
  <2>3. TransportTypeOK'
    BY <2>1, <2>2 DEF TransportTypeOK
  <2>4. QueueInv' /\ PostedInv'
    <3>1. \A i \in 1..Len(queue) : queue[i] \in Nat
      BY DEF TransportTypeOK
    <3> QED BY <2>1, <3>1 DEF QueueInv, PostedInv, TransportTypeOK
  <2>5. SendingInv'
    <3>1. /\ nextId \notin posted
          /\ \A i \in 1..Len(queue) : queue[i] # nextId
          /\ \A d \in Callers : caller[d].at = "sending" => caller[d].id # nextId
      BY <2>1 DEF QueueInv, PostedInv, SendingInv, TransportTypeOK
    <3> QED BY <2>1, <2>2, <3>1 DEF SendingInv
  <2>6. OwnAnswer'
    BY <2>2 DEF OwnAnswer
  <2> QED BY <2>3, <2>4, <2>5, <2>6
<1>2. ASSUME NEW c \in Callers, Enqueue(c) PROVE TransportInv'
  <2> DEFINE n == caller[c].id
  <2>1. /\ n \in Nat /\ n < nextId /\ n \notin posted
        /\ \A i \in 1..Len(queue) : queue[i] # n
        /\ \A d \in Callers : caller[d].at = "sending" /\ caller[d].id = n => d = c
    BY <1>2 DEF Enqueue, SendingInv
  <2>2. /\ queue' \in Seq(Nat) /\ Len(queue') = Len(queue) + 1
        /\ \A i \in 1..Len(queue) : queue'[i] = queue[i]
        /\ queue'[Len(queue) + 1] = n
        /\ Len(queue) \in Nat
    BY <1>2, <2>1, AppendFacts DEF Enqueue, TransportTypeOK
  <2>3. /\ caller' \in [Callers -> Calls]
        /\ caller'[c].at = "waiting" /\ caller'[c].id = caller[c].id
        /\ caller'[c].got = caller[c].got /\ caller'[c].what = caller[c].what
        /\ \A d \in Callers : d # c => caller'[d] = caller[d]
    BY <1>2 DEF Enqueue, TransportTypeOK, Calls
  <2>4. UNCHANGED <<nextId, post, posted, open>>
    BY <1>2 DEF Enqueue
  <2>5. TransportTypeOK'
    BY <2>2, <2>3, <2>4 DEF TransportTypeOK
  <2>6. QueueInv'
    <3>1. \A i \in 1..Len(queue') : i \in 1..Len(queue) \/ i = Len(queue) + 1
      BY <2>2
    <3> QED BY <2>1, <2>2, <2>4, <3>1 DEF QueueInv
  <2>7. PostedInv'
    BY <2>4 DEF PostedInv
  <2>8. SendingInv'
    <3>1. \A i \in 1..Len(queue') : i \in 1..Len(queue) \/ i = Len(queue) + 1
      BY <2>2
    <3>2. \A d \in Callers : caller'[d].at = "sending" => d # c /\ caller[d].id # n
      BY <2>1, <2>3
    <3> QED BY <2>2, <2>3, <2>4, <3>1, <3>2 DEF SendingInv
  <2>9. OwnAnswer'
    BY <2>3 DEF OwnAnswer
  <2> QED BY <2>5, <2>6, <2>7, <2>8, <2>9
<1>3. ASSUME NEW c \in Callers, GiveUp(c) PROVE TransportInv'
  <2>1. /\ caller' \in [Callers -> Calls]
        /\ caller'[c].at = "idle" /\ caller'[c].got = "pending"
        /\ \A d \in Callers : d # c => caller'[d] = caller[d]
        /\ UNCHANGED <<nextId, queue, post, posted, open>>
    BY <1>3 DEF GiveUp, TransportTypeOK, Calls
  <2> QED BY <2>1 DEF TransportTypeOK, QueueInv, PostedInv, SendingInv, OwnAnswer
<1>4. CASE Close
  BY <1>4 DEF Close, TransportTypeOK, QueueInv, PostedInv, SendingInv, OwnAnswer
<1>5. CASE TakeRequest
  <2>1. /\ Head(queue) = queue[1] /\ queue[1] \in Nat
        /\ Len(queue) \in Nat \ {0}
        /\ queue' \in Seq(Nat) /\ Len(queue') = Len(queue) - 1
        /\ \A i \in 1..Len(queue') : queue'[i] = queue[i + 1] /\ i + 1 \in 1..Len(queue)
    BY <1>5, TailFacts DEF TakeRequest, TransportTypeOK
  <2>2. /\ post' = queue[1] /\ posted' = posted \union {queue[1]}
        /\ UNCHANGED <<nextId, caller, open>>
    BY <1>5, <2>1 DEF TakeRequest
  <2>3. TransportTypeOK'
    BY <2>1, <2>2 DEF TransportTypeOK
  <2>4. QueueInv'
    <3>1. \A i \in 1..Len(queue') : i + 1 # 1 /\ queue'[i] # queue[1]
      BY <2>1 DEF QueueInv
    <3>2. \A i, j \in 1..Len(queue') : queue'[i] = queue'[j] => i = j
      <4> TAKE i, j \in 1..Len(queue')
      <4>1. queue[i + 1] = queue[j + 1] => i + 1 = j + 1
        BY <2>1 DEF QueueInv
      <4> QED BY <2>1, <4>1
    <3> QED BY <2>1, <2>2, <3>1, <3>2 DEF QueueInv
  <2>5. PostedInv'
    BY <2>1, <2>2 DEF PostedInv, QueueInv
  <2>6. SendingInv'
    <3>1. 1 \in 1..Len(queue)
      BY <2>1
    <3> QED BY <2>1, <2>2, <3>1 DEF SendingInv
  <2>7. OwnAnswer'
    BY <2>2 DEF OwnAnswer
  <2> QED BY <2>3, <2>4, <2>5, <2>6, <2>7
<1>6. CASE Answered
  <2>1. CASE \E what \in posted : Deliver("ok", what)
    <3>1. PICK what \in posted : Deliver("ok", what)
      BY <2>1
    <3>2. what \in Int
      BY <3>1 DEF TransportTypeOK
    <3> QED BY <1>6, <3>1, <3>2, PostEnds DEF Answered
  <2>2. CASE Deliver("error", NoRequest)
    <3>1. NoRequest \in Int
      BY DEF NoRequest
    <3> QED BY <1>6, <2>2, <3>1, PostEnds DEF Answered
  <2> QED BY <1>6, <2>1, <2>2 DEF Answered
<1>7. CASE PostFails
  <2>1. NoRequest \in Int
    BY DEF NoRequest
  <2> QED BY <1>7, <2>1, PostEnds DEF PostFails
<1>8. CASE UNCHANGED rpcVars
  BY <1>8 DEF rpcVars, TransportTypeOK, QueueInv, PostedInv, SendingInv, OwnAnswer
<1> QED
  BY <1>1, <1>2, <1>3, <1>4, <1>5, <1>6, <1>7, <1>8 DEF TransportNext

LEMMA TransportInvHolds == TransportSpec => []TransportInv
<1> QED BY TransportStart, TransportStep, PTL DEF TransportSpec

(* The result a call returns answers the request of that call, whatever the *)
(* server mixes up and whichever earlier calls were dropped.                *)
THEOREM OwnAnswerHolds == TransportSpec => []OwnAnswer
<1>1. TransportInv => OwnAnswer
  BY DEF TransportInv
<1> QED BY <1>1, TransportInvHolds, PTL

(* The worker posts no request twice. *)
THEOREM PostedOnceHolds == TransportSpec => PostedOnce
<1>1. TransportInv /\ [TransportNext]_rpcVars
        => [post' # post /\ post' # NoRequest => post' \notin posted]_rpcVars
  <2> SUFFICES ASSUME TransportInv, TransportNext, post' # post, post' # NoRequest
               PROVE  post' \notin posted
    OBVIOUS
  <2>1. TakeRequest
    BY DEF TransportNext, MakeRequest, Enqueue, GiveUp, Close, Answered, PostFails
  <2>2. Head(queue) = queue[1] /\ 1 \in 1..Len(queue)
    BY <2>1, TailFacts DEF TakeRequest, TransportInv, TransportTypeOK
  <2> QED BY <2>1, <2>2 DEF TakeRequest, TransportInv, QueueInv
<1> QED BY <1>1, TransportInvHolds, PTL DEF TransportSpec, PostedOnce

-----------------------------------------------------------------------------
(* RetryPolicy.  The module has no parameters and, but for the bound of a   *)
(* history counter, finitely many states; the proofs show why its promises  *)
(* hold: what a call has waited and how often it was sent are functions of  *)
(* what is left of its budget.                                              *)

(* What is left of the backoff when n pauses are, and what was slept then. *)
Left == [n \in 0..5 |-> [i \in 1..n |-> Backoff[i]]]
Slept == <<11, 6, 3, 1, 0>>   \* with 1, 2, 3, 4, 5 pauses left
SleptAt(n) == IF n = 0 THEN Patience ELSE Slept[n]

PassedOn == {"latest", "hist", "best head", "hash", "block chain", "block count"}

(* How the history follows from the budget. *)
LedgerInv ==
  \E n \in 0..5 :
    /\ budget = Left[n]
    /\ \/ attempts = 0 /\ pc = "idle" /\ outcome = "pending"
       \/ /\ waited = SleptAt(n)
          /\ attempts = IF pc = "asleep" THEN 5 - n ELSE 6 - n

(* While a call is under way, its decision is that of the override, where it *)
(* is passed on; and an error ends it if it may not retry.                   *)
DecisionInv ==
  /\ pc # "idle" /\ site \in PassedOn /\ override # "inherit" => retry = (override = "always")
  /\ pc # "idle" => outcome = "pending"
  /\ pc # "idle" /\ failed => retry

(* A call that gave up had no pause left. *)
SpentInv ==
  /\ outcome = "error" /\ retry => waited = Patience
  /\ outcome = "none" /\ onNone => waited = Patience
  /\ outcome = "error" /\ site \in PassedOn /\ override # "inherit"
       => retry = (override = "always")

RetryShape ==
  /\ global \in BOOLEAN /\ retry \in BOOLEAN /\ failed \in BOOLEAN
  /\ override \in Overrides
  /\ pc \in {"idle", "sent", "asleep"}

RetryInv == RetryShape /\ LedgerInv /\ DecisionInv /\ SpentInv

-----------------------------------------------------------------------------
(* Sequences given by a function: their last element and front. *)
LEMMA SequenceOf ==
  ASSUME NEW n \in Nat \ {0}, NEW f, \A i \in 1..n : f[i] \in Nat,
         NEW q, q = [i \in 1..n |-> f[i]]
  PROVE  q # <<>> /\ Last(q) = f[n] /\ Front(q) = [i \in 1..n - 1 |-> f[i]]
<1>1. q \in Seq(Nat) /\ Len(q) = n /\ \A i \in 1..n : q[i] = f[i]
  OBVIOUS
<1>2. q # <<>> /\ Last(q) = f[n]
  BY <1>1 DEF Last
<1>3. Front(q) = [i \in 1..n - 1 |-> q[i]]
  BY <1>1 DEF Front
<1>4. \A i \in 1..n - 1 : q[i] = f[i]
  <2> TAKE i \in 1..n - 1
  <2>1. i \in 1..n
    OBVIOUS
  <2> QED BY <1>1, <2>1
<1>5. [i \in 1..n - 1 |-> q[i]] = [i \in 1..n - 1 |-> f[i]]
  BY <1>4
<1> QED BY <1>2, <1>3, <1>5

(* The stack of pauses. *)
LEMMA BudgetFacts ==
  /\ Left[0] = <<>> /\ Left[5] = Backoff
  /\ \A n \in 1..5 : /\ Left[n] # <<>>
                     /\ Front(Left[n]) = Left[n - 1]
                     /\ SleptAt(n) + Last(Left[n]) = SleptAt(n - 1)
<1>1. /\ Backoff \in Seq(Nat) /\ Len(Backoff) = 5
      /\ Backoff[1] = 8 /\ Backoff[2] = 5 /\ Backoff[3] = 3 /\ Backoff[4] = 2 /\ Backoff[5] = 1
  BY DEF Backoff
<1>2. \A n \in 0..5 : /\ Left[n] = [i \in 1..n |-> Backoff[i]]
                      /\ \A i \in 1..n : Backoff[i] \in Nat
  BY <1>1 DEF Left
<1>3. \A n \in 1..5 : /\ Left[n] # <<>> /\ Last(Left[n]) = Backoff[n]
                      /\ Front(Left[n]) = [i \in 1..n - 1 |-> Backoff[i]]
  <2> TAKE n \in 1..5
  <2>1. n \in Nat \ {0} /\ n \in 0..5
    OBVIOUS
  <2>2. Left[n] = [i \in 1..n |-> Backoff[i]] /\ \A i \in 1..n : Backoff[i] \in Nat
    BY <1>2, <2>1
  <2> QED BY <2>1, <2>2, SequenceOf
<1>4. Left[5] = Backoff
  <2>1. Backoff = [i \in 1..5 |-> Backoff[i]]
    BY <1>1
  <2> QED BY <1>2, <2>1
<1>5. Left[0] = <<>>
  BY <1>2
<1>6. ASSUME NEW n \in 1..5
      PROVE  /\ Left[n] # <<>> /\ Front(Left[n]) = Left[n - 1]
             /\ SleptAt(n) + Last(Left[n]) = SleptAt(n - 1)
  <2>1. n - 1 \in 0..5
    OBVIOUS
  <2>2. Left[n] # <<>> /\ Last(Left[n]) = Backoff[n]
    BY <1>3
  <2>4. Front(Left[n]) = Left[n - 1]
    BY <1>2, <1>3, <2>1
  <2>5. SleptAt(n) + Backoff[n] = SleptAt(n - 1)
    <3>1. /\ SleptAt(0) = 19 /\ SleptAt(1) = 11 /\ SleptAt(2) = 6
          /\ SleptAt(3) = 3 /\ SleptAt(4) = 1 /\ SleptAt(5) = 0
      BY DEF SleptAt, Slept, Patience
    <3>2. n = 1 \/ n = 2 \/ n = 3 \/ n = 4 \/ n = 5
      OBVIOUS
    <3> QED BY <1>1, <3>1, <3>2
  <2> QED BY <2>2, <2>4, <2>5
<1> QED BY <1>4, <1>5, <1>6

LEMMA RetryStart == RetryInit => RetryInv
<1> SUFFICES ASSUME RetryInit PROVE RetryInv
  OBVIOUS
<1>1. LedgerInv
  BY BudgetFacts DEF RetryInit, LedgerInv
<1>2. RetryShape /\ DecisionInv /\ SpentInv
  BY DEF RetryInit, RetryShape, DecisionInv, SpentInv, Overrides
<1> QED BY <1>1, <1>2 DEF RetryInv

(* One pass of the loop keeps the ledger. *)
LEMMA PassKeepsLedger ==
  ASSUME RetryInv, pc = "sent", NEW how \in {"none", "error"}, NEW mayRetry,
         PauseOrReturn(how, mayRetry), UNCHANGED attempts
  PROVE  /\ LedgerInv'
         /\ pc' \in {"idle", "asleep"}
         /\ pc' = "asleep" => mayRetry /\ outcome' = outcome
         /\ pc' = "idle" => outcome' = how /\ (mayRetry => waited' = Patience)
<1>1. PICK n \in 0..5 : /\ budget = Left[n]
                        /\ waited = SleptAt(n)
                        /\ attempts = 6 - n
  BY DEF RetryInv, LedgerInv
<1>2. CASE mayRetry /\ budget # <<>>
  <2>1. n \in 1..5
    BY <1>1, <1>2, BudgetFacts
  <2>2. /\ budget' = Left[n - 1] /\ waited' = SleptAt(n - 1)
        /\ pc' = "asleep" /\ outcome' = outcome
    BY <1>1, <1>2, <2>1, BudgetFacts DEF PauseOrReturn
  <2>3. n - 1 \in 0..5 /\ attempts' = 5 - (n - 1)
    BY <1>1, <2>1
  <2> QED BY <1>2, <2>2, <2>3 DEF LedgerInv
<1>3. CASE ~ (mayRetry /\ budget # <<>>)
  <2>1. pc' = "idle" /\ outcome' = how /\ UNCHANGED <<budget, waited>>
    BY <1>3 DEF PauseOrReturn, Return
  <2>2. LedgerInv'
    BY <1>1, <2>1 DEF LedgerInv
  <2>3. mayRetry => waited' = Patience
    <3>1. ASSUME mayRetry PROVE n = 0
      BY <1>1, <1>3, <3>1, BudgetFacts
    <3> QED BY <1>1, <2>1, <3>1 DEF SleptAt
  <2> QED BY <2>1, <2>2, <2>3
<1> QED BY <1>2, <1>3

LEMMA RetryStep == RetryInv /\ [RetryNext]_retryVars => RetryInv'
<1> SUFFICES ASSUME RetryInv, [RetryNext]_retryVars PROVE RetryInv'
  OBVIOUS
<1>1. CASE SetGlobal
  BY <1>1 DEF SetGlobal, RetryInv, RetryShape, LedgerInv, DecisionInv, SpentInv
<1>2. ASSUME NEW v \in Overrides, SetOverride(v) PROVE RetryInv'
  BY <1>2 DEF SetOverride, RetryInv, RetryShape, LedgerInv, DecisionInv, SpentInv
<1>3. ASSUME NEW s \in Sites, Begin(s) PROVE RetryInv'
  <2>1. /\ pc' = "sent" /\ outcome' = "pending" /\ failed' = FALSE
        /\ attempts' = 1 /\ waited' = 0 /\ budget' = Backoff
        /\ site' = s /\ UNCHANGED <<global, override>>
        /\ retry' = Decide(HelperOverride(s))
    BY <1>3 DEF Begin
  <2>2. ASSUME s \in PassedOn, override # "inherit" PROVE HelperOverride(s) = override
    BY <2>2 DEF PassedOn, HelperOverride, Decided
  <2>3. retry' \in BOOLEAN
    BY <2>1 DEF Decide, RetryInv, RetryShape
  <2>4. LedgerInv'
    <3>1. /\ budget' = Left[5] /\ SleptAt(5) = 0
      BY <2>1, BudgetFacts DEF SleptAt, Slept
    <3> QED BY <2>1, <3>1 DEF LedgerInv
  <2>5. DecisionInv' /\ SpentInv'
    BY <2>1, <2>2 DEF DecisionInv, SpentInv, Decide
  <2> QED BY <2>1, <2>3, <2>4, <2>5 DEF RetryInv, RetryShape
<1>4. CASE AnswerSome
  <2>1. /\ pc = "sent" /\ pc' = "idle" /\ outcome' = "some"
        /\ UNCHANGED <<global, override, site, retry, onNone, failed, attempts, budget, waited>>
    BY <1>4 DEF AnswerSome, Return
  <2> QED BY <2>1 DEF RetryInv, RetryShape, LedgerInv, DecisionInv, SpentInv
<1>5. CASE AnswerNone
  <2>1. /\ pc = "sent" /\ PauseOrReturn("none", onNone)
        /\ UNCHANGED <<global, override, site, retry, onNone, failed, attempts>>
    BY <1>5 DEF AnswerNone, RetryInv, RetryShape
  <2>2. /\ LedgerInv'
        /\ pc' \in {"idle", "asleep"}
        /\ pc' = "asleep" => onNone /\ outcome' = outcome
        /\ pc' = "idle" => outcome' = "none" /\ (onNone => waited' = Patience)
    BY <2>1, PassKeepsLedger
  <2> QED BY <2>1, <2>2 DEF RetryInv, RetryShape, DecisionInv, SpentInv
<1>6. CASE AnswerError
  <2>1. /\ pc = "sent" /\ PauseOrReturn("error", retry) /\ retry \in BOOLEAN
        /\ failed' = TRUE
        /\ UNCHANGED <<global, override, site, retry, onNone, attempts>>
    BY <1>6 DEF AnswerError, RetryInv, RetryShape
  <2>2. /\ LedgerInv'
        /\ pc' \in {"idle", "asleep"}
        /\ pc' = "asleep" => retry /\ outcome' = outcome
        /\ pc' = "idle" => outcome' = "error" /\ (retry => waited' = Patience)
    BY <2>1, PassKeepsLedger
  <2> QED BY <2>1, <2>2 DEF RetryInv, RetryShape, DecisionInv, SpentInv
<1>7. CASE Wake
  <2>1. PICK n \in 0..5 : budget = Left[n] /\ waited = SleptAt(n) /\ attempts = 5 - n
    BY <1>7 DEF Wake, RetryInv, LedgerInv
  <2>2. attempts' = 6 - n /\ pc' = "sent"
        /\ UNCHANGED <<global, override, site, retry, onNone, budget, failed, waited, outcome>>
    BY <1>7, <2>1 DEF Wake, Bound
  <2>3. LedgerInv'
    BY <2>1, <2>2 DEF LedgerInv
  <2> QED BY <1>7, <2>2, <2>3 DEF Wake, RetryInv, RetryShape, DecisionInv, SpentInv
<1>8. CASE UNCHANGED retryVars
  BY <1>8 DEF retryVars, RetryInv, RetryShape, LedgerInv, DecisionInv, SpentInv
<1> QED
  BY <1>1, <1>2, <1>3, <1>4, <1>5, <1>6, <1>7, <1>8 DEF RetryNext, Answer

LEMMA RetryInvHolds == RetrySpec => []RetryInv
<1> QED BY RetryStart, RetryStep, PTL DEF RetrySpec

(* A request is sent at most six times, however errors and missing answers  *)
(* alternate: both draw on one stack of pauses.                             *)
THEOREM SharedBudgetHolds == RetrySpec => []SharedBudget
<1>1. RetryInv => SharedBudget
  <2> SUFFICES ASSUME RetryInv PROVE attempts <= 6
    BY DEF SharedBudget, Backoff
  <2> QED BY DEF RetryInv, LedgerInv
<1> QED BY <1>1, RetryInvHolds, PTL

(* A call that may retry gives up only when the whole backoff is slept. *)
THEOREM GivesUpLateHolds == RetrySpec => []GivesUpLate
<1>1. RetryInv => GivesUpLate
  BY DEF RetryInv, SpentInv, GivesUpLate
<1> QED BY <1>1, RetryInvHolds, PTL

(* Where a call site passes the override on, the override decides, whatever *)
(* other tasks do to the flag of the client meanwhile.                      *)
THEOREM OverrideObeyedHolds == RetrySpec => []OverrideObeyed
<1>1. RetryInv => OverrideObeyed
  <2> SUFFICES ASSUME RetryInv, site \in PassedOn PROVE Obeys
    BY DEF OverrideObeyed, PassedOn
  <2>1. ASSUME override = "never", failed, pc # "idle" PROVE FALSE
    BY <2>1 DEF RetryInv, DecisionInv
  <2>2. ASSUME override = "always", outcome = "error" PROVE waited = Patience
    BY <2>2 DEF RetryInv, SpentInv, RetryShape
  <2> QED BY <2>1, <2>2 DEF Obeys, RetryInv, RetryShape
<1> QED BY <1>1, RetryInvHolds, PTL

-----------------------------------------------------------------------------
(* FfiHandles: handles stay what they were given for, for any number of     *)
(* transactions and receipts.                                               *)

FfiTypeOK ==
  /\ ready \in BOOLEAN /\ orderly \in BOOLEAN
  /\ signers \in Nat /\ txs \in Nat
  /\ receipts \in [DOMAIN receipts -> Nat]
  /\ DOMAIN receipts \subseteq Nat /\ IsFiniteSet(DOMAIN receipts)
  /\ boxes \subseteq [ptr : Nat, handle : Nat, tx : Nat]
  /\ issued \subseteq [handle : Nat, tx : Nat]

(* Nothing leaves the map of submitted transactions, so its handles are the  *)
(* numbers below its size, given in the order of the transactions.          *)
SubmittedInv ==
  \E n \in Nat :
    /\ submitted \in [0..(n - 1) -> 0..(txs - 1)]
    /\ \A g, h \in 0..(n - 1) : g < h => submitted[g] < submitted[h]

(* While the order is kept, the receipts in the map are those that were      *)
(* returned and not freed, their handles are the numbers below their count,  *)
(* and every box was made of one of them.                                   *)
ReceiptsInv ==
  orderly =>
    \E k \in Nat :
      /\ DOMAIN receipts = 0..(k - 1)
      /\ issued = {[handle |-> h, tx |-> receipts[h]] : h \in 0..(k - 1)}
      /\ \A b \in boxes : b.handle \in 0..(k - 1)

FfiInv == FfiTypeOK /\ SubmittedInv /\ ReceiptsInv

(* The handles below n are n handles, and the next one is n. *)
LEMMA HandlesBelow ==
  ASSUME NEW n \in Nat
  PROVE  /\ IsFiniteSet(0..(n - 1)) /\ Cardinality(0..(n - 1)) = n
         /\ 0..(n - 1) \union {n} = 0..n
         /\ 0..((n + 1) - 1) = 0..n
<1>1. IsFiniteSet(0..(n - 1)) /\ Cardinality(0..(n - 1)) = n
  <2>1. n - 1 \in Int /\ 0 \in Int
    OBVIOUS
  <2>2. IF 0 > n - 1 THEN Cardinality(0..(n - 1)) = 0
                     ELSE Cardinality(0..(n - 1)) = (n - 1) - 0 + 1
    BY <2>1, FS_Interval
  <2>. QED
    BY <2>1, <2>2, FS_Interval
<1>. QED
  BY <1>1

LEMMA FfiStart == FfiInit => FfiInv
<1>. SUFFICES ASSUME FfiInit PROVE FfiInv
  OBVIOUS
<1>. USE DEF FfiInit, NoHandles
<1>1. DOMAIN NoHandles = {} /\ 0..(0 - 1) = {}
  OBVIOUS
<1>2. FfiTypeOK
  BY <1>1, FS_EmptySet DEF FfiTypeOK
<1>3. SubmittedInv
  <2>1. submitted \in [0..(0 - 1) -> 0..(txs - 1)]
    BY <1>1
  <2>. QED
    BY <1>1, <2>1 DEF SubmittedInv
<1>4. ReceiptsInv
  BY <1>1 DEF ReceiptsInv
<1>. QED
  BY <1>2, <1>3, <1>4 DEF FfiInv

LEMMA FfiStep == FfiInv /\ [FfiNext]_ffiVars => FfiInv'
<1>. SUFFICES ASSUME FfiInv, [FfiNext]_ffiVars PROVE FfiInv'
  OBVIOUS
<1>1. CASE InitializeClient
  <2>. USE <1>1 DEF InitializeClient, NoHandles
  <2>1. DOMAIN receipts' = {} /\ 0..(0 - 1) = {}
    OBVIOUS
  <2>2. FfiTypeOK'
    BY <2>1, FS_EmptySet DEF FfiInv, FfiTypeOK
  <2>3. SubmittedInv'
    <3>1. submitted' \in [0..(0 - 1) -> 0..(txs' - 1)]
      BY <2>1
    <3>. QED
      BY <2>1, <3>1 DEF SubmittedInv
  <2>4. ReceiptsInv'
    BY <2>1 DEF ReceiptsInv
  <2>. QED
    BY <2>2, <2>3, <2>4 DEF FfiInv
<1>2. CASE InitializeSigner
  <2>1. FfiTypeOK'
    BY <1>2 DEF InitializeSigner, FfiInv, FfiTypeOK
  <2>2. SubmittedInv' /\ ReceiptsInv'
    <3>1. UNCHANGED <<submitted, receipts, boxes, txs, issued, orderly>>
      BY <1>2 DEF InitializeSigner
    <3>. QED
      BY <3>1 DEF FfiInv, SubmittedInv, ReceiptsInv
  <2>. QED
    BY <2>1, <2>2 DEF FfiInv
<1>3. CASE DoSubmitData
  <2>1. FfiTypeOK' /\ ReceiptsInv'
    BY <1>3 DEF DoSubmitData, FfiInv, FfiTypeOK, ReceiptsInv
  <2>2. SubmittedInv'
    <3>1. PICK n \in Nat :
            /\ submitted \in [0..(n - 1) -> 0..(txs - 1)]
            /\ \A g, h \in 0..(n - 1) : g < h => submitted[g] < submitted[h]
      BY DEF FfiInv, SubmittedInv
    <3>2. NextHandle(submitted) = n /\ DOMAIN submitted \union {n} = 0..n
      BY <3>1, HandlesBelow DEF NextHandle
    <3>3. txs \in Nat /\ txs' = txs + 1
      BY <1>3 DEF DoSubmitData, FfiInv, FfiTypeOK
    <3>4. submitted' = [g \in 0..n |-> IF g = n THEN txs ELSE submitted[g]]
      BY <1>3, <3>2 DEF DoSubmitData, Insert
    <3>5. \A g \in 0..n : g # n => g \in 0..(n - 1) /\ submitted[g] \in 0..(txs - 1)
      BY <3>1
    <3>6. submitted' \in [0..n -> 0..(txs' - 1)]
      BY <3>3, <3>4, <3>5
    <3>7. \A g, h \in 0..n : g < h => submitted'[g] < submitted'[h]
      BY <3>1, <3>3, <3>4, <3>5
    <3>. QED
      BY <3>6, <3>7, HandlesBelow DEF SubmittedInv
  <2>. QED
    BY <2>1, <2>2 DEF FfiInv
<1>4. ASSUME NEW h \in DOMAIN submitted, GetTransactionReceipt(h) PROVE FfiInv'
  <2>. DEFINE n == NextHandle(receipts)
  <2>1. n \in Nat
    BY FS_CardinalityType DEF FfiInv, FfiTypeOK, NextHandle
  <2>2. submitted[h] \in Nat
    BY DEF FfiInv, FfiTypeOK, SubmittedInv
  <2>3. /\ receipts' = [g \in DOMAIN receipts \union {n} |-> IF g = n THEN submitted[h] ELSE receipts[g]]
        /\ issued' = issued \union {[handle |-> n, tx |-> submitted[h]]}
        /\ UNCHANGED <<ready, signers, submitted, boxes, txs, orderly>>
    BY <1>4 DEF GetTransactionReceipt, Insert
  <2>. HIDE DEF n
  <2>4. FfiTypeOK'
    <3>1. IsFiniteSet(DOMAIN receipts \union {n})
      BY FS_AddElement DEF FfiInv, FfiTypeOK
    <3>. QED
      BY <2>1, <2>2, <2>3, <3>1 DEF FfiInv, FfiTypeOK
  <2>5. SubmittedInv'
    BY <2>3 DEF FfiInv, SubmittedInv
  <2>6. ASSUME orderly PROVE ReceiptsInv'
    <3>1. PICK k \in Nat :
            /\ DOMAIN receipts = 0..(k - 1)
            /\ issued = {[handle |-> g, tx |-> receipts[g]] : g \in 0..(k - 1)}
            /\ \A b \in boxes : b.handle \in 0..(k - 1)
      BY <2>6 DEF FfiInv, ReceiptsInv
    <3>2. n = k /\ DOMAIN receipts' = 0..((k + 1) - 1) /\ 0..((k + 1) - 1) = 0..k
      BY <2>3, <3>1, HandlesBelow DEF n, NextHandle
    <3>3. \A g \in 0..k : receipts'[g] = IF g = k THEN submitted[h] ELSE receipts[g]
      BY <2>3, <3>1, <3>2
    <3>4. issued' = {[handle |-> g, tx |-> receipts'[g]] : g \in 0..k}
      <4>1. \A g \in 0..k : g = k \/ g \in 0..(k - 1)
        OBVIOUS
      <4>2. \A g \in 0..(k - 1) : g \in 0..k /\ g # k
        OBVIOUS
      <4>3. k \in 0..k
        OBVIOUS
      <4>. QED
        BY <2>3, <3>1, <3>2, <3>3, <4>1, <4>2, <4>3, Zenon
    <3>5. \A b \in boxes' : b.handle \in 0..k
      BY <2>3, <3>1
    <3>. QED
      BY <3>2, <3>4, <3>5 DEF ReceiptsInv
  <2>7. ReceiptsInv'
    BY <2>3, <2>6 DEF ReceiptsInv
  <2>. QED
    BY <2>4, <2>5, <2>7 DEF FfiInv
<1>5. ASSUME NEW h \in DOMAIN receipts, ReceiptNew(h) PROVE FfiInv'
  <2>1. PICK p \in 1..MaxTxs :
          boxes' = boxes \union {[ptr |-> p, handle |-> h, tx |-> receipts[h]]}
    BY <1>5 DEF ReceiptNew
  <2>2. FfiTypeOK'
    BY <1>5, <2>1 DEF ReceiptNew, FfiInv, FfiTypeOK
  <2>3. UNCHANGED <<submitted, receipts, txs, issued, orderly>>
    BY <1>5 DEF ReceiptNew
  <2>4. SubmittedInv'
    BY <2>3 DEF FfiInv, SubmittedInv
  <2>5. ReceiptsInv'
    <3>1. \A b \in boxes' : b.handle \in DOMAIN receipts \/ b \in boxes
      BY <2>1
    <3>. QED
      BY <2>3, <3>1 DEF FfiInv, ReceiptsInv
  <2>. QED
    BY <2>2, <2>4, <2>5 DEF FfiInv
<1>6. ASSUME NEW b \in boxes, ReceiptFree(b) PROVE FfiInv'
  <2>1. /\ boxes' = boxes \ {b}
        /\ receipts' = [g \in DOMAIN receipts \ {b.handle} |-> receipts[g]]
        /\ issued' = {i \in issued : i.handle # b.handle}
        /\ orderly' = (orderly /\ (\A i \in issued : i.handle <= b.handle)
                               /\ \A c \in boxes' : c.handle # b.handle)
        /\ UNCHANGED <<ready, signers, submitted, txs>>
    BY <1>6 DEF ReceiptFree, Restrict
  <2>2. FfiTypeOK'
    <3>1. IsFiniteSet(DOMAIN receipts \ {b.handle})
      BY FS_Difference DEF FfiInv, FfiTypeOK
    <3>. QED
      BY <2>1, <3>1 DEF FfiInv, FfiTypeOK
  <2>3. SubmittedInv'
    BY <2>1 DEF FfiInv, SubmittedInv
  <2>4. ASSUME orderly' PROVE ReceiptsInv'
    <3>1. PICK k \in Nat :
            /\ DOMAIN receipts = 0..(k - 1)
            /\ issued = {[handle |-> g, tx |-> receipts[g]] : g \in 0..(k - 1)}
            /\ \A c \in boxes : c.handle \in 0..(k - 1)
      BY <2>1, <2>4 DEF FfiInv, ReceiptsInv
    <3>2. b.handle \in 0..(k - 1)
      BY <3>1
    <3>3. b.handle = k - 1
      <4>1. \A i \in issued : i.handle <= b.handle
        BY <2>1, <2>4
      <4>2. k - 1 \in 0..(k - 1)
        BY <3>2
      <4>3. [handle |-> k - 1, tx |-> receipts[k - 1]] \in issued
        BY <3>1, <4>2
      <4>4. [handle |-> k - 1, tx |-> receipts[k - 1]].handle <= b.handle
        BY <4>1, <4>3
      <4>. QED
        BY <3>2, <4>4
    <3>4. 0..(k - 1) \ {k - 1} = 0..((k - 1) - 1) /\ k - 1 \in Nat
      BY <3>2
    <3>5. DOMAIN receipts' = 0..((k - 1) - 1)
      BY <2>1, <3>1, <3>3, <3>4
    <3>6. issued' = {[handle |-> g, tx |-> receipts'[g]] : g \in 0..((k - 1) - 1)}
      <4>1. \A g \in 0..((k - 1) - 1) : receipts'[g] = receipts[g]
        BY <2>1, <3>5
      <4>2. issued' = {[handle |-> g, tx |-> receipts[g]] : g \in 0..(k - 1) \ {k - 1}}
        BY <2>1, <3>1, <3>3
      <4>. QED
        BY <3>4, <4>1, <4>2
    <3>7. \A c \in boxes' : c.handle \in 0..((k - 1) - 1)
      BY <2>1, <2>4, <3>1, <3>3, <3>4
    <3>. QED
      BY <3>4, <3>5, <3>6, <3>7 DEF ReceiptsInv
  <2>5. ReceiptsInv'
    BY <2>4 DEF ReceiptsInv
  <2>. QED
    BY <2>2, <2>3, <2>5 DEF FfiInv
<1>7. CASE UNCHANGED ffiVars
  BY <1>7 DEF ffiVars, FfiInv, FfiTypeOK, SubmittedInv, ReceiptsInv
<1>. QED
  BY <1>1, <1>2, <1>3, <1>4, <1>5, <1>6, <1>7 DEF FfiNext

LEMMA FfiInvariant == FfiSpec => []FfiInv
  BY FfiStart, FfiStep, PTL DEF FfiSpec

(* The maps, the boxes and the receipts C code holds are well typed.        *)
THEOREM FfiTypeCorrect == FfiSpec => []FfiTypeOK
<1>1. FfiInv => FfiTypeOK
  BY DEF FfiInv
<1>. QED
  BY <1>1, FfiInvariant, PTL

(* get_transaction_receipt, receipt_free: as long as receipts are freed in   *)
(* the reverse order of their creation, a handle names the receipt it was    *)
(* given for and only that one, also after initialize_client.               *)
THEOREM HandlesStableHolds == FfiSpec => []HandlesStable
<1>1. FfiInv => HandlesStable
  <2>. SUFFICES ASSUME FfiInv PROVE HandlesStable
    OBVIOUS
  <2>1. ASSUME NEW i \in issued, orderly
        PROVE  /\ i.handle \in DOMAIN receipts /\ receipts[i.handle] = i.tx
               /\ \A j \in issued : j.handle = i.handle => j = i
    BY <2>1 DEF FfiInv, ReceiptsInv
  <2>2. \A g, h \in DOMAIN submitted : g < h => submitted[g] < submitted[h]
    BY DEF FfiInv, SubmittedInv
  <2>. QED
    BY <2>1, <2>2 DEF HandlesStable
<1>. QED
  BY <1>1, FfiInvariant, PTL
=============================================================================
