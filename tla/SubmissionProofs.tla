-------------------------- MODULE SubmissionProofs --------------------------
(***************************************************************************)
(* Theorems about Submission, for every number of calls, every backoff and *)
(* every length of the chain.                                              *)
(***************************************************************************)
EXTENDS Submission, TLAPS

(* All extrinsics the client ever handed over that are still somewhere. *)
Sent == net \cup pool \cup Range(included)

(* A pinned nonce is the nonce of everything its call signs. *)
PinnedInv ==
  /\ \A c \in Calls :
       pinned[c] # NoNonce /\ pc[c] # "idle" => pc[c] # "nonce" /\ tx[c].nonce = pinned[c]
  /\ \A x \in Sent : pinned[x.call] # NoNonce => x.nonce = pinned[x.call]
  /\ \A x \in Sent : pc[x.call] # "idle"
  /\ \A c \in Calls : tx[c].call = c

(* The runtime executes the account's extrinsics in the order of their      *)
(* nonces, and the pool has those that come next.                           *)
NonceInv ==
  /\ \A i \in 1..Len(included) : included[i].nonce = i - 1
  /\ \A x \in pool : x.nonce >= Nonce

(* As long as no answer was lost, the client knows where its extrinsic is:  *)
(* under way before the answer, with the node after Ok, nowhere after a     *)
(* refusal.                                                                 *)
Known(c) ==
  /\ \A x \in Sent : x.call = c => x = tx[c] /\ pc[c] \in {"sent", "ok"}
  /\ \A x \in net : x.call = c => pc[c] = "sent" /\ reply[c] = "none"
  /\ \A x \in pool \cup Range(included) :
       x.call = c /\ pc[c] = "sent" => reply[c] = "ok"

KnownInv ==
  /\ \A c \in Calls : pc[c] # "sent" => reply[c] = "none"
  /\ \A c \in Calls : ~ lost[c] => Known(c)

(* The cached version is not ahead of the runtime's. *)
VersionInv ==
  /\ spec <= runtime
  /\ \A c \in Calls : tx[c].version <= runtime
  /\ \A x \in Sent : x.version <= runtime

(* No block will ever hold x. *)
Spent(x) == ~ Alive(x) \/ x.nonce < Nonce

(* A call signs anew only when its extrinsic is spent, so that nothing of    *)
(* the call can displace what it returns.                                   *)
SpentInv ==
  /\ \A x \in Sent :
       x # tx[x.call] \/ pc[x.call] \in {"nonce", "header", "hash"} => Spent(x)
  /\ \A c \in Calls : pc[c] = "sent" /\ reply[c] = "invalid" => Spent(tx[c])

(* What the node took stays until it can no longer be included, or an       *)
(* extrinsic of another call with its nonce makes it go.                    *)
Taken(c) ==
  /\ tx[c] \in taken
  /\ tx[c] \in pool \cup Range(included) \/ ~ Alive(tx[c]) \/ Contested(tx[c])

TakenInv ==
  \A c \in Calls : pc[c] = "ok" \/ (pc[c] = "sent" /\ reply[c] = "ok") => Taken(c)

SInv == /\ SubmissionTypeOK /\ PinnedInv /\ NonceInv /\ KnownInv
        /\ VersionInv /\ SpentInv /\ TakenInv

-----------------------------------------------------------------------------
LEMMA RangeAppend ==
  ASSUME NEW S, NEW s \in Seq(S), NEW x \in S
  PROVE  Range(Append(s, x)) = Range(s) \cup {x}
<1>1. Append(s, x) \in Seq(S) /\ Len(Append(s, x)) = Len(s) + 1
  OBVIOUS
<1>2. /\ \A i \in 1..Len(s) : Append(s, x)[i] = s[i]
      /\ Append(s, x)[Len(s) + 1] = x
  OBVIOUS
<1>3. DOMAIN s = 1..Len(s) /\ DOMAIN Append(s, x) = 1..(Len(s) + 1) /\ Len(s) \in Nat
  BY <1>1
<1>. QED
  BY <1>2, <1>3 DEF Range

(* What a failed submission does: pause, rebuild or give up. *)
LEMMA RetryEffect ==
  ASSUME SubmissionTypeOK, NEW c \in Calls, NEW how, Retry(c, how)
  PROVE  /\ UNCHANGED pinned
         /\ left' \in [Calls -> 0..Pauses]
         /\ \/ pc' = [pc EXCEPT ![c] = "asleep"] /\ UNCHANGED tx
            \/ pc' = [pc EXCEPT ![c] = "error"] /\ UNCHANGED tx
            \/ Once(c, 2) /\ how = "invalid"
<1>1. UNCHANGED pinned
  BY DEF Retry
<1>2. left' \in [Calls -> 0..Pauses]
  BY SubmissionAssumption DEF Retry, SubmissionTypeOK
<1>. QED
  BY <1>1, <1>2 DEF Retry, Rebuilds

LEMMA OnceType ==
  ASSUME SubmissionTypeOK, pinned' \in [Calls -> (0..MaxNonce) \cup {NoNonce}],
         NEW c \in Calls, NEW r \in 1..2, Once(c, r)
  PROVE  /\ tx' \in [Calls -> Extrinsics]
         /\ pc' \in [Calls -> {"idle", "nonce", "header", "hash", "sent", "asleep"} \cup Ended]
<1>1. ASSUME NEW n \in Nat PROVE Draft(c, r, n) \in Extrinsics
  BY SubmissionAssumption DEF Draft, Extrinsics
<1>2. (IF pinned'[c] = NoNonce THEN 0 ELSE pinned'[c]) \in Nat
  BY SubmissionAssumption
<1>3. Draft(c, r, IF pinned'[c] = NoNonce THEN 0 ELSE pinned'[c]) \in Extrinsics
  BY <1>1, <1>2
<1>. QED
  BY <1>3 DEF Once, SubmissionTypeOK

LEMMA RetryType ==
  ASSUME SubmissionTypeOK, NEW c \in Calls, NEW how, Retry(c, how)
  PROVE  /\ UNCHANGED pinned
         /\ left' \in [Calls -> 0..Pauses]
         /\ tx' \in [Calls -> Extrinsics]
         /\ pc' \in [Calls -> {"idle", "nonce", "header", "hash", "sent", "asleep"} \cup Ended]
<1>1. UNCHANGED pinned /\ left' \in [Calls -> 0..Pauses]
  BY RetryEffect
<1>2. CASE Once(c, 2)
  <2>1. pinned' \in [Calls -> (0..MaxNonce) \cup {NoNonce}]
    BY <1>1 DEF SubmissionTypeOK
  <2>. QED
    BY <1>1, <1>2, <2>1, OnceType
<1>3. CASE ~ Once(c, 2)
  BY <1>1, <1>3, RetryEffect DEF SubmissionTypeOK, Ended
<1>. QED
  BY <1>2, <1>3

LEMMA FieldTypes ==
  ASSUME NEW x \in Extrinsics
  PROVE  /\ \A n \in Nat : [x EXCEPT !.nonce = n] \in Extrinsics
         /\ \A h \in 0..MaxHeight : [x EXCEPT !.birth = h] \in Extrinsics
         /\ \A v \in 0..1 : [x EXCEPT !.version = v] \in Extrinsics
  BY DEF Extrinsics

-----------------------------------------------------------------------------
(* Type correctness *)

LEMMA InitType == SubmissionInit => SubmissionTypeOK
<1>. SUFFICES ASSUME SubmissionInit PROVE SubmissionTypeOK
  OBVIOUS
<1>1. \A c \in Calls : Draft(c, 1, 0) \in Extrinsics
  BY SubmissionAssumption DEF Draft, Extrinsics
<1>2. <<>> \in Seq(Extrinsics)
  OBVIOUS
<1>. QED
  BY <1>1, <1>2, SubmissionAssumption DEF SubmissionInit, SubmissionTypeOK

(* The actions of the node keep the types. *)
LEMMA NodeType ==
  ASSUME SubmissionTypeOK,
         (\E x \in net : Import(x)) \/ Block \/ Upgrade \/ SetSpecVersion
  PROVE  SubmissionTypeOK'
<1>1. ASSUME NEW x \in net, Import(x) PROVE SubmissionTypeOK'
  <2>1. x \in Extrinsics /\ x.call \in Calls
    BY <1>1 DEF SubmissionTypeOK, Extrinsics
  <2>2. \A v \in Verdicts(x) : v \in {"ok", "invalid", "other"}
    BY DEF Verdicts
  <2>. QED
    BY <1>1, <2>1, <2>2 DEF Import, SubmissionTypeOK, callVars
<1>2. CASE Block
  <2>1. height' \in 0..MaxHeight
    BY <1>2, SubmissionAssumption DEF Block, SubmissionTypeOK
  <2>2. included' \in Seq(Extrinsics)
    <3>1. \A x \in Extrinsics : Append(included, x) \in Seq(Extrinsics)
      BY DEF SubmissionTypeOK
    <3>2. pool \subseteq Extrinsics /\ included \in Seq(Extrinsics)
      BY DEF SubmissionTypeOK
    <3>. QED
      BY <1>2, <3>1, <3>2 DEF Block
  <2>3. pool' \subseteq Extrinsics
    BY <1>2 DEF Block, SubmissionTypeOK
  <2>. QED
    BY <1>2, <2>1, <2>2, <2>3 DEF Block, SubmissionTypeOK, callVars
<1>3. CASE Upgrade
  BY <1>3 DEF Upgrade, SubmissionTypeOK, callVars
<1>4. CASE SetSpecVersion
  BY <1>4 DEF SetSpecVersion, SubmissionTypeOK, nodeVars, callVars
<1>. QED
  BY <1>1, <1>2, <1>3, <1>4

(* So do the steps of a call. *)
LEMMA CallType ==
  ASSUME SubmissionTypeOK, NEW c \in Calls, Begin(c) \/ CallStep(c)
  PROVE  SubmissionTypeOK'
<1>. USE DEF SubmissionTypeOK, nodeVars, Ended
<1>1. CASE Begin(c)
  <2>1. pinned' \in [Calls -> (0..MaxNonce) \cup {NoNonce}]
    BY <1>1 DEF Begin
  <2>2. Once(c, 1)
    BY <1>1 DEF Begin
  <2>3. /\ tx' \in [Calls -> Extrinsics]
        /\ pc' \in [Calls -> {"idle", "nonce", "header", "hash", "sent", "asleep"} \cup Ended]
    BY <2>1, <2>2, OnceType
  <2>. QED
    BY <1>1, <2>1, <2>3 DEF Begin
<1>2. CASE GotNonce(c)
  <2>1. tx[c] \in Extrinsics /\ Nonce \in Nat
    BY DEF Nonce
  <2>2. PICK n \in Nonce..(Nonce + Cardinality(pool)) : tx' = [tx EXCEPT ![c].nonce = n]
    BY <1>2 DEF GotNonce
  <2>3. n \in Nat
    BY <2>1, <2>2
  <2>4. tx' \in [Calls -> Extrinsics]
    BY <2>1, <2>2, <2>3, FieldTypes
  <2>. QED
    BY <1>2, <2>4 DEF GotNonce
<1>3. CASE GotHeader(c)
  BY <1>3, FieldTypes DEF GotHeader
<1>4. CASE GotHash(c)
  <2>1. tx' \in [Calls -> Extrinsics]
    BY <1>4, FieldTypes DEF GotHash
  <2>2. left' \in [Calls -> 0..Pauses]
    BY <1>4, SubmissionAssumption DEF GotHash
  <2>3. net' \subseteq Extrinsics
    <3>1. net' = net \cup {tx'[c]}
      BY <1>4 DEF GotHash, Send
    <3>2. tx'[c] \in Extrinsics
      BY <2>1
    <3>. QED
      BY <3>1, <3>2
  <2>. QED
    BY <1>4, <2>1, <2>2, <2>3 DEF GotHash, Send
<1>5. CASE BuildFails(c)
  BY <1>5 DEF BuildFails
<1>6. CASE Answered(c)
  <2>1. CASE reply[c] = "ok"
    <3>1. left' \in [Calls -> 0..Pauses]
      BY <1>6, <2>1, SubmissionAssumption DEF Answered
    <3>. QED
      BY <1>6, <2>1, <3>1 DEF Answered
  <2>2. CASE reply[c] # "ok"
    <3>1. Retry(c, reply[c])
      BY <1>6, <2>2 DEF Answered
    <3>. QED
      BY <1>6, <3>1, RetryType DEF Answered
  <2>. QED
    BY <2>1, <2>2
<1>7. CASE ConnectionFails(c)
  BY <1>7, RetryType DEF ConnectionFails
<1>8. CASE Wake(c)
  BY <1>8 DEF Wake, Send
<1>. QED
  BY <1>1, <1>2, <1>3, <1>4, <1>5, <1>6, <1>7, <1>8 DEF CallStep

LEMMA StepType == SubmissionTypeOK /\ [SubmissionNext]_vars => SubmissionTypeOK'
<1>1. CASE UNCHANGED vars
  BY <1>1 DEF vars, nodeVars, callVars, SubmissionTypeOK
<1>. QED
  BY <1>1, NodeType, CallType DEF SubmissionNext

(* Node, client and calls are well typed in every reachable state. *)
THEOREM SubmissionTypeCorrect == SubmissionSpec => []SubmissionTypeOK
  BY InitType, StepType, PTL DEF SubmissionSpec

-----------------------------------------------------------------------------
(* What a step leaves alone *)

NodeStep == (\E x \in net : Import(x)) \/ Block \/ Upgrade \/ SetSpecVersion

(* A block adds nothing that was not in the pool. *)
LEMMA BlockFrame ==
  ASSUME SubmissionTypeOK, Block
  PROVE  /\ Range(included) \subseteq Range(included')
         /\ Range(included') \subseteq pool \cup Range(included)
         /\ pool' \subseteq pool
<1>1. pool' \subseteq pool
  BY DEF Block
<1>2. CASE UNCHANGED included
  BY <1>1, <1>2
<1>3. ASSUME NEW x \in pool, included' = Append(included, x)
      PROVE  Range(included') = Range(included) \cup {x}
  <2>1. x \in Extrinsics /\ included \in Seq(Extrinsics)
    BY DEF SubmissionTypeOK
  <2>. QED
    BY <1>3, <2>1, RangeAppend
<1>. QED
  BY <1>1, <1>2, <1>3 DEF Block

(* The node invents no extrinsic and does not touch the calls. *)
LEMMA NodeFrame ==
  ASSUME SubmissionTypeOK, NodeStep
  PROVE  Sent' \subseteq Sent /\ net' \subseteq net /\ UNCHANGED callVars
<1>1. ASSUME NEW x \in net, Import(x)
      PROVE  Sent' \subseteq Sent /\ net' \subseteq net /\ UNCHANGED callVars
  BY <1>1 DEF Import, Sent
<1>2. CASE Block
  BY <1>2, BlockFrame DEF Block, Sent
<1>3. CASE Upgrade
  BY <1>3 DEF Upgrade, Sent
<1>4. CASE SetSpecVersion
  BY <1>4 DEF SetSpecVersion, Sent, nodeVars
<1>. QED
  BY <1>1, <1>2, <1>3, <1>4 DEF NodeStep

(* A step of call c touches no other call, and sends nothing but tx[c]. *)
LEMMA CallFrame ==
  ASSUME SubmissionTypeOK, NEW c \in Calls, Begin(c) \/ CallStep(c)
  PROVE  /\ UNCHANGED <<height, included, pool, taken, runtime, spec>>
         /\ \A d \in Calls \ {c} :
              /\ pc'[d] = pc[d] /\ tx'[d] = tx[d] /\ reply'[d] = reply[d]
              /\ lost'[d] = lost[d] /\ pinned'[d] = pinned[d]
         /\ pc'[c] # "idle"
         /\ pc[c] # "idle" => UNCHANGED pinned
         /\ \/ UNCHANGED net /\ pc'[c] # "sent"
            \/ /\ GotHash(c) \/ Wake(c)
               /\ net' = net \cup {tx'[c]}
               /\ pc'[c] = "sent" /\ UNCHANGED <<reply, lost, pinned>>
<1>. USE DEF SubmissionTypeOK, nodeVars
<1>1. CASE Begin(c)
  BY <1>1 DEF Begin, Once
<1>2. CASE GotNonce(c)
  BY <1>2 DEF GotNonce
<1>3. CASE GotHeader(c)
  BY <1>3 DEF GotHeader
<1>4. CASE GotHash(c)
  BY <1>4 DEF GotHash, Send
<1>5. CASE BuildFails(c)
  BY <1>5 DEF BuildFails
<1>6. CASE Answered(c)
  BY <1>6 DEF Answered, Retry, Once
<1>7. CASE ConnectionFails(c)
  BY <1>7 DEF ConnectionFails, Retry, Once
<1>8. CASE Wake(c)
  BY <1>8 DEF Wake, Send
<1>. QED
  BY <1>1, <1>2, <1>3, <1>4, <1>5, <1>6, <1>7, <1>8 DEF CallStep

LEMMA SentHaveCalls == SubmissionTypeOK => \A x \in Sent : x.call \in Calls
<1>. SUFFICES ASSUME SubmissionTypeOK, NEW x \in Sent PROVE x.call \in Calls
  OBVIOUS
<1>1. x \in Extrinsics
  BY DEF SubmissionTypeOK, Sent, Range
<1>. QED
  BY <1>1 DEF Extrinsics

-----------------------------------------------------------------------------
(* PinnedInv *)

(* What a call's own step does to the extrinsic it is making. *)
LEMMA OwnDraft ==
  ASSUME SubmissionTypeOK, PinnedInv, NEW c \in Calls, Begin(c) \/ CallStep(c)
  PROVE  /\ tx'[c].call = c
         /\ pinned'[c] # NoNonce => pc'[c] # "nonce" /\ tx'[c].nonce = pinned'[c]
<1>. USE DEF SubmissionTypeOK, PinnedInv, nodeVars
<1>0. tx[c].call = c /\ tx[c] \in Extrinsics
  OBVIOUS
<1>1. CASE pinned' \in [Calls -> (0..MaxNonce) \cup {NoNonce}] /\ \E r \in 1..2 : Once(c, r)
  BY <1>1 DEF Once, Draft
<1>2. CASE Begin(c)
  <2>1. pinned' \in [Calls -> (0..MaxNonce) \cup {NoNonce}] /\ Once(c, 1)
    BY <1>2 DEF Begin
  <2>. QED
    BY <1>1, <2>1
<1>3. CASE GotNonce(c)
  <2>1. pinned[c] = NoNonce
    BY <1>3 DEF GotNonce
  <2>. QED
    BY <1>0, <1>3, <2>1 DEF GotNonce, Extrinsics
<1>4. CASE GotHeader(c)
  BY <1>0, <1>4 DEF GotHeader, Extrinsics
<1>5. CASE GotHash(c)
  BY <1>0, <1>5 DEF GotHash, Send, Extrinsics
<1>6. CASE BuildFails(c)
  BY <1>6 DEF BuildFails
<1>7. ASSUME NEW how, pc[c] = "sent", Retry(c, how)
      PROVE  /\ tx'[c].call = c
             /\ pinned'[c] # NoNonce => pc'[c] # "nonce" /\ tx'[c].nonce = pinned'[c]
  <2>1. CASE Once(c, 2)
    <3>1. UNCHANGED pinned
      BY <1>7, RetryEffect
    <3>. QED
      BY <1>1, <2>1, <3>1
  <2>2. CASE ~ Once(c, 2)
    <3>1. /\ UNCHANGED <<pinned, tx>>
          /\ pc' = [pc EXCEPT ![c] = "asleep"] \/ pc' = [pc EXCEPT ![c] = "error"]
      BY <1>7, <2>2, RetryEffect
    <3>. QED
      BY <1>0, <1>7, <3>1
  <2>. QED
    BY <2>1, <2>2
<1>8. CASE Answered(c)
  BY <1>7, <1>8 DEF Answered
<1>9. CASE ConnectionFails(c)
  BY <1>7, <1>9 DEF ConnectionFails
<1>10. CASE Wake(c)
  BY <1>10 DEF Wake, Send
<1>. QED
  BY <1>2, <1>3, <1>4, <1>5, <1>6, <1>8, <1>9, <1>10 DEF CallStep

LEMMA PinnedStep ==
  ASSUME SubmissionTypeOK, PinnedInv, NodeStep \/ \E c \in Calls : Begin(c) \/ CallStep(c)
  PROVE  PinnedInv'
<1>1. CASE NodeStep
  BY <1>1, NodeFrame DEF PinnedInv, callVars
<1>2. ASSUME NEW c \in Calls, Begin(c) \/ CallStep(c) PROVE PinnedInv'
  <2>1. /\ tx'[c].call = c
        /\ pinned'[c] # NoNonce => pc'[c] # "nonce" /\ tx'[c].nonce = pinned'[c]
    BY <1>2, OwnDraft
  <2>2. /\ \A d \in Calls \ {c} :
             pc'[d] = pc[d] /\ tx'[d] = tx[d] /\ pinned'[d] = pinned[d]
        /\ pc'[c] # "idle"
        /\ pc[c] # "idle" => UNCHANGED pinned
        /\ Sent' \subseteq Sent \cup {tx'[c]}
    BY <1>2, CallFrame DEF Sent
  <2>3. ASSUME NEW x \in Sent'
        PROVE  /\ pinned'[x.call] # NoNonce => x.nonce = pinned'[x.call]
               /\ pc'[x.call] # "idle"
    <3>1. CASE x = tx'[c]
      BY <2>1, <2>2, <3>1
    <3>2. CASE x \in Sent /\ x.call = c
      BY <2>2, <3>2 DEF PinnedInv
    <3>3. CASE x \in Sent /\ x.call # c
      <4>1. x.call \in Calls \ {c}
        BY <3>3, SentHaveCalls
      <4>. QED
        BY <2>2, <3>3, <4>1 DEF PinnedInv
    <3>. QED
      BY <2>2, <3>1, <3>2, <3>3
  <2>4. \A d \in Calls :
          /\ tx'[d].call = d
          /\ pinned'[d] # NoNonce /\ pc'[d] # "idle" =>
               pc'[d] # "nonce" /\ tx'[d].nonce = pinned'[d]
    BY <2>1, <2>2 DEF PinnedInv
  <2>. QED
    BY <2>3, <2>4 DEF PinnedInv
<1>. QED
  BY <1>1, <1>2

-----------------------------------------------------------------------------
(* NonceInv: only the node's steps touch the pool and the chain. *)

LEMMA NonceStep ==
  ASSUME SubmissionTypeOK, NonceInv, NodeStep \/ \E c \in Calls : Begin(c) \/ CallStep(c)
  PROVE  NonceInv'
<1>1. CASE UNCHANGED <<included, pool>>
  BY <1>1 DEF NonceInv, Nonce
<1>2. ASSUME NEW x \in net, Import(x) PROVE NonceInv'
  <2>1. x \in Extrinsics /\ x.nonce \in Nat /\ Nonce \in Nat
    BY DEF SubmissionTypeOK, Extrinsics, Nonce
  <2>2. CASE "ok" \in Verdicts(x)
    <3>1. x.nonce >= Nonce
      BY <2>1, <2>2 DEF Verdicts
    <3>2. UNCHANGED included /\ pool' \subseteq pool \cup {x}
      BY <1>2 DEF Import
    <3>. QED
      BY <3>1, <3>2 DEF NonceInv, Nonce
  <2>3. CASE "ok" \notin Verdicts(x)
    BY <1>1, <1>2, <2>3 DEF Import
  <2>. QED
    BY <2>2, <2>3
<1>3. CASE Block
  <2>1. pool' \subseteq pool /\ \A y \in pool' : y.nonce >= Nonce'
    BY <1>3 DEF Block, Nonce
  <2>2. ASSUME NEW x \in pool, x.nonce = Nonce, included' = Append(included, x)
        PROVE  \A i \in 1..Len(included') : included'[i].nonce = i - 1
    <3>1. x \in Extrinsics /\ included \in Seq(Extrinsics)
      BY DEF SubmissionTypeOK
    <3>2. /\ Len(included') = Len(included) + 1 /\ Len(included) \in Nat
          /\ \A i \in 1..Len(included) : included'[i] = included[i]
          /\ included'[Len(included) + 1] = x
      BY <2>2, <3>1
    <3>. QED
      BY <2>2, <3>2 DEF NonceInv, Nonce
  <2>3. \A i \in 1..Len(included') : included'[i].nonce = i - 1
    BY <1>3, <2>2 DEF Block, NonceInv
  <2>. QED
    BY <2>1, <2>3 DEF NonceInv
<1>4. CASE Upgrade
  BY <1>4 DEF Upgrade, NonceInv, Nonce
<1>5. CASE SetSpecVersion
  BY <1>1, <1>5 DEF SetSpecVersion, nodeVars
<1>6. ASSUME NEW c \in Calls, Begin(c) \/ CallStep(c) PROVE NonceInv'
  BY <1>1, <1>6, CallFrame
<1>. QED
  BY <1>2, <1>3, <1>4, <1>5, <1>6 DEF NodeStep

-----------------------------------------------------------------------------
(* KnownInv *)

(* The node answers the request of x's call, and puts x into the pool or    *)
(* forgets it.                                                              *)
LEMMA ImportKnown ==
  ASSUME SubmissionTypeOK, KnownInv, NEW x \in net, Import(x)
  PROVE  KnownInv'
<1>. USE DEF SubmissionTypeOK, callVars
<1>1. x \in Extrinsics /\ x.call \in Calls
  BY DEF Extrinsics
<1>2. PICK v \in Verdicts(x) :
        /\ pool' \subseteq pool \cup {x} /\ (v # "ok" => pool' = pool)
        /\ reply' = IF pc[x.call] = "sent" /\ tx[x.call] = x
                    THEN [reply EXCEPT ![x.call] = v] ELSE reply
  BY DEF Import
<1>3. net' = net \ {x} /\ UNCHANGED <<included, pc, pinned, tx, left, lost>>
  BY DEF Import
<1>4. ASSUME NEW d \in Calls, pc'[d] # "sent" PROVE reply'[d] = "none"
  BY <1>1, <1>2, <1>3, <1>4 DEF KnownInv
<1>5. ASSUME NEW d \in Calls, ~ lost'[d], d # x.call PROVE Known(d)'
  BY <1>1, <1>2, <1>3, <1>5 DEF KnownInv, Known, Sent
<1>6. ASSUME NEW d \in Calls, ~ lost'[d], d = x.call PROVE Known(d)'
  <2>1. /\ pc[d] = "sent" /\ reply[d] = "none" /\ x = tx[d]
        /\ \A y \in Sent : y.call = d => y = x
        /\ x \notin pool \cup Range(included)
    BY <1>3, <1>6 DEF KnownInv, Known, Sent
  <2>2. /\ \A y \in pool \cup Range(included) : y.call # d
        /\ \A y \in net' : y.call # d
    BY <1>3, <2>1 DEF Sent
  <2>3. reply'[d] = v
    BY <1>1, <1>2, <1>6, <2>1
  <2>. QED
    BY <1>2, <1>3, <2>1, <2>2, <2>3 DEF Known, Sent
<1>. QED
  BY <1>4, <1>5, <1>6 DEF KnownInv

LEMMA NodeKnown ==
  ASSUME SubmissionTypeOK, KnownInv, NodeStep
  PROVE  KnownInv'
<1>1. CASE UNCHANGED <<callVars, net, reply>> /\ pool' \cup Range(included') \subseteq pool \cup Range(included)
  BY <1>1 DEF KnownInv, Known, Sent, callVars
<1>2. CASE Block
  BY <1>1, <1>2, BlockFrame DEF Block
<1>3. CASE Upgrade
  BY <1>1, <1>3 DEF Upgrade
<1>4. CASE SetSpecVersion
  BY <1>1, <1>4 DEF SetSpecVersion, nodeVars
<1>. QED
  BY <1>2, <1>3, <1>4, ImportKnown DEF NodeStep

(* The step of call c, about c itself. *)
LEMMA OwnKnown ==
  ASSUME SubmissionTypeOK, PinnedInv, KnownInv, NEW c \in Calls, Begin(c) \/ CallStep(c)
  PROVE  /\ pc'[c] # "sent" => reply'[c] = "none"
         /\ ~ lost'[c] => Known(c)'
<1>. USE DEF SubmissionTypeOK, nodeVars
<1>1. UNCHANGED <<pool, included>>
  BY CallFrame
<1>2. ASSUME \A x \in Sent : x.call # c, UNCHANGED net
      PROVE  Known(c)'
  BY <1>1, <1>2 DEF Known, Sent
<1>3. ASSUME ~ lost[c], pc[c] \notin {"sent", "ok"}
      PROVE  \A x \in Sent : x.call # c
  BY <1>3 DEF KnownInv, Known
<1>4. CASE GotHash(c) \/ Wake(c)
  <2>1. /\ net' = net \cup {tx'[c]}
        /\ pc'[c] = "sent" /\ UNCHANGED <<reply, lost>>
        /\ pc[c] \in {"hash", "asleep"}
    BY <1>4 DEF GotHash, Wake, Send
  <2>2. reply[c] = "none"
    BY <2>1 DEF KnownInv
  <2>3. tx'[c].call = c
    BY OwnDraft
  <2>4. ASSUME ~ lost[c] PROVE Known(c)'
    <3>1. \A x \in Sent : x.call # c
      BY <1>3, <2>1, <2>4
    <3>. QED
      BY <1>1, <2>1, <2>2, <2>3, <3>1 DEF Known, Sent
  <2>. QED
    BY <2>1, <2>4
<1>5. CASE Begin(c) \/ GotNonce(c) \/ GotHeader(c) \/ BuildFails(c)
  <2>1. /\ pc[c] \notin {"sent", "ok"} /\ UNCHANGED <<net, reply, lost>>
    BY <1>5 DEF Begin, GotNonce, GotHeader, BuildFails
  <2>2. reply'[c] = "none"
    BY <2>1 DEF KnownInv
  <2>. QED
    BY <1>2, <1>3, <2>1, <2>2
<1>6. CASE Answered(c)
  <2>1. pc[c] = "sent" /\ reply[c] # "none" /\ reply'[c] = "none" /\ UNCHANGED <<net, lost>>
    BY <1>6 DEF Answered
  <2>2. CASE reply[c] = "ok"
    <3>1. pc'[c] = "ok" /\ UNCHANGED tx
      BY <1>6, <2>2 DEF Answered
    <3>2. ~ lost[c] => Known(c)
      BY DEF KnownInv
    <3>. QED
      BY <1>1, <2>1, <2>2, <3>1, <3>2 DEF Known, Sent
  <2>3. CASE reply[c] # "ok"
    <3>1. ~ lost[c] => \A x \in Sent : x.call # c
      BY <2>1, <2>3 DEF KnownInv, Known, Sent
    <3>. QED
      BY <1>2, <2>1, <3>1
  <2>. QED
    BY <2>2, <2>3
<1>7. CASE ConnectionFails(c)
  BY <1>7 DEF ConnectionFails
<1>. QED
  BY <1>4, <1>5, <1>6, <1>7 DEF CallStep

LEMMA KnownStep ==
  ASSUME SubmissionTypeOK, PinnedInv, KnownInv,
         NodeStep \/ \E c \in Calls : Begin(c) \/ CallStep(c)
  PROVE  KnownInv'
<1>1. ASSUME NEW c \in Calls, Begin(c) \/ CallStep(c) PROVE KnownInv'
  <2>1. /\ UNCHANGED <<included, pool>>
        /\ \A d \in Calls \ {c} :
             /\ pc'[d] = pc[d] /\ tx'[d] = tx[d] /\ reply'[d] = reply[d]
             /\ lost'[d] = lost[d]
        /\ net \subseteq net' /\ net' \subseteq net \cup {tx'[c]}
        /\ tx'[c].call = c
    BY <1>1, CallFrame, OwnDraft
  <2>2. ASSUME NEW d \in Calls \ {c}
        PROVE  /\ pc'[d] # "sent" => reply'[d] = "none"
               /\ ~ lost'[d] => Known(d)'
    BY <2>1 DEF KnownInv, Known, Sent
  <2>. QED
    BY <1>1, <2>2, OwnKnown DEF KnownInv
<1>. QED
  BY <1>1, NodeKnown

-----------------------------------------------------------------------------
(* VersionInv *)

LEMMA VersionStep ==
  ASSUME SubmissionTypeOK, VersionInv, NodeStep \/ \E c \in Calls : Begin(c) \/ CallStep(c)
  PROVE  VersionInv'
<1>. USE DEF SubmissionTypeOK, nodeVars, callVars
<1>0. \A c \in Calls : tx[c] \in Extrinsics /\ tx[c].version \in Nat
  BY DEF Extrinsics
<1>1. CASE NodeStep
  <2>1. UNCHANGED tx /\ runtime <= runtime' /\ spec' <= runtime'
    BY <1>1 DEF NodeStep, Import, Block, Upgrade, SetSpecVersion, VersionInv
  <2>2. runtime \in Nat /\ runtime' \in Nat /\ {runtime', spec'} \subseteq 0..1
    BY <1>1, NodeType DEF NodeStep
  <2>. HIDE DEF SubmissionTypeOK
  <2>3. ASSUME NEW c \in Calls PROVE tx'[c].version <= runtime'
    <3>1. tx[c].version <= runtime
      BY DEF VersionInv
    <3>2. tx[c].version \in Nat
      BY <1>0
    <3>. QED
      BY <2>1, <2>2, <3>1, <3>2
  <2>4. \A x \in Sent' : x \in Sent /\ x \in Extrinsics
    <3>1. Sent' \subseteq Sent
      BY <1>1, NodeFrame
    <3>2. Sent \subseteq Extrinsics
      BY DEF Sent, SubmissionTypeOK, Range
    <3>. QED
      BY <3>1, <3>2
  <2>5. ASSUME NEW x \in Sent' PROVE x.version <= runtime'
    <3>1. x.version <= runtime
      BY <2>4 DEF VersionInv
    <3>2. x.version \in Nat
      BY <2>4 DEF Extrinsics
    <3>. QED
      BY <2>1, <2>2, <3>1, <3>2
  <2>. QED
    BY <2>1, <2>3, <2>5 DEF VersionInv
<1>2. ASSUME NEW c \in Calls, Begin(c) \/ CallStep(c) PROVE VersionInv'
  <2>1. /\ UNCHANGED <<runtime, spec>>
        /\ \A d \in Calls \ {c} : tx'[d] = tx[d]
    BY <1>2, CallFrame
  <2>2. ASSUME NEW r \in 1..2, Once(c, r) PROVE tx'[c].version = 0
    BY <2>2 DEF Once, Draft
  <2>3. ASSUME NEW how, Retry(c, how) PROVE tx'[c] = tx[c] \/ tx'[c].version = 0
    BY <2>2, <2>3, RetryEffect
  <2>4. tx'[c].version \in {0, spec, tx[c].version}
    <3>1. CASE Begin(c)
      BY <2>2, <3>1 DEF Begin
    <3>2. CASE GotHash(c)
      BY <1>0, <3>2 DEF GotHash, Extrinsics
    <3>3. CASE GotNonce(c) \/ GotHeader(c)
      BY <1>0, <3>3 DEF GotNonce, GotHeader, Extrinsics
    <3>4. CASE Answered(c) \/ ConnectionFails(c)
      BY <2>3, <3>4 DEF Answered, ConnectionFails
    <3>5. CASE BuildFails(c) \/ Wake(c)
      BY <3>5 DEF BuildFails, Wake
    <3>. QED
      BY <1>2, <3>1, <3>2, <3>3, <3>4, <3>5 DEF CallStep
  <2>5. spec \in Nat /\ runtime \in Nat /\ spec <= runtime /\ tx[c].version <= runtime
    BY DEF VersionInv
  <2>6. tx'[c].version <= runtime
    BY <2>4, <2>5
  <2>7. Sent' \subseteq Sent \cup {tx'[c]}
    BY <1>2, CallFrame DEF Sent
  <2>8. \A x \in Sent' : x.version <= runtime
    BY <2>6, <2>7 DEF VersionInv
  <2>. QED
    BY <2>1, <2>5, <2>6, <2>8 DEF VersionInv
<1>. QED
  BY <1>1, <1>2

-----------------------------------------------------------------------------
(* What is spent stays so *)

(* What can no longer be included stays so. *)
LEMMA DeadStays ==
  ASSUME SubmissionTypeOK, NodeStep, NEW x \in Extrinsics, x.version <= runtime, ~ Alive(x)
  PROVE  ~ Alive(x)'
<1>1. /\ x.version \in Nat /\ x.birth \in Nat
      /\ height \in Nat /\ EraPeriod \in Nat
  BY SubmissionAssumption DEF SubmissionTypeOK, Extrinsics
<1>2. CASE Upgrade
  BY <1>1, <1>2 DEF Upgrade, Alive
<1>3. CASE Block
  BY <1>1, <1>3 DEF Block, Alive
<1>4. CASE UNCHANGED <<height, runtime>>
  BY <1>4 DEF Alive
<1>. QED
  BY <1>2, <1>3, <1>4 DEF NodeStep, Import, SetSpecVersion, nodeVars

(* The account's nonce only grows. *)
LEMMA NonceGrows ==
  ASSUME SubmissionTypeOK, NodeStep
  PROVE  Nonce \in Nat /\ Nonce' \in Nat /\ Nonce <= Nonce'
<1>1. included \in Seq(Extrinsics) /\ pool \subseteq Extrinsics
  BY DEF SubmissionTypeOK
<1>2. CASE UNCHANGED included
  BY <1>1, <1>2 DEF Nonce
<1>3. ASSUME NEW x \in pool, included' = Append(included, x)
      PROVE  Nonce \in Nat /\ Nonce' = Nonce + 1
  BY <1>1, <1>3 DEF Nonce
<1>. QED
  BY <1>2, <1>3 DEF NodeStep, Import, Block, Upgrade, SetSpecVersion, nodeVars

LEMMA SpentStays ==
  ASSUME SubmissionTypeOK, NodeStep, NEW x \in Extrinsics, x.version <= runtime, Spent(x)
  PROVE  Spent(x)'
<1>1. CASE ~ Alive(x)
  BY <1>1, DeadStays DEF Spent
<1>2. CASE x.nonce < Nonce
  <2>1. x.nonce \in Nat
    BY DEF Extrinsics
  <2>2. x.nonce < Nonce'
    BY <1>2, <2>1, NonceGrows
  <2>. QED
    BY <2>2 DEF Spent
<1>. QED
  BY <1>1, <1>2 DEF Spent

-----------------------------------------------------------------------------
(* SpentInv *)

(* An extrinsic that is refused with code 1010 is spent. *)
LEMMA InvalidIsSpent ==
  ASSUME SubmissionTypeOK, NonceInv, NEW x \in Extrinsics, "invalid" \in Verdicts(x)
  PROVE  Spent(x)
<1>1. CASE x \in Range(included)
  <2>1. PICK i \in DOMAIN included : x = included[i]
    BY <1>1 DEF Range
  <2>2. included \in Seq(Extrinsics)
    BY DEF SubmissionTypeOK
  <2>3. i \in 1..Len(included) /\ Len(included) \in Nat
    BY <2>1, <2>2
  <2>4. x.nonce = i - 1
    BY <2>1, <2>3 DEF NonceInv
  <2>. QED
    BY <2>3, <2>4 DEF Spent, Nonce
<1>2. CASE x \notin Range(included)
  BY <1>2 DEF Verdicts, Spent
<1>. QED
  BY <1>1, <1>2

LEMMA NodeSpent ==
  ASSUME SubmissionTypeOK, NonceInv, VersionInv, SpentInv, NodeStep
  PROVE  SpentInv'
<1>1. Sent' \subseteq Sent /\ UNCHANGED <<pc, tx>>
  BY NodeFrame DEF callVars
<1>2. \A x \in Sent : x \in Extrinsics /\ x.version <= runtime
  BY DEF SubmissionTypeOK, Sent, Range, VersionInv
<1>3. \A c \in Calls : tx[c] \in Extrinsics /\ tx[c].version <= runtime
  BY DEF SubmissionTypeOK, VersionInv
<1>4. ASSUME NEW x \in Sent',
             x # tx'[x.call] \/ pc'[x.call] \in {"nonce", "header", "hash"}
      PROVE  Spent(x)'
  <2>1. Spent(x)
    BY <1>1, <1>4 DEF SpentInv
  <2>. QED
    BY <1>1, <1>2, <2>1, SpentStays
<1>5. ASSUME NEW c \in Calls, pc'[c] = "sent", reply'[c] = "invalid"
      PROVE  Spent(tx[c])'
  <2>1. CASE reply[c] = "invalid"
    <3>1. Spent(tx[c])
      BY <1>1, <1>5, <2>1 DEF SpentInv
    <3>2. PICK x \in Extrinsics : x = tx[c]
      BY <1>3
    <3>3. Spent(x) /\ x.version <= runtime
      BY <1>3, <3>1, <3>2 DEF Spent, Alive
    <3>4. Spent(x)'
      BY <3>3, SpentStays
    <3>. QED
      BY <1>1, <3>2, <3>4 DEF Spent, Alive, Nonce
  <2>2. CASE reply[c] # "invalid"
    <3>1. PICK x \in net : Import(x)
      BY <1>5, <2>2 DEF NodeStep, Block, Upgrade, SetSpecVersion
    <3>2. tx[c] = x /\ "invalid" \in Verdicts(x)
      BY <1>5, <2>2, <3>1 DEF Import, SubmissionTypeOK
    <3>3. Spent(x)
      BY <1>3, <3>2, InvalidIsSpent
    <3>4. UNCHANGED <<height, included, runtime>>
      BY <3>1 DEF Import
    <3>. QED
      BY <1>1, <3>2, <3>3, <3>4 DEF Spent, Alive, Nonce
  <2>. QED
    BY <2>1, <2>2
<1>. QED
  BY <1>4, <1>5 DEF SpentInv

(* What a step of call c leaves of it behind is spent, unless it is tx[c]. *)
LEMMA OwnSpent ==
  ASSUME SubmissionTypeOK, PinnedInv, SpentInv, NEW c \in Calls, Begin(c) \/ CallStep(c),
         NEW x \in Sent', x.call = c,
         x # tx'[c] \/ pc'[c] \in {"nonce", "header", "hash"}
  PROVE  Spent(x)
<1>. USE DEF SubmissionTypeOK, nodeVars
<1>1. x \in Sent \/ (x = tx'[c] /\ pc'[c] = "sent")
  BY CallFrame DEF Sent
<1>2. x \in Sent /\ pc[c] # "idle"
  BY <1>1 DEF PinnedInv
<1>3. CASE pc[c] \in {"nonce", "header", "hash"}
  BY <1>2, <1>3 DEF SpentInv
<1>4. CASE x # tx[c]
  BY <1>2, <1>4 DEF SpentInv
<1>5. CASE pc[c] \in {"sent", "asleep"} /\ x = tx[c]
  <2>1. ASSUME NEW how, Retry(c, how) PROVE how = "invalid"
    BY <1>5, <2>1, RetryEffect
  <2>2. CASE Answered(c)
    <3>1. reply[c] # "ok"
      BY <1>5, <2>2 DEF Answered
    <3>2. Retry(c, reply[c]) /\ pc[c] = "sent"
      BY <2>2, <3>1 DEF Answered
    <3>. QED
      BY <1>5, <2>1, <3>2 DEF SpentInv
  <2>3. CASE ConnectionFails(c)
    BY <2>1, <2>3 DEF ConnectionFails
  <2>4. CASE Wake(c)
    BY <1>5, <2>4 DEF Wake, Send
  <2>. QED
    BY <1>5, <2>2, <2>3, <2>4
       DEF Begin, CallStep, GotNonce, GotHeader, GotHash, BuildFails
<1>6. pc[c] \in {"nonce", "header", "hash", "sent", "asleep"}
  BY <1>2 DEF Begin, CallStep, GotNonce, GotHeader, GotHash, BuildFails, Answered,
              ConnectionFails, Wake
<1>. QED
  BY <1>3, <1>4, <1>5, <1>6

LEMMA SpentStep ==
  ASSUME SubmissionTypeOK, PinnedInv, NonceInv, KnownInv, VersionInv, SpentInv,
         NodeStep \/ \E c \in Calls : Begin(c) \/ CallStep(c)
  PROVE  SpentInv'
<1>1. ASSUME NEW c \in Calls, Begin(c) \/ CallStep(c) PROVE SpentInv'
  <2>1. /\ UNCHANGED <<height, included, runtime>>
        /\ \A d \in Calls \ {c} :
             pc'[d] = pc[d] /\ tx'[d] = tx[d] /\ reply'[d] = reply[d]
        /\ Sent' \subseteq Sent \cup {tx'[c]}
    BY <1>1, CallFrame DEF Sent
  <2>2. tx'[c].call = c
    BY <1>1, OwnDraft
  <2>3. ASSUME NEW x \in Sent',
               x # tx'[x.call] \/ pc'[x.call] \in {"nonce", "header", "hash"}
        PROVE  Spent(x)'
    <3>1. CASE x.call = c
      <4>1. Spent(x)
        BY <1>1, <2>3, <3>1, OwnSpent
      <4>. QED
        BY <2>1, <4>1 DEF Spent, Alive, Nonce
    <3>2. CASE x.call # c
      <4>1. x \in Sent /\ x.call \in Calls \ {c}
        BY <2>1, <2>2, <3>2, SentHaveCalls
      <4>2. Spent(x)
        BY <2>1, <2>3, <4>1 DEF SpentInv
      <4>. QED
        BY <2>1, <4>2 DEF Spent, Alive, Nonce
    <3>. QED
      BY <3>1, <3>2
  <2>4. ASSUME NEW d \in Calls, pc'[d] = "sent", reply'[d] = "invalid"
        PROVE  Spent(tx[d])'
    <3>1. CASE d # c
      BY <2>1, <2>4, <3>1 DEF SpentInv, Spent, Alive, Nonce
    <3>2. CASE d = c
      <4>1. (GotHash(c) \/ Wake(c)) /\ reply' = reply
        BY <1>1, <2>4, <3>2, CallFrame
      <4>2. reply[c] = "none"
        BY <4>1 DEF GotHash, Wake, KnownInv
      <4>. QED
        BY <2>4, <3>2, <4>1, <4>2
    <3>. QED
      BY <3>1, <3>2
  <2>. QED
    BY <2>3, <2>4 DEF SpentInv
<1>. QED
  BY <1>1, NodeSpent

-----------------------------------------------------------------------------
(* TakenInv *)

(* What the node takes next to tx[c], with its nonce, is another call's. *)
LEMMA RivalIsOthers ==
  ASSUME PinnedInv, SpentInv, NEW c \in Calls, NEW x \in Sent, x # tx[c], ~ Spent(x)
  PROVE  x.call # tx[c].call
BY DEF PinnedInv, SpentInv

(* What the node has taken it drops only once it is useless or contested. *)
LEMMA TakenStays ==
  ASSUME SubmissionTypeOK, PinnedInv, NonceInv, VersionInv, SpentInv, NodeStep,
         NEW c \in Calls, Taken(c)
  PROVE  Taken(c)'
<1>1. UNCHANGED tx /\ taken \subseteq taken' /\ tx[c] \in taken
  BY NodeFrame DEF callVars, NodeStep, Import, Block, Upgrade, SetSpecVersion, nodeVars, Taken
<1>2. tx[c] \in Extrinsics /\ tx[c].version <= runtime
  BY DEF SubmissionTypeOK, VersionInv
<1>3. CASE ~ Alive(tx[c])
  <2>1. PICK x \in Extrinsics : x = tx[c]
    BY <1>2
  <2>2. ~ Alive(x)'
    BY <1>2, <1>3, <2>1, DeadStays
  <2>. QED
    BY <1>1, <2>1, <2>2 DEF Taken, Alive
<1>4. CASE Contested(tx[c])
  BY <1>1, <1>4 DEF Taken, Contested
<1>5. CASE tx[c] \in pool \cup Range(included) /\ Alive(tx[c])
  <2>1. ASSUME NEW x \in net, Import(x) PROVE Taken(c)'
    <3>1. UNCHANGED included
      BY <2>1 DEF Import
    <3>2. CASE tx[c] \in pool' \cup Range(included)
      BY <1>1, <3>1, <3>2 DEF Taken
    <3>3. CASE tx[c] \in pool \ pool'
      <4>1. "ok" \in Verdicts(x) /\ tx[c] \in Rivals(x) /\ x \in pool' /\ x \in taken'
        BY <2>1, <3>3 DEF Import
      <4>2. ~ Spent(x)
        BY <4>1 DEF Verdicts, Spent
      <4>3. x.call # tx[c].call
        BY <3>3, <4>1, <4>2, RivalIsOthers DEF Sent
      <4>4. x.nonce = tx[c].nonce
        BY <4>1 DEF Rivals
      <4>. QED
        BY <1>1, <4>1, <4>3, <4>4 DEF Taken, Contested
    <3>. QED
      BY <1>5, <3>2, <3>3
  <2>2. CASE Block
    <3>1. CASE tx[c] \in Range(included)
      BY <1>1, <2>2, <3>1, BlockFrame DEF Taken
    <3>2. CASE tx[c] \in pool'
      BY <1>1, <3>2 DEF Taken
    <3>3. CASE tx[c] \in pool \ pool'
      <4>1. tx[c].nonce \in Nat /\ tx[c].birth \in Nat /\ tx[c].nonce >= Nonce
        BY <1>2, <3>3 DEF Extrinsics, NonceInv
      <4>2. height \in Nat /\ height' = height + 1 /\ EraPeriod \in Nat /\ Nonce \in Nat
        BY <2>2, SubmissionAssumption DEF Block, SubmissionTypeOK, Nonce
      <4>3. CASE ~ (height + 2 < tx[c].birth + EraPeriod)
        <5>1. ~ (height' + 1 < tx'[c].birth + EraPeriod)
          BY <1>1, <4>1, <4>2, <4>3
        <5>. QED
          BY <1>1, <5>1 DEF Taken, Alive
      <4>4. CASE tx[c].nonce < Len(included')
        <5>1. included' # included
          BY <4>1, <4>4 DEF Nonce
        <5>2. PICK x \in pool :
                x.nonce = Nonce /\ Alive(x) /\ included' = Append(included, x)
          BY <2>2, <5>1 DEF Block
        <5>3. x \in Extrinsics /\ included \in Seq(Extrinsics) /\ x \in taken
          BY DEF SubmissionTypeOK
        <5>4. Len(included') = Nonce + 1 /\ x \in Range(included')
          BY <5>2, <5>3, RangeAppend DEF Nonce
        <5>5. tx[c].nonce = x.nonce
          BY <4>1, <4>2, <4>4, <5>2, <5>4
        <5>6. CASE x = tx[c]
          BY <1>1, <5>4, <5>6 DEF Taken
        <5>7. CASE x # tx[c]
          <6>1. ~ Spent(x)
            BY <4>2, <5>2 DEF Spent
          <6>2. x.call # tx[c].call
            BY <5>7, <6>1, RivalIsOthers DEF Sent
          <6>. QED
            BY <1>1, <5>3, <5>5, <6>2 DEF Taken, Contested
        <5>. QED
          BY <5>6, <5>7
      <4>5. Len(included') \in Nat
        BY <2>2, NodeType DEF SubmissionTypeOK
      <4>. QED
        BY <2>2, <3>3, <4>1, <4>3, <4>4, <4>5 DEF Block
    <3>. QED
      BY <1>5, <3>1, <3>2, <3>3
  <2>3. CASE Upgrade
    <3>1. CASE tx[c] \in Range(included)
      BY <1>1, <2>3, <3>1 DEF Upgrade, Taken
    <3>2. CASE tx[c] \notin Range(included)
      <4>1. tx[c].version <= 0 /\ runtime' = 1
        BY <1>2, <2>3 DEF Upgrade
      <4>2. tx[c].version # 1
        BY <4>1
      <4>. QED
        BY <1>1, <4>1, <4>2 DEF Taken, Alive
    <3>. QED
      BY <3>1, <3>2
  <2>4. CASE SetSpecVersion
    BY <1>1, <1>5, <2>4 DEF SetSpecVersion, nodeVars, Taken
  <2>. QED
    BY <2>1, <2>2, <2>3, <2>4 DEF NodeStep
<1>. QED
  BY <1>3, <1>4, <1>5 DEF Taken

LEMMA TakenStep ==
  ASSUME SubmissionTypeOK, PinnedInv, NonceInv, KnownInv, VersionInv, SpentInv, TakenInv,
         NodeStep \/ \E c \in Calls : Begin(c) \/ CallStep(c)
  PROVE  TakenInv'
<1>. USE DEF SubmissionTypeOK, callVars, nodeVars
<1>1. ASSUME NodeStep,
             NEW d \in Calls, pc'[d] = "ok" \/ (pc'[d] = "sent" /\ reply'[d] = "ok")
      PROVE  Taken(d)'
  <2>1. UNCHANGED <<pc, tx>>
    BY <1>1, NodeFrame
  <2>2. CASE pc[d] = "ok" \/ (pc[d] = "sent" /\ reply[d] = "ok")
    BY <1>1, <2>2, TakenStays DEF TakenInv
  <2>3. CASE pc[d] = "sent" /\ reply[d] # "ok" /\ reply'[d] = "ok"
    <3>1. PICK x \in net : Import(x)
      BY <1>1, <2>3 DEF NodeStep, Block, Upgrade, SetSpecVersion
    <3>2. PICK v \in Verdicts(x) :
            /\ v = "ok" => x \in pool' /\ x \in taken'
            /\ reply' = IF pc[x.call] = "sent" /\ tx[x.call] = x
                        THEN [reply EXCEPT ![x.call] = v] ELSE reply
      BY <3>1 DEF Import
    <3>3. x.call = d /\ tx[d] = x /\ v = "ok"
      BY <2>3, <3>2
    <3>. QED
      BY <2>1, <3>2, <3>3 DEF Taken
  <2>. QED
    BY <1>1, <2>1, <2>2, <2>3
<1>2. ASSUME NEW c \in Calls, Begin(c) \/ CallStep(c),
             NEW d \in Calls, pc'[d] = "ok" \/ (pc'[d] = "sent" /\ reply'[d] = "ok")
      PROVE  Taken(d)'
  <2>1. UNCHANGED <<height, included, pool, taken, runtime>>
    BY <1>2, CallFrame
  <2>2. CASE d # c
    <3>1. pc'[d] = pc[d] /\ tx'[d] = tx[d] /\ reply'[d] = reply[d]
      BY <1>2, <2>2, CallFrame
    <3>2. Taken(d)
      BY <1>2, <3>1 DEF TakenInv
    <3>. QED
      BY <2>1, <3>1, <3>2 DEF Taken, Contested, Alive
  <2>3. CASE d = c /\ pc'[c] = "ok"
    <3>1. pc[c] = "sent" /\ reply[c] = "ok" /\ UNCHANGED tx
      BY <1>2, <2>3 DEF Begin, CallStep, GotNonce, GotHeader, GotHash, BuildFails,
                         Answered, ConnectionFails, Wake, Send, Retry, Once
    <3>2. Taken(c)
      BY <3>1 DEF TakenInv
    <3>. QED
      BY <2>1, <2>3, <3>1, <3>2 DEF Taken, Contested, Alive
  <2>4. CASE d = c /\ pc'[c] = "sent"
    <3>1. (GotHash(c) \/ Wake(c)) /\ reply' = reply
      BY <1>2, <2>4, CallFrame
    <3>2. reply[c] = "none"
      BY <3>1 DEF GotHash, Wake, KnownInv
    <3>. QED
      BY <1>2, <2>4, <3>1, <3>2
  <2>. QED
    BY <1>2, <2>2, <2>3, <2>4
<1>. QED
  BY <1>1, <1>2 DEF TakenInv

-----------------------------------------------------------------------------
(* The inductive invariant *)

LEMMA InitInv == SubmissionInit => SInv
<1>. SUFFICES ASSUME SubmissionInit PROVE SInv
  OBVIOUS
<1>1. SubmissionTypeOK
  BY InitType
<1>2. Sent = {} /\ Nonce = 0
  BY DEF SubmissionInit, Sent, Range, Nonce
<1>3. \A c \in Calls : tx[c].call = c /\ tx[c].version = 0
  BY DEF SubmissionInit, Draft
<1>4. PinnedInv /\ NonceInv
  BY <1>2, <1>3 DEF SubmissionInit, PinnedInv, NonceInv
<1>5. KnownInv /\ VersionInv /\ SpentInv /\ TakenInv
  BY <1>2, <1>3 DEF SubmissionInit, KnownInv, Known, Sent, VersionInv, SpentInv, TakenInv
<1>. QED
  BY <1>1, <1>4, <1>5 DEF SInv

LEMMA StepInv == SInv /\ [SubmissionNext]_vars => SInv'
<1>. SUFFICES ASSUME SInv, [SubmissionNext]_vars PROVE SInv'
  OBVIOUS
<1>1. CASE UNCHANGED vars
  BY <1>1 DEF vars, nodeVars, callVars, SInv, SubmissionTypeOK, PinnedInv, NonceInv,
              KnownInv, Known, Sent, VersionInv, SpentInv, Spent, TakenInv, Taken, Contested,
              Alive, Nonce
<1>2. CASE SubmissionNext
  <2>1. NodeStep \/ \E c \in Calls : Begin(c) \/ CallStep(c)
    BY <1>2 DEF SubmissionNext, NodeStep
  <2>2. SubmissionTypeOK'
    BY StepType DEF SInv
  <2>. QED
    BY <2>1, <2>2, PinnedStep, NonceStep, KnownStep, VersionStep, SpentStep, TakenStep
       DEF SInv
<1>. QED
  BY <1>1, <1>2

LEMMA SpecInv == SubmissionSpec => []SInv
  BY InitInv, StepInv, PTL DEF SubmissionSpec

-----------------------------------------------------------------------------
(* The executions of a call whose answers all arrived, or whose nonce the  *)
(* application chose, have one nonce; the chain has each nonce once.       *)
LEMMA ExecutedOnceInv == SInv => ExecutedOnce
<1>. SUFFICES ASSUME SInv, NEW c \in Calls, ~ lost[c] \/ pinned[c] # NoNonce,
                     NEW i \in Executions(c), NEW j \in Executions(c)
              PROVE  i = j
  BY DEF ExecutedOnce, IsOnce
<1>1. /\ i \in 1..Len(included) /\ j \in 1..Len(included)
      /\ included[i].call = c /\ included[j].call = c
  BY DEF Executions
<1>2. Len(included) \in Nat /\ DOMAIN included = 1..Len(included)
  BY DEF SInv, SubmissionTypeOK
<1>3. included[i] \in Sent /\ included[j] \in Sent
  BY <1>1, <1>2 DEF Sent, Range
<1>4. included[i].nonce = included[j].nonce
  <2>1. CASE ~ lost[c]
    BY <1>1, <1>3, <2>1 DEF SInv, KnownInv, Known
  <2>2. CASE pinned[c] # NoNonce
    BY <1>1, <1>3, <2>2 DEF SInv, PinnedInv
  <2>. QED
    BY <2>1, <2>2
<1>5. included[i].nonce = i - 1 /\ included[j].nonce = j - 1
  BY <1>1 DEF SInv, NonceInv
<1>6. i - 1 = j - 1
  BY <1>4, <1>5
<1>7. i \in Nat /\ j \in Nat
  BY <1>1, <1>2
<1>. QED
  BY <1>6, <1>7

(* Retries, rebuilds and late requests execute no call twice, unless an    *)
(* answer was lost and the nonce was left to the node.                     *)
THEOREM ExecutedOnceHolds == SubmissionSpec => []ExecutedOnce
  BY SpecInv, ExecutedOnceInv, PTL

(* What sign_and_submit_call returned is with the node, unless it is dead or *)
(* another call was signed with its nonce.                                 *)
THEOREM OkIsTrackedHolds == SubmissionSpec => []OkIsTracked
<1>1. SInv => OkIsTracked
  BY DEF SInv, TakenInv, Taken, OkIsTracked
<1>. QED
  BY <1>1, SpecInv, PTL

(* After an error, with no answer lost, nothing of the call is anywhere. *)
THEOREM ErrorIsFinalHolds == SubmissionSpec => []ErrorIsFinal
<1>1. SInv => ErrorIsFinal
  BY DEF SInv, KnownInv, Known, Sent, ErrorIsFinal
<1>. QED
  BY <1>1, SpecInv, PTL
=============================================================================
