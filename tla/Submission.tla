----------------------------- MODULE Submission -----------------------------
(***************************************************************************)
(* Chain::sign_and_submit_call (client/src/chain/chain.rs): several tasks  *)
(* submit calls from one account.  Each refines its options (Options::     *)
(* build), signs with the versions the client cached, and submits until    *)
(* the node answers; an answer with code 1010 makes it build and submit a  *)
(* second extrinsic.  Requests and answers can be lost, and a request that *)
(* the client gave up can still arrive.                                    *)
(*                                                                         *)
(* The node is reduced to what it does with extrinsics; blocks are final.  *)
(* Of two extrinsics with one nonce its pool prefers the one with the      *)
(* higher priority, which follows from the tip in the options and from the *)
(* length and weight of the call: here either may be preferred.            *)
(***************************************************************************)
EXTENDS Integers, Sequences, FiniteSets, SequencesExt

CONSTANTS
  Calls,      \* the calls, one task each, all signed by one account
  Pauses,     \* how often a failed submission is repeated (5 in the code)
  EraPeriod,  \* the blocks an extrinsic stays valid
  MaxHeight,  \* bound: no blocks above this height
  MaxNonce,   \* bound: the nonces an application pins
  NoNonce     \* None, where Options has an Option<u32> nonce

ASSUME SubmissionAssumption ==
  /\ Pauses \in Nat /\ EraPeriod \in Nat /\ MaxHeight \in Nat /\ MaxNonce \in Nat
  /\ NoNonce \notin Nat

VARIABLES
  height,    \* height of the node's chain
  included,  \* the account's extrinsics on the chain, in order
  pool,      \* those in the node's transaction pool
  taken,     \* history: all extrinsics the pool ever took
  net,       \* requests on their way to the node
  runtime,   \* spec_version of the node's runtime
  spec,      \* OnlineClientInner.spec_version
  pc,        \* per call: the await it is at, or how it ended
  pinned,    \* per call: Options.nonce
  tx,        \* per call: the extrinsic, in the making or submitted
  left,      \* per call: the pauses left in with_retry_on_error
  reply,     \* per call: the node's answer to the last request
  lost       \* history, per call: some answer never arrived

nodeVars == <<height, included, pool, taken, runtime>>
callVars == <<pc, pinned, tx, left, lost>>
vars == <<nodeVars, spec, callVars, net, reply>>

Extrinsics == [call : Calls, round : 1..2, nonce : Nat,
               birth : 0..MaxHeight, version : 0..1]

Draft(c, r, n) ==
  [call |-> c, round |-> r, nonce |-> n, birth |-> 0, version |-> 0]

SubmissionInit ==
  /\ height = 0 /\ included = <<>> /\ pool = {} /\ taken = {} /\ net = {}
  /\ runtime = 0 /\ spec = 0
  /\ pc = [c \in Calls |-> "idle"]
  /\ pinned = [c \in Calls |-> NoNonce]
  /\ tx = [c \in Calls |-> Draft(c, 1, 0)]
  /\ left = [c \in Calls |-> 0]
  /\ reply = [c \in Calls |-> "none"]
  /\ lost = [c \in Calls |-> FALSE]

-----------------------------------------------------------------------------
(* The node *)

Nonce == Len(included)

(* CheckSpecVersion and CheckMortality, in the next block. *)
Alive(x) == x.version = runtime /\ height + 1 < x.birth + EraPeriod

(* The pool has an extrinsic for every nonce from the account's up to n. *)
Ready(n) == \A m \in Nonce..(n - 1) : \E y \in pool : y.nonce = m

Rivals(x) == {y \in pool : y.nonce = x.nonce}

(* author_submitExtrinsic: "invalid" is code 1010, "other" any other code  *)
(* (already imported, banned after inclusion, priority too low).           *)
Verdicts(x) ==
  IF x \in Range(included) THEN {"invalid", "other"}
  ELSE IF ~ Alive(x) \/ x.nonce < Nonce THEN {"invalid"}
  ELSE IF x \in pool THEN {"other"}
  ELSE IF Rivals(x) # {} /\ Ready(x.nonce) THEN {"ok", "other"}
  ELSE {"ok"}

(* An extrinsic that is taken replaces its rivals, or waits beside them if  *)
(* the nonces before theirs are not there yet.                             *)
Import(x) ==
  /\ x \in net
  /\ net' = net \ {x}
  /\ \E v \in Verdicts(x) :
       /\ IF v = "ok"
          THEN /\ pool' = {x} \cup (IF Ready(x.nonce) THEN pool \ Rivals(x) ELSE pool)
               /\ taken' = taken \cup {x}
          ELSE UNCHANGED <<pool, taken>>
       /\ reply' = IF pc[x.call] = "sent" /\ tx[x.call] = x
                   THEN [reply EXCEPT ![x.call] = v] ELSE reply
  /\ UNCHANGED <<height, included, runtime, spec, callVars>>

(* A block, with the account's next extrinsic or without; the pool drops   *)
(* what has become invalid.                                                *)
Block ==
  /\ height < MaxHeight
  /\ height' = height + 1
  /\ \/ \E x \in pool : x.nonce = Nonce /\ Alive(x) /\ included' = Append(included, x)
     \/ UNCHANGED included
  /\ pool' = {y \in pool : y.nonce >= Len(included')
                             /\ height + 2 < y.birth + EraPeriod}
  /\ UNCHANGED <<taken, runtime, spec, callVars, net, reply>>

Upgrade ==
  /\ runtime = 0
  /\ runtime' = 1
  /\ pool' = {}
  /\ UNCHANGED <<height, included, taken, spec, callVars, net, reply>>

-----------------------------------------------------------------------------
(* The application refreshes the cached version. *)
SetSpecVersion ==
  /\ spec' = runtime
  /\ UNCHANGED <<nodeVars, callVars, net, reply>>

-----------------------------------------------------------------------------
(* One call *)

(* sign_and_submit_call_once, round r, to the first await of Options::     *)
(* build.  options_with_fresh_mortality has turned a mortality with an     *)
(* anchor into its period, so the anchor is always asked for.              *)
Once(c, r) ==
  /\ pc' = [pc EXCEPT ![c] = IF pinned'[c] = NoNonce THEN "nonce" ELSE "header"]
  /\ tx' = [tx EXCEPT ![c] =
              Draft(c, r, IF pinned'[c] = NoNonce THEN 0 ELSE pinned'[c])]

Begin(c) ==
  /\ pc[c] = "idle"
  /\ \E n \in (0..MaxNonce) \cup {NoNonce} : pinned' = [pinned EXCEPT ![c] = n]
  /\ Once(c, 1)
  /\ UNCHANGED <<nodeVars, spec, net, reply, left, lost>>

(* system_accountNextIndex: the first nonce neither the chain nor the pool has. *)
IsNextIndex(n) == Ready(n) /\ \A y \in pool : y.nonce # n

GotNonce(c) ==
  /\ pc[c] = "nonce"
  /\ \E n \in Nonce..(Nonce + Cardinality(pool)) :
       IsNextIndex(n) /\ tx' = [tx EXCEPT ![c].nonce = n]
  /\ pc' = [pc EXCEPT ![c] = "header"]
  /\ UNCHANGED <<nodeVars, spec, net, reply, pinned, left, lost>>

(* Mutant of GotHeader: the era begins at the block to come. *)
GotHeaderAhead(c) ==
  /\ pc[c] = "header"
  /\ tx' = [tx EXCEPT ![c].birth = height + 1]
  /\ pc' = [pc EXCEPT ![c] = "hash"]
  /\ UNCHANGED <<nodeVars, spec, net, reply, pinned, left, lost>>

(* RefinedMortality::from_period: the era begins at the finalized head. *)
GotHeader(c) ==
  /\ pc[c] = "header"
  /\ tx' = [tx EXCEPT ![c].birth = height]
  /\ pc' = [pc EXCEPT ![c] = "hash"]
  /\ UNCHANGED <<nodeVars, spec, net, reply, pinned, left, lost>>

Send(c, x) ==
  /\ pc' = [pc EXCEPT ![c] = "sent"]
  /\ net' = net \cup {x}
  /\ UNCHANGED reply

(* The hash of the era's first block is there: sign with the cached         *)
(* version and submit, with all the pauses or none.                         *)
GotHash(c) ==
  /\ pc[c] = "hash"
  /\ tx' = [tx EXCEPT ![c].version = spec]
  /\ \E p \in {0, Pauses} : left' = [left EXCEPT ![c] = p]
  /\ Send(c, tx'[c])
  /\ UNCHANGED <<nodeVars, spec, pinned, lost>>

(* An await of Options::build fails: never an error with code 1010. *)
BuildFails(c) ==
  /\ pc[c] \in {"nonce", "header", "hash"}
  /\ pc' = [pc EXCEPT ![c] = "error"]
  /\ UNCHANGED <<nodeVars, spec, net, reply, pinned, tx, left, lost>>

(* is_bad_proof_like_error, and only the first round's errors are asked. *)
Rebuilds(c, how) == how = "invalid" /\ tx[c].round = 1

(* Mutant of Retry: the rebuild forgets the nonce the application chose. *)
RetryUnpinned(c, how) ==
  IF left[c] > 0
  THEN /\ left' = [left EXCEPT ![c] = left[c] - 1]
       /\ pc' = [pc EXCEPT ![c] = "asleep"]
       /\ UNCHANGED <<tx, pinned>>
  ELSE /\ UNCHANGED <<left, pinned>>
       /\ IF Rebuilds(c, how)
          THEN /\ pc' = [pc EXCEPT ![c] = "nonce"]
               /\ tx' = [tx EXCEPT ![c] = Draft(c, 2, 0)]
          ELSE pc' = [pc EXCEPT ![c] = "error"] /\ UNCHANGED tx

(* A submission failed: with_retry_on_error repeats it whatever the error, *)
(* and returns the last one.                                               *)
Retry(c, how) ==
  IF left[c] > 0
  THEN /\ left' = [left EXCEPT ![c] = left[c] - 1]
       /\ pc' = [pc EXCEPT ![c] = "asleep"]
       /\ UNCHANGED <<tx, pinned>>
  ELSE /\ UNCHANGED <<left, pinned>>
       /\ IF Rebuilds(c, how) THEN Once(c, 2)
          ELSE pc' = [pc EXCEPT ![c] = "error"] /\ UNCHANGED tx

(* Mutants of Answered: the pause is taken before the answer is looked at; *)
(* any refusal is read as "already imported".                              *)
AnsweredLate(c) ==
  /\ pc[c] = "sent"
  /\ reply[c] # "none"
  /\ IF reply[c] = "ok" /\ left[c] = 0
     THEN pc' = [pc EXCEPT ![c] = "ok"] /\ UNCHANGED <<tx, left, pinned>>
     ELSE Retry(c, reply[c])
  /\ reply' = [reply EXCEPT ![c] = "none"]
  /\ UNCHANGED <<nodeVars, spec, net, lost>>

AnsweredGenerously(c) ==
  /\ pc[c] = "sent"
  /\ reply[c] # "none"
  /\ IF reply[c] # "invalid"
     THEN pc' = [pc EXCEPT ![c] = "ok"] /\ UNCHANGED <<tx, left, pinned>>
     ELSE Retry(c, reply[c])
  /\ reply' = [reply EXCEPT ![c] = "none"]
  /\ UNCHANGED <<nodeVars, spec, net, lost>>

Answered(c) ==
  /\ pc[c] = "sent"
  /\ reply[c] # "none"
  /\ IF reply[c] = "ok"
     THEN /\ pc' = [pc EXCEPT ![c] = "ok"]
          /\ left' = [left EXCEPT ![c] = 0]
          /\ UNCHANGED <<tx, pinned>>
     ELSE Retry(c, reply[c])
  /\ reply' = [reply EXCEPT ![c] = "none"]
  /\ UNCHANGED <<nodeVars, spec, net, lost>>

(* The connection fails before or after the node took the request.  A       *)
(* request still in net may arrive late, or never: nothing makes it.        *)
ConnectionFails(c) ==
  /\ pc[c] = "sent"
  /\ lost' = [lost EXCEPT ![c] = TRUE]
  /\ Retry(c, "transport")
  /\ reply' = [reply EXCEPT ![c] = "none"]
  /\ UNCHANGED <<nodeVars, spec, net>>

Wake(c) ==
  /\ pc[c] = "asleep"
  /\ Send(c, tx[c])
  /\ UNCHANGED <<nodeVars, spec, pinned, tx, left, lost>>

-----------------------------------------------------------------------------
CallStep(c) == \/ GotNonce(c) \/ GotHeader(c) \/ GotHash(c) \/ BuildFails(c)
               \/ Answered(c) \/ ConnectionFails(c) \/ Wake(c)

SubmissionNext ==
  \/ \E x \in net : Import(x)
  \/ Block \/ Upgrade \/ SetSpecVersion
  \/ \E c \in Calls : Begin(c) \/ CallStep(c)

SubmissionSpec == SubmissionInit /\ [][SubmissionNext]_vars

-----------------------------------------------------------------------------
Ended == {"ok", "error"}

SubmissionTypeOK ==
  /\ height \in 0..MaxHeight
  /\ included \in Seq(Extrinsics)
  /\ pool \subseteq taken /\ taken \subseteq Extrinsics /\ net \subseteq Extrinsics
  /\ {runtime, spec} \subseteq 0..1
  /\ pc \in [Calls -> {"idle", "nonce", "header", "hash", "sent", "asleep"} \cup Ended]
  /\ pinned \in [Calls -> (0..MaxNonce) \cup {NoNonce}]
  /\ tx \in [Calls -> Extrinsics]
  /\ left \in [Calls -> 0..Pauses]
  /\ reply \in [Calls -> {"none", "ok", "invalid", "other"}]
  /\ lost \in [Calls -> BOOLEAN]

(* Where on the chain the call was executed. *)
Executions(c) == {i \in 1..Len(included) : included[i].call = c}

IsOnce(c) == \A i, j \in Executions(c) : i = j

(* A call whose answers all arrived, or whose nonce the application chose,  *)
(* is executed at most once, through retries, rebuilds and late requests.   *)
ExecutedOnce ==
  \A c \in Calls :
    ~ lost[c] \/ pinned[c] # NoNonce => IsOnce(c)

(* Another call's extrinsic with the nonce of x was taken as well. *)
Contested(x) == \E y \in taken : y.call # x.call /\ y.nonce = x.nonce

(* The extrinsic a call returns is one the node took, after however many     *)
(* requests: it is in the pool or on the chain unless it can no longer be   *)
(* included, or another call of the account was signed with its nonce.  The *)
(* call's own retries and rebuild never displace it.  receipt() searches    *)
(* for its hash with its nonce and mortality.                               *)
OkIsTracked ==
  \A c \in Calls :
    pc[c] = "ok" =>
      /\ tx[c] \in taken
      /\ \/ tx[c] \in pool \cup Range(included)
         \/ ~ Alive(tx[c]) \/ Contested(tx[c])

(* An error is the whole story if no answer was lost: nothing of the call   *)
(* is, or ever gets, into the pool or onto the chain.                       *)
ErrorIsFinal ==
  \A c \in Calls :
    pc[c] = "error" /\ ~ lost[c] =>
      \A x \in net \cup pool \cup Range(included) : x.call # c

(* sign_and_submit_call hands back a tracker for "a call": one call, one    *)
(* execution, also when an answer is lost.                                  *)
ExecutedOnceAlways == \A c \in Calls : IsOnce(c)
=============================================================================
