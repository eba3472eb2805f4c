----------------------------- MODULE RetryPolicy -----------------------------
(***************************************************************************)
(* Who decides that a failed RPC of a block subscription, or of a view of   *)
(* one block, is sent again.                                                *)
(* with_retry_on_error and with_retry_on_error_and_none (client/src/       *)
(* utils.rs) repeat it with growing pauses; whether they may is the        *)
(* override of the helper the call was made through (Chain::retry_on) or   *)
(* else a flag of the client, which every clone of the client shares and   *)
(* another task can turn at any moment.  Each call site of sub.rs and of   *)
(* block/mod.rs builds its own helper, so each decides by itself what      *)
(* becomes of the override the application set on the subscription or on   *)
(* the block.                                                              *)
(***************************************************************************)
EXTENDS Integers, Sequences, SequencesExt

VARIABLES
  global,    \* ClientInner.global_retries
  override,  \* retry_on_error of the subscription or the block: one of Overrides
  site,      \* the call site the RPC is sent from
  retry,     \* retry_on_error, as decided when the call began
  onNone,    \* retry_on_none
  budget,    \* sleep_duration, a stack: the last element is taken next
  pc,        \* "idle", "sent" (awaiting f()) or "asleep" (awaiting sleep)
  failed,    \* history: an attempt of this call ended in Err
  attempts,  \* history: how often this call sent the request
  waited,    \* history: the seconds this call slept
  outcome    \* "pending", "some", "none" or "error"

retryVars == <<global, override, site, retry, onNone, budget, pc, failed,
               attempts, waited, outcome>>

Backoff == <<8, 5, 3, 2, 1>>
Patience == 19   \* the sum of Backoff

Overrides == {"inherit", "always", "never"}

(* The RPCs of sub.rs: the height UnInitSub::build asks for, the cached     *)
(* finalized height, the hash of run_historical, the head polled by the two *)
(* run_head, the hash they ask for, and the hash of a best chain that is    *)
(* more than one block ahead.                                               *)
SubSites == {"build", "latest", "hist", "final head", "best head", "hash", "catch up"}

(* The RPCs of block/mod.rs: what BlockContext::chain answers (header, info, *)
(* infos, event count, weight, justification), the count of extrinsics, the *)
(* views made for timestamp, encoded, extrinsics and events, and the        *)
(* validators among which the author is looked up.                          *)
BlockSites == {"block chain", "block count", "block view", "block validators"}

Sites == SubSites \union BlockSites

(* The RPCs whose answer is an Option: chain_getBlockHash. *)
HashSites == {"hist", "hash", "catch up"}

-----------------------------------------------------------------------------
RetryInit ==
  /\ global = TRUE
  /\ override = "inherit"
  /\ site = "build"
  /\ retry = FALSE
  /\ onNone = FALSE
  /\ budget = <<>>
  /\ pc = "idle"
  /\ failed = FALSE
  /\ attempts = 0
  /\ waited = 0
  /\ outcome = "pending"

(* set_global_retries_enabled, from any task that holds the client. *)
SetGlobal ==
  /\ global' = ~ global
  /\ UNCHANGED <<override, site, retry, onNone, budget, pc, failed, attempts,
                 waited, outcome>>

(* Sub::set_retry_on_error needs the subscription to itself. *)
SetOverride(v) ==
  /\ pc = "idle"
  /\ override' = v
  /\ failed' = FALSE /\ outcome' = "pending"   \* the history of the last call ends
  /\ UNCHANGED <<global, site, retry, onNone, budget, pc, attempts, waited>>

(* Mutant of HelperOverride: run_historical drops the override. *)
HelperOverrideForgotten(s) ==
  CASE s \in {"build", "final head", "hist", "block view"} -> "inherit"
    [] s = "catch up"                                      -> "always"
    [] s = "block validators"                              -> "never"
    [] OTHER                                               -> override

(* Block::extrinsic_count takes the decision and hands it on as an override. *)
Decided == IF override = "inherit" THEN (IF global THEN "always" ELSE "never") ELSE override

(* What each call site hands to the helper's retry_on. *)
HelperOverride(s) ==
  CASE s \in {"build", "final head", "block view"}                  -> "inherit"
    [] s = "catch up"                                               -> "always"
    [] s = "block validators"                                       -> "never"
    [] s = "block count"                                            -> Decided
    [] s \in {"latest", "hist", "best head", "hash", "block chain"} -> override

(* Chain::should_retry_on_error. *)
Decide(v) == IF v = "inherit" THEN global ELSE v = "always"

Begin(s) ==
  /\ pc = "idle"
  /\ site' = s
  /\ retry' = Decide(HelperOverride(s))
  /\ onNone' = (s \in {"hash", "catch up"})
  /\ budget' = Backoff
  /\ pc' = "sent"
  /\ failed' = FALSE
  /\ attempts' = 1
  /\ waited' = 0
  /\ outcome' = "pending"
  /\ UNCHANGED <<global, override>>

-----------------------------------------------------------------------------
(* One pass of the loop *)

Return(how) ==
  /\ outcome' = how
  /\ pc' = "idle"
  /\ UNCHANGED <<budget, waited>>

(* Errors and missing answers take their pauses from one stack. *)
PauseOrReturn(how, mayRetry) ==
  IF mayRetry /\ budget # <<>>
  THEN /\ waited' = waited + Last(budget)
       /\ budget' = Front(budget)
       /\ pc' = "asleep"
       /\ UNCHANGED outcome
  ELSE Return(how)

AnswerSome ==
  /\ pc = "sent"
  /\ Return("some")
  /\ UNCHANGED <<global, override, site, retry, onNone, failed, attempts>>

(* Mutant of AnswerNone: a missing answer gets a stack of pauses of its own. *)
AnswerNoneAfresh ==
  /\ pc = "sent"
  /\ site \in HashSites
  /\ IF onNone
     THEN budget' = Backoff /\ pc' = "asleep" /\ UNCHANGED <<waited, outcome>>
     ELSE Return("none")
  /\ UNCHANGED <<global, override, site, retry, onNone, failed, attempts>>

AnswerNone ==
  /\ pc = "sent"
  /\ site \in HashSites
  /\ PauseOrReturn("none", onNone)
  /\ UNCHANGED <<global, override, site, retry, onNone, failed, attempts>>

(* Mutant of AnswerError: the first pause is never used. *)
AnswerErrorEarly ==
  /\ pc = "sent"
  /\ failed' = TRUE
  /\ PauseOrReturn("error", retry /\ Len(budget) > 1)
  /\ UNCHANGED <<global, override, site, retry, onNone, attempts>>

AnswerError ==
  /\ pc = "sent"
  /\ failed' = TRUE
  /\ PauseOrReturn("error", retry)
  /\ UNCHANGED <<global, override, site, retry, onNone, attempts>>

Bound == 8  \* bound of the history counter, above what the loop can reach

Wake ==
  /\ pc = "asleep"
  /\ pc' = "sent"
  /\ attempts' = IF attempts < Bound THEN attempts + 1 ELSE attempts
  /\ UNCHANGED <<global, override, site, retry, onNone, budget, failed, waited,
                 outcome>>

Answer == AnswerSome \/ AnswerNone \/ AnswerError

RetryNext == \/ SetGlobal \/ (\E v \in Overrides : SetOverride(v))
             \/ (\E s \in Sites : Begin(s)) \/ Answer \/ Wake

(* The node answers or the connection fails, and timers fire. *)
RetryFairness == WF_retryVars(Answer) /\ WF_retryVars(Wake)

RetrySpec == RetryInit /\ [][RetryNext]_retryVars /\ RetryFairness

-----------------------------------------------------------------------------
RetryTypeOK ==
  /\ global \in BOOLEAN /\ retry \in BOOLEAN /\ onNone \in BOOLEAN
  /\ failed \in BOOLEAN
  /\ override \in Overrides
  /\ site \in Sites
  /\ IsPrefix(budget, Backoff)
  /\ pc \in {"idle", "sent", "asleep"}
  /\ attempts \in 0..Bound
  /\ waited \in 0..Patience
  /\ outcome \in {"pending", "some", "none", "error"}

(* Errors and missing answers share one budget: a request is sent at most   *)
(* six times, however the two alternate.                                    *)
SharedBudget == attempts <= Len(Backoff) + 1

(* A call gives up, on an error it may retry or a None it may retry, only   *)
(* after the whole backoff: a shorter outage never reaches the application. *)
GivesUpLate ==
  \/ outcome = "error" /\ retry
  \/ outcome = "none" /\ onNone
  => waited = Patience

(* The loop ends even if every attempt fails, and other tasks keep turning  *)
(* the client's flag.                                                       *)
CallEnds == (pc # "idle") ~> (pc = "idle")

Obeys == /\ override = "never" /\ failed => pc = "idle"
         /\ override = "always" /\ outcome = "error" => waited = Patience

(* At the call sites that pass it on, the override decides, whatever        *)
(* happens to the client's flag meanwhile.                                  *)
OverrideObeyed ==
  site \in {"latest", "hist", "best head", "hash", "block chain", "block count"} => Obeys

(* Sub::set_retry_on_error: "Some(false): never retry failed RPC calls";     *)
(* Block::set_retry_on_error: "Some(false) to disable retries" for "future   *)
(* RPC calls made through this helper".  So at every call site.             *)
NeverMeansNever == override = "never" /\ failed => pc = "idle"
=============================================================================
