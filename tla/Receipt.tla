------------------------------- MODULE Receipt -------------------------------
(***************************************************************************)
(* Where did a submitted transaction land?  Two searches of                *)
(* client/src/submission/submitted.rs, each with a Sub of its own:         *)
(*   "receipt"  SubmittedTransaction::receipt: walk the mortality window,  *)
(*              take the first block after which the account's nonce is    *)
(*              past the transaction's, look for the transaction there;    *)
(*   "range"    TransactionReceipt::from_range: walk the heights first..   *)
(*              until and look for the transaction in each block.          *)
(* The transaction is anchored at genesis: mortality.block_height = 0.     *)
(* What a block holds is told by the branch that made it.                  *)
(***************************************************************************)
EXTENDS Sub, FiniteSets

CONSTANTS
  TxBranches,    \* the block includes the transaction
  OtherBranches, \* it includes another transaction of the same account
  ReapBranches,  \* it includes the transaction, which reaps the account
  FirstNonce,    \* the account's nonce at genesis
  TxNonce,       \* the nonce the transaction was signed with
  Period,        \* RefinedMortality.period, as the application gave it: a u64
  U32Size,       \* the number of heights a u32 can hold: 2^32 in the code
  EraPeriod      \* the period encoded in the extrinsic's era

ASSUME ReceiptAssumption ==
  /\ TxBranches \cup OtherBranches \subseteq Branches
  /\ TxBranches \cap OtherBranches = {}
  /\ ReapBranches \subseteq TxBranches
  /\ FirstNonce \in Nat /\ TxNonce \in Nat
  /\ Period \in Nat /\ EraPeriod \in Nat /\ U32Size \in Nat \ {0}

VARIABLES
  flow,     \* "receipt" or "range"
  first,    \* the height the Sub starts from
  until,    \* mortality_ends_height or block_end
  stage,    \* the step of the search, "sub" inside sub.next()
  seenTo,   \* current_block_height
  answer,   \* "pending", "receipt", "none" or "error"
  receipt   \* the block_hash of the receipt

receiptVars == <<flow, first, until, stage, seenTo, answer, receipt>>
allVars == <<vars, receiptVars>>

HasTx(b) == Height(b) > 0 /\ b[Height(b)] \in TxBranches

(* state_getStorage(System.Account) at b: transactions of the account since *)
(* it was last reaped; account_info of an account that is gone defaults to  *)
(* nonce 0.                                                                 *)
NonceAt(b) ==
  Cardinality({i \in 1..Height(b) : /\ b[i] \in TxBranches \cup OtherBranches
                                    /\ \A j \in i..Height(b) : b[j] \notin ReapBranches})
    + IF \E i \in 1..Height(b) : b[i] \in ReapBranches THEN 0 ELSE FirstNonce

(* What the runtime accepts: the transaction only with the account's nonce *)
(* and while its era lasts.                                                *)
Valid(b) ==
  \A i \in 1..Height(b) :
    b[i] \in TxBranches => NonceAt(AncestorAt(b, i - 1)) = TxNonce /\ i < EraPeriod

(* mortality_ends_height: the period as a u32, from height 0. *)
Window == Period % U32Size

ReceiptInit ==
  /\ Init
  /\ flow = "receipt"
  /\ first = 0
  /\ until = 0
  /\ stage = "new"
  /\ seenTo = 0
  /\ answer = "pending"
  /\ receipt = NoBlock

-----------------------------------------------------------------------------
(* find_correct_block_info: the window is the period given as a number. *)
FindReceipt ==
  /\ stage = "new"
  /\ SetBlockHeight(0)
  /\ flow' = "receipt" /\ first' = 0 /\ until' = Window /\ seenTo' = 0
  /\ stage' = "opened"
  /\ UNCHANGED <<answer, receipt>>

FindInRange ==
  /\ stage = "new"
  /\ \E from, to \in 0..MaxHeight :
       /\ SetBlockHeight(from)
       /\ flow' = "range" /\ first' = from /\ until' = to /\ seenTo' = 0
       /\ IF from > to THEN stage' = "done" /\ answer' = "error"
          ELSE stage' = "opened" /\ UNCHANGED answer
  /\ UNCHANGED receipt

(* sub.use_best_block and the first sub.next(). *)
Choose ==
  /\ stage = "opened"
  /\ \E v \in BOOLEAN : UseBestBlock(v)
  /\ stage' = "walk"
  /\ UNCHANGED <<flow, first, until, seenTo, answer, receipt>>

End(how, b) ==
  /\ stage' = "done"
  /\ answer' = how
  /\ receipt' = b
  /\ UNCHANGED subVars

(* Mutants of Walk: the window ends one block early; it has no end. *)
WalkShort ==
  /\ stage = "walk"
  /\ IF flow = "receipt" /\ seenTo >= until THEN End("none", NoBlock)
     ELSE Start("next") /\ stage' = "sub" /\ UNCHANGED <<answer, receipt>>
  /\ UNCHANGED <<flow, first, until, seenTo>>

WalkOn ==
  /\ stage = "walk"
  /\ Start("next") /\ stage' = "sub" /\ UNCHANGED <<answer, receipt>>
  /\ UNCHANGED <<flow, first, until, seenTo>>

(* The loop's condition, and the next block. *)
Walk ==
  /\ stage = "walk"
  /\ IF flow = "receipt" /\ seenTo > until THEN End("none", NoBlock)
     ELSE Start("next") /\ stage' = "sub" /\ UNCHANGED <<answer, receipt>>
  /\ UNCHANGED <<flow, first, until, seenTo>>

SubStep(step) ==
  /\ stage = "sub"
  /\ step
  /\ IF pc' # "idle" THEN UNCHANGED <<stage, answer, seenTo>>
     ELSE IF ret' = "ok"
     THEN /\ stage' = IF flow = "receipt" THEN "nonce" ELSE "infos"
          /\ seenTo' = Height(last')
          /\ UNCHANGED answer
     ELSE stage' = "done" /\ answer' = "error" /\ UNCHANGED seenTo
  /\ UNCHANGED <<flow, first, until, receipt>>

Continue(s) == stage' = s /\ UNCHANGED <<subVars, answer, receipt>>

(* block_nonce at the block's hash.  Nonce 0 may be an account reaped since. *)
Nonce ==
  /\ stage = "nonce"
  /\ Continue(IF NonceAt(last) > TxNonce THEN "infos"
              ELSE IF NonceAt(last) = 0 THEN "peek" ELSE "walk")
  /\ UNCHANGED <<flow, first, until, seenTo>>

Peek ==
  /\ stage = "peek"
  /\ Continue(IF HasTx(last) THEN "infos" ELSE "walk")
  /\ UNCHANGED <<flow, first, until, seenTo>>

(* Mutant of Infos: the nonce is taken as proof, the block is not read. *)
InfosTrusting ==
  /\ stage = "infos"
  /\ IF flow = "receipt" \/ HasTx(last) THEN End("receipt", last)
     ELSE IF Height(last) >= until THEN End("none", NoBlock)
     ELSE Continue("walk")
  /\ UNCHANGED <<flow, first, until, seenTo>>

(* extrinsic_infos: of the block's hash in transaction_receipt, but of its *)
(* height in from_range; and what each makes of an empty list.             *)
Infos ==
  /\ stage = "infos"
  /\ flow = "range" => Height(last) <= Height(best)
  /\ LET read == IF flow = "range" THEN AncestorAt(best, Height(last)) ELSE last IN
     IF HasTx(read) THEN End("receipt", last)
     ELSE IF flow = "receipt" \/ Height(last) >= until THEN End("none", NoBlock)
     ELSE Continue("walk")
  /\ UNCHANGED <<flow, first, until, seenTo>>

(* Any RPC outside the Sub fails, or there is no block at the height. *)
Fails ==
  /\ stage \in {"nonce", "peek", "infos"}
  /\ End("error", NoBlock)
  /\ UNCHANGED <<flow, first, until, seenTo>>

Search == FindReceipt \/ FindInRange \/ Choose \/ Walk \/ SubStep(Reply)
          \/ Nonce \/ Peek \/ Infos

Errs == SubStep(RpcFails) \/ Fails

ReceiptNext == \/ ChainNext /\ Valid(best') /\ UNCHANGED <<subVars, receiptVars>>
               \/ (Search \/ Errs) /\ UNCHANGED chainVars

ReceiptSpec == ReceiptInit /\ [][ReceiptNext]_allVars

(* The node answers or fails each request, and the task is polled. *)
FairReceiptSpec == ReceiptSpec /\ WF_allVars(Search /\ UNCHANGED chainVars)

-----------------------------------------------------------------------------
ReceiptTypeOK ==
  /\ TypeOK
  /\ flow \in {"receipt", "range"}
  /\ first \in Heights /\ until \in Nat /\ seenTo \in Heights
  /\ stage \in {"new", "opened", "walk", "sub", "nonce", "peek", "infos", "done"}
  /\ answer \in {"pending", "receipt", "none", "error"}
  /\ receipt \in Blocks \cup {NoBlock}

(* The block a receipt names holds the transaction, and, when finalized     *)
(* blocks were searched, it is final: whatever reorganised meanwhile.       *)
ReceiptHoldsTx ==
  answer = "receipt" /\ (flow = "receipt" \/ mode = "final") =>
    HasTx(receipt) /\ (mode = "final" => OnChain(receipt, finalized))

TxIn(b, from, to) == \E h \in from..to : h <= Height(b) /\ HasTx(AncestorAt(b, h))

(* Searching finalized blocks, None is definite: the transaction is in none *)
(* of the blocks it could be in -- those its era allows, or those of the    *)
(* range -- and in none that will be finalized later.                       *)
NoneIsDefinite ==
  answer = "none" /\ mode = "final" =>
    IF flow = "range" THEN ~ TxIn(finalized, first, until)
    ELSE ~ TxIn(finalized, 0, Height(finalized))

(* The search ends once the chain it follows is past the heights searched.  *)
SearchEnds ==
  (stage # "new" /\ mode = "final" /\ Height(finalized) > until) ~> (stage = "done")

(* SubmittedTransaction::receipt: None when the transaction is not "within  *)
(* the mortality window implied by options" -- the window its era encodes.  *)
NoneInWindow ==
  answer = "none" /\ mode = "final" /\ flow = "receipt" =>
    ~ TxIn(finalized, 0, EraPeriod - 1)

(* TransactionReceipt is "where a transaction was found on chain": so is    *)
(* the one from_range returns.                                              *)
RangeReceiptHoldsTx == answer = "receipt" /\ flow = "range" => HasTx(receipt)
=============================================================================
