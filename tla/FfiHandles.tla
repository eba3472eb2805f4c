----------------------------- MODULE FfiHandles -----------------------------
(***************************************************************************)
(* The C interface (ffi/src/lib.rs): signers, submitted transactions and   *)
(* receipts live in maps behind one mutex, and C code names them by        *)
(* handles.  A new handle is the size of its map.  Every function holds    *)
(* the mutex from its first look at the maps to its last, also while it    *)
(* waits for the node, so the functions are atomic; one that panics (an    *)
(* unknown handle, an error of the node, no receipt) aborts the process.   *)
(***************************************************************************)
EXTENDS Integers, FiniteSets, Functions

CONSTANT MaxTxs  \* bound: transactions that are submitted

VARIABLES
  ready,      \* GLOBAL_CLIENT holds a client
  signers,    \* signer_handles: the number of signers
  submitted,  \* submitted_tx_handles: handle -> transaction
  receipts,   \* receipt_handles: handle -> transaction of the receipt
  boxes,      \* the Receipts C code holds: pointer, handle and transaction
  txs,        \* transactions submitted so far
  issued,     \* history: the receipts returned and not freed, with their handles
  orderly     \* history: receipts were freed in the reverse order, each once

ffiVars == <<ready, signers, submitted, receipts, boxes, txs, issued, orderly>>

NoHandles == [h \in {} |-> 0]
Insert(map, h, v) == [g \in DOMAIN map \union {h} |-> IF g = h THEN v ELSE map[g]]
NextHandle(map) == Cardinality(DOMAIN map)

FfiInit ==
  /\ ready = FALSE
  /\ signers = 0
  /\ submitted = NoHandles
  /\ receipts = NoHandles
  /\ boxes = {}
  /\ txs = 0
  /\ issued = {}
  /\ orderly = TRUE

(* initialize_client: a new GlobalClient; the handles of the old one end.    *)
InitializeClient ==
  /\ ready' = TRUE
  /\ signers' = 0
  /\ submitted' = NoHandles
  /\ receipts' = NoHandles
  /\ issued' = {}
  /\ orderly' = (boxes = {})
  /\ UNCHANGED <<boxes, txs>>

(* initialize_signer. *)
InitializeSigner ==
  /\ ready /\ signers < 1
  /\ signers' = signers + 1
  /\ UNCHANGED <<ready, submitted, receipts, boxes, txs, issued, orderly>>

(* do_submit_data. *)
DoSubmitData ==
  /\ ready /\ signers > 0 /\ txs < MaxTxs
  /\ submitted' = Insert(submitted, NextHandle(submitted), txs)
  /\ txs' = txs + 1
  /\ UNCHANGED <<ready, signers, receipts, boxes, issued, orderly>>

(* Mutant of GetTransactionReceipt: the size of the other map is taken. *)
GetTransactionReceiptOther(h) ==
  /\ ready /\ h \in DOMAIN submitted
  /\ Cardinality(issued) < MaxTxs
  /\ LET n == NextHandle(submitted)
     IN  /\ receipts' = Insert(receipts, n, submitted[h])
         /\ issued' = issued \union {[handle |-> n, tx |-> submitted[h]]}
  /\ UNCHANGED <<ready, signers, submitted, boxes, txs, orderly>>

(* get_transaction_receipt. *)
GetTransactionReceipt(h) ==
  /\ ready /\ h \in DOMAIN submitted
  /\ Cardinality(issued) < MaxTxs
  /\ LET n == NextHandle(receipts)
     IN  /\ receipts' = Insert(receipts, n, submitted[h])
         /\ issued' = issued \union {[handle |-> n, tx |-> submitted[h]]}
  /\ UNCHANGED <<ready, signers, submitted, boxes, txs, orderly>>

(* receipt_new: a copy of the receipt, with its handle, in a box. *)
ReceiptNew(h) ==
  /\ ready /\ h \in DOMAIN receipts
  /\ \E p \in 1..MaxTxs :
       /\ \A b \in boxes : b.ptr # p
       /\ boxes' = boxes \union {[ptr |-> p, handle |-> h, tx |-> receipts[h]]}
  /\ UNCHANGED <<ready, signers, submitted, receipts, txs, issued, orderly>>

(* receipt_free: the box and the entry under its handle, whatever that is.   *)
(* The order is kept by who frees the newest receipt, through the only box   *)
(* made of it.                                                              *)
ReceiptFree(b) ==
  /\ ready
  /\ boxes' = boxes \ {b}
  /\ receipts' = Restrict(receipts, DOMAIN receipts \ {b.handle})
  /\ issued' = {i \in issued : i.handle # b.handle}
  /\ orderly' = /\ orderly
                /\ \A i \in issued : i.handle <= b.handle
                /\ \A c \in boxes' : c.handle # b.handle
  /\ UNCHANGED <<ready, signers, submitted, txs>>

FfiNext ==
  \/ InitializeClient \/ InitializeSigner \/ DoSubmitData
  \/ \E h \in DOMAIN submitted : GetTransactionReceipt(h)
  \/ \E h \in DOMAIN receipts : ReceiptNew(h)
  \/ \E b \in boxes : ReceiptFree(b)

FfiSpec == FfiInit /\ [][FfiNext]_ffiVars

-----------------------------------------------------------------------------
(* As long as C code frees receipts in the reverse order of their creation,  *)
(* a handle it was given and has not freed names the receipt it was given    *)
(* for, and no other receipt has it, also after a client was initialized     *)
(* anew.  Handles of submitted transactions are never given twice.           *)
HandlesStable ==
  /\ \A i \in issued :
       orderly => /\ i.handle \in DOMAIN receipts /\ receipts[i.handle] = i.tx
                  /\ \A j \in issued : j.handle = i.handle => j = i
  /\ \A g, h \in DOMAIN submitted : g < h => submitted[g] < submitted[h]
=============================================================================
