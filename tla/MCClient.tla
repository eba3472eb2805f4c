------------------------------- MODULE MCClient -------------------------------
(***************************************************************************)
(* The parts of the client that run by themselves, checked side by side:   *)
(* every behaviour is one of one part, the others stay as they began.      *)
(***************************************************************************)
EXTENDS MCCodec, EventCodec, StorageIter, RpcTransport, FfiHandles, BlockQueries,
        RecoveryMap, RetryPolicy

CONSTANTS A, B

VARIABLE part  \* the part that runs

Parts == {"codec", "events", "iter", "rpc", "ffi", "block", "recovery", "retry"}

ClientInit ==
  /\ part \in Parts
  /\ CodecInit /\ EventsInit /\ IterInit /\ TransportInit /\ FfiInit
  /\ ChainInit /\ ViewInit /\ RecoveryInit /\ RetryInit
  \* the shapes and tools that another part would only multiply
  /\ part # "iter" => shape = CHOOSE s \in Shapes : TRUE
  /\ part # "recovery" => tool = "native" /\ profile = "stage-b"

Codec == part = "codec" /\ CodecNext
         /\ UNCHANGED <<part, log, iterVars, rpcVars, ffiVars, chainVars, viewVars, recoveryVars, retryVars>>
Events == part = "events" /\ EventsNext
          /\ UNCHANGED <<part, codecVars, iterVars, rpcVars, ffiVars, chainVars, viewVars, recoveryVars, retryVars>>
Iter == part = "iter" /\ IterNext
        /\ UNCHANGED <<part, codecVars, log, rpcVars, ffiVars, chainVars, viewVars, recoveryVars, retryVars>>
Rpc == part = "rpc" /\ TransportNext
       /\ UNCHANGED <<part, codecVars, log, iterVars, ffiVars, chainVars, viewVars, recoveryVars, retryVars>>
Ffi == part = "ffi" /\ FfiNext
       /\ UNCHANGED <<part, codecVars, log, iterVars, rpcVars, chainVars, viewVars, recoveryVars, retryVars>>
View == part = "block" /\ ViewNext
        /\ UNCHANGED <<part, codecVars, log, iterVars, rpcVars, ffiVars, recoveryVars, retryVars>>
Recovery == part = "recovery" /\ RecoveryNext
            /\ UNCHANGED <<part, codecVars, log, iterVars, rpcVars, ffiVars, viewVars, retryVars>>
Retry == part = "retry" /\ RetryNext
         /\ UNCHANGED <<part, codecVars, log, iterVars, rpcVars, ffiVars, chainVars, viewVars, recoveryVars>>

clientVars == <<part, codecVars, log, iterVars, rpcVars, ffiVars, chainVars, viewVars,
                recoveryVars, retryVars>>

ClientNext == Codec \/ Events \/ Iter \/ Rpc \/ Ffi \/ View \/ Recovery \/ Retry

(* The fairness of the parts, for the part that runs. *)
ClientFairness ==
  /\ WF_iterVars(part = "iter" /\ \E keyValue \in BOOLEAN : Ask(keyValue))
  /\ SF_iterVars(part = "iter" /\ GotKeys) /\ SF_iterVars(part = "iter" /\ GotValue)
  /\ WF_rpcVars(part = "rpc" /\ TakeRequest)
  /\ WF_rpcVars(part = "rpc" /\ (Answered \/ PostFails))
  /\ \A c \in Callers : SF_rpcVars(part = "rpc" /\ Enqueue(c))
  /\ WF_retryVars(part = "retry" /\ Answer) /\ WF_retryVars(part = "retry" /\ Wake)

ClientSpec == ClientInit /\ [][ClientNext]_clientVars /\ ClientFairness

-----------------------------------------------------------------------------
MCBranches == {A, B}

X(tx, what, app, size) == [tx |-> tx, call |-> what, app |-> app, size |-> size]

MCBody(b) ==
  LET set == X("set", "set", NoApp, 1)
  IN  CASE b = <<>>                 -> <<X("t0", "set", NoApp, 1)>>
        [] b = <<A>>                -> <<set, X("one", "submit", 1, 2), X("pay", "transfer", 0, 1)>>
        [] b = <<B>>                -> <<set, X("pay", "transfer", 0, 1), X("one", "submit", 1, 2),
                                         X("two", "submit", 2, 2)>>
        [] Len(b) > 1 /\ b[2] = A   -> <<set, X("three", "submit", 1, 3)>>
        [] OTHER                    -> <<set, X("three", "submit", 1, 3), X("four", "submit", 1, 1)>>

MCKinds == {"submit", "transfer"}
MCFilters == {AnyTx, TxHash("one"), TxIndex(2), PalletCall("transfer")}
MCApps == {NoApp, 1}
MCGrids == {[rows |-> 4, cols |-> 2], [rows |-> 4, cols |-> 3]}

Owner(col, network, replica) == [col |-> col, network |-> network, replica |-> replica]
MCInventory == {Owner(0, 0, 0), Owner(1, 0, 1), Owner(1, 1, 0)}
===============================================================================
