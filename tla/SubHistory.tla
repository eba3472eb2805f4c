----------------------------- MODULE SubHistory -----------------------------
(***************************************************************************)
(* Sub with a history variable: where the cursor stood when the call in    *)
(* progress began, to compare with where a failed call leaves it.          *)
(***************************************************************************)
EXTENDS Sub

VARIABLE entry

Position == <<At, Seen>>

HistoryInit == Init /\ entry = Position

HistoryNext ==
  /\ Next
  /\ entry' = IF pc # "idle" THEN entry
              ELSE IF pc' = "idle" THEN Position' ELSE Position

HistorySpec == HistoryInit /\ [][HistoryNext]_<<vars, entry>>

(* The fairness of Sub: the history adds a conjunct, never a condition. *)
FairHistorySpec == HistorySpec /\ WF_vars(Reply /\ UNCHANGED chainVars)

-----------------------------------------------------------------------------
(* Sub::next: after an error "the internal cursor remains unchanged so the *)
(* next call can retry".                                                   *)
NextErrorKeepsCursor ==
  ret = "error" /\ call = "next" /\ entry[1] # NoHeight => Position = entry

(* Sub::prev: after an error "the cursor is left at the same position so   *)
(* the call can be retried".                                               *)
PrevErrorKeepsCursor ==
  ret = "error" /\ call = "prev" /\ entry[1] # NoHeight => Position = entry
=============================================================================
