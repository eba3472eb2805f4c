----------------------------- MODULE BlockCursor -----------------------------
(***************************************************************************)
(* What a block subscription promises, without its caches, polls and RPC   *)
(* calls.  The cursor stands before a height (seen = {}) or on it, when    *)
(* the blocks in seen were delivered there.  A call steps back at most     *)
(* once, when it begins, and delivers at most one block, when it ends; a   *)
(* call that fails leaves the cursor where its beginning put it.           *)
(***************************************************************************)
EXTENDS ChainNode

CONSTANT NoHeight

VARIABLES
  stream,  \* "uninit", "best" or "final"
  at,      \* the height the cursor stands at, NoHeight before it is known
  seen,    \* the blocks delivered at that height
  last,    \* the last block delivered
  phase,   \* "idle", "opening" (the height is being asked for) or "open"
  call     \* the call in progress: "next" or "prev"

vars == <<best, finalized, stream, at, seen, last, phase, call>>

Init ==
  /\ ChainInit
  /\ stream = "uninit"
  /\ at = NoHeight
  /\ seen = {}
  /\ last = NoBlock
  /\ phase = "idle"
  /\ call = "next"

Tip(s) == IF s = "final" THEN finalized ELSE best

Below(h) == IF h = 0 THEN 0 ELSE h - 1

(* Between calls the application may put the cursor before any height. *)
Jump ==
  /\ phase = "idle"
  /\ at' \in 0..(MaxHeight + 1)
  /\ seen' = {}
  /\ UNCHANGED <<stream, last, phase, call>>

(* The call is about stream s, from height h: prev stands before the height *)
(* below it.                                                                *)
Aim(s, d, h) ==
  /\ s \in {"best", "final"}
  /\ stream # "uninit" => s = stream
  /\ stream' = s
  /\ at' = IF d = "prev" THEN Below(h) ELSE h
  /\ seen' = IF d = "prev" THEN {} ELSE seen
  /\ phase' = "open"
  /\ UNCHANGED last

Begin ==
  /\ phase = "idle"
  /\ call' \in {"next", "prev"}
  /\ IF at = NoHeight
     THEN phase' = "opening" /\ UNCHANGED <<stream, at, seen, last>>
     ELSE \E s \in {"best", "final"} : Aim(s, call', at)

(* Without a height the cursor starts at the tip of the chain it follows. *)
Opened ==
  /\ phase = "opening"
  /\ \E s \in {"best", "final"} : Aim(s, call, Height(Tip(s)))
  /\ UNCHANGED call

(* A block is delivered once per stand: the block at the cursor's height if *)
(* none was, the one above it otherwise, or -- following the best chain --  *)
(* another block at the same height.                                        *)
Deliver ==
  /\ phase = "open"
  /\ \E h \in 0..Height(Tip(stream)) :
       LET b == AncestorAt(Tip(stream), h) IN
       /\ \/ seen = {} /\ h = at
          \/ seen # {} /\ h = at + 1
          \/ seen # {} /\ h = at /\ stream = "best"
       /\ b \notin seen
       /\ at' = h
       /\ seen' = IF h = at THEN seen \cup {b} ELSE {b}
       /\ last' = b
  /\ phase' = "idle"
  /\ UNCHANGED <<stream, call>>

Fail ==
  /\ phase # "idle"
  /\ phase' = "idle"
  /\ UNCHANGED <<stream, at, seen, last, call>>

CursorNext == Jump \/ Begin \/ Opened \/ Deliver \/ Fail

Next == \/ ChainNext /\ UNCHANGED <<stream, at, seen, last, phase, call>>
        \/ CursorNext /\ UNCHANGED chainVars

Spec == Init /\ [][Next]_vars
=============================================================================
