---------------------------- MODULE ReceiptProofs ----------------------------
(***************************************************************************)
(* The searches for a submitted transaction, for every set of blocks, every *)
(* account history and every mortality: a receipt names a block that holds  *)
(* the transaction, and None from finalized blocks is definite.             *)
(***************************************************************************)
EXTENDS Receipt, SubProofs

-----------------------------------------------------------------------------
(* Numbers and chains *)

(* The block at a height of the chain below c is what c holds there. *)
LEMMA AncestorHolds ==
  ASSUME NEW c \in Blocks, NEW h \in 0..Height(c)
  PROVE  /\ HasTx(AncestorAt(c, h)) <=> h > 0 /\ c[h] \in TxBranches
         /\ \A i \in 1..h : AncestorAt(c, h)[i] = c[i]
<1>1. Height(AncestorAt(c, h)) = h
  BY AncestorIsBlock
<1>2. h \in Nat /\ \A i \in 1..h : AncestorAt(c, h)[i] = c[i]
  BY BlockShape, ChainAssumption DEF AncestorAt
<1>. QED
  BY <1>1, <1>2 DEF HasTx

(* TxIn, of the branches of the block itself. *)
LEMMA TxInIs ==
  ASSUME NEW c \in Blocks, NEW from \in Nat, NEW to \in Int
  PROVE  TxIn(c, from, to) <=>
           \E h \in from..to : h > 0 /\ h <= Height(c) /\ c[h] \in TxBranches
<1>1. Height(c) \in Nat
  BY BlockShape, ChainAssumption
<1>2. \A h \in from..to : h <= Height(c) => h \in 0..Height(c)
  BY <1>1
<1>. QED
  BY <1>2, AncestorHolds DEF TxIn

(* Two blocks of one chain agree up to the lower one. *)
LEMMA SamePast ==
  ASSUME NEW a \in Blocks, NEW c \in Blocks, OnChain(a, c)
  PROVE  /\ Height(a) \in Nat /\ Height(c) \in Nat /\ Height(a) <= Height(c)
         /\ \A i \in 1..Height(a) : a[i] = c[i]
<1>1. Height(a) \in Nat /\ Height(c) \in Nat
  BY BlockShape, ChainAssumption
<1>. QED
  BY <1>1 DEF OnChain, AncestorAt

(* What the runtime accepted stays accepted in every ancestor. *)
LEMMA AncestorValid ==
  ASSUME NEW a \in Blocks, NEW c \in Blocks, OnChain(a, c), Valid(c)
  PROVE  Valid(a)
<1>. SUFFICES ASSUME NEW i \in 1..Height(a), a[i] \in TxBranches
              PROVE  NonceAt(AncestorAt(a, i - 1)) = TxNonce /\ i < EraPeriod
  BY DEF Valid
<1>1. i \in 1..Height(c) /\ c[i] = a[i] /\ i - 1 \in 0..Height(a)
  BY SamePast
<1>2. AncestorAt(c, i - 1) = AncestorAt(a, i - 1)
  BY <1>1, AncestorOfAncestor
<1>. QED
  BY <1>1, <1>2 DEF Valid

-----------------------------------------------------------------------------
(* Nonces *)

(* The transactions NonceAt counts, and the blocks that reap the account. *)
Since(b) == {i \in 1..Height(b) : /\ b[i] \in TxBranches \cup OtherBranches
                                  /\ \A j \in i..Height(b) : b[j] \notin ReapBranches}
Reaped(b) == \E i \in 1..Height(b) : b[i] \in ReapBranches

LEMMA NonceIs ==
  ASSUME NEW b \in Blocks
  PROVE  /\ NonceAt(b) = Cardinality(Since(b)) + IF Reaped(b) THEN 0 ELSE FirstNonce
         /\ IsFiniteSet(Since(b)) /\ Cardinality(Since(b)) \in Nat
         /\ Height(b) \in Nat
         /\ NonceAt(b) \in Nat
<1>1. Height(b) \in Nat
  BY BlockShape, ChainAssumption
<1>2. IsFiniteSet(Since(b))
  <2>1. Since(b) \in SUBSET (1..Height(b)) /\ IsFiniteSet(1..Height(b))
    BY <1>1, FS_Interval DEF Since
  <2>. QED
    BY <2>1, FS_Subset
<1>3. Cardinality(Since(b)) \in Nat
  BY <1>2, FS_CardinalityType
<1>4. NonceAt(b) = Cardinality(Since(b)) + IF Reaped(b) THEN 0 ELSE FirstNonce
  BY DEF NonceAt, Since, Reaped
<1>. QED
  BY <1>1, <1>2, <1>3, <1>4, ReceiptAssumption

(* In a block that holds the transaction the account's nonce is past the    *)
(* transaction's, or 0 because the transaction reaped the account.          *)
LEMMA NonceTells ==
  ASSUME NEW b \in Blocks, Valid(b), HasTx(b)
  PROVE  NonceAt(b) > TxNonce \/ NonceAt(b) = 0
<1>. DEFINE h == Height(b)
            a == AncestorAt(b, h - 1)
<1>1. h \in Nat /\ h \in 1..h /\ b[h] \in TxBranches /\ h - 1 \in 0..h
  BY NonceIs DEF HasTx
<1>2. NonceAt(a) = TxNonce
  BY <1>1 DEF Valid
<1>3. /\ a \in Blocks /\ Height(a) = h - 1
      /\ \A i \in 1..(h - 1) : a[i] = b[i]
  BY <1>1, AncestorIsBlock, AncestorHolds
<1>4. CASE b[h] \in ReapBranches
  <2>1. Since(b) = {} /\ Reaped(b)
    <3>1. \A i \in 1..h : h \in i..h
      BY <1>1
    <3>. QED
      BY <1>1, <1>4, <3>1 DEF Since, Reaped
  <2>. QED
    BY <2>1, NonceIs, FS_EmptySet
<1>5. CASE b[h] \notin ReapBranches
  <2>1. Reaped(b) <=> Reaped(a)
    <3>1. \A i \in 1..h : i = h \/ i \in 1..(h - 1)
      BY <1>1
    <3>2. \A i \in 1..(h - 1) : i \in 1..h
      BY <1>1
    <3>. QED
      BY <1>3, <1>5, <3>1, <3>2 DEF Reaped
  <2>2. Since(b) = Since(a) \cup {h}
    <3>1. \A i \in 1..h : i = h \/ i \in 1..(h - 1)
      BY <1>1
    <3>2. \A i \in 1..(h - 1) : /\ i \in 1..h
                                /\ i..(h - 1) \subseteq 1..(h - 1)
                                /\ i..h = (i..(h - 1)) \cup {h}
      BY <1>1
    <3>3. h..h = {h}
      BY <1>1
    <3>4. ASSUME NEW i \in 1..(h - 1) PROVE i \in Since(b) <=> i \in Since(a)
      <4>1. a[i] = b[i] /\ i \in 1..h
        BY <1>3, <3>2
      <4>2. (\A j \in i..h : b[j] \notin ReapBranches)
              <=> (\A j \in i..(h - 1) : a[j] \notin ReapBranches)
        BY <1>3, <1>5, <3>2
      <4>. QED
        BY <1>3, <4>1, <4>2 DEF Since
    <3>5. h \in Since(b)
      BY <1>1, <1>5, <3>3 DEF Since
    <3>6. Since(a) \subseteq 1..(h - 1) /\ Since(b) \subseteq 1..h
      BY <1>3 DEF Since
    <3>. QED
      BY <3>1, <3>4, <3>5, <3>6
  <2>3. h \notin Since(a)
    BY <1>1, <1>3 DEF Since
  <2>4. Cardinality(Since(b)) = Cardinality(Since(a)) + 1
    BY <1>3, <2>2, <2>3, NonceIs, FS_AddElement
  <2>. QED
    BY <1>2, <1>3, <2>1, <2>4, NonceIs, ReceiptAssumption
<1>. QED
  BY <1>4, <1>5

(* While the account is not reaped its nonce only grows. *)
LEMMA NonceGrows ==
  ASSUME NEW a \in Blocks, NEW c \in Blocks, OnChain(a, c), ~ Reaped(c)
  PROVE  NonceAt(a) <= NonceAt(c)
<1>1. /\ Height(a) \in Nat /\ Height(c) \in Nat /\ Height(a) <= Height(c)
      /\ \A i \in 1..Height(a) : a[i] = c[i] /\ i \in 1..Height(c)
  BY SamePast
<1>2. ~ Reaped(a)
  BY <1>1 DEF Reaped
<1>3. Since(a) \subseteq Since(c)
  <2>. SUFFICES ASSUME NEW i \in Since(a) PROVE i \in Since(c)
    OBVIOUS
  <2>1. i \in 1..Height(a) /\ a[i] \in TxBranches \cup OtherBranches
    BY DEF Since
  <2>2. \A j \in i..Height(c) : j \in 1..Height(c)
    BY <1>1, <2>1
  <2>. QED
    BY <1>1, <2>1, <2>2 DEF Since, Reaped
<1>4. Cardinality(Since(a)) <= Cardinality(Since(c))
  BY <1>3, NonceIs, FS_Subset
<1>. QED
  BY <1>2, <1>4, NonceIs, ReceiptAssumption

(* b rules the transaction out: it is not in b or below, and above b it is  *)
(* too late for it, by its era or by its nonce.                             *)
RulesOut(b) ==
  /\ ~ TxIn(b, 0, Height(b))
  /\ Height(b) + 1 >= EraPeriod \/ NonceAt(b) > TxNonce

LEMMA RuledOut ==
  ASSUME NEW b \in Blocks, NEW c \in Blocks, OnChain(b, c), Valid(c), RulesOut(b)
  PROVE  ~ TxIn(c, 0, Height(c))
<1>. DEFINE T == {i \in 1..Height(c) : c[i] \in TxBranches}
<1>1. /\ Height(b) \in Nat /\ Height(c) \in Nat /\ Height(b) <= Height(c)
      /\ \A i \in 1..Height(b) : b[i] = c[i]
  BY SamePast
<1>. SUFFICES ASSUME T # {} PROVE FALSE
  <2>1. TxIn(c, 0, Height(c)) =>
          \E h \in 0..Height(c) : h > 0 /\ h <= Height(c) /\ c[h] \in TxBranches
    BY <1>1, TxInIs
  <2>. QED
    BY <1>1, <2>1
<1>2. PICK m \in T : \A n \in T : m <= n
  <2>1. T \subseteq Nat
    BY <1>1
  <2>. QED
    BY <2>1, LeastMember
<1>3. m \in 1..Height(c) /\ c[m] \in TxBranches /\ m \in Nat
  BY <1>1
<1>4. m > Height(b)
  <2>1. ASSUME m <= Height(b) PROVE TxIn(b, 0, Height(b))
    <3>1. m \in 0..Height(b) /\ m > 0 /\ b[m] \in TxBranches
      BY <1>1, <1>3, <2>1
    <3>. QED
      BY <1>1, <2>1, <3>1, TxInIs
  <2>. QED
    BY <1>1, <1>3, <2>1 DEF RulesOut
<1>5. NonceAt(AncestorAt(c, m - 1)) = TxNonce /\ m < EraPeriod
  BY <1>3 DEF Valid
<1>6. CASE Height(b) + 1 >= EraPeriod
  BY <1>1, <1>3, <1>4, <1>5, <1>6, ReceiptAssumption
<1>7. CASE NonceAt(b) > TxNonce
  <2>. DEFINE a == AncestorAt(c, m - 1)
  <2>1. m - 1 \in 0..Height(c) /\ m - 1 \in Nat
    BY <1>1, <1>3
  <2>2. /\ a \in Blocks /\ Height(a) = m - 1 /\ OnChain(a, c)
        /\ \A i \in 1..(m - 1) : a[i] = c[i]
    BY <2>1, AncestorIsBlock, AncestorHolds
  <2>3. OnChain(b, a)
    <3>1. Height(b) \in 0..Height(a)
      BY <1>1, <1>3, <1>4, <2>2
    <3>2. AncestorAt(c, Height(b)) = AncestorAt(a, Height(b))
      BY <2>2, <3>1, AncestorOfAncestor
    <3>. QED
      BY <3>1, <3>2 DEF OnChain
  <2>4. ~ Reaped(a)
    <3>. SUFFICES ASSUME NEW i \in 1..(m - 1), a[i] \in ReapBranches PROVE FALSE
      BY <2>2 DEF Reaped
    <3>1. c[i] \in TxBranches /\ i \in 1..Height(c) /\ i < m
      BY <1>1, <1>3, <2>2, ReceiptAssumption
    <3>. QED
      BY <1>2, <1>3, <3>1
  <2>5. NonceAt(b) <= NonceAt(a)
    BY <2>2, <2>3, <2>4, NonceGrows
  <2>. QED
    BY <1>5, <1>7, <2>2, <2>5, NonceIs, ReceiptAssumption
<1>. QED
  BY <1>6, <1>7 DEF RulesOut

-----------------------------------------------------------------------------
(* Looking for the transaction *)

(* Blocks of one chain hold the same transactions up to the lower one. *)
LEMMA SameTx ==
  ASSUME NEW a \in Blocks, NEW c \in Blocks, OnChain(a, c),
         NEW from \in Nat, NEW to \in Int, to <= Height(a)
  PROVE  TxIn(a, from, to) <=> TxIn(c, from, to)
<1>1. /\ Height(a) \in Nat /\ Height(c) \in Nat /\ Height(a) <= Height(c)
      /\ \A i \in 1..Height(a) : a[i] = c[i]
  BY SamePast
<1>2. \A h \in from..to : h > 0 =>
        h <= Height(a) /\ h <= Height(c) /\ a[h] = c[h]
  BY <1>1
<1>3. TxIn(a, from, to) <=>
        \E h \in from..to : h > 0 /\ h <= Height(a) /\ a[h] \in TxBranches
  BY TxInIs
<1>4. TxIn(c, from, to) <=>
        \E h \in from..to : h > 0 /\ h <= Height(c) /\ c[h] \in TxBranches
  BY TxInIs
<1>. QED
  BY <1>2, <1>3, <1>4

(* One more block read, one more block without it. *)
LEMMA OneMore ==
  ASSUME NEW b \in Blocks, NEW from \in Nat,
         ~ TxIn(b, from, Height(b) - 1), ~ HasTx(b)
  PROVE  ~ TxIn(b, from, Height(b))
<1>1. Height(b) \in Nat /\ AncestorAt(b, Height(b)) = b
  BY AncestorSelf, BlockShape, ChainAssumption
<1>2. \A h \in from..Height(b) : h = Height(b) \/ h \in from..(Height(b) - 1)
  BY <1>1
<1>. QED
  BY <1>1, <1>2 DEF TxIn

-----------------------------------------------------------------------------
(* The invariant *)

(* The stages with a block at hand. *)
AtHand == {"nonce", "peek", "infos"}

(* Where a search is, and where its Sub is. *)
PlaceInv ==
  /\ stage = "sub" <=> pc # "idle"
  /\ pc # "build"
  /\ stage = "new" => mode = "uninit"
  /\ stage # "new" => cursor # NoHeight
  /\ stage = "opened" => mode = "uninit"
  /\ mode = "uninit" => stage \in {"new", "opened", "walk", "done"}
  /\ mode = "uninit" /\ stage \in {"opened", "walk"} => cursor = first /\ seenTo = 0
  /\ stage \in AtHand => last \in Blocks
  /\ answer = "pending" <=> stage # "done"
  /\ stage # "new" /\ flow = "receipt" => first = 0 /\ until = Window

(* Searching final blocks: every block from the first one up to the one     *)
(* delivered last was read and does not hold the transaction; the one at    *)
(* hand is still to be read.                                                *)
WalkInv ==
  mode = "final" /\ stage \in {"walk", "sub"} \cup AtHand =>
    \/ stage \notin AtHand /\ cursor = first /\ seenTo = 0
    \/ /\ last \in Blocks /\ seenTo = Height(last) /\ cursor = Height(last) + 1
       /\ first <= seenTo
       /\ ~ TxIn(last, first, IF stage \in AtHand THEN seenTo - 1 ELSE seenTo)

(* The events are read because the nonce says so, or the block was peeked at. *)
InfosInv ==
  stage = "infos" /\ flow = "receipt" => NonceAt(last) > TxNonce \/ HasTx(last)

(* The window, as the code closes it, covers the era. *)
WindowCovers == EraPeriod <= Window + 2

(* A final block that is the reason for None. *)
Reason(b) ==
  /\ OnChain(b, finalized)
  /\ flow = "range" => until <= Height(b) /\ ~ TxIn(b, first, until)
  /\ flow = "receipt" => (WindowCovers => RulesOut(b))

AnswerInv ==
  /\ answer = "receipt" => receipt \in Blocks
  /\ answer = "none" /\ mode = "final" => \E b \in Blocks : Reason(b)

SearchInv ==
  /\ IInv /\ ReceiptTypeOK /\ Valid(best)
  /\ PlaceInv /\ WalkInv /\ InfosInv /\ AnswerInv /\ ReceiptHoldsTx

LEMMA WindowType == Window \in Nat
BY ReceiptAssumption DEF Window

LEMMA InitSearch == ReceiptInit => SearchInv
<1>. SUFFICES ASSUME ReceiptInit PROVE SearchInv
  OBVIOUS
<1>. USE DEF ReceiptInit
<1>1. IInv
  BY InitIInv
<1>2. /\ best = Genesis /\ mode = "uninit" /\ pc = "idle" /\ cursor = NoHeight
  BY DEF Init, ChainInit, SubInit
<1>3. Valid(best)
  <2>1. Height(best) = 0
    BY <1>2 DEF Genesis, Height
  <2>. QED
    BY <2>1 DEF Valid
<1>4. 0 \in Heights
  BY ChainAssumption DEF Heights
<1>. QED
  BY <1>1, <1>2, <1>3, <1>4
     DEF SearchInv, IInv, ReceiptTypeOK, PlaceInv, WalkInv, InfosInv, AnswerInv,
         ReceiptHoldsTx, AtHand

(* A search uses the Sub as Next allows. *)
LEMMA StepsOfSearch ==
  ASSUME SearchInv, [ReceiptNext]_allVars
  PROVE  [Next]_vars
<1>1. CASE UNCHANGED allVars
  BY <1>1 DEF allVars, vars
<1>2. ASSUME ChainNext, UNCHANGED subVars PROVE Next
  BY <1>2 DEF Next
<1>3. ASSUME UNCHANGED chainVars, Search \/ Errs PROVE [Next]_vars
  <2>0. \A v \in 0..MaxHeight : v \in Heights
    BY HeightsFacts
  <2>1. CASE FindReceipt \/ FindInRange
    <3>1. 0 \in 0..MaxHeight
      BY ChainAssumption
    <3>. QED
      BY <1>3, <2>0, <2>1, <3>1 DEF FindReceipt, FindInRange, Next, SubNext, SubOp
  <2>2. CASE Choose
    BY <1>3, <2>2 DEF Choose, Next, SubNext, SubOp
  <2>3. CASE Start("next")
    BY <1>3, <2>3 DEF Next, SubNext, SubOp
  <2>4. CASE UNCHANGED subVars
    BY <1>3, <2>4 DEF subVars, chainVars, vars
  <2>5. CASE SubStep(Reply) \/ SubStep(RpcFails)
    BY <1>3, <2>5 DEF SubStep, Next, SubNext
  <2>6. CASE Walk
    BY <2>3, <2>4, <2>6 DEF Walk, End
  <2>7. CASE Nonce \/ Peek \/ Infos \/ Fails
    BY <2>4, <2>7 DEF Nonce, Peek, Infos, Fails, Continue, End
  <2>. QED
    BY <1>3, <2>1, <2>2, <2>5, <2>6, <2>7 DEF Search, Errs
<1>. QED
  BY <1>1, <1>2, <1>3 DEF ReceiptNext

-----------------------------------------------------------------------------
(* The node moves *)

LEMMA ChainKeepsSearch ==
  ASSUME SearchInv, IInv', ChainNext, Valid(best'), UNCHANGED <<subVars, receiptVars>>
  PROVE  SearchInv'
<1>. USE DEF SearchInv, subVars, receiptVars
<1>1. /\ finalized \in Blocks /\ finalized' \in Blocks /\ OnChain(finalized, finalized')
  BY ChainStep DEF IInv, TypeOK, ChainTypeOK
<1>2. ReceiptTypeOK' /\ PlaceInv' /\ WalkInv' /\ InfosInv'
  <2>1. ReceiptTypeOK'
    BY DEF ReceiptTypeOK, IInv, Heights, Blocks, BlocksAt
  <2>2. PlaceInv'
    BY DEF PlaceInv, Blocks, BlocksAt
  <2>3. WalkInv'
    BY DEF WalkInv, Blocks, BlocksAt, TxIn, Height, AncestorAt, HasTx
  <2>4. InfosInv'
    BY DEF InfosInv, NonceAt, HasTx, Height
  <2>. QED
    BY <2>1, <2>2, <2>3, <2>4
<1>3. ASSUME NEW b \in Blocks, OnChain(b, finalized) PROVE OnChain(b, finalized')
  BY <1>1, <1>3, OnChainTransitive
<1>4. ReceiptHoldsTx'
  BY <1>3 DEF ReceiptHoldsTx, AnswerInv, HasTx, Height
<1>5. AnswerInv'
  BY <1>3 DEF AnswerInv, Reason, RulesOut, TxIn, NonceAt, HasTx, Height, AncestorAt,
              Blocks, BlocksAt
<1>6. Valid(best)'
  BY DEF Valid, NonceAt, Height, AncestorAt
<1>. QED
  BY <1>2, <1>4, <1>5, <1>6

(* What keeps its value where the node does not move. *)
LEMMA StillValid ==
  ASSUME SearchInv, UNCHANGED chainVars
  PROVE  Valid(best)' /\ finalized' = finalized /\ best' = best
  BY DEF SearchInv, chainVars, Valid, NonceAt, Height, AncestorAt

-----------------------------------------------------------------------------
(* Opening the search *)

LEMMA FindKeepsSearch ==
  ASSUME SearchInv, IInv', UNCHANGED chainVars, FindReceipt \/ FindInRange
  PROVE  SearchInv'
<1>. USE DEF SearchInv
<1>1. /\ stage = "new" /\ mode = "uninit" /\ answer = "pending" /\ receipt' = receipt
      /\ UNCHANGED <<mode, pc, last>> /\ pc = "idle" /\ seenTo' = 0
      /\ cursor' = first' /\ first' \in 0..MaxHeight
      /\ until' \in Nat /\ flow' \in {"receipt", "range"}
      /\ flow' = "receipt" => first' = 0 /\ until' = Window
      /\ \/ stage' = "opened" /\ answer' = "pending"
         \/ stage' = "done" /\ answer' = "error"
  BY ChainAssumption, WindowType
     DEF FindReceipt, FindInRange, SetBlockHeight, PlaceInv
<1>2. first' \in Heights /\ cursor' # NoHeight /\ 0 \in Heights
  BY <1>1, HeightsFacts, ChainAssumption DEF Heights
<1>3. ReceiptTypeOK'
  BY <1>1, <1>2 DEF ReceiptTypeOK, IInv, Heights, Blocks, BlocksAt
<1>4. PlaceInv' /\ WalkInv' /\ InfosInv' /\ AnswerInv' /\ ReceiptHoldsTx'
  BY <1>1, <1>2 DEF PlaceInv, WalkInv, InfosInv, AnswerInv, ReceiptHoldsTx, AtHand
<1>. QED
  BY <1>3, <1>4, StillValid

LEMMA ChooseKeepsSearch ==
  ASSUME SearchInv, IInv', UNCHANGED chainVars, Choose
  PROVE  SearchInv'
<1>. USE DEF SearchInv
<1>1. /\ stage = "opened" /\ stage' = "walk" /\ mode = "uninit"
      /\ UNCHANGED <<mode, pc, cursor, last, flow, first, until, seenTo, answer, receipt>>
  BY DEF Choose, UseBestBlock
<1>2. ReceiptTypeOK'
  BY <1>1 DEF ReceiptTypeOK, IInv, Heights, Blocks, BlocksAt
<1>3. PlaceInv' /\ WalkInv' /\ InfosInv' /\ AnswerInv' /\ ReceiptHoldsTx'
  BY <1>1 DEF PlaceInv, WalkInv, InfosInv, AnswerInv, ReceiptHoldsTx, AtHand
<1>. QED
  BY <1>2, <1>3, StillValid

-----------------------------------------------------------------------------
(* The end of the search *)

(* A search that ends leaves its Sub as it was. *)
LEMMA EndKeepsSearch ==
  ASSUME SearchInv, IInv', UNCHANGED chainVars,
         stage \in {"walk"} \cup AtHand, UNCHANGED <<flow, first, until, seenTo>>,
         NEW how \in {"receipt", "none", "error"}, NEW b \in Blocks \cup {NoBlock},
         End(how, b),
         how = "none" /\ mode = "final" => \E x \in Blocks : Reason(x),
         how = "receipt" =>
           /\ b \in Blocks
           /\ flow = "receipt" \/ mode = "final" =>
                HasTx(b) /\ (mode = "final" => OnChain(b, finalized))
  PROVE  SearchInv'
<1>. USE DEF SearchInv
<1>1. /\ stage' = "done" /\ answer' = how /\ receipt' = b
      /\ UNCHANGED <<mode, pc, cursor, last>> /\ finalized' = finalized
  BY DEF End, subVars, chainVars
<1>2. ReceiptTypeOK'
  BY <1>1 DEF ReceiptTypeOK, IInv, Heights, Blocks, BlocksAt
<1>3. PlaceInv' /\ WalkInv' /\ InfosInv'
  BY <1>1 DEF PlaceInv, WalkInv, InfosInv, AtHand
<1>4. ReceiptHoldsTx'
  BY <1>1 DEF ReceiptHoldsTx, HasTx, Height
<1>5. AnswerInv'
  BY <1>1 DEF AnswerInv, Reason, RulesOut, TxIn, NonceAt, HasTx, Height, AncestorAt,
              Blocks, BlocksAt
<1>. QED
  BY <1>2, <1>3, <1>4, <1>5, StillValid

LEMMA FailsKeepsSearch ==
  ASSUME SearchInv, IInv', UNCHANGED chainVars, Fails
  PROVE  SearchInv'
<1>1. /\ stage \in AtHand /\ End("error", NoBlock)
      /\ UNCHANGED <<flow, first, until, seenTo>>
  BY DEF Fails, AtHand
<1>. QED
  BY <1>1, EndKeepsSearch

(* In final mode, walking or at hand, past the first height. *)
LEMMA WalkedFacts ==
  ASSUME SearchInv, mode = "final", stage \in AtHand \/ seenTo > 0,
         stage \in {"walk", "sub"} \cup AtHand
  PROVE  /\ last \in Blocks /\ seenTo = Height(last) /\ cursor = Height(last) + 1
         /\ OnChain(last, finalized) /\ finalized \in Blocks /\ best \in Blocks
         /\ OnChain(finalized, best) /\ OnChain(last, best)
         /\ first \in Nat /\ first <= seenTo /\ Height(last) \in Nat
         /\ ~ TxIn(last, first, IF stage \in AtHand THEN seenTo - 1 ELSE seenTo)
<1>. USE DEF SearchInv
<1>1. /\ last \in Blocks /\ seenTo = Height(last) /\ cursor = Height(last) + 1
      /\ first <= seenTo /\ Height(last) \in Nat /\ first \in Nat
      /\ ~ TxIn(last, first, IF stage \in AtHand THEN seenTo - 1 ELSE seenTo)
  BY HeightsFacts DEF WalkInv, ReceiptTypeOK
<1>2. /\ OnChain(last, finalized) /\ finalized \in Blocks /\ best \in Blocks
      /\ OnChain(finalized, best)
  BY <1>1, HeightsFacts DEF IInv, FinalizedDelivered, TypeOK, ChainTypeOK
<1>3. OnChain(last, best)
  BY <1>1, <1>2, OnChainTransitive
<1>. QED
  BY <1>1, <1>2, <1>3

LEMMA WalkKeepsSearch ==
  ASSUME SearchInv, IInv', UNCHANGED chainVars, Walk
  PROVE  SearchInv'
<1>. USE DEF SearchInv
<1>1. stage = "walk" /\ UNCHANGED <<flow, first, until, seenTo>>
  BY DEF Walk
<1>2. CASE flow = "receipt" /\ seenTo > until /\ End("none", NoBlock)
  <2>1. first = 0 /\ until = Window /\ seenTo > 0 /\ seenTo > Window
    BY <1>1, <1>2, WindowType, HeightsFacts DEF PlaceInv, ReceiptTypeOK
  <2>2. ASSUME mode = "final" PROVE Reason(last) /\ last \in Blocks
    <3>1. /\ last \in Blocks /\ seenTo = Height(last) /\ OnChain(last, finalized)
          /\ Height(last) \in Nat /\ ~ TxIn(last, 0, Height(last))
      BY <1>1, <2>1, <2>2, WalkedFacts DEF AtHand
    <3>2. WindowCovers => Height(last) + 1 >= EraPeriod
      BY <2>1, <3>1, ReceiptAssumption, WindowType DEF WindowCovers
    <3>. QED
      BY <1>2, <3>1, <3>2 DEF Reason, RulesOut
  <2>. QED
    BY <1>1, <1>2, <2>2, EndKeepsSearch
<1>3. CASE Start("next") /\ stage' = "sub" /\ UNCHANGED <<answer, receipt>>
  <2>1. cursor # NoHeight /\ cursor \in Heights /\ UNCHANGED last
    BY <1>1, <1>3 DEF PlaceInv, IInv, TypeOK, SubTypeOK, Start
  <2>2. /\ Enter(Concrete, "next", cursor)
        /\ Concrete \in {"best", "final"} /\ (mode # "uninit" => Concrete = mode)
    BY <1>3, <2>1 DEF Start, Concrete, IInv, TypeOK, SubTypeOK
  <2>3. mode' = Concrete /\ cursor' = cursor /\ pc' = Route(cursor, latestFinalized)
    BY <2>2 DEF Enter
  <2>4. pc' # "idle" /\ pc' # "build"
    BY <2>1, <2>3, RouteFacts DEF IInv, TypeOK, SubTypeOK
  <2>5. ReceiptTypeOK'
    BY <1>1, <1>3 DEF ReceiptTypeOK, IInv, Heights, Blocks, BlocksAt
  <2>6. PlaceInv' /\ InfosInv'
    BY <1>1, <1>3, <2>1, <2>2, <2>3, <2>4 DEF PlaceInv, InfosInv, AtHand
  <2>7. WalkInv'
    BY <1>1, <1>3, <2>1, <2>2, <2>3
       DEF WalkInv, PlaceInv, AtHand, TxIn, HasTx, Height, AncestorAt, Blocks, BlocksAt
  <2>8. AnswerInv' /\ ReceiptHoldsTx'
    BY <1>1, <1>3 DEF PlaceInv, AnswerInv, ReceiptHoldsTx
  <2>. QED
    BY <2>5, <2>6, <2>7, <2>8, StillValid
<1>. QED
  BY <1>2, <1>3 DEF Walk

-----------------------------------------------------------------------------
(* A step of the Sub below the search *)

LEMMA SubStepKeepsSearch ==
  ASSUME SearchInv, IInv', UNCHANGED chainVars,
         SubStep(Reply) \/ SubStep(RpcFails)
  PROVE  SearchInv'
<1>. USE DEF SearchInv
<1>1. /\ stage = "sub" /\ pc # "idle" /\ pc # "build" /\ (Reply \/ RpcFails)
      /\ answer = "pending" /\ cursor # NoHeight
      /\ UNCHANGED <<flow, first, until, receipt, finalized>>
  BY DEF SubStep, PlaceInv, chainVars
<1>2. mode' = mode /\ mode # "uninit" /\ (Stays \/ Delivers)
  BY <1>1, SubStepOutcome
<1>3. CASE Stays
  <2>1. /\ UNCHANGED <<cursor, last, seenTo>>
        /\ \/ pc' # "idle" /\ stage' = "sub" /\ answer' = "pending"
           \/ pc' = "idle" /\ stage' = "done" /\ answer' = "error"
    BY <1>1, <1>3 DEF Stays, SubStep
  <2>2. ReceiptTypeOK'
    BY <1>1, <2>1 DEF ReceiptTypeOK, IInv, Heights, Blocks, BlocksAt
  <2>3. pc' # "build"
    BY <1>2 DEF IInv, ModeInv
  <2>4. PlaceInv' /\ InfosInv' /\ AnswerInv' /\ ReceiptHoldsTx'
    BY <1>1, <1>2, <2>1, <2>3 DEF PlaceInv, InfosInv, AnswerInv, ReceiptHoldsTx, AtHand
  <2>5. WalkInv'
    BY <1>1, <1>2, <2>1
       DEF WalkInv, AtHand, TxIn, HasTx, Height, AncestorAt, Blocks, BlocksAt
  <2>. QED
    BY <2>2, <2>4, <2>5, StillValid
<1>4. CASE Delivers
  <2>1. /\ pc' = "idle" /\ ret' = "ok" /\ last' \in Blocks
        /\ stage' \in {"nonce", "infos"} /\ (flow = "receipt" => stage' = "nonce")
        /\ seenTo' = Height(last') /\ answer' = "pending"
    BY <1>1, <1>4 DEF Delivers, SubStep
  <2>2. Height(last') \in Heights /\ Height(last') \in Nat
    BY <2>1, HeightsFacts
  <2>3. ReceiptTypeOK'
    BY <1>1, <2>1, <2>2 DEF ReceiptTypeOK, IInv, Heights, Blocks, BlocksAt
  <2>4. cursor' # NoHeight
    BY <1>2, HeightsFacts DEF IInv, TypeOK, SubTypeOK
  <2>5. PlaceInv' /\ InfosInv' /\ AnswerInv' /\ ReceiptHoldsTx'
    <3>1. last' \in Blocks'
      BY <2>1 DEF Blocks, BlocksAt
    <3>. QED
      BY <1>1, <1>2, <2>1, <2>4, <3>1
         DEF PlaceInv, InfosInv, AnswerInv, ReceiptHoldsTx, AtHand
  <2>6. WalkInv'
    <3>. SUFFICES ASSUME mode = "final"
                  PROVE  /\ cursor' = Height(last') + 1 /\ first <= Height(last')
                         /\ ~ TxIn(last', first, Height(last') - 1)
      BY <1>1, <1>2, <2>1 DEF WalkInv, AtHand, TxIn, HasTx, Height, AncestorAt, Blocks, BlocksAt
    <3>1. cursor' = cursor + 1 /\ Height(last') = cursor /\ first \in Nat
      BY <1>4, HeightsFacts DEF Delivers, ReceiptTypeOK
    <3>2. CASE cursor = first
      <4>1. \A h \in first..(Height(last') - 1) : FALSE
        BY <2>2, <3>1, <3>2
      <4>. QED
        BY <3>1, <3>2, <4>1 DEF TxIn
    <3>3. CASE cursor # first
      <4>1. /\ last \in Blocks /\ seenTo = Height(last) /\ cursor = Height(last) + 1
            /\ first <= seenTo /\ ~ TxIn(last, first, Height(last))
        BY <1>1, <3>3 DEF WalkInv, AtHand
      <4>2. /\ OnChain(last, finalized) /\ OnChain(last', finalized)
            /\ finalized \in Blocks
        BY <1>1, <1>2, <2>1, <4>1, HeightsFacts
           DEF IInv, FinalizedDelivered, TypeOK, ChainTypeOK, OnChain, Height, AncestorAt
      <4>0. Height(last) \in Nat /\ Height(last') = Height(last) + 1
        BY <3>1, <4>1, HeightsFacts
      <4>3. Height(last) \in Nat /\ Height(last) = Height(last') - 1
        BY <4>0
      <4>4. TxIn(last', first, Height(last)) <=> TxIn(finalized, first, Height(last))
        BY <2>1, <2>2, <3>1, <4>2, <4>3, SameTx
      <4>5. TxIn(last, first, Height(last)) <=> TxIn(finalized, first, Height(last))
        <5>1. last \in Blocks /\ first \in Nat
          BY <3>1, <4>1
        <5>2. Height(last) \in Int /\ Height(last) <= Height(last)
          BY <4>3
        <5>. QED
          BY <4>2, <5>1, <5>2, SameTx
      <4>6. ~ TxIn(last', first, Height(last)) /\ first <= Height(last')
        BY <4>0, <4>1, <4>4, <4>5, <3>1
      <4>. QED
        BY <3>1, <4>3, <4>6
    <3>. QED
      BY <3>2, <3>3
  <2>. QED
    BY <2>3, <2>5, <2>6, StillValid
<1>. QED
  BY <1>2, <1>3, <1>4

-----------------------------------------------------------------------------
(* The block at hand *)

(* A search that goes on: to the infos because it must, to the next block    *)
(* because the transaction is not in this one.                              *)
LEMMA GoingOnKeepsSearch ==
  ASSUME SearchInv, IInv', UNCHANGED chainVars, stage \in AtHand,
         NEW s \in {"peek", "infos", "walk"}, Continue(s),
         UNCHANGED <<flow, first, until, seenTo>>,
         s = "infos" => NonceAt(last) > TxNonce \/ HasTx(last),
         s = "walk" /\ mode = "final" => ~ HasTx(last)
  PROVE  SearchInv'
<1>. USE DEF SearchInv
<1>1. /\ stage' = s /\ answer' = answer /\ receipt' = receipt
      /\ UNCHANGED <<mode, pc, cursor, last>> /\ finalized' = finalized
  BY DEF Continue, subVars, chainVars
<1>2. ReceiptTypeOK'
  BY <1>1 DEF ReceiptTypeOK, IInv, Heights, Blocks, BlocksAt
<1>3. PlaceInv' /\ AnswerInv' /\ ReceiptHoldsTx'
  BY <1>1 DEF PlaceInv, AnswerInv, ReceiptHoldsTx, AtHand, Blocks, BlocksAt
<1>4. InfosInv'
  BY <1>1 DEF InfosInv, NonceAt, HasTx, Height
<1>5. WalkInv'
  <2>1. mode = "final" =>
          /\ last \in Blocks /\ seenTo = Height(last) /\ cursor = Height(last) + 1
          /\ first <= seenTo /\ ~ TxIn(last, first, seenTo - 1)
          /\ s = "walk" => ~ TxIn(last, first, seenTo)
    BY WalkedFacts, OneMore
  <2>. QED
    BY <1>1, <2>1 DEF WalkInv, AtHand, TxIn, HasTx, Height, AncestorAt, Blocks, BlocksAt
<1>. QED
  BY <1>2, <1>3, <1>4, <1>5, StillValid

(* A final block that was accepted: its nonce tells. *)
LEMMA LastValid ==
  ASSUME SearchInv, mode = "final", stage \in AtHand
  PROVE  Valid(last)
  BY WalkedFacts, AncestorValid DEF SearchInv

LEMMA NonceKeepsSearch ==
  ASSUME SearchInv, IInv', UNCHANGED chainVars, Nonce
  PROVE  SearchInv'
<1>1. /\ stage \in AtHand /\ UNCHANGED <<flow, first, until, seenTo>>
      /\ last \in Blocks /\ NonceAt(last) \in Nat
  BY NonceIs DEF Nonce, AtHand, SearchInv, PlaceInv
<1>2. CASE NonceAt(last) > TxNonce /\ Continue("infos")
  BY <1>1, <1>2, GoingOnKeepsSearch
<1>3. CASE Continue("peek")
  BY <1>1, <1>3, GoingOnKeepsSearch
<1>4. CASE ~ (NonceAt(last) > TxNonce) /\ NonceAt(last) # 0 /\ Continue("walk")
  <2>1. mode = "final" => ~ HasTx(last)
    BY <1>1, <1>4, LastValid, NonceTells
  <2>. QED
    BY <1>1, <1>4, <2>1, GoingOnKeepsSearch
<1>. QED
  BY <1>2, <1>3, <1>4 DEF Nonce

LEMMA PeekKeepsSearch ==
  ASSUME SearchInv, IInv', UNCHANGED chainVars, Peek
  PROVE  SearchInv'
<1>1. stage \in AtHand /\ UNCHANGED <<flow, first, until, seenTo>>
  BY DEF Peek, AtHand
<1>2. CASE HasTx(last) /\ Continue("infos")
  BY <1>1, <1>2, GoingOnKeepsSearch
<1>3. CASE ~ HasTx(last) /\ Continue("walk")
  BY <1>1, <1>3, GoingOnKeepsSearch
<1>. QED
  BY <1>2, <1>3 DEF Peek

LEMMA InfosKeepsSearch ==
  ASSUME SearchInv, IInv', UNCHANGED chainVars, Infos
  PROVE  SearchInv'
<1>. DEFINE read == IF flow = "range" THEN AncestorAt(best, Height(last)) ELSE last
<1>1. /\ stage \in AtHand /\ stage = "infos" /\ UNCHANGED <<flow, first, until, seenTo>>
      /\ last \in Blocks /\ until \in Nat /\ flow \in {"receipt", "range"}
  BY DEF Infos, AtHand, SearchInv, PlaceInv, ReceiptTypeOK
<1>2. flow = "receipt" \/ mode = "final" => read = last
  BY <1>1, WalkedFacts DEF OnChain
<1>3. mode = "final" => OnChain(last, finalized)
  BY <1>1, WalkedFacts
<1>. HIDE DEF read
<1>4. CASE HasTx(read) /\ End("receipt", last)
  BY <1>1, <1>2, <1>3, <1>4, EndKeepsSearch
<1>5. CASE ~ HasTx(read) /\ (flow = "receipt" \/ Height(last) >= until) /\ End("none", NoBlock)
  <2>1. ASSUME mode = "final" PROVE Reason(last)
    <3>1. /\ ~ HasTx(last) /\ seenTo = Height(last) /\ Height(last) \in Nat
          /\ first \in Nat /\ ~ TxIn(last, first, Height(last) - 1)
      BY <1>1, <1>2, <1>5, <2>1, WalkedFacts
    <3>2. ~ TxIn(last, first, Height(last))
      BY <1>1, <3>1, OneMore
    <3>3. flow = "receipt" => RulesOut(last)
      BY <1>1, <3>1, <3>2 DEF RulesOut, SearchInv, InfosInv, PlaceInv
    <3>4. flow = "range" => until <= Height(last) /\ ~ TxIn(last, first, until)
      <4>1. Height(last) >= until => first..until \subseteq first..Height(last)
        BY <1>1, <3>1
      <4>. QED
        BY <1>1, <1>5, <3>1, <3>2, <4>1 DEF TxIn
    <3>. QED
      BY <1>3, <2>1, <3>3, <3>4 DEF Reason
  <2>. QED
    BY <1>1, <1>5, <2>1, EndKeepsSearch
<1>6. CASE ~ HasTx(read) /\ flow # "receipt" /\ Continue("walk")
  <2>1. /\ stage' = "walk" /\ (mode = "final" => ~ HasTx(last))
    BY <1>2, <1>6 DEF Continue
  <2>. QED
    BY <1>1, <1>6, <2>1, GoingOnKeepsSearch
<1>. QED
  BY <1>4, <1>5, <1>6 DEF Infos, read

-----------------------------------------------------------------------------
LEMMA StepKeepsSearch == SearchInv /\ [ReceiptNext]_allVars => SearchInv'
<1>. SUFFICES ASSUME SearchInv, [ReceiptNext]_allVars PROVE SearchInv'
  OBVIOUS
<1>0. IInv'
  <2>1. [Next]_vars
    BY StepsOfSearch
  <2>. QED
    BY <2>1, NextKeepsIInv DEF SearchInv
<1>1. CASE UNCHANGED allVars
  <2>1. UNCHANGED <<chainVars, subVars, receiptVars>>
    BY <1>1 DEF allVars, vars, chainVars, subVars
  <2>. USE <2>1 DEF SearchInv, chainVars, subVars, receiptVars
  <2>2. ReceiptTypeOK' /\ PlaceInv'
    BY <1>0 DEF ReceiptTypeOK, PlaceInv, IInv, Heights, Blocks, BlocksAt
  <2>3. WalkInv'
    BY DEF WalkInv, TxIn, HasTx, Height, AncestorAt, Blocks, BlocksAt
  <2>4. InfosInv'
    BY DEF InfosInv, NonceAt, HasTx, Height
  <2>5. ReceiptHoldsTx'
    BY DEF ReceiptHoldsTx, HasTx, OnChain, Height, AncestorAt
  <2>6. AnswerInv'
    BY DEF AnswerInv, Reason, RulesOut, TxIn, NonceAt, HasTx, OnChain, Height, AncestorAt,
           Blocks, BlocksAt
  <2>. QED
    BY <1>0, <2>2, <2>3, <2>4, <2>5, <2>6, StillValid
<1>2. CASE ChainNext /\ Valid(best') /\ UNCHANGED <<subVars, receiptVars>>
  BY <1>0, <1>2, ChainKeepsSearch
<1>3. CASE (Search \/ Errs) /\ UNCHANGED chainVars
  BY <1>0, <1>3, FindKeepsSearch, ChooseKeepsSearch, WalkKeepsSearch, SubStepKeepsSearch,
     NonceKeepsSearch, PeekKeepsSearch, InfosKeepsSearch, FailsKeepsSearch DEF Search, Errs
<1>. QED
  BY <1>1, <1>2, <1>3 DEF ReceiptNext

LEMMA SpecSearch == ReceiptSpec => []SearchInv
  BY InitSearch, StepKeepsSearch, PTL DEF ReceiptSpec

(* Type correctness of the node, the subscription and the search. *)
THEOREM ReceiptTypeCorrect == ReceiptSpec => []ReceiptTypeOK
<1>1. SearchInv => ReceiptTypeOK
  BY DEF SearchInv
<1>. QED
  BY <1>1, SpecSearch, PTL

(* A receipt names a block that holds the transaction, a final one when     *)
(* final blocks were searched.                                              *)
THEOREM ReceiptHoldsTxHolds == ReceiptSpec => []ReceiptHoldsTx
<1>1. SearchInv => ReceiptHoldsTx
  BY DEF SearchInv
<1>. QED
  BY <1>1, SpecSearch, PTL

(* A search of final blocks that ends in None is right for good, provided   *)
(* the window of receipt() covers the transaction's era.                    *)
THEOREM NoneIsDefiniteHolds ==
  ASSUME WindowCovers
  PROVE  ReceiptSpec => []NoneIsDefinite
<1>1. SearchInv => NoneIsDefinite
  <2>. SUFFICES ASSUME SearchInv, answer = "none", mode = "final"
                PROVE  IF flow = "range" THEN ~ TxIn(finalized, first, until)
                       ELSE ~ TxIn(finalized, 0, Height(finalized))
    BY DEF NoneIsDefinite
  <2>. USE DEF SearchInv
  <2>1. PICK b \in Blocks : Reason(b)
    BY DEF AnswerInv
  <2>2. /\ finalized \in Blocks /\ best \in Blocks /\ OnChain(finalized, best)
        /\ OnChain(b, finalized) /\ flow \in {"receipt", "range"}
        /\ first \in Nat /\ until \in Nat
    BY <2>1, HeightsFacts DEF IInv, TypeOK, ChainTypeOK, Reason, ReceiptTypeOK
  <2>3. CASE flow = "range"
    BY <2>1, <2>2, <2>3, SameTx DEF Reason
  <2>4. CASE flow = "receipt"
    BY <2>1, <2>2, <2>4, WindowCovers, AncestorValid, RuledOut DEF Reason
  <2>. QED
    BY <2>2, <2>3, <2>4
<1>. QED
  BY <1>1, SpecSearch, PTL
=============================================================================
