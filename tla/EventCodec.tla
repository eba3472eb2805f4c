------------------------------ MODULE EventCodec ------------------------------
(***************************************************************************)
(* The events of an extrinsic and what BlockEvents (client/src/block/      *)
(* events.rs) reads from them: the event types of core/src/types/          *)
(* pallets.rs, TransactionEventDecodable::from_event, and the methods that *)
(* look for an event by the header of its type.  The runtime writes the    *)
(* events; the client decodes them.                                        *)
(***************************************************************************)
EXTENDS CallCodec

CONSTANT MaxEvents  \* bound: events of the extrinsic

ASSUME EventAssumption == MaxEvents \in Nat

VARIABLE log  \* BlockEvents.events: header and data of each

-----------------------------------------------------------------------------
(* The events of each pallet *)

(* Weight, class, whether a fee is paid, and three optional modifiers of it. *)
DispatchInfo == <<"num", "tag", "tag", "opt", "opt", "opt">>

SystemEvents == {
  T("ExtrinsicSuccess", 0, 0, DispatchInfo),
  T("ExtrinsicFailed", 0, 1, <<"error">> \o DispatchInfo)}

UtilityEvents == {
  T("BatchInterrupted", 1, 0, <<"num", "error">>),
  T("BatchCompleted", 1, 1, <<>>),
  T("BatchCompletedWithErrors", 1, 2, <<>>),
  T("ItemCompleted", 1, 3, <<>>),
  T("ItemFailed", 1, 4, <<"error">>),
  T("DispatchedAs", 1, 5, <<"result">>)}

BalancesEvents == {
  T("Endowed", 6, 0, <<"num", "num">>),
  T("DustLost", 6, 1, <<"num", "num">>),
  T("Transfer", 6, 2, <<"num", "num", "num">>),
  T("Reserved", 6, 4, <<"num", "num">>),
  T("Unreserved", 6, 5, <<"num", "num">>),
  T("Deposit", 6, 7, <<"num", "num">>),
  T("Withdraw", 6, 8, <<"num", "num">>),
  T("Slashed", 6, 9, <<"num", "num">>)}

LockEvents == {
  T("Locked", 6, 17, <<"num", "num">>),
  T("Unlocked", 6, 18, <<"num", "num">>),
  T("Frozen", 6, 19, <<"num", "num">>),
  T("Thawed", 6, 20, <<"num", "num">>)}

PaymentEvents == {T("TransactionFeePaid", 7, 0, <<"num", "num", "num">>)}

StakingEvents == {
  T("Bonded", 10, 6, <<"num", "num">>),
  T("Unbonded", 10, 7, <<"num", "num">>),
  T("ValidatorPrefsSet", 10, 13, <<"num", "num", "tag">>),
  T("Chilled", 10, 11, <<"num">>),
  T("EraPaid", 10, 0, <<"num", "num", "num">>),
  T("Rewarded", 10, 1, <<"num", "opt", "num">>)}

StashEvents == {
  T("staking.Slashed", 10, 2, <<"num", "num">>),
  T("staking.Withdraw", 10, 8, <<"num", "num">>),
  T("Kicked", 10, 9, <<"num", "num">>),
  T("PayoutStarted", 10, 12, <<"num", "num">>)}

TreasuryEvents == {T("UpdatedInactive", 18, 8, <<"num", "num">>)}

DataAvailabilityEvents == {
  T("ApplicationKeyCreated", 29, 0, <<"list", "num", "num">>),
  T("DataSubmitted", 29, 1, <<"num", "num">>)}

MultisigEvents == {
  T("NewMultisig", 34, 0, <<"num", "num", "num">>),
  T("MultisigApproval", 34, 1, <<"num", "num", "num", "num">>),
  T("MultisigExecuted", 34, 2, <<"num", "num", "num", "num", "result">>),
  T("MultisigCancelled", 34, 3, <<"num", "num", "num", "num">>)}

ProxyEvents == {
  T("ProxyExecuted", 40, 0, <<"result">>),
  T("PureCreated", 40, 1, <<"num", "num", "tag", "num">>),
  T("Announced", 40, 2, <<"num", "num", "num">>),
  T("ProxyAdded", 40, 3, <<"num", "num", "tag", "num">>),
  T("ProxyRemoved", 40, 4, <<"num", "num", "tag", "num">>)}

EventTypes ==
  UNION {SystemEvents, UtilityEvents, BalancesEvents, LockEvents, PaymentEvents,
         StakingEvents, StashEvents, TreasuryEvents, DataAvailabilityEvents,
         MultisigEvents, ProxyEvents}

EventType(name) == CHOOSE t \in EventTypes : t.name = name

-----------------------------------------------------------------------------
(* Reading *)

OrNone(read) == IF read.ok THEN <<read.value>> ELSE <<>>

(* T::from_event checks the header, reads one field after the other, none of *)
(* which holds a call, and ignores what follows them.                        *)
FromEvent(t, in) ==
  IF HasHeader(t, in) THEN ReadAs(t, SubSeq(in, 3, Len(in)), <<>>) ELSE Err

(* The members of s that are in S, in their order. *)
Those(s, S) == FoldLeft(LAMBDA kept, e : IF e \in S THEN Append(kept, e) ELSE kept, <<>>, s)

WithHeader(t) == Those(log, {e \in Range(log) : Header(e.type) = Header(t)})

(* first::<T>: None also for an event that cannot be decoded. *)
FirstEvent(t) ==
  IF WithHeader(t) = <<>> THEN <<>> ELSE OrNone(FromEvent(t, Bytes(Head(WithHeader(t)))))

(* last::<T> *)
LastEvent(t) ==
  IF WithHeader(t) = <<>> THEN <<>> ELSE OrNone(FromEvent(t, Bytes(Last(WithHeader(t)))))

(* all::<T>: an error if one cannot be decoded. *)
AllEvents(t) ==
  LET reads == [i \in DOMAIN WithHeader(t) |-> FromEvent(t, Bytes(WithHeader(t)[i]))]
  IN  IF \E i \in DOMAIN reads : ~ reads[i].ok THEN Err
      ELSE Ok([i \in DOMAIN reads |-> reads[i].value], <<>>)

(* count::<T>, count_parts; is_present and is_present_parts compare it to 0. *)
CountEvents(t) == Len(WithHeader(t))

(* proxy_executed_successfully and multisig_executed_successfully: <<>> for  *)
(* None; the result is the last field of both events.                       *)
Executed(name) ==
  [i \in DOMAIN FirstEvent(EventType(name)) |-> Last(FirstEvent(EventType(name))[i].args)[1] = 0]

(* What an event adds to the weight: success and failure their own.          *)
WeightIn(e) ==
  LET weight(t, field) ==
        LET read == FromEvent(t, Bytes(e))
        IN  IF read.ok THEN Ok(read.value.args[field][1], <<>>) ELSE Err
  IN  IF Header(e.type) = Header(EventType("ExtrinsicSuccess"))
      THEN weight(EventType("ExtrinsicSuccess"), 1)
      ELSE IF Header(e.type) = Header(EventType("ExtrinsicFailed"))
      THEN weight(EventType("ExtrinsicFailed"), 2)
      ELSE Ok(0, <<>>)

(* extrinsic_weight: the sum, an error if one cannot be read. *)
ExtrinsicWeight ==
  LET weights == [i \in DOMAIN log |-> WeightIn(log[i])]
  IN  IF \E i \in DOMAIN weights : ~ weights[i].ok THEN Err
      ELSE Ok(SumFunction([i \in DOMAIN weights |-> weights[i].value]), <<>>)

-----------------------------------------------------------------------------
EventsInit == log = <<>>

(* The runtime deposits an event.  Its fields take the first, the second or  *)
(* the last of their values together.                                       *)
Emit ==
  /\ Len(log) < MaxEvents
  /\ \E t \in EventTypes, pick \in 1..3 :
       log' = Append(log, [type |-> t,
                           args |-> [i \in DOMAIN t.fields |->
                             LET values == SetToSeq(Samples(t.fields[i]))
                             IN  values[IF pick > Len(values) THEN Len(values) ELSE pick]]])

EventsNext == Emit
EventsSpec == EventsInit /\ [][EventsNext]_log

-----------------------------------------------------------------------------
(* What the methods of BlockEvents answer agrees with the events and among   *)
(* themselves: first and last are the ends of all, all is what was emitted,  *)
(* in order, and as many as are counted; whether a proxy or multisig call    *)
(* succeeded is the result the runtime wrote first; and the weight is that   *)
(* of every extrinsic's last event, also after an error with a payload.      *)
EventsRead ==
  log # <<>> =>
    /\ \A t \in EventTypes :
         LET all == AllEvents(t)
         IN  /\ all = Ok(Those(log, {e \in Range(log) : e.type = t}), <<>>)
             /\ CountEvents(t) = Len(all.value)
             /\ FirstEvent(t) = IF all.value = <<>> THEN <<>> ELSE <<Head(all.value)>>
             /\ LastEvent(t) = IF all.value = <<>> THEN <<>> ELSE <<Last(all.value)>>
    /\ \A name \in {"ProxyExecuted", "MultisigExecuted"} :
         LET those == Those(log, {e \in Range(log) : e.type.name = name})
         IN  Executed(name) = IF those = <<>> THEN <<>> ELSE <<Last(Head(those).args) = <<0>>>>
    /\ ExtrinsicWeight =
         Ok(SumFunction([i \in DOMAIN log |->
                           IF log[i].type.name = "ExtrinsicSuccess" THEN log[i].args[1][1]
                           ELSE IF log[i].type.name = "ExtrinsicFailed" THEN log[i].args[2][1]
                           ELSE 0]), <<>>)
=============================================================================
