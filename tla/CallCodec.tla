------------------------------ MODULE CallCodec ------------------------------
(***************************************************************************)
(* How calls become bytes and bytes become calls again: the call types of  *)
(* core/src/types/pallets.rs, ExtrinsicCall, the batches, and the envelope *)
(* of an extrinsic.  A program composes calls through TransactionApi,      *)
(* wraps them in proxy and multisig calls, collects them in batches, nests *)
(* those again, and seals the result in an extrinsic that may arrive       *)
(* damaged.                                                                *)
(*                                                                         *)
(* Bytes are small naturals.  A field keeps of its type what decoding      *)
(* depends on: where it ends and which first bytes it refuses.             *)
(*   num   a value of fixed or compact width     tag   an enum, no payload *)
(*   opt   an Option or an enum with payloads    addr  MultiAddress        *)
(*   role  a ConfigOpAccount, which is not written as it is read           *)
(*   list  a Vec                           members a Vec of signatories    *)
(*   call  ExtrinsicCall                         rtcall RuntimeCall        *)
(*   calls the calls of a batch                  error DispatchError       *)
(*   result a Result with a DispatchError                                  *)
(* call and calls read everything that is left of the input; error and     *)
(* result occur in events (EventCodec).                                    *)
(***************************************************************************)
EXTENDS Integers, Sequences, SequencesExt, FiniteSets, Folds

CONSTANTS
  Batchable,  \* names of the calls the program wraps and puts into batches
  MaxCalls,   \* bound: calls in a batch
  MaxBytes    \* bound: bytes of a call that is wrapped or added

ASSUME CodecAssumption == MaxCalls \in Nat /\ MaxBytes \in Nat

VARIABLES
  call,   \* the call in hand: its type and the encoding of each field
  batch,  \* a Batch, BatchAll or ForceBatch: its length and its calls
  added,  \* history: the calls added to it
  wire    \* an encoded extrinsic as it arrives, <<>> before it is sealed

codecVars == <<call, batch, added, wire>>

-----------------------------------------------------------------------------
(* The calls of each pallet: name, pallet, variant and fields *)

T(name, pallet, variant, fields) ==
  [name |-> name, pallet |-> pallet, variant |-> variant, fields |-> fields]

SystemCalls == {
  T("system.Remark", 0, 0, <<"list">>),
  T("system.SetCode", 0, 2, <<"list">>),
  T("system.SetCodeWithoutChecks", 0, 3, <<"list">>),
  T("system.RemarkWithEvent", 0, 7, <<"list">>)}

UtilityCalls == {
  T("utility.Batch", 1, 0, <<"num", "calls">>),
  T("utility.BatchAll", 1, 2, <<"num", "calls">>),
  T("utility.ForceBatch", 1, 4, <<"num", "calls">>)}

TimestampCalls == {T("timestamp.Set", 3, 0, <<"num">>)}

BalancesCalls == {
  T("balances.TransferAllowDeath", 6, 0, <<"addr", "num">>),
  T("balances.TransferKeepAlive", 6, 3, <<"addr", "num">>),
  T("balances.TransferAll", 6, 4, <<"addr", "tag">>)}

StakingCalls == {
  T("staking.Bond", 10, 0, <<"num", "opt">>),
  T("staking.BondExtra", 10, 1, <<"num">>),
  T("staking.Unbond", 10, 2, <<"num">>),
  T("staking.Rebond", 10, 19, <<"num">>),
  T("staking.Validate", 10, 4, <<"num", "tag">>),
  T("staking.Nominate", 10, 5, <<"list">>)}

StakingAccountCalls == {
  T("staking.ChillOther", 10, 23, <<"num">>),
  T("staking.PayoutStakers", 10, 18, <<"num", "num">>),
  T("staking.SetController", 10, 8, <<>>),
  T("staking.SetPayee", 10, 7, <<"opt">>),
  T("staking.Chill", 10, 6, <<>>),
  T("staking.WithdrawUnbonded", 10, 3, <<"num">>)}

StakingStashCalls == {
  T("staking.ReapStash", 10, 20, <<"num", "num">>),
  T("staking.Kick", 10, 21, <<"list">>),
  T("staking.ForceApplyMinCommission", 10, 24, <<"num">>),
  T("staking.PayoutStakersByPage", 10, 26, <<"num", "num", "num">>)}

SessionCalls == {
  T("session.SetKeys", 11, 0, <<"num", "num", "num", "num", "list">>),
  T("session.PurgeKeys", 11, 1, <<>>)}

DataAvailabilityCalls == {
  T("data_availability.CreateApplicationKey", 29, 0, <<"list">>),
  T("data_availability.SubmitData", 29, 1, <<"list">>),
  T("data_availability.SubmitBlobMetadata", 29, 5, <<"num", "num", "list">>)}

MultisigCalls == {
  T("multisig.AsMultiThreshold1", 34, 0, <<"members", "call">>),
  T("multisig.AsMulti", 34, 1, <<"num", "members", "opt", "rtcall", "num">>),
  T("multisig.ApproveAsMulti", 34, 2, <<"num", "members", "opt", "num", "num">>),
  T("multisig.CancelAsMulti", 34, 3, <<"num", "members", "num", "num">>)}

(* Mutant of PoolMemberCalls: the header of Create is copied. *)
PoolMemberCallsCopied == {
  T("nomination_pools.Create", 36, 6, <<"num", "addr", "addr", "addr">>),
  T("nomination_pools.CreateWithPoolId", 36, 6, <<"num", "addr", "addr", "addr", "num">>)}

PoolMemberCalls == {
  T("nomination_pools.BondExtra", 36, 1, <<"opt">>),
  T("nomination_pools.BondExtraOther", 36, 14, <<"addr", "opt">>),
  T("nomination_pools.Chill", 36, 13, <<"num">>),
  T("nomination_pools.ClaimCommission", 36, 20, <<"num">>),
  T("nomination_pools.ClaimPayout", 36, 2, <<>>),
  T("nomination_pools.ClaimPayoutOther", 36, 16, <<"num">>),
  T("nomination_pools.Create", 36, 6, <<"num", "addr", "addr", "addr">>),
  T("nomination_pools.CreateWithPoolId", 36, 7, <<"num", "addr", "addr", "addr", "num">>)}

PoolAdminCalls == {
  T("nomination_pools.Join", 36, 0, <<"num", "num">>),
  T("nomination_pools.Nominate", 36, 8, <<"num", "list">>),
  T("nomination_pools.SetClaimPermission", 36, 15, <<"tag">>),
  T("nomination_pools.SetCommission", 36, 17, <<"num", "opt">>),
  T("nomination_pools.SetCommissionChangeRate", 36, 19, <<"num", "num", "num">>),
  T("nomination_pools.SetCommissionMax", 36, 18, <<"num", "num">>),
  T("nomination_pools.SetMetadata", 36, 10, <<"num", "list">>)}

PoolStateCalls == {
  T("nomination_pools.SetState", 36, 9, <<"num", "tag">>),
  T("nomination_pools.Unbond", 36, 3, <<"addr", "num">>),
  T("nomination_pools.UpdateRoles", 36, 12, <<"num", "role", "role", "role">>),
  T("nomination_pools.WithdrawUnbonded", 36, 5, <<"addr", "num">>)}

VectorCalls == {
  T("vector.FulfillCall", 39, 0, <<"num", "list", "list", "list", "num">>),
  T("vector.Execute", 39, 1, <<"num", "opt", "list", "list">>),
  T("vector.SourceChainFroze", 39, 2, <<"num", "tag">>),
  T("vector.SendMessage", 39, 3, <<"opt", "num", "num">>),
  T("vector.SetPoseidonHash", 39, 4, <<"num", "list">>),
  T("vector.SetBroadcaster", 39, 5, <<"num", "num">>),
  T("vector.SetWhitelistedDomains", 39, 6, <<"list">>)}

VectorMoreCalls == {
  T("vector.SetConfiguration", 39, 7, <<"num">>),
  T("vector.SetFunctionIds", 39, 8, <<"opt">>),
  T("vector.SetStepVerificationKey", 39, 9, <<"opt">>),
  T("vector.SetRotateVerificationKey", 39, 10, <<"opt">>),
  T("vector.SetUpdater", 39, 12, <<"num">>),
  T("vector.Fulfill", 39, 13, <<"list", "list">>)}

VectorMockCalls == {
  T("vector.SetSp1VerificationKey", 39, 14, <<"num">>),
  T("vector.SetSyncCommitteeHash", 39, 15, <<"num", "num">>),
  T("vector.EnableMock", 39, 16, <<"tag">>),
  T("vector.MockFulfill", 39, 17, <<"list">>),
  T("vector.FailedSendMessageTxs", 39, 11, <<"list">>)}

ProxyCalls == {
  T("proxy.Proxy", 40, 0, <<"addr", "opt", "call">>),
  T("proxy.AddProxy", 40, 1, <<"addr", "tag", "num">>),
  T("proxy.RemoveProxy", 40, 2, <<"addr", "tag", "num">>),
  T("proxy.RemoveProxies", 40, 3, <<>>),
  T("proxy.CreatePure", 40, 4, <<"tag", "num", "num">>),
  T("proxy.KillPure", 40, 5, <<"addr", "tag", "num", "num", "num">>)}

(* The variants of enum RuntimeCall. *)
RuntimeCalls ==
  (UNION {SystemCalls, UtilityCalls, TimestampCalls, BalancesCalls,
          StakingCalls, StakingAccountCalls, StakingStashCalls, SessionCalls, MultisigCalls,
          PoolMemberCalls, PoolAdminCalls, PoolStateCalls, ProxyCalls})
  \union {t \in DataAvailabilityCalls :
            t.name # "data_availability.SubmitBlobMetadata"}

CallTypes == RuntimeCalls \union DataAvailabilityCalls
             \union VectorCalls \union VectorMoreCalls \union VectorMockCalls

-----------------------------------------------------------------------------
(* Encoding *)

Header(t) == <<t.pallet, t.variant>>

(* Encode of a call, and of a RuntimeCall: the fields, without the header. *)
FieldBytes(c) == FlattenSeq(c.args)

(* TransactionEncodable::to_call and ExtrinsicCall::from(&T), encoded. *)
Bytes(c) == Header(c.type) \o FieldBytes(c)

-----------------------------------------------------------------------------
(* Decoding: [ok, value, rest] *)

Err == [ok |-> FALSE]
Ok(value, rest) == [ok |-> TRUE, value |-> value, rest |-> rest]

(* Mutant of ErrorWidth: the ModuleError inside is not read. *)
ErrorWidthOfVariant(in) == IF in[1] <= 13 THEN 1 ELSE -1

(* DispatchError::decode: Module holds an index and an error (one byte here, *)
(* four there), Token, Arithmetic and Transactional a variant, the others   *)
(* nothing.                                                                 *)
ErrorWidth(in) ==
  CASE in[1] = 3         -> 3
    [] in[1] \in 7..9    -> IF Len(in) > 1 /\ in[2] <= <<9, 2, 1>>[in[1] - 6] THEN 2 ELSE -1
    [] in[1] \in (0..13) \ {3, 7, 8, 9} -> 1
    [] OTHER             -> -1

(* How many bytes the decoder of a field takes, negative for an error. *)
Width(kind, in) ==
  IF kind = "calls" THEN Len(in)
  ELSE IF kind = "call" THEN IF Len(in) >= 2 THEN Len(in) ELSE -1
  ELSE IF in = <<>> THEN -1
  ELSE CASE kind = "num"      -> 1
         [] kind = "tag"      -> IF in[1] <= 1 THEN 1 ELSE -1
         [] kind = "opt"      -> IF in[1] <= 1 THEN 1 + in[1] ELSE -1
         [] kind = "role"     -> IF in[1] <= 2 THEN <<1, 2, 1>>[in[1] + 1] ELSE -1
         [] kind = "addr"     -> IF in[1] <= 4 THEN 2 ELSE -1
         [] kind \in {"list", "members"} -> 1 + in[1]
         [] kind = "error"    -> ErrorWidth(in)
         [] kind = "result"   ->
              IF in[1] = 0 THEN 1
              ELSE IF in[1] = 1 /\ Len(in) >= 2 /\ ErrorWidth(Tail(in)) > 0
                   THEN 1 + ErrorWidth(Tail(in)) ELSE -1

(* Encode of ConfigOpAccount::Noop, which writes the tag of Set; decode      *)
(* takes Noop from a 0.                                                     *)
NoopRole == <<1>>

(* What Encode writes of the value that was read from bytes. *)
Rewritten(kind, bytes) == IF kind = "role" /\ bytes = <<0>> THEN NoopRole ELSE bytes

ReadPlain(kind, in) ==
  LET w == Width(kind, in)
  IN  IF w \in 0..Len(in)
      THEN Ok(Rewritten(kind, SubSeq(in, 1, w)), SubSeq(in, w + 1, Len(in))) ELSE Err

(* Values read one after the other, each by its reader, which turns bytes    *)
(* into a result; the ? of every read ends the decoding.                    *)
ReadAll(readers, in) ==
  LET read[i \in 0..Len(readers)] ==
        IF i = 0 THEN Ok(<<>>, in)
        ELSE LET before == read[i - 1]
                 next   == readers[i][before.rest]
             IN  IF before.ok /\ next.ok THEN Ok(Append(before.value, next.value), next.rest)
                 ELSE Err
  IN  read[Len(readers)]

(* AsMulti::decode reads a RuntimeCall, encodes it, which writes its fields *)
(* without a header, and decodes the result as an ExtrinsicCall.            *)
ReadNested(inner) ==
  IF inner.ok /\ Len(FieldBytes(inner.value)) >= 2
  THEN Ok(FieldBytes(inner.value), inner.rest)
  ELSE Err

(* The reader of a field; nested is the reader of the RuntimeCalls in it. *)
FieldReader(kind, nested) ==
  [in \in Seq(Nat) |-> IF kind = "rtcall" THEN ReadNested(nested[in]) ELSE ReadPlain(kind, in)]

ReadAs(t, in, nested) ==
  LET fields == ReadAll([i \in 1..Len(t.fields) |-> FieldReader(t.fields[i], nested)], in)
  IN  IF fields.ok THEN Ok([type |-> t, args |-> fields.value], fields.rest) ELSE Err

HasHeader(t, in) == Len(in) >= 2 /\ Header(t) = SubSeq(in, 1, 2)

(* RuntimeCall::decode, once: the header chooses the type. *)
ReadVariant(in, nested) ==
  IF \E t \in RuntimeCalls : HasHeader(t, in)
  THEN ReadAs(CHOOSE t \in RuntimeCalls : HasHeader(t, in), SubSeq(in, 3, Len(in)), nested)
  ELSE Err

(* RuntimeCall::decode.  A call inside another is shorter, so there are no   *)
(* more calls inside each other than bytes.                                 *)
RuntimeReader ==
  [in \in Seq(Nat) |->
     LET reader[depth \in 0..Len(in)] ==
           [bytes \in Seq(Nat) |->
              IF depth = 0 THEN Err ELSE ReadVariant(bytes, reader[depth - 1])]
     IN  reader[Len(in)][in]]

ReadRuntimeCall(in) == RuntimeReader[in]

(* T::from_call: bytes left after the fields are ignored. *)
FromCall(t, in) ==
  IF HasHeader(t, in) THEN ReadAs(t, SubSeq(in, 3, Len(in)), RuntimeReader) ELSE Err

(* Batch::decode_calls. *)
DecodeCalls(b) ==
  LET all == ReadAll([i \in 1..b.length |-> RuntimeReader], b.calls)
  IN  IF b.length = 0 THEN Ok(<<>>, <<>>)
      ELSE IF all.ok /\ all.rest = <<>> THEN all ELSE Err

(* Mutant of ReadEnvelope: the length prefix is read but not compared. *)
ReadEnvelopeOfAnyLength(in) ==
  IF Len(in) < 2 \/ in[2] \notin {4, 132} \/ (in[2] = 132 /\ Len(in) < 3) THEN Err
  ELSE IF in[2] = 132 THEN Ok(SubSeq(in, 4, Len(in)), <<>>)
  ELSE Ok(SubSeq(in, 3, Len(in)), <<>>)

(* EncodedExtrinsic::decode and GenericExtrinsic::decode, up to the call.    *)
(* The value is the bytes of the call, which is all that follows the        *)
(* signature (one byte, after version byte 0x84; none after 0x04).           *)
ReadEnvelope(in) ==
  LET start == IF in[2] = 132 THEN 4 ELSE 3
  IN  IF Len(in) < 2 \/ in[2] \notin {4, 132} \/ Len(in) + 1 < start THEN Err
      ELSE IF Len(in) - 1 # in[1] THEN Err
      ELSE Ok(SubSeq(in, start, Len(in)), <<>>)

(* Extrinsic::<T>::try_from and from_ext. *)
ReadExtrinsic(t, in) ==
  LET envelope == ReadEnvelope(in)
  IN  IF envelope.ok THEN FromCall(t, envelope.value) ELSE Err

(* SignedExtrinsic::<T>::try_from. *)
ReadSigned(t, in) ==
  LET envelope == ReadEnvelope(in)
  IN  IF envelope.ok /\ in[2] = 132 THEN FromCall(t, envelope.value) ELSE Err

-----------------------------------------------------------------------------
(* Actions *)

None == <<>>
NoBatch == [length |-> 0, calls |-> <<>>]

(* Values for the fields of a call; their first bytes look like headers. *)
Samples(kind) ==
  CASE kind = "num"   -> {<<6>>, <<10>>}
    [] kind = "tag"   -> {<<0>>, <<1>>}
    [] kind = "opt"   -> {<<0>>, <<1, 6>>}
    [] kind = "role"  -> {NoopRole, <<1, 6>>, <<2>>}
    [] kind = "addr"  -> {<<0, 3>>}
    [] kind = "list"  -> {<<0>>, <<2, 10, 6>>}
    [] kind = "members" -> {<<0>>, <<2, 10, 6>>, <<2, 6, 10>>}
    [] kind = "error" -> {<<2>>, <<3, 10, 6>>, <<7, 1>>}
    [] kind = "result" -> {<<0>>, <<1, 2>>, <<1, 3, 10, 6>>}

Sample(kind) == CHOOSE s \in Samples(kind) : TRUE

Leaf(t) == ~ \E i \in DOMAIN t.fields : t.fields[i] \in {"call", "rtcall", "calls"}

CodecInit ==
  /\ call = None
  /\ batch = NoBatch
  /\ added = <<>>
  /\ wire = <<>>

Sorted(s) ==
  CHOOSE sorted \in {[i \in DOMAIN s |-> s[p[i]]] : p \in Bijection(DOMAIN s, DOMAIN s)} :
    \A i, j \in DOMAIN s : i < j => sorted[i] <= sorted[j]

(* The builders of Multisig sort the other signatories. *)
Field(kind, value) ==
  IF kind = "members" THEN <<Head(value)>> \o Sorted(Tail(value)) ELSE value

(* A method of TransactionApi that takes no other call, or the call's type   *)
(* written down by the program.                                             *)
Compose(pallet) ==
  /\ wire = <<>> /\ call = None
  /\ \E t \in {u \in pallet : Leaf(u)} :
       /\ added # <<>> => t.name \in Batchable
       /\ \E given \in [DOMAIN t.fields -> UNION {Samples(t.fields[i]) : i \in DOMAIN t.fields}] :
            /\ \A i \in DOMAIN t.fields : given[i] \in Samples(t.fields[i])
            /\ call' = [type |-> t, args |-> [i \in DOMAIN t.fields |-> Field(t.fields[i], given[i])]]
  /\ UNCHANGED <<batch, added, wire>>

ComposeSystem == Compose(SystemCalls)
ComposeTimestamp == Compose(TimestampCalls)
ComposeBalances == Compose(BalancesCalls)
ComposeSession == Compose(SessionCalls)
ComposeDataAvailability == Compose(DataAvailabilityCalls)
ComposeMultisig == Compose(MultisigCalls)
ComposeProxy == Compose(ProxyCalls)
ComposeStaking == Compose(StakingCalls)
ComposeStakingAccount == Compose(StakingAccountCalls)
ComposeStakingStash == Compose(StakingStashCalls)
ComposePoolMember == Compose(PoolMemberCalls)
ComposePoolAdmin == Compose(PoolAdminCalls)
ComposePoolState == Compose(PoolStateCalls)
ComposeVector == Compose(VectorCalls)
ComposeVectorMore == Compose(VectorMoreCalls)
ComposeVectorMock == Compose(VectorMockCalls)

(* A method that takes the ExtrinsicCall of another call. *)
Wrap(pallet) ==
  /\ wire = <<>> /\ added = <<>> /\ call # None
  /\ call.type.name \in Batchable
  /\ Len(Bytes(call)) <= MaxBytes
  /\ \E t \in {u \in pallet : ~ Leaf(u)} :
       call' = [type |-> t,
                args |-> [i \in DOMAIN t.fields |->
                            IF t.fields[i] \in {"call", "rtcall"} THEN Bytes(call)
                            ELSE Field(t.fields[i], Sample(t.fields[i]))]]
  /\ UNCHANGED <<batch, added, wire>>

(* Proxy::proxy. *)
WrapProxy == Wrap(ProxyCalls)

(* Multisig::as_multi_threshold_1, Multisig::as_multi. *)
WrapMultisig == Wrap(MultisigCalls)

(* Mutant of AddCall: the call is appended and not counted. *)
AddCallUncounted ==
  /\ wire = <<>> /\ call # None
  /\ call.type.name \in Batchable
  /\ Len(added) < MaxCalls /\ Len(Bytes(call)) <= MaxBytes
  /\ batch' = [batch EXCEPT !.calls = @ \o Bytes(call)]
  /\ added' = Append(added, call)
  /\ call' = None
  /\ UNCHANGED wire

(* add_call, and add and add_hex with the bytes of a call. *)
AddCall ==
  /\ wire = <<>> /\ call # None
  /\ call.type.name \in Batchable
  /\ Len(added) < MaxCalls /\ Len(Bytes(call)) <= MaxBytes
  /\ batch' = [length |-> batch.length + 1, calls |-> batch.calls \o Bytes(call)]
  /\ added' = Append(added, call)
  /\ call' = None
  /\ UNCHANGED wire

(* The batch becomes a call: Utility::batch, batch_all and force_batch. *)
FinishBatch ==
  /\ added # <<>> /\ call = None
  /\ \E t \in UtilityCalls :
       call' = [type |-> t, args |-> <<<<batch.length>>, batch.calls>>]
  /\ batch' = NoBatch
  /\ added' = <<>>
  /\ UNCHANGED wire

(* EncodedExtrinsic::encode, GenericExtrinsic::encode. *)
Seal(version) ==
  /\ wire = <<>> /\ call # None /\ added = <<>>
  /\ LET inner == version \o Bytes(call)
     IN  wire' = <<Len(inner)>> \o inner
  /\ UNCHANGED <<call, batch, added>>

Unsigned == <<4>>
Signed == <<132, 1>>

(* The bytes arrive one short, or with another byte after them. *)
Damage ==
  /\ wire # <<>> /\ Len(wire) - 1 = wire[1]
  /\ wire' \in {Front(wire), Append(wire, 0)}
  /\ UNCHANGED <<call, batch, added>>

CodecNext ==
  \/ ComposeSystem \/ ComposeTimestamp \/ ComposeBalances \/ ComposeSession
  \/ ComposeDataAvailability \/ ComposeMultisig \/ ComposeProxy
  \/ ComposeStaking \/ ComposeStakingAccount \/ ComposeStakingStash
  \/ ComposePoolMember \/ ComposePoolAdmin \/ ComposePoolState
  \/ ComposeVector \/ ComposeVectorMore \/ ComposeVectorMock
  \/ WrapProxy \/ WrapMultisig
  \/ AddCall \/ FinishBatch
  \/ Seal(Unsigned) \/ Seal(Signed) \/ Damage

CodecSpec == CodecInit /\ [][CodecNext]_codecVars

-----------------------------------------------------------------------------
(* Properties *)

(* The calls the library can read back exactly: not AsMulti, which loses the *)
(* header of the call inside, and not UpdateRoles that leaves a role as it   *)
(* is, which is read as one that sets it to whatever bytes come next.        *)
Exact(c) ==
  /\ c.type.name # "multisig.AsMulti"
  /\ \A i \in DOMAIN c.args : c.type.fields[i] = "role" => c.args[i] # NoopRole

(* Calls that read the rest of the input when they are decoded. *)
Greedy(c) == c.type.fields # <<>> /\ Last(c.type.fields) \in {"call", "calls"}

(* An exact call is read back from its own bytes, through T::from_call and   *)
(* through RuntimeCall::decode, and no other type accepts them: no header is *)
(* used twice and no field runs into the next.                              *)
RoundTrip ==
  call # None /\ Exact(call) =>
    /\ \A t \in CallTypes :
         IF t = call.type THEN FromCall(t, Bytes(call)) = Ok(call, <<>>)
         ELSE ~ FromCall(t, Bytes(call)).ok
    /\ IF call.type \in RuntimeCalls
       THEN ReadRuntimeCall(Bytes(call)) = Ok(call, <<>>)
       ELSE ~ ReadRuntimeCall(Bytes(call)).ok

(* decode_calls answers exactly the calls that were added, or an error if a  *)
(* call is no RuntimeCall or one that reads the rest of the input is not the *)
(* last: it never answers other calls, or another number of them.           *)
BatchRecovered ==
  (\A i \in DOMAIN added : Exact(added[i])) =>
    LET readable == /\ \A i \in DOMAIN added : added[i].type \in RuntimeCalls
                    /\ \A i \in 1..Len(added) - 1 : ~ Greedy(added[i])
    IN  DecodeCalls(batch) = IF readable THEN Ok(added, <<>>) ELSE Err

(* An extrinsic reads back as the call it was made from, a SignedExtrinsic   *)
(* only if it is signed, and one that arrives cut or extended is refused.    *)
DamageRefused ==
  wire # <<>> /\ Exact(call) =>
    LET intact == Len(wire) - 1 = wire[1]
    IN  /\ ReadExtrinsic(call.type, wire) = IF intact THEN Ok(call, <<>>) ELSE Err
        /\ ReadSigned(call.type, wire)
             = IF intact /\ wire[2] = 132 THEN Ok(call, <<>>) ELSE Err

(* "RuntimeCall variants are the only calls that are decodable from a batch  *)
(* call" (examples/recipes_batch.rs): a batch of RuntimeCall variants is     *)
(* decodable.                                                               *)
DecodableFromBatch ==
  (\A i \in DOMAIN added : added[i].type \in RuntimeCalls) =>
    DecodeCalls(batch) = Ok(added, <<>>)
=============================================================================
