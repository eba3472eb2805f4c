------------------------------- MODULE MCCodec -------------------------------
EXTENDS CallCodec
(* Calls that others are wrapped around and that go into batches. *)
MCBatchable == {"balances.TransferKeepAlive", "staking.Chill", "data_availability.SubmitData",
  "vector.SourceChainFroze", "proxy.Proxy", "multisig.AsMulti", "multisig.AsMultiThreshold1", "utility.Batch"}
=============================================================================
