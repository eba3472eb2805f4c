----------------------------- MODULE StorageIter -----------------------------
(***************************************************************************)
(* Iteration over a storage map or double map (core/src/substrate/         *)
(* storage.rs): StorageMapIterator and StorageDoubleMapIterator fetch a    *)
(* page of keys, then one value at a time, all at one block.  Their RPCs   *)
(* are not retried: an error goes to the caller, who may call again.       *)
(*                                                                         *)
(* The entries of the map at that block are 1 .. NumEntries in the order   *)
(* of their storage keys; entry n of a map has key n, entry n of a double  *)
(* map has first key FirstKey, the one the iterator was made for, and      *)
(* second key n.                                                           *)
(***************************************************************************)
EXTENDS Integers, Sequences, SequencesExt

CONSTANTS
  NumEntries,  \* entries of the map at the block
  PageSize     \* keys per page, 100 in the code

ASSUME StorageAssumption == NumEntries \in Nat /\ PageSize \in Nat \ {0}

FirstKey == 0
Hash == -1

VARIABLES
  shape,    \* the map: is it double, and the hashers of its keys
  page,     \* fetched_keys: the last element is taken next
  lastKey,  \* last_key, 0 for None
  isDone,   \* is_done
  stage,    \* "idle", "keys" (awaiting get_keys_paged), "value" (get_storage)
  wanted,   \* the call under way is next_key_value, not next
  reply,    \* "pending", "some", "none" or "error"
  got       \* history: what the calls returned, entry and decoded keys

iterVars == <<shape, page, lastKey, isDone, stage, wanted, reply, got>>

Hashers == {"concat", "identity"}
Shapes == [double : BOOLEAN, hash1 : Hashers, hash2 : Hashers]

-----------------------------------------------------------------------------
(* Storage keys, after the 32 bytes of the pallet and the item *)

(* StorageHasher::hash. *)
Hashed(hasher, key) == IF hasher = "concat" THEN <<Hash, key>> ELSE <<key>>

(* StorageMap and StorageDoubleMap::encode_storage_key. *)
StorageKey(n) ==
  IF shape.double THEN Hashed(shape.hash1, FirstKey) \o Hashed(shape.hash2, n)
  ELSE Hashed(shape.hash1, n)

(* StorageHasher::from_hash: a concatenating hasher decodes the key from a  *)
(* slice of its own, and leaves the input where it was.                     *)
FromHash(hasher, in) ==
  IF hasher = "concat" THEN [key |-> in[2], rest |-> in]
  ELSE [key |-> in[1], rest |-> Tail(in)]

(* decode_storage_key of a map and of a double map. *)
DecodedKeys(n) ==
  LET first  == FromHash(shape.hash1, StorageKey(n))
      second == FromHash(shape.hash2, first.rest)
  IN  IF shape.double THEN <<first.key, second.key>> ELSE <<first.key>>

-----------------------------------------------------------------------------
(* state_getKeysPaged: the keys after k, in order. *)
KeysAfter(k) ==
  [i \in 1..(IF PageSize < NumEntries - k THEN PageSize ELSE NumEntries - k) |-> k + i]

IterInit ==
  /\ shape \in Shapes
  /\ page = <<>>
  /\ lastKey = 0
  /\ isDone = FALSE
  /\ stage = "idle"
  /\ wanted = FALSE
  /\ reply = "pending"
  /\ got = <<>>

(* next and next_key_value, to the first await. *)
Ask(keyValue) ==
  /\ stage = "idle"
  /\ wanted' = keyValue
  /\ IF isDone THEN stage' = "idle" /\ reply' = "none"
     ELSE stage' = (IF page = <<>> THEN "keys" ELSE "value") /\ reply' = "pending"
  /\ UNCHANGED <<shape, page, lastKey, isDone, got>>

(* Mutant of GotKeys: an empty page does not end the iteration. *)
GotKeysEndless ==
  /\ stage = "keys"
  /\ page' = Reverse(KeysAfter(lastKey))
  /\ IF page' = <<>> THEN stage' = "idle" /\ reply' = "none"
     ELSE stage' = "value" /\ UNCHANGED reply
  /\ UNCHANGED <<shape, lastKey, isDone, wanted, got>>

(* Mutant of GotKeys: the page is not reversed, its last key is taken first. *)
GotKeysForward ==
  /\ stage = "keys"
  /\ page' = KeysAfter(lastKey)
  /\ IF page' = <<>> THEN isDone' = TRUE /\ stage' = "idle" /\ reply' = "none"
     ELSE stage' = "value" /\ UNCHANGED <<isDone, reply>>
  /\ UNCHANGED <<shape, lastKey, wanted, got>>

(* Mutant of GotKeys: a short page is taken for the last, and the iterator   *)
(* is done when it is fetched.                                              *)
GotKeysShort ==
  /\ stage = "keys"
  /\ page' = Reverse(KeysAfter(lastKey))
  /\ isDone' = (Len(page') < PageSize)
  /\ IF page' = <<>> THEN stage' = "idle" /\ reply' = "none"
     ELSE stage' = "value" /\ UNCHANGED reply
  /\ UNCHANGED <<shape, lastKey, wanted, got>>

(* fetch_new_keys. *)
GotKeys ==
  /\ stage = "keys"
  /\ page' = Reverse(KeysAfter(lastKey))
  /\ IF page' = <<>> THEN isDone' = TRUE /\ stage' = "idle" /\ reply' = "none"
     ELSE stage' = "value" /\ UNCHANGED <<isDone, reply>>
  /\ UNCHANGED <<shape, lastKey, wanted, got>>

(* What next and next_key_value return of an entry: next of a double map    *)
(* leaves out the first key, next of a map all keys.                        *)
Item(n) ==
  [entry |-> n,
   keys  |-> IF wanted \/ shape.double THEN DecodedKeys(n) ELSE <<>>]

(* fetch_storage_value answered: the key is taken from the page. *)
GotValue ==
  /\ stage = "value"
  /\ lastKey' = Last(page)
  /\ page' = Front(page)
  /\ got' = Append(got, Item(Last(page)))
  /\ stage' = "idle"
  /\ reply' = "some"
  /\ UNCHANGED <<shape, isDone, wanted>>

(* The node has no value for a key it listed (another node answers, or its  *)
(* state is pruned): None, although the iteration is not at its end.        *)
NoValue ==
  /\ stage = "value"
  /\ stage' = "idle"
  /\ reply' = "none"
  /\ UNCHANGED <<shape, page, lastKey, isDone, wanted, got>>

(* The ? of an RPC, of the value's decoding or of the key's decoding. *)
ReadFails ==
  /\ stage \in {"keys", "value"}
  /\ stage' = "idle"
  /\ reply' = "error"
  /\ UNCHANGED <<shape, page, lastKey, isDone, wanted, got>>

(* The caller drops the future. *)
Abandon ==
  /\ stage \in {"keys", "value"}
  /\ stage' = "idle"
  /\ UNCHANGED <<shape, page, lastKey, isDone, wanted, reply, got>>

IterNext == \/ \E keyValue \in BOOLEAN : Ask(keyValue)
            \/ GotKeys \/ GotValue \/ NoValue \/ ReadFails \/ Abandon

IterSpec == IterInit /\ [][IterNext]_iterVars

(* The caller goes on calling, and a read that is repeated for ever is      *)
(* answered in the end.                                                     *)
IterFairness ==
  /\ WF_iterVars(\E keyValue \in BOOLEAN : Ask(keyValue))
  /\ SF_iterVars(GotKeys) /\ SF_iterVars(GotValue)

-----------------------------------------------------------------------------
IterTypeOK ==
  /\ shape \in Shapes
  /\ page \in Seq(1..NumEntries)
  /\ lastKey \in 0..NumEntries
  /\ isDone \in BOOLEAN
  /\ stage \in {"idle", "keys", "value"}
  /\ wanted \in BOOLEAN
  /\ reply \in {"pending", "some", "none", "error"}
  /\ got \in Seq([entry : 1..NumEntries, keys : Seq(Int)])

(* The calls return the entries of the block one after the other, none      *)
(* skipped and none twice, through page boundaries, failed reads, dropped   *)
(* futures and whatever mix of next and next_key_value.                     *)
EachOnceInOrder == \A i \in DOMAIN got : got[i].entry = i

(* The iterator considers itself done only when every entry was returned.   *)
DoneIsComplete == isDone => Len(got) = NumEntries

(* Once begun, the iteration reaches its end through transient failures. *)
IterationEnds == stage # "idle" ~> isDone

(* "Decodes the SCALE encoded Storage Key" (StorageDoubleMap): both keys of  *)
(* an entry are returned with its value.                                    *)
DoubleMapKeys ==
  \A i \in DOMAIN got :
    Len(got[i].keys) = 2 => got[i].keys = <<FirstKey, got[i].entry>>
=============================================================================
