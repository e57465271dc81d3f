------------------------------ MODULE StackerDB ------------------------------
(***************************************************************************)
(* A StackerDB replica: one row per slot with a version, the data and the  *)
(* key that signed it (storage/mock.rs, LocalStackerDBClient, the node     *)
(* kept in a file that several processes can open).  Each call is one      *)
(* transaction.  Hashes and signatures are modelled by what they let a     *)
(* reader decide: the hash of some data is the data itself, the signature  *)
(* is the key that made it.  The data of a row is a set: {d}, or {} with   *)
(* the all-zero hash in a slot that was never written.                     *)
(***************************************************************************)
EXTENDS Integers, Sequences

CONSTANTS Key,       \* signing keys
          NoKey,     \* the all-zero signature of an empty slot
          Signer,    \* Signer[s]: the key whose address owns slot s
          MaxSlots   \* config.max_slots

ASSUME StackerDBAssumption ==
    /\ DOMAIN Signer \subseteq Nat
    /\ Signer \in [DOMAIN Signer -> Key]
    /\ NoKey \notin Key
    /\ MaxSlots \in Nat

VARIABLE chunks      \* the table: slot ID -> [version, data, sig]

open_or_create ==
    chunks = [s \in DOMAIN Signer |-> [version |-> 0, data |-> {}, sig |-> NoKey]]

(* SlotMetadataIsEmpty.                                                    *)
is_empty(md) == md.version = 0 /\ md.data = {}

(* SlotMetadata::verify against the owner of slot s, from libstackerdb.    *)
verify(md, s) == md.sig = Signer[s]

(* The metadata of every slot: version, hash and signature.                *)
list_chunks == chunks

(* The data of the slots asked for, in the order of the request.           *)
get_latest_chunks(slots) == [i \in DOMAIN slots |-> chunks[slots[i]].data]

(* Variant with a bug: a slot takes whatever version it is given.          *)
put_chunk_ack_AnyVersion(slot, version) ==
    IF slot >= MaxSlots \/ slot \notin DOMAIN chunks
    THEN [accepted |-> FALSE, metadata |-> {}]
    ELSE [accepted |-> TRUE, metadata |-> {}]

(***************************************************************************)
(* The answer to put_chunk.  The metadata of a refusal is a set with the   *)
(* slot's metadata, or the empty set when the answer has none.  A written  *)
(* slot refuses when its STORED signature is not its owner's, or when the  *)
(* version does not advance; the signature of the new chunk is not read.   *)
(***************************************************************************)
put_chunk_ack(slot, version) ==
    IF slot >= MaxSlots \/ slot \notin DOMAIN chunks
    THEN [accepted |-> FALSE, metadata |-> {}]
    ELSE IF /\ ~is_empty(chunks[slot])
            /\ ~verify(chunks[slot], slot) \/ version <= chunks[slot].version
    THEN [accepted |-> FALSE, metadata |-> {chunks[slot]}]
    ELSE [accepted |-> TRUE, metadata |-> {}]

(* The effect of put_chunk on the table.                                   *)
put_chunk(slot, version, data, key) ==
    chunks' = IF put_chunk_ack(slot, version).accepted
              THEN [chunks EXCEPT ![slot] =
                      [version |-> version, data |-> {data}, sig |-> key]]
              ELSE chunks
=============================================================================
