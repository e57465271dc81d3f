---------------------------- MODULE WrbpodSlices ----------------------------
(***************************************************************************)
(* A chunk of slices (storage/wrbpod.rs, impl WrbpodSlices) and its        *)
(* encoding (storage/mod.rs, StacksMessageCodec for WrbpodSlices): the     *)
(* slices in order of arrival, an index from slice IDs to positions, and a *)
(* running account of the encoded size that decides whether a slice fits.  *)
(* Positions start at 1 here and at 0 in the code.                         *)
(***************************************************************************)
EXTENDS Integers, Sequences, FiniteSets

CONSTANTS SliceId,   \* slice IDs
          Content,   \* contents of slices
          SizeOf,    \* SizeOf[x]: length of content x in bytes
          MaxSize,   \* WRBPOD_CHUNK_MAX_SIZE
          None       \* no slice

ASSUME SlicesAssumption ==
    /\ SizeOf \in [Content -> Nat]
    /\ MaxSize \in Nat /\ MaxSize >= 1 + 8
    /\ None \notin Content

VARIABLES chunk,   \* the WrbpodSlices: [slices, index, dirty, encoded_size]
          saved,   \* the bytes last uploaded from it
          result   \* what the last put_slice returned

vars == <<chunk, saved, result>>

-----------------------------------------------------------------------------
WRBPOD_SLICES_INITIAL_SIZE == 1 + 8

NewChunk == [slices |-> << >>, index |-> [i \in {} |-> 0], dirty |-> FALSE,
             encoded_size |-> WRBPOD_SLICES_INITIAL_SIZE]

(* A slice costs its length and a length prefix; a new one also costs an   *)
(* entry of the index, an ID and a position.                               *)
slice_encoded_size(len, present) == IF present THEN 4 + len ELSE 4 + len + 16 + 8

can_fit_slice(ch, id, len) ==
    ch.encoded_size + slice_encoded_size(len, id \in DOMAIN ch.index) <= MaxSize

(* Variant with a bug: the index takes the length before the push as the   *)
(* position of a replaced slice too.                                       *)
put_slice_AlwaysPush(ch, id, x) ==
    LET present == id \in DOMAIN ch.index
        cost == slice_encoded_size(SizeOf[x], present)
    IN  IF ch.encoded_size + cost > MaxSize THEN [ok |-> FALSE, chunk |-> ch]
        ELSE [ok |-> TRUE,
              chunk |-> [slices |-> Append(ch.slices, x),
                         index |-> [i \in DOMAIN ch.index \cup {id} |->
                                      IF i = id THEN Len(ch.slices) + 1 ELSE ch.index[i]],
                         dirty |-> TRUE,
                         encoded_size |-> ch.encoded_size + cost]]

(***************************************************************************)
(* put_slice: a replaced slice keeps its position; the account grows by    *)
(* the whole cost of the new content, and nothing is taken off for the old *)
(* one.                                                                    *)
(***************************************************************************)
put_slice(ch, id, x) ==
    LET present == id \in DOMAIN ch.index
        cost == slice_encoded_size(SizeOf[x], present)
        at == IF present THEN ch.index[id] ELSE Len(ch.slices) + 1
    IN  IF ~can_fit_slice(ch, id, SizeOf[x]) THEN [ok |-> FALSE, chunk |-> ch]
        ELSE [ok |-> TRUE,
              chunk |-> [slices |-> IF present THEN [ch.slices EXCEPT ![at] = x]
                                    ELSE Append(ch.slices, x),
                         index |-> [i \in DOMAIN ch.index \cup {id} |->
                                      IF i = id THEN at ELSE ch.index[i]],
                         dirty |-> TRUE,
                         encoded_size |-> ch.encoded_size + cost]]

get_slice(ch, id) ==
    IF id \in DOMAIN ch.index /\ ch.index[id] \in DOMAIN ch.slices
    THEN ch.slices[ch.index[id]] ELSE None

-----------------------------------------------------------------------------
(* The encoding: the number of index entries, the entries, then every      *)
(* slice with its length.                                                  *)
consensus_serialize(ch) ==
    [count |-> Cardinality(DOMAIN ch.index), entries |-> ch.index, body |-> ch.slices]

(* The bytes of the slices, each after its length.                         *)
BodySize(body) ==
    LET upto[k \in 0..Len(body)] == IF k = 0 THEN 0 ELSE upto[k - 1] + 4 + SizeOf[body[k]]
    IN  upto[Len(body)]

EncodedLength(bytes) ==
    1 + 8 + 24 * Cardinality(DOMAIN bytes.entries) + BodySize(bytes.body)

(* Variant with a bug: the account of a decoded chunk misses the index.    *)
consensus_deserialize_NoIndexSize(bytes) ==
    LET body == SubSeq(bytes.body, 1, bytes.count)
    IN  [slices |-> body, index |-> bytes.entries, dirty |-> FALSE,
         encoded_size |-> 1 + 8 + BodySize(body)]

(***************************************************************************)
(* The decoder takes as many slices as there are index entries, and counts *)
(* the size as it reads.  (It rejects a position past the count or an ID   *)
(* given twice; Decodes says when it does not.)                            *)
(***************************************************************************)
consensus_deserialize(bytes) ==
    LET body == SubSeq(bytes.body, 1, bytes.count)
    IN  [slices |-> body, index |-> bytes.entries, dirty |-> FALSE,
         encoded_size |-> 1 + 8 + 24 * bytes.count + BodySize(body)]

Decodes(bytes) ==
    /\ bytes.count <= Len(bytes.body)
    /\ \A i \in DOMAIN bytes.entries : bytes.entries[i] <= bytes.count

-----------------------------------------------------------------------------
Init ==
    /\ chunk = NewChunk
    /\ saved = consensus_serialize(NewChunk)
    /\ result = TRUE

PutSlice(id, x) ==
    LET r == put_slice(chunk, id, x)
    IN  /\ chunk' = r.chunk
        /\ result' = r.ok
        /\ UNCHANGED saved

(* Wrbpod::sync_slot with its upload accepted: to_stackerdb_chunk, then    *)
(* set_dirty(false).                                                       *)
Sync ==
    /\ saved' = consensus_serialize(chunk)
    /\ chunk' = [chunk EXCEPT !.dirty = FALSE]
    /\ UNCHANGED result

(* Wrbpod::get_chunk: the local copy is what from_slice makes of the bytes. *)
Fetch ==
    /\ Decodes(saved)
    /\ chunk' = consensus_deserialize(saved)
    /\ UNCHANGED <<saved, result>>

Next == (\E id \in SliceId, x \in Content : PutSlice(id, x)) \/ Sync \/ Fetch

Spec == Init /\ [][Next]_vars

-----------------------------------------------------------------------------
(* The account never falls short of the real encoding and never passes the *)
(* limit: no chunk larger than the StackerDB's limit is ever produced.     *)
NeverOversized ==
    /\ EncodedLength(consensus_serialize(chunk)) <= chunk.encoded_size
    /\ chunk.encoded_size <= MaxSize

(* What a session uploads can be read back: the bytes decode, and to the   *)
(* same slices under the same IDs.                                         *)
RoundTrip ==
    LET bytes == consensus_serialize(chunk)
    IN  /\ Decodes(bytes)
        /\ \A id \in SliceId :
              get_slice(consensus_deserialize(bytes), id) = get_slice(chunk, id)

MapOf(ch) == [id \in SliceId |-> get_slice(ch, id)]

Abstract == INSTANCE SliceMap WITH map <- MapOf(chunk),
                                   saved <- MapOf(consensus_deserialize(saved))

(* Behind the positions, the index and the codec there is a plain map.     *)
ImplementsSliceMap == Abstract!Spec
=============================================================================
