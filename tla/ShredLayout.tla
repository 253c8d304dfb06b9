---------------------------- MODULE ShredLayout ----------------------------
(***************************************************************************)
(* Where the fields of a shred are: parse_shred of crates/shred/src/lib.rs *)
(* on a buffer of any length under any variant byte, the slice the         *)
(* assembler then stores for Reed-Solomon, and the offsets build_fec_set   *)
(* writes to.  A region is a pair <<first, end>>, end excluded, and the    *)
(* numbers are the ones of the code.                                       *)
(***************************************************************************)
EXTENDS Integers

CONSTANTS
    Lengths,        \* the lengths a datagram can have
    NoRegions       \* nothing was parsed

ASSUME LengthsAssumption == Lengths \subseteq Nat

SIZE_OF_SIGNATURE         == 64
SIZE_OF_COMMON_HEADER     == 83
SIZE_OF_MERKLE_ROOT       == 32
SIZE_OF_PROOF_ENTRY       == 20
SIZE_OF_RETRANSMITTER_SIG == 64
DATA_SHRED_PAYLOAD_SIZE   == 1203
CODING_SHRED_PAYLOAD_SIZE == 1228
ERASURE_SHARD_SIZE        == 987

VARIABLES
    raw_len,        \* length of the datagram
    byte,           \* its byte at offset 64
    step,           \* "parse", "store", "stored", "rejected"
    regions         \* the slices taken so far

layout_vars == <<raw_len, byte, step, regions>>

-----------------------------------------------------------------------------
\* ShredVariant: the high nibble says kind and resigned, the low one proof_size.
high_nibble(kind, resigned) ==
    IF kind = "Code" THEN (IF resigned THEN 112 ELSE 96)
                     ELSE (IF resigned THEN 176 ELSE 144)

encode(variant) == high_nibble(variant.kind, variant.resigned) + variant.proof_size

known(b) == b - (b % 16) \in {96, 112, 144, 176}

decode(b) ==
    [kind       |-> IF b - (b % 16) \in {96, 112} THEN "Code" ELSE "Data",
     resigned   |-> b - (b % 16) \in {112, 176},
     proof_size |-> b % 16]

expected_len(kind) ==
    IF kind = "Data" THEN DATA_SHRED_PAYLOAD_SIZE ELSE CODING_SHRED_PAYLOAD_SIZE

proof_bytes(variant) == variant.proof_size * SIZE_OF_PROOF_ENTRY

resign_bytes(variant) == IF variant.resigned THEN SIZE_OF_RETRANSMITTER_SIG ELSE 0

\* Mutant: only the header has to be there.
Mutant_HeaderOnly(len, b) ==
    /\ len >= SIZE_OF_COMMON_HEADER
    /\ known(b)
    /\ proof_bytes(decode(b)) + resign_bytes(decode(b)) + SIZE_OF_SIGNATURE
          <= expected_len(decode(b).kind)

parses(len, b) ==
    /\ len >= SIZE_OF_COMMON_HEADER
    /\ known(b)
    /\ len >= expected_len(decode(b).kind)
    /\ proof_bytes(decode(b)) + resign_bytes(decode(b)) + SIZE_OF_SIGNATURE
          <= expected_len(decode(b).kind)

(***************************************************************************)
(* The slices of a parsed shred: what the leaf hash covers, the chained    *)
(* root, the proof, the field the shard index comes from, the flags byte   *)
(* (an empty slice for a coding shred).                                    *)
(***************************************************************************)
parsed_regions(b) ==
    LET variant     == decode(b)
        proof_end   == expected_len(variant.kind) - resign_bytes(variant)
        proof_start == proof_end - proof_bytes(variant)
    IN  [leaf     |-> <<SIZE_OF_SIGNATURE, proof_start>>,
         chained  |-> <<proof_start - SIZE_OF_MERKLE_ROOT, proof_start>>,
         proof    |-> <<proof_start, proof_end>>,
         position |-> IF variant.kind = "Code" THEN <<87, 89>> ELSE <<73, 77>>,
         flags    |-> IF variant.kind = "Data" THEN <<85, 86>> ELSE <<85, 85>>]

\* Mutant: the shards of both kinds start after the signature.
Mutant_OneOffset(kind) == SIZE_OF_SIGNATURE

shard_offset(kind) == IF kind = "Data" THEN SIZE_OF_SIGNATURE ELSE 89

erasure_region(kind) == <<shard_offset(kind), shard_offset(kind) + ERASURE_SHARD_SIZE>>

-----------------------------------------------------------------------------
LayoutInit ==
    /\ raw_len \in Lengths
    /\ byte \in 0 .. 255
    /\ step = "parse"
    /\ regions = NoRegions

ParseOk ==
    /\ step = "parse"
    /\ parses(raw_len, byte)
    /\ step' = "store"
    /\ regions' = parsed_regions(byte)
    /\ UNCHANGED <<raw_len, byte>>

\* PayloadTooSmall, UnknownVariant, ProofSizeOverflow.
ParseErr ==
    /\ step = "parse"
    /\ ~parses(raw_len, byte)
    /\ step' = "rejected"
    /\ UNCHANGED <<raw_len, byte, regions>>

\* The assembler cuts the erasure shard out of a shred it accepts.
StoreShard ==
    /\ step = "store"
    /\ step' = "stored"
    /\ regions' = [leaf     |-> regions.leaf,
                   chained  |-> regions.chained,
                   proof    |-> regions.proof,
                   position |-> regions.position,
                   flags    |-> regions.flags,
                   erasure  |-> erasure_region(decode(byte).kind)]
    /\ UNCHANGED <<raw_len, byte>>

LayoutNext == ParseOk \/ ParseErr \/ StoreShard

LayoutSpec == LayoutInit /\ [][LayoutNext]_layout_vars

-----------------------------------------------------------------------------
\* The layout fec_set.rs writes: data_off and code_off, and its one variant.
data_off ==
    [leaf |-> <<64, 1083>>, chained |-> <<1051, 1083>>, proof |-> <<1083, 1203>>,
     position |-> <<73, 77>>, flags |-> <<85, 86>>, erasure |-> <<64, 1051>>]

code_off ==
    [leaf |-> <<64, 1108>>, chained |-> <<1076, 1108>>, proof |-> <<1108, 1228>>,
     position |-> <<87, 89>>, flags |-> <<85, 85>>, erasure |-> <<89, 1076>>]

built_variant(kind) == [kind |-> kind, resigned |-> FALSE, proof_size |-> 6]

within(region, len) == 0 <= region[1] /\ region[1] <= region[2] /\ region[2] <= len

(***************************************************************************)
(* No datagram makes the listener slice out of bounds: for every length    *)
(* and every variant byte, what parse_shred and the assembler cut out of   *)
(* the buffer is inside it, also the fixed 987 bytes at offset 89.         *)
(***************************************************************************)
SlicesInBounds ==
    \A field \in DOMAIN regions : within(regions[field], raw_len)

(***************************************************************************)
(* What the leader signs is everything but the signature, the proof and    *)
(* the retransmitter's signature: leaf and proof follow each other, what   *)
(* is behind the proof is the 64 bytes of a resigned shred or nothing, and *)
(* every field the listener acts on (the chained root, the index or        *)
(* position, the flags) is hashed into the leaf.                           *)
(***************************************************************************)
SignedFields ==
    /\ regions.leaf[2] = regions.proof[1]
    /\ regions.proof[2] + resign_bytes(decode(byte)) = expected_len(decode(byte).kind)
    /\ \A field \in {"chained", "position", "flags"} :
          /\ regions.leaf[1] <= regions[field][1]
          /\ regions[field][2] <= regions.leaf[2]
    /\ regions.position[2] <= regions.chained[1]

\* A shred that parses is cut inside the buffer and acted on only as signed.
LayoutSound == regions # NoRegions => SlicesInBounds /\ SignedFields

(***************************************************************************)
(* Builder and parser agree: a shred with the variant byte build_fec_set   *)
(* writes is cut by the listener at the very offsets the builder filled,   *)
(* the erasure shard included.                                             *)
(***************************************************************************)
BuilderAgrees ==
    step = "stored" =>
        /\ byte = encode(built_variant("Data")) => regions = data_off
        /\ byte = encode(built_variant("Code")) => regions = code_off

(***************************************************************************)
(* "Erasure shard region is [64..1051) for data and [89..1076) for coding",*)
(* "Common length is identical (987 bytes)": the shard the assembler       *)
(* stores of a shred of a 32 + 32 set (six proof entries) ends where its   *)
(* chained root begins.                                                    *)
(***************************************************************************)
ErasureBeforeTail ==
    step = "stored" /\ decode(byte).proof_size = 6 =>
        regions.erasure[2] <= regions.chained[1]

=============================================================================
