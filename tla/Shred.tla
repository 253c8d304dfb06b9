------------------------------- MODULE Shred -------------------------------
(***************************************************************************)
(* A shred as the listener receives it: crates/shred/src/lib.rs.           *)
(*                                                                         *)
(* A UDP datagram is abstracted to what parse_shred and verify_shred can   *)
(* tell about it.  The two pieces of cryptography are taken at their       *)
(* contract: folding the Merkle path of a shred gives one root, which      *)
(* differs for different content, and an Ed25519 signature of a root       *)
(* verifies under exactly one public key.                                  *)
(***************************************************************************)
EXTENDS Integers

CONSTANTS
    Slots,                   \* slot numbers (u64 in the code)
    FecSetIndices,           \* fec_set_index values (u32 in the code)
    MerkleRoots,             \* 32-byte Merkle roots
    Pubkeys,                 \* Ed25519 public keys
    DATA_SHREDS_PER_FEC,     \* 32 in the code
    CODING_SHREDS_PER_FEC,   \* 32 in the code
    U32                      \* modulus of u32 arithmetic, 2^32 in the code

ASSUME FecSetIndicesAssumption == FecSetIndices \subseteq Nat
ASSUME DataShredsAssumption == DATA_SHREDS_PER_FEC \in Nat \ {0, 1}
ASSUME CodingShredsAssumption == CODING_SHREDS_PER_FEC \in Nat
ASSUME U32Assumption == U32 \in Nat \ {0}

SHREDS_PER_FEC == DATA_SHREDS_PER_FEC + CODING_SHREDS_PER_FEC

(***************************************************************************)
(* wellformed   parse_shred succeeds: long enough for its kind, a known    *)
(*              variant byte, a proof that fits in the buffer              *)
(* index        header.index of a data shred, CodingShredHeader.position   *)
(*              of a coding shred                                          *)
(* proof_size   number of Merkle proof entries (low nibble of the variant) *)
(* merkle_root  the root the leaf folds to along its proof                 *)
(* signer       the key the signature of that root verifies under          *)
(* last_flag    the LAST_SHRED_IN_SLOT bit at the data flags offset        *)
(***************************************************************************)
Datagram ==
    [wellformed    : BOOLEAN,
     slot          : Slots,
     kind          : {"Data", "Code"},
     index         : Nat,
     fec_set_index : FecSetIndices,
     proof_size    : 0..15,
     merkle_root   : MerkleRoots,
     signer        : Pubkeys,
     last_flag     : BOOLEAN]

(***************************************************************************)
(* Position of the shred inside its FEC set.  The subtraction is on u32    *)
(* and wraps in a release build.                                           *)
(***************************************************************************)
erasure_shard_index(d) ==
    IF d.kind = "Data"
    THEN (d.index - d.fec_set_index) % U32
    ELSE DATA_SHREDS_PER_FEC + d.index

(***************************************************************************)
(* compute_merkle_root consumes one bit of the index per proof entry and   *)
(* fails unless none is left.                                              *)
(***************************************************************************)
merkle_path_ok(d) == erasure_shard_index(d) < 2 ^ d.proof_size

verify_shred(d, leader) ==
    /\ d.wellformed
    /\ merkle_path_ok(d)
    /\ d.signer = leader

\* Only a data shred has a flags byte; a coding shred never carries the bit.
is_last_in_slot(d) == d.kind = "Data" /\ d.last_flag

=============================================================================
