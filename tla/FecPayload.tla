----------------------------- MODULE FecPayload -----------------------------
(***************************************************************************)
(* How build_fec_set of crates/shred/src/fec_set.rs cuts its payload into  *)
(* the data buffers of the shreds, and the size field it writes.           *)
(***************************************************************************)
EXTENDS Integers

CONSTANTS
    DATA_SHREDS,        \* data shreds of a set, 32 in the code
    CAPACITY_PER_SHRED, \* DATA_CAPACITY_PER_SHRED, 963 in the code
    PayloadLengths      \* lengths of the payloads handed in

ASSUME PayloadAssumption ==
    /\ DATA_SHREDS \in Nat
    /\ CAPACITY_PER_SHRED \in Nat
    /\ PayloadLengths \subseteq Nat

DATA_BUF     == 88
DATA_BUF_END == DATA_BUF + CAPACITY_PER_SHRED

VARIABLES
    payload_len,
    built,          \* data shreds filled so far; -1 before the length check
    slice,          \* <<first, end>> of the payload in the last shred filled
    size_field,     \* its size field
    carried,        \* history: the payload bytes 0 .. carried - 1 are in the shreds
    outcome         \* "building", "refused", "built"

payload_vars == <<payload_len, built, slice, size_field, carried, outcome>>

PayloadInit ==
    /\ payload_len \in PayloadLengths
    /\ built = -1
    /\ slice = <<0, 0>>
    /\ size_field = 0
    /\ carried = 0
    /\ outcome = "building"

too_long(len) == len > CAPACITY_PER_SHRED * DATA_SHREDS

CheckLength ==
    /\ outcome = "building"
    /\ built = -1
    /\ IF too_long(payload_len)
       THEN outcome' = "refused" /\ UNCHANGED built
       ELSE built' = 0 /\ UNCHANGED outcome
    /\ UNCHANGED <<payload_len, slice, size_field, carried>>

\* Mutant: the end of the payload is not looked at.
Mutant_FullSlices(i) == <<i * CAPACITY_PER_SHRED, (i + 1) * CAPACITY_PER_SHRED>>

\* The part of the payload that goes into data shred i.
slice_of(i) ==
    LET off == i * CAPACITY_PER_SHRED
        end == IF off + CAPACITY_PER_SHRED <= payload_len
               THEN off + CAPACITY_PER_SHRED ELSE payload_len
    IN  IF off < payload_len THEN <<off, end>> ELSE <<0, 0>>

FillShred ==
    /\ outcome = "building"
    /\ built \in 0 .. DATA_SHREDS - 1
    /\ slice' = slice_of(built)
    /\ size_field' = DATA_BUF + slice'[2] - slice'[1]
    /\ carried' = IF slice'[1] = carried THEN slice'[2] ELSE carried
    /\ built' = built + 1
    /\ UNCHANGED <<payload_len, outcome>>

FinishSet ==
    /\ outcome = "building"
    /\ built = DATA_SHREDS
    /\ outcome' = "built"
    /\ UNCHANGED <<payload_len, built, slice, size_field, carried>>

PayloadNext == CheckLength \/ FillShred \/ FinishSet

PayloadSpec == PayloadInit /\ [][PayloadNext]_payload_vars

-----------------------------------------------------------------------------
(***************************************************************************)
(* "up to DATA_SHREDS_PER_FEC * 963 bytes are accepted": exactly those     *)
(* payloads are, the shreds carry every byte of one, in order and without  *)
(* a gap, and no slice runs past the payload or past the data buffer its   *)
(* size field describes.                                                   *)
(***************************************************************************)
PayloadCarried ==
    /\ outcome = "built" => carried = payload_len
    /\ outcome = "refused" => payload_len > DATA_SHREDS * CAPACITY_PER_SHRED
    /\ slice[1] <= slice[2] /\ slice[2] <= payload_len
    /\ built > 0 => size_field \in DATA_BUF .. DATA_BUF_END

=============================================================================
