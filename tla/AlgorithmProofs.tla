-------------------------- MODULE AlgorithmProofs --------------------------
(***************************************************************************)
(* Proofs about the sequential algorithms whose inputs are unbounded: the  *)
(* layout of a shred, the cut of a payload into shreds, the runs of the    *)
(* leaders command, the Merkle trees over shreds and over FEC roots, the   *)
(* confidence drawn from samples.                                          *)
(***************************************************************************)
EXTENDS ShredLayout, FecPayload, LeaderRuns, MerkleVerify, SlotRoot, DasSampling,
        FiniteSetTheorems, WellFoundedInduction, TLAPS

-----------------------------------------------------------------------------
(***************************************************************************)
(* The layout theorems, for datagrams of every length.  The argument is    *)
(* arithmetic on one variant: parse_shred refuses what is shorter than the *)
(* fixed length of its kind, and fifteen proof entries with a signature    *)
(* behind them still end after the headers.                                *)
(***************************************************************************)

Bytes == 0 .. 255

\* The regions after the assembler has cut its shard.
stored_regions(b) ==
    [leaf     |-> parsed_regions(b).leaf,
     chained  |-> parsed_regions(b).chained,
     proof    |-> parsed_regions(b).proof,
     position |-> parsed_regions(b).position,
     flags    |-> parsed_regions(b).flags,
     erasure  |-> erasure_region(decode(b).kind)]

\* The inductive invariant: the regions are a function of the variant byte.
LInv ==
    /\ raw_len \in Nat
    /\ byte \in Bytes
    /\ step \in {"parse", "store", "stored", "rejected"}
    /\ step \in {"parse", "rejected"} => regions = NoRegions
    /\ step \in {"store", "stored"} => parses(raw_len, byte)
    /\ step = "store" => regions = parsed_regions(byte)
    /\ step = "stored" => regions = stored_regions(byte)

\* A variant byte splits into its nibbles.
LEMMA Nibbles ==
    ASSUME NEW b \in Bytes
    PROVE  /\ decode(b).kind \in {"Code", "Data"}
           /\ decode(b).resigned \in BOOLEAN
           /\ decode(b).proof_size \in 0 .. 15
<1>1. b % 16 \in 0 .. 15
  BY DEF Bytes
<1> QED BY <1>1 DEF decode

\* How long the proof, the retransmitter's signature and the whole shred are.
LEMMA Sizes ==
    ASSUME NEW b \in Bytes
    PROVE  /\ proof_bytes(decode(b)) \in 0 .. 300
           /\ resign_bytes(decode(b)) \in {0, 64}
           /\ expected_len(decode(b).kind) \in {1203, 1228}
           /\ decode(b).kind = "Code" => expected_len(decode(b).kind) = 1228
<1>1. /\ decode(b).kind \in {"Code", "Data"}
      /\ decode(b).proof_size \in 0 .. 15
  BY Nibbles
<1>2. proof_bytes(decode(b)) \in 0 .. 300
  BY <1>1 DEF proof_bytes, SIZE_OF_PROOF_ENTRY
<1>3. resign_bytes(decode(b)) \in {0, 64}
  BY DEF resign_bytes, SIZE_OF_RETRANSMITTER_SIG
<1>4. /\ expected_len(decode(b).kind) \in {1203, 1228}
      /\ decode(b).kind = "Code" => expected_len(decode(b).kind) = 1228
  BY <1>1 DEF expected_len, DATA_SHRED_PAYLOAD_SIZE, CODING_SHRED_PAYLOAD_SIZE
<1> QED BY <1>2, <1>3, <1>4

\* The five slices of a shred that parses, in numbers.
LEMMA ParsedPlaces ==
    ASSUME NEW b \in Bytes,
           NEW end, end = expected_len(decode(b).kind) - resign_bytes(decode(b)),
           NEW first, first = end - proof_bytes(decode(b))
    PROVE  /\ first \in 839 .. 1228 /\ end \in first .. 1228
           /\ parsed_regions(b).leaf = <<64, first>>
           /\ parsed_regions(b).chained = <<first - 32, first>>
           /\ parsed_regions(b).proof = <<first, end>>
           /\ parsed_regions(b).position \in {<<87, 89>>, <<73, 77>>}
           /\ parsed_regions(b).flags \in {<<85, 86>>, <<85, 85>>}
           /\ DOMAIN parsed_regions(b) = {"leaf", "chained", "proof", "position", "flags"}
<1>1. /\ proof_bytes(decode(b)) \in 0 .. 300
      /\ resign_bytes(decode(b)) \in {0, 64}
      /\ expected_len(decode(b).kind) \in {1203, 1228}
  BY Sizes
<1>2. first \in 839 .. 1228 /\ end \in first .. 1228
  BY <1>1
<1> QED BY <1>2 DEF parsed_regions, SIZE_OF_SIGNATURE, SIZE_OF_MERKLE_ROOT

LEMMA LayoutInitLInv == LayoutInit => LInv
BY LengthsAssumption DEF LayoutInit, LInv, Bytes

LEMMA LayoutNextLInv == LInv /\ [LayoutNext]_layout_vars => LInv'
<1> SUFFICES ASSUME LInv, [LayoutNext]_layout_vars PROVE LInv'
  OBVIOUS
<1>1. CASE ParseOk
  BY <1>1 DEF LInv, ParseOk
<1>2. CASE ParseErr
  BY <1>2 DEF LInv, ParseErr
<1>3. CASE StoreShard
  BY <1>3 DEF LInv, StoreShard, stored_regions
<1>4. CASE UNCHANGED layout_vars
  BY <1>4 DEF LInv, layout_vars
<1> QED BY <1>1, <1>2, <1>3, <1>4 DEF LayoutNext

LEMMA LInvLayoutSound == LInv => LayoutSound
<1> SUFFICES ASSUME LInv, regions # NoRegions PROVE SlicesInBounds /\ SignedFields
  BY DEF LayoutSound
<1> DEFINE end == expected_len(decode(byte).kind) - resign_bytes(decode(byte))
           first == end - proof_bytes(decode(byte))
<1>1. /\ byte \in Bytes /\ raw_len \in Nat
      /\ step \in {"store", "stored"} /\ parses(raw_len, byte)
  BY DEF LInv
<1>2. /\ first \in 839 .. 1228 /\ end \in first .. 1228
      /\ regions.leaf = <<64, first>>
      /\ regions.chained = <<first - 32, first>>
      /\ regions.proof = <<first, end>>
      /\ regions.position \in {<<87, 89>>, <<73, 77>>}
      /\ regions.flags \in {<<85, 86>>, <<85, 85>>}
  BY <1>1, ParsedPlaces DEF LInv, stored_regions
<1>3. /\ expected_len(decode(byte).kind) \in {1203, 1228}
      /\ resign_bytes(decode(byte)) \in {0, 64}
      /\ decode(byte).kind = "Code" => expected_len(decode(byte).kind) = 1228
  BY <1>1, Sizes
<1>4. end <= raw_len /\ raw_len >= expected_len(decode(byte).kind)
  <2>1. raw_len >= expected_len(decode(byte).kind)
    BY <1>1 DEF parses
  <2> QED BY <1>1, <1>3, <2>1
<1>5. step = "stored" => regions.erasure \in {<<64, 1051>>, <<89, 1076>>}
  BY <1>1 DEF LInv, stored_regions, erasure_region, shard_offset,
              SIZE_OF_SIGNATURE, ERASURE_SHARD_SIZE
<1>6. \A field \in DOMAIN regions :
         \/ field \in {"leaf", "chained", "proof", "position", "flags"}
         \/ step = "stored" /\ field = "erasure"
  BY <1>1, ParsedPlaces DEF LInv, stored_regions
<1> HIDE DEF end, first
<1>7. /\ within(regions.leaf, raw_len)
      /\ within(regions.chained, raw_len)
      /\ within(regions.proof, raw_len)
      /\ within(regions.position, raw_len)
      /\ within(regions.flags, raw_len)
  BY <1>1, <1>2, <1>4 DEF within
<1>8. step = "stored" => within(regions.erasure, raw_len)
  BY <1>1, <1>3, <1>4, <1>5 DEF within
<1>9. SlicesInBounds
  BY <1>6, <1>7, <1>8 DEF SlicesInBounds
<1>10. SignedFields
  <2>1. end + resign_bytes(decode(byte)) = expected_len(decode(byte).kind)
    BY <1>3 DEF end
  <2> QED BY <1>2, <2>1 DEF SignedFields
<1> QED BY <1>9, <1>10

(***************************************************************************)
(* Whatever bytes arrive, in whatever number, no slice parse_shred and the *)
(* assembler take is out of bounds, and the fields they act on are all     *)
(* among the bytes the leader signed.                                      *)
(***************************************************************************)
THEOREM LayoutIsSound == LayoutSpec => []LayoutSound
BY LInvLayoutSound, LayoutInitLInv, LayoutNextLInv, PTL DEF LayoutSpec

LEMMA LInvBuilderAgrees == LInv => BuilderAgrees
<1> SUFFICES ASSUME LInv, step = "stored" PROVE BuilderAgrees
  BY DEF BuilderAgrees
<1>1. encode(built_variant("Data")) = 150 /\ encode(built_variant("Code")) = 102
  BY DEF encode, built_variant, high_nibble
<1>2. regions = stored_regions(byte)
  BY DEF LInv
<1>3. /\ decode(150).kind = "Data" /\ ~decode(150).resigned /\ decode(150).proof_size = 6
      /\ decode(102).kind = "Code" /\ ~decode(102).resigned /\ decode(102).proof_size = 6
  <2>1. 150 % 16 = 6 /\ 102 % 16 = 6
    OBVIOUS
  <2>2. /\ 150 - (150 % 16) \notin {96, 112} /\ 150 - (150 % 16) \notin {112, 176}
        /\ 102 - (102 % 16) \in {96, 112} /\ 102 - (102 % 16) \notin {112, 176}
    BY <2>1
  <2>3. decode(150).kind = "Data" /\ decode(102).kind = "Code"
    BY <2>2 DEF decode
  <2>4. ~decode(150).resigned /\ ~decode(102).resigned
    BY <2>2, Zenon DEF decode
  <2>5. decode(150).proof_size = 6 /\ decode(102).proof_size = 6
    BY <2>1 DEF decode
  <2> QED BY <2>3, <2>4, <2>5
<1>4. stored_regions(150) = data_off
  BY <1>3 DEF stored_regions, parsed_regions, data_off, erasure_region,
              shard_offset, expected_len, proof_bytes, resign_bytes, SIZE_OF_SIGNATURE,
              SIZE_OF_MERKLE_ROOT, SIZE_OF_PROOF_ENTRY, DATA_SHRED_PAYLOAD_SIZE,
              ERASURE_SHARD_SIZE
<1>5. stored_regions(102) = code_off
  BY <1>3 DEF stored_regions, parsed_regions, code_off, erasure_region,
              shard_offset, expected_len, proof_bytes, resign_bytes, SIZE_OF_SIGNATURE,
              SIZE_OF_MERKLE_ROOT, SIZE_OF_PROOF_ENTRY, CODING_SHRED_PAYLOAD_SIZE,
              ERASURE_SHARD_SIZE
<1> QED BY <1>1, <1>2, <1>4, <1>5 DEF BuilderAgrees

(***************************************************************************)
(* A shred of build_fec_set, in a datagram of any length that holds it, is *)
(* cut by the listener at the offsets the builder filled.                  *)
(***************************************************************************)
THEOREM OneLayout == LayoutSpec => []BuilderAgrees
BY LInvBuilderAgrees, LayoutInitLInv, LayoutNextLInv, PTL DEF LayoutSpec

-----------------------------------------------------------------------------
(***************************************************************************)
(* The payload theorem, for every number of shreds, capacity and length.   *)
(* Before shred number `built' is filled the shreds carry min(built *      *)
(* CAPACITY_PER_SHRED, payload_len) bytes.                                 *)
(***************************************************************************)
PInv ==
    /\ payload_len \in Nat
    /\ built \in Nat \cup {-1}
    /\ carried \in Nat
    /\ slice \in Nat \X Nat
    /\ outcome \in {"building", "refused", "built"}
    /\ outcome = "refused" => built = -1 /\ too_long(payload_len)
    /\ outcome = "built" => built = DATA_SHREDS
    /\ built = -1 => carried = 0
    /\ built # -1 => ~too_long(payload_len)
    /\ built # -1 => carried = IF built * CAPACITY_PER_SHRED < payload_len
                              THEN built * CAPACITY_PER_SHRED ELSE payload_len
    /\ slice[1] <= slice[2] /\ slice[2] <= payload_len
    /\ built > 0 => size_field \in DATA_BUF .. DATA_BUF_END

\* Filling one shred moves the end of what is carried to the end of its slice.
LEMMA FillShredPInv == PInv /\ FillShred => PInv'
<1> SUFFICES ASSUME PInv, FillShred PROVE PInv'
  OBVIOUS
<1>1. PICK off \in Nat : off = built * CAPACITY_PER_SHRED
  <2>1. built \in Nat
    BY PayloadAssumption DEF FillShred
  <2> QED BY <2>1, PayloadAssumption
<1>2. built \in Nat /\ built' = built + 1 /\ built' # -1 /\ built # -1
  BY PayloadAssumption DEF FillShred
<1>3. built' * CAPACITY_PER_SHRED = off + CAPACITY_PER_SHRED
  BY <1>1, <1>2, PayloadAssumption
<1>4. /\ slice' = IF off < payload_len
                  THEN <<off, IF off + CAPACITY_PER_SHRED <= payload_len
                              THEN off + CAPACITY_PER_SHRED ELSE payload_len>>
                  ELSE <<0, 0>>
      /\ size_field' = DATA_BUF + slice'[2] - slice'[1]
      /\ carried' = IF slice'[1] = carried THEN slice'[2] ELSE carried
      /\ payload_len' = payload_len
      /\ outcome' = outcome /\ outcome = "building"
  BY <1>1 DEF FillShred, slice_of
<1>5. carried = IF off < payload_len THEN off ELSE payload_len
  BY <1>1, <1>2 DEF PInv
<1>6. /\ slice' \in Nat \X Nat
      /\ slice'[1] <= slice'[2] /\ slice'[2] <= payload_len
      /\ size_field' \in DATA_BUF .. DATA_BUF_END
      /\ carried' = IF off + CAPACITY_PER_SHRED < payload_len
                    THEN off + CAPACITY_PER_SHRED ELSE payload_len
  <2>1. payload_len \in Nat /\ CAPACITY_PER_SHRED \in Nat
    BY PayloadAssumption DEF PInv
  <2>2. CASE off < payload_len /\ off + CAPACITY_PER_SHRED <= payload_len
    BY <1>4, <1>5, <2>1, <2>2 DEF DATA_BUF, DATA_BUF_END
  <2>3. CASE off < payload_len /\ ~(off + CAPACITY_PER_SHRED <= payload_len)
    BY <1>4, <1>5, <2>1, <2>3 DEF DATA_BUF, DATA_BUF_END
  <2>4. CASE ~(off < payload_len)
    BY <1>4, <1>5, <2>1, <2>4 DEF DATA_BUF, DATA_BUF_END
  <2> QED BY <2>2, <2>3, <2>4
<1>7. carried' \in Nat
  BY <1>6, PayloadAssumption DEF PInv
<1>8. ~too_long(payload_len')
  BY <1>2, <1>4 DEF PInv
<1> QED BY <1>2, <1>3, <1>4, <1>6, <1>7, <1>8 DEF PInv

LEMMA PayloadInitPInv == PayloadInit => PInv
BY PayloadAssumption DEF PayloadInit, PInv

LEMMA PayloadNextPInv == PInv /\ [PayloadNext]_payload_vars => PInv'
<1> SUFFICES ASSUME PInv, [PayloadNext]_payload_vars PROVE PInv'
  OBVIOUS
<1>1. CASE CheckLength
  <2>1. CASE too_long(payload_len)
    BY <1>1, <2>1 DEF CheckLength, PInv, too_long
  <2>2. CASE ~too_long(payload_len)
    <3>1. built' = 0 /\ UNCHANGED <<payload_len, slice, size_field, carried, outcome>>
      BY <1>1, <2>2 DEF CheckLength
    <3>2. carried = 0
      BY <1>1 DEF CheckLength, PInv
    <3>3. built' * CAPACITY_PER_SHRED = 0
      BY <3>1, PayloadAssumption
    <3> QED BY <1>1, <2>2, <3>1, <3>2, <3>3 DEF CheckLength, PInv, too_long
  <2> QED BY <2>1, <2>2
<1>2. CASE FillShred
  BY <1>2, FillShredPInv
<1>3. CASE FinishSet
  BY <1>3, PayloadAssumption DEF FinishSet, PInv, too_long
<1>4. CASE UNCHANGED payload_vars
  BY <1>4 DEF payload_vars, PInv, too_long
<1> QED BY <1>1, <1>2, <1>3, <1>4 DEF PayloadNext

(***************************************************************************)
(* Every payload that fits is carried by the shreds to its last byte, no   *)
(* other is accepted, and no slice leaves the payload or the buffer.       *)
(***************************************************************************)
THEOREM Carried == PayloadSpec => []PayloadCarried
<1>1. PInv => PayloadCarried
  <2> SUFFICES ASSUME PInv PROVE PayloadCarried
    OBVIOUS
  <2>1. CAPACITY_PER_SHRED * DATA_SHREDS = DATA_SHREDS * CAPACITY_PER_SHRED
    BY PayloadAssumption
  <2>2. PICK all \in Nat : all = DATA_SHREDS * CAPACITY_PER_SHRED
    BY PayloadAssumption
  <2>3. outcome = "built" => carried = payload_len
    <3>1. outcome = "built" =>
             /\ ~(payload_len > all)
             /\ carried = IF all < payload_len THEN all ELSE payload_len
      BY <2>1, <2>2, PayloadAssumption DEF PInv, too_long
    <3> QED BY <2>2, <3>1 DEF PInv
  <2>4. outcome = "refused" => payload_len > DATA_SHREDS * CAPACITY_PER_SHRED
    BY <2>1 DEF PInv, too_long
  <2> QED BY <2>3, <2>4 DEF PInv, PayloadCarried
<1> QED BY <1>1, PayloadInitPInv, PayloadNextPInv, PTL DEF PayloadSpec

-----------------------------------------------------------------------------
(***************************************************************************)
(* The runs theorem, for answers of every length.  The lines printed tell  *)
(* the slots below the run that is being extended, and that run is the     *)
(* rest of what was looked at.                                             *)
(***************************************************************************)
Line == Int \X Int \X Leaders

\* Neighbouring lines meet and name different leaders.
adjacent(lines) ==
    \A n \in 1 .. Len(lines) - 1 :
        /\ lines[n + 1][1] = lines[n][2] + 1
        /\ lines[n + 1][3] # lines[n][3]

\* The next line starts where the last one ended, with another leader.
continues(lines, s, leader) ==
    Len(lines) > 0 => /\ lines[Len(lines)][2] + 1 = s
                      /\ lines[Len(lines)][3] # leader

RInv ==
    /\ start \in Nat
    /\ arr \in Seq(Leaders)
    /\ i \in 0 .. Len(arr)
    /\ ended \in BOOLEAN
    /\ printed \in Seq(Line)
    /\ adjacent(printed)
    /\ i = 0 => prev = NoLeaderYet /\ run_start = start
    /\ i > 0 => /\ prev \in Leaders
                /\ run_start \in start .. start + i - 1
                /\ \A s \in run_start .. start + i - 1 : arr[s - start + 1] = prev
    /\ ~ended => /\ tells(printed, run_start)
                 /\ continues(printed, run_start, prev)
                 /\ i = 0 => printed = <<>>
    /\ ended => i = Len(arr) /\ tells(printed, start + Len(arr))

\* Printing the current run extends what the lines tell to the slots looked at.
LEMMA RunPrinted ==
    ASSUME RInv, ~ended, i > 0
    PROVE  LET lines == with_run(printed, start + i - 1)
           IN  /\ lines \in Seq(Line)
               /\ adjacent(lines)
               /\ tells(lines, start + i)
               /\ \A leader : leader # prev => continues(lines, start + i, leader)
<1> DEFINE last == start + i - 1
           line == <<run_start, last, prev>>
           ext == Append(printed, line)
           m == Len(printed)
<1>1. /\ start \in Nat /\ i \in Nat /\ last \in Nat /\ start + i = last + 1
      /\ prev \in Leaders /\ prev # NoLeaderYet
      /\ run_start \in Int /\ start <= run_start /\ run_start <= last
      /\ \A s \in run_start .. last : arr[s - start + 1] = prev
  BY LeadersAssumption DEF RInv
<1>2. with_run(printed, last) = ext
  BY <1>1 DEF with_run
<1>3. line \in Line /\ printed \in Seq(Line) /\ m \in Nat
  BY <1>1 DEF Line, RInv
<1>4. /\ ext \in Seq(Line)
      /\ Len(ext) = m + 1
      /\ ext[m + 1] = line
      /\ \A n \in 1 .. m : ext[n] = printed[n] /\ printed[n] \in Line
  BY <1>3
<1>5. line[1] = run_start /\ line[2] = last /\ line[3] = prev
  OBVIOUS
<1> HIDE DEF last, line, ext, m
<1>6. adjacent(ext)
  <2> SUFFICES ASSUME NEW n \in 1 .. m
               PROVE  /\ ext[n + 1][1] = ext[n][2] + 1
                      /\ ext[n + 1][3] # ext[n][3]
    BY <1>3, <1>4 DEF adjacent
  <2>1. CASE n = m
    <3>1. continues(printed, run_start, prev) /\ m > 0
      BY <1>3, <2>1 DEF RInv
    <3> QED BY <1>3, <1>4, <1>5, <2>1, <3>1 DEF continues, m
  <2>2. CASE n # m
    <3>1. n \in 1 .. m - 1 /\ n + 1 \in 1 .. m
      BY <1>3, <2>2
    <3>2. adjacent(printed)
      BY DEF RInv
    <3> QED BY <1>4, <3>1, <3>2 DEF adjacent, m
  <2> QED BY <2>1, <2>2
<1>7. tells(ext, start + i)
  <2>1. tells(printed, run_start)
    BY DEF RInv
  <2>2. ASSUME NEW n \in 1 .. m + 1, NEW s \in ext[n][1] .. ext[n][2]
        PROVE  start <= s /\ s < start + i /\ ext[n][3] = arr[s - start + 1]
    <3>1. CASE n = m + 1
      <4>1. ext[n] = line
        BY <1>4, <3>1
      <4>2. s \in run_start .. last /\ ext[n][3] = prev
        BY <1>5, <4>1
      <4> QED BY <1>1, <4>2
    <3>2. CASE n # m + 1
      <4>1. n \in 1 .. m /\ n \in 1 .. Len(printed)
        BY <1>3, <3>2 DEF m
      <4>2. ext[n] = printed[n]
        BY <1>4, <4>1
      <4>3. start <= s /\ s < run_start /\ ext[n][3] = arr[s - start + 1]
        BY <2>1, <4>1, <4>2 DEF tells
      <4>4. s \in Int
        BY <1>4, <4>1, <4>2 DEF Line
      <4> QED BY <1>1, <4>3, <4>4
    <3> QED BY <3>1, <3>2
  <2>3. ASSUME NEW s \in start .. start + i - 1
        PROVE  \E n \in 1 .. m + 1 : ext[n][1] <= s /\ s <= ext[n][2]
    <3>1. CASE s < run_start
      <4>1. s \in start .. run_start - 1
        BY <1>1, <3>1
      <4>2. PICK n \in 1 .. Len(printed) : printed[n][1] <= s /\ s <= printed[n][2]
        BY <2>1, <4>1 DEF tells
      <4>3. n \in 1 .. m + 1 /\ ext[n] = printed[n]
        BY <1>3, <1>4, <4>2 DEF m
      <4> QED BY <4>2, <4>3
    <3>2. CASE ~(s < run_start)
      <4>1. run_start <= s /\ s <= last
        BY <1>1, <3>2
      <4>2. m + 1 \in 1 .. m + 1
        BY <1>3
      <4> QED BY <1>4, <1>5, <4>1, <4>2
    <3> QED BY <3>1, <3>2
  <2>4. \A n \in 1 .. Len(ext) : \A s \in ext[n][1] .. ext[n][2] :
           start <= s /\ s < start + i /\ ext[n][3] = arr[s - start + 1]
    BY <1>4, <2>2
  <2>5. \A s \in start .. (start + i) - 1 :
           \E n \in 1 .. Len(ext) : ext[n][1] <= s /\ s <= ext[n][2]
    <3>1. (start + i) - 1 = start + i - 1
      BY <1>1
    <3> QED BY <1>4, <2>3, <3>1
  <2> QED BY <2>4, <2>5 DEF tells
<1>8. \A leader : leader # prev => continues(ext, start + i, leader)
  BY <1>1, <1>3, <1>4, <1>5 DEF continues
<1> QED BY <1>2, <1>4, <1>6, <1>7, <1>8 DEF last

LEMMA RunsInitRInv == RunsInit => RInv
<1> SUFFICES ASSUME RunsInit PROVE RInv
  OBVIOUS
<1>1. start \in Nat /\ arr \in Seq(Leaders) /\ Len(arr) \in Nat /\ printed = <<>>
  BY AnswersAssumption DEF RunsInit
<1>2. tells(printed, run_start) /\ adjacent(printed) /\ continues(printed, run_start, prev)
  BY <1>1 DEF RunsInit, tells, adjacent, continues
<1>3. i = 0 /\ ended = FALSE /\ prev = NoLeaderYet /\ run_start = start
  BY DEF RunsInit
<1>4. <<>> \in Seq(Line) /\ 0 \in 0 .. Len(arr)
  BY <1>1
<1>5. ~(0 > 0)
  OBVIOUS
<1> HIDE DEF RunsInit
<1> QED BY <1>1, <1>2, <1>3, <1>4, <1>5, Zenon DEF RInv

LEMMA NextLeaderRInv == RInv /\ NextLeader => RInv'
<1> SUFFICES ASSUME RInv, NextLeader PROVE RInv'
  OBVIOUS
<1>2. ~ended
  BY DEF RInv, NextLeader
<1>1. /\ start \in Nat /\ start' = start
      /\ arr \in Seq(Leaders) /\ arr' = arr
      /\ ended' = ended
      /\ i \in Nat /\ i' = i + 1 /\ i' \in 1 .. Len(arr)
      /\ arr[i + 1] \in Leaders
  BY DEF RInv, NextLeader
<1>3. CASE arr[i + 1] = prev
  <2>1. printed' = printed /\ prev' = prev /\ run_start' = run_start /\ i > 0
    BY <1>1, <1>3, LeadersAssumption DEF NextLeader, RInv
  <2>2. /\ prev \in Leaders
        /\ run_start \in start .. start + i - 1
        /\ \A s \in run_start .. start + i - 1 : arr[s - start + 1] = prev
    BY <2>1 DEF RInv
  <2>3. ASSUME NEW s \in run_start .. start + i
        PROVE  arr[s - start + 1] = prev
    <3>1. CASE s = start + i
      <4>1. s - start + 1 = i + 1
        BY <1>1, <3>1
      <4> QED BY <1>3, <4>1
    <3>2. CASE s # start + i
      <4>1. s \in run_start .. start + i - 1
        BY <1>1, <2>2, <3>2
      <4> QED BY <2>2, <4>1
    <3> QED BY <3>1, <3>2
  <2>4. run_start' \in start' .. start' + i' - 1 /\ start' + i' - 1 = start + i
    BY <1>1, <2>1, <2>2
  <2>5. /\ printed \in Seq(Line) /\ adjacent(printed)
        /\ tells(printed, run_start)
        /\ continues(printed, run_start, prev)
    BY <1>2 DEF RInv
  <2> QED BY <1>1, <1>2, <2>1, <2>2, <2>3, <2>4, <2>5 DEF RInv, tells, adjacent, continues
<1>4. CASE arr[i + 1] # prev
  <2>1. /\ printed' = with_run(printed, start + i - 1)
        /\ prev' = arr[i + 1] /\ run_start' = start + i
    BY <1>4 DEF NextLeader
  <2>2. /\ printed' \in Seq(Line)
        /\ adjacent(printed')
        /\ tells(printed', start + i)
        /\ continues(printed', start + i, prev')
    <3>1. CASE i > 0
      BY <1>4, <2>1, <3>1, <1>2, RunPrinted
    <3>2. CASE i = 0
      <4>1. prev = NoLeaderYet /\ printed = <<>> /\ run_start = start
        BY <1>2, <3>2 DEF RInv
      <4>2. printed' = printed /\ start + i = run_start
        BY <1>1, <2>1, <3>2, <4>1 DEF with_run
      <4> QED BY <1>2, <4>1, <4>2 DEF RInv, continues
    <3> QED BY <1>1, <3>1, <3>2
  <2>3. ASSUME NEW s \in start + i .. start + i
        PROVE  arr[s - start + 1] = prev'
    <3>1. s - start + 1 = i + 1
      BY <1>1
    <3> QED BY <2>1, <3>1
  <2>4. run_start' \in start' .. start' + i' - 1 /\ start' + i' - 1 = start + i
    BY <1>1, <2>1
  <2>5. /\ adjacent(printed)' /\ tells(printed, run_start)'
        /\ continues(printed, run_start, prev)'
    BY <1>1, <2>1, <2>2 DEF tells, adjacent, continues
  <2>6. \A s \in run_start' .. start' + i' - 1 : arr'[s - start' + 1] = prev'
    BY <1>1, <2>1, <2>3, <2>4
  <2> QED BY <1>1, <1>2, <2>1, <2>2, <2>4, <2>5, <2>6 DEF RInv
<1> QED BY <1>3, <1>4

LEMMA LastRunRInv == RInv /\ LastRun => RInv'
<1> SUFFICES ASSUME RInv, LastRun PROVE RInv'
  OBVIOUS
<1>1. /\ start \in Nat /\ i = Len(arr) /\ i \in Nat /\ ~ended /\ ended' = TRUE
      /\ UNCHANGED <<start, arr, i, prev, run_start>>
      /\ printed' = with_run(printed, start + i - 1)
  BY DEF RInv, LastRun
<1>2. printed' \in Seq(Line) /\ adjacent(printed') /\ tells(printed', start + i)
  <2>1. CASE i > 0
    BY <1>1, <2>1, RunPrinted
  <2>2. CASE i = 0
    <3>1. prev = NoLeaderYet /\ run_start = start
      BY <2>2 DEF RInv
    <3>2. printed' = printed /\ start + i = run_start
      BY <1>1, <2>2, <3>1 DEF with_run
    <3> QED BY <1>1, <3>2 DEF RInv
  <2> QED BY <1>1, <2>1, <2>2
<1> QED BY <1>1, <1>2 DEF RInv, tells, adjacent

LEMMA RunsNextRInv == RInv /\ [RunsNext]_runs_vars => RInv'
<1> SUFFICES ASSUME RInv, [RunsNext]_runs_vars PROVE RInv'
  OBVIOUS
<1>1. CASE NextLeader
  BY <1>1, NextLeaderRInv
<1>2. CASE LastRun
  BY <1>2, LastRunRInv
<1>3. CASE UNCHANGED runs_vars
  BY <1>3 DEF runs_vars, RInv, tells, adjacent, continues
<1> QED BY <1>1, <1>2, <1>3 DEF RunsNext

(***************************************************************************)
(* The runs the leaders command prints are the answer it got, for answers  *)
(* of every length.                                                        *)
(***************************************************************************)
THEOREM Runs == RunsSpec => []RunsExact
<1>1. RInv => RunsExact
  BY DEF RInv, RunsExact, adjacent
<1> QED BY <1>1, RunsInitRInv, RunsNextRInv, PTL DEF RunsSpec

-----------------------------------------------------------------------------
(***************************************************************************)
(* Trees of every size.  The layers of a tree, the path from a leaf and    *)
(* the powers of two are recursive functions: each is first shown to       *)
(* satisfy its equations, by joining ladders of finite approximations.     *)
(* Induction is on sets of naturals: a set with 0 and the successor of     *)
(* each member is all of Nat, for otherwise there were a least gap.        *)
(***************************************************************************)

\* A set of naturals has a least element.
LEMMA Least ==
    ASSUME NEW T, T \subseteq Nat, T # {}
    PROVE  \E x \in T : \A y \in T : x <= y
<1> DEFINE R == OpToRel(<, Nat)
<1>1. IsWellFoundedOn(R, Nat)
  BY NatLessThanWellFounded
<1>2. \A x, y \in Nat : y < x => <<y, x>> \in R
  BY DEF OpToRel
<1> HIDE DEF R
<1>3. PICK x \in T : \A y \in T : ~(<<y, x>> \in R)
  BY <1>1, WFMin
<1>4. \A y \in T : ~(y < x)
  BY <1>2, <1>3
<1>5. \A y \in T : x <= y
  BY <1>4
<1> QED BY <1>5

\* What holds at 0 and is handed on from each number to the next holds throughout.
LEMMA Upwards ==
    ASSUME NEW G, G \subseteq Nat, 0 \in G, \A n \in Nat : n \in G => n + 1 \in G
    PROVE  \A n \in Nat : n \in G
<1> SUFFICES ASSUME NEW k \in Nat, k \notin G PROVE FALSE
  OBVIOUS
<1> DEFINE Bad == {n \in Nat : n \notin G}
<1>1. Bad \subseteq Nat /\ Bad # {}
  OBVIOUS
<1>2. PICK x \in Bad : \A y \in Bad : x <= y
  <2> HIDE DEF Bad
  <2> QED BY <1>1, Least
<1>3. x \in Nat /\ x # 0
  OBVIOUS
<1>4. x - 1 \in Nat /\ ~(x <= x - 1) /\ (x - 1) + 1 = x
  BY <1>3
<1>5. x - 1 \in G
  BY <1>2, <1>4
<1> QED BY <1>4, <1>5

-----------------------------------------------------------------------------
\* g is the ladder over leaves up to layer n.
UpTo(g, leaves, n) ==
    /\ g[0] = leaves
    /\ \A m \in 1 .. n : g[m] = next_layer(g[m - 1])

\* There is a ladder of every height.
LEMMA LadderExists ==
    ASSUME NEW leaves
    PROVE  \A n \in Nat : \E g : UpTo(g, leaves, n)
<1> DEFINE G == {n \in Nat : \E g : UpTo(g, leaves, n)}
<1>1. 0 \in G
  <2>1. UpTo([m \in {0} |-> leaves], leaves, 0)
    BY DEF UpTo
  <2> QED BY <2>1
<1>2. ASSUME NEW n \in Nat, n \in G PROVE n + 1 \in G
  <2>1. PICK g : UpTo(g, leaves, n)
    BY <1>2
  <2> DEFINE h == [m \in 0 .. n + 1 |-> IF m = n + 1 THEN next_layer(g[n]) ELSE g[m]]
  <2>2. h[0] = leaves
    BY <2>1 DEF UpTo
  <2>3. ASSUME NEW m \in 1 .. n + 1 PROVE h[m] = next_layer(h[m - 1])
    <3>1. CASE m = n + 1
      <4>1. h[m] = next_layer(g[n]) /\ m - 1 = n /\ h[n] = g[n]
        BY <3>1
      <4> QED BY <4>1
    <3>2. CASE m # n + 1
      <4>1. m \in 1 .. n /\ m - 1 \in 0 .. n
        BY <3>2
      <4>2. h[m] = g[m] /\ h[m - 1] = g[m - 1]
        BY <4>1
      <4> HIDE DEF h
      <4> QED BY <2>1, <4>1, <4>2 DEF UpTo
    <3> QED BY <3>1, <3>2
  <2> HIDE DEF h
  <2>4. UpTo(h, leaves, n + 1)
    BY <2>2, <2>3 DEF UpTo
  <2> QED BY <2>4
<1>3. G \subseteq Nat
  OBVIOUS
<1>4. \A n \in Nat : n \in G
  <2> HIDE DEF G
  <2> QED BY <1>1, <1>2, <1>3, Upwards
<1> QED BY <1>4

\* Ladders over the same leaves agree.
LEMMA LadderUnique ==
    ASSUME NEW leaves, NEW k \in Nat, NEW l \in Nat, NEW g, NEW h,
           UpTo(g, leaves, k), UpTo(h, leaves, l)
    PROVE  \A n \in Nat : n <= k /\ n <= l => g[n] = h[n]
<1> DEFINE G == {n \in Nat : n <= k /\ n <= l => g[n] = h[n]}
<1>1. 0 \in G
  BY DEF UpTo
<1>2. ASSUME NEW n \in Nat, n \in G PROVE n + 1 \in G
  <2>1. ASSUME n + 1 <= k, n + 1 <= l PROVE g[n + 1] = h[n + 1]
    <3>1. n + 1 \in 1 .. k /\ n + 1 \in 1 .. l /\ (n + 1) - 1 = n
      BY <2>1
    <3>2. g[n + 1] = next_layer(g[n]) /\ h[n + 1] = next_layer(h[n])
      BY <3>1 DEF UpTo
    <3>3. g[n] = h[n]
      BY <1>2, <2>1
    <3> QED BY <3>2, <3>3
  <2> QED BY <2>1
<1>3. G \subseteq Nat
  OBVIOUS
<1>4. \A n \in Nat : n \in G
  <2> HIDE DEF G
  <2> QED BY <1>1, <1>2, <1>3, Upwards
<1> QED BY <1>4

\* The recursion of layers is a definition.
LEMMA Layers ==
    ASSUME NEW leaves
    PROVE  /\ layers(leaves)[0] = leaves
           /\ \A n \in Nat : layers(leaves)[n + 1] = next_layer(layers(leaves)[n])
<1> DEFINE body(g) == [n \in Nat |-> IF n = 0 THEN leaves ELSE next_layer(g[n - 1])]
           ladder(n) == CHOOSE g : UpTo(g, leaves, n)
           w == [n \in Nat |-> ladder(n)[n]]
           it == CHOOSE g : g = body(g)
<1>1. layers(leaves) = it
  BY DEF layers
<1>2. \A n \in Nat : UpTo(ladder(n), leaves, n)
  BY LadderExists
<1> HIDE DEF ladder
<1>3. w[0] = leaves
  BY <1>2 DEF UpTo
<1>4. ASSUME NEW n \in Nat, n # 0 PROVE w[n] = next_layer(w[n - 1])
  <2>1. n - 1 \in Nat /\ n \in 1 .. n /\ n - 1 <= n /\ n - 1 <= n - 1
    BY <1>4
  <2>2. ladder(n)[n] = next_layer(ladder(n)[n - 1])
    BY <1>2, <2>1 DEF UpTo
  <2>3. ladder(n)[n - 1] = ladder(n - 1)[n - 1]
    BY <1>2, <2>1, LadderUnique
  <2> QED BY <2>1, <2>2, <2>3
<1>5. w = body(w)
  <2>1. w = [n \in Nat |-> w[n]]
    OBVIOUS
  <2> HIDE DEF w
  <2> QED BY <1>3, <1>4, <2>1
<1>6. it = body(it)
  <2> HIDE DEF w, body
  <2> QED BY <1>5
<1> HIDE DEF it
<1>7. it[0] = leaves
  BY <1>6
<1>8. ASSUME NEW n \in Nat PROVE it[n + 1] = next_layer(it[n])
  <2>1. n + 1 \in Nat /\ n + 1 # 0 /\ (n + 1) - 1 = n
    OBVIOUS
  <2> QED BY <1>6, <2>1
<1> QED BY <1>1, <1>7, <1>8

-----------------------------------------------------------------------------
\* A sequence of len elements, as the layers are.
Row(layer, len) == layer = [m \in 1 .. len |-> layer[m]]

\* A next layer: its length and its nodes.
LEMMA NextLayer ==
    ASSUME NEW layer, NEW len \in Nat, Row(layer, len)
    PROVE  /\ Len(layer) = len
           /\ Row(next_layer(layer), (len + 1) \div 2)
           /\ \A m \in 1 .. (len + 1) \div 2 :
                 next_layer(layer)[m]
                    = Node(Trunc(layer[2*m - 1]),
                           Trunc(IF 2*m <= len THEN layer[2*m] ELSE layer[2*m - 1]))
<1>1. Len(layer) = len
  BY DEF Row
<1> QED BY <1>1 DEF next_layer, Row

-----------------------------------------------------------------------------
\* Halving a number.
LEMMA Halved ==
    ASSUME NEW k \in Nat
    PROVE  \E q \in Nat : /\ k = 2*q \/ k = 2*q + 1
                          /\ k \div 2 = q
                          /\ k % 2 = 0 <=> k = 2*q
<1>1. k \div 2 \in Nat /\ (k = 2 * (k \div 2) \/ k = 2 * (k \div 2) + 1)
  OBVIOUS
<1>2. k % 2 = 0 <=> k = 2 * (k \div 2)
  OBVIOUS
<1> QED BY <1>1, <1>2

\* Halving a number upwards.
LEMMA HalfUp ==
    ASSUME NEW k \in Nat \ {0}
    PROVE  (k + 1) \div 2 \in Nat \ {0} /\ (k > 1 => (k + 1) \div 2 <= k - 1)
OBVIOUS

width(leaves, n) == Len(layers(leaves)[n])

\* Every layer over a leaf or more is half as long as the one below, rounded up.
LEMMA Widths ==
    ASSUME NEW leaves, NEW len \in Nat \ {0}, Row(leaves, len)
    PROVE  /\ width(leaves, 0) = len
           /\ \A n \in Nat : /\ width(leaves, n) \in Nat \ {0}
                             /\ Row(layers(leaves)[n], width(leaves, n))
                             /\ width(leaves, n + 1) = (width(leaves, n) + 1) \div 2
<1> DEFINE L == layers(leaves)
           G == {n \in Nat : Len(L[n]) \in Nat \ {0} /\ Row(L[n], Len(L[n]))}
<1>1. L[0] = leaves /\ \A n \in Nat : L[n + 1] = next_layer(L[n])
  BY Layers
<1>2. Len(leaves) = len
  BY DEF Row
<1> HIDE DEF L
<1>3. \A n \in Nat : Len(L[n]) \in Nat \ {0} /\ Row(L[n], Len(L[n])) =>
          /\ Len(L[n + 1]) = (Len(L[n]) + 1) \div 2
          /\ Row(L[n + 1], Len(L[n + 1]))
  <2> SUFFICES ASSUME NEW n \in Nat, Len(L[n]) \in Nat \ {0}, Row(L[n], Len(L[n]))
               PROVE  /\ Len(L[n + 1]) = (Len(L[n]) + 1) \div 2
                      /\ Row(L[n + 1], Len(L[n + 1]))
    OBVIOUS
  <2>1. Row(L[n + 1], (Len(L[n]) + 1) \div 2)
    BY <1>1, NextLayer
  <2>2. (Len(L[n]) + 1) \div 2 \in Nat
    BY HalfUp
  <2>3. Len(L[n + 1]) = (Len(L[n]) + 1) \div 2
    BY <2>1, <2>2 DEF Row
  <2> QED BY <2>1, <2>3
<1>4. 0 \in G
  BY <1>1, <1>2
<1>5. ASSUME NEW n \in Nat, n \in G PROVE n + 1 \in G
  <2>1. Len(L[n]) \in Nat \ {0} /\ Row(L[n], Len(L[n]))
    BY <1>5
  <2>2. (Len(L[n]) + 1) \div 2 \in Nat \ {0}
    BY <2>1, HalfUp
  <2>3. Len(L[n + 1]) \in Nat \ {0} /\ Row(L[n + 1], Len(L[n + 1]))
    BY <1>3, <2>1, <2>2
  <2> QED BY <2>3
<1>6. G \subseteq Nat
  OBVIOUS
<1>7. \A n \in Nat : n \in G
  <2> HIDE DEF G
  <2> QED BY <1>4, <1>5, <1>6, Upwards
<1> QED BY <1>1, <1>2, <1>3, <1>7 DEF width, L

\* The height is that of the first layer with one node.
LEMMA Height ==
    ASSUME NEW leaves, NEW len \in Nat \ {0}, Row(leaves, len)
    PROVE  /\ height(leaves) \in Nat
           /\ width(leaves, height(leaves)) = 1
           /\ \A n \in Nat : n < height(leaves) => width(leaves, n) > 1
<1> DEFINE W(n) == width(leaves, n)
           G == {n \in Nat : W(n) <= 1 \/ W(n) + n <= len}
           Low == {n \in Nat : W(n) <= 1}
<1>1. /\ W(0) = len
      /\ \A n \in Nat : W(n) \in Nat \ {0} /\ W(n + 1) = (W(n) + 1) \div 2
  BY Widths
<1> HIDE DEF W
<1>2. 0 \in G
  BY <1>1
<1>3. ASSUME NEW n \in Nat, n \in G PROVE n + 1 \in G
  <2>1. W(n) \in Nat \ {0} /\ W(n + 1) = (W(n) + 1) \div 2
    BY <1>1
  <2>2. CASE W(n) <= 1
    <3>1. W(n) = 1
      BY <2>1, <2>2
    <3>2. W(n + 1) = 1
      BY <2>1, <3>1
    <3> QED BY <3>2
  <2>3. CASE W(n) > 1
    <3>1. W(n + 1) <= W(n) - 1
      BY <2>1, <2>3, HalfUp
    <3>2. W(n) + n <= len
      BY <1>3, <2>1, <2>3
    <3> QED BY <2>1, <3>1, <3>2
  <2> QED BY <2>1, <2>2, <2>3
<1>4. G \subseteq Nat
  OBVIOUS
<1>5. \A n \in Nat : n \in G
  <2> HIDE DEF G
  <2> QED BY <1>2, <1>3, <1>4, Upwards
<1>6. len \in Low
  <2>1. len \in G /\ W(len) \in Nat \ {0}
    BY <1>1, <1>5
  <2> QED BY <2>1
<1>7. PICK h \in Low : \A g \in Low : h <= g
  <2>1. Low \subseteq Nat /\ Low # {}
    BY <1>6
  <2> HIDE DEF Low
  <2> QED BY <2>1, Least
<1>8. h \in 0 .. len /\ W(h) <= 1 /\ \A g \in 0 .. h - 1 : W(g) > 1
  <2>1. h \in Nat /\ W(h) <= 1 /\ h <= len
    BY <1>6, <1>7
  <2>2. ASSUME NEW g \in 0 .. h - 1 PROVE W(g) > 1
    <3>1. g \in Nat /\ ~(h <= g) /\ W(g) \in Nat
      BY <1>1, <2>1
    <3>2. g \notin Low
      <4> HIDE DEF Low
      <4> QED BY <1>7, <3>1
    <3> QED BY <3>1, <3>2
  <2> QED BY <2>1, <2>2
<1>9. Len(leaves) = len
  BY DEF Row
<1> DEFINE H == height(leaves)
<1>10. H \in 0 .. len /\ W(H) <= 1 /\ \A g \in 0 .. H - 1 : W(g) > 1
  <2>1. H = CHOOSE k \in 0 .. len : W(k) <= 1 /\ \A g \in 0 .. k - 1 : W(g) > 1
    BY <1>9 DEF height, W, width
  <2> QED BY <1>8, <2>1
<1> HIDE DEF H
<1>11. H \in Nat /\ W(H) = 1
  <2>1. H \in Nat
    BY <1>10
  <2>2. W(H) \in Nat \ {0} /\ W(H) <= 1
    BY <1>1, <1>10, <2>1
  <2> QED BY <2>1, <2>2
<1>12. \A n \in Nat : n < H => W(n) > 1
  BY <1>10, <1>11
<1> QED BY <1>11, <1>12 DEF H, W

\* The levels of a tree and its root.
LEMMA Tree ==
    ASSUME NEW leaves, NEW len \in Nat \ {0}, Row(leaves, len)
    PROVE  LET tree == build_tree(leaves)
           IN  /\ Len(tree.levels) = height(leaves) + 1
               /\ \A n \in 0 .. height(leaves) : tree.levels[n + 1] = layers(leaves)[n]
               /\ tree.root = layers(leaves)[height(leaves)][1]
               /\ aggregate_root(leaves) = layers(leaves)[height(leaves)][1]
<1> DEFINE H == height(leaves)
           B == build_levels(leaves)
           L == layers(leaves)
<1>1. H \in Nat
  BY Height
<1>2. B = [n \in 1 .. H + 1 |-> L[n - 1]]
  BY DEF build_levels
<1> HIDE DEF H, B, L
<1>3. Len(B) = H + 1
  BY <1>1, <1>2
<1>4. \A n \in 0 .. H : B[n + 1] = L[n]
  <2> SUFFICES ASSUME NEW n \in 0 .. H PROVE B[n + 1] = L[n]
    OBVIOUS
  <2>1. n + 1 \in 1 .. H + 1 /\ (n + 1) - 1 = n
    BY <1>1
  <2> QED BY <1>2, <2>1
<1>5. Last(B) = L[H]
  <2>1. H \in 0 .. H
    BY <1>1
  <2> QED BY <1>3, <1>4, <2>1 DEF Last
<1>6. leaves # <<>>
  BY DEF Row
<1> QED BY <1>3, <1>4, <1>5, <1>6 DEF build_tree, aggregate_root, H, B, L

-----------------------------------------------------------------------------
\* g follows rule from v up to n, in the set V.
Follows(g, V, v, rule, n) ==
    /\ g[0] = v
    /\ \A m \in 0 .. n : g[m] \in V
    /\ \A m \in 1 .. n : g[m] = rule[m][g[m - 1]]

Unrolls(w, v, rule) == w = [n \in Nat |-> IF n = 0 THEN v ELSE rule[n][w[n - 1]]]

\* A recursion on the naturals whose steps are functions defines a function.
LEMMA Recursion ==
    ASSUME NEW V, NEW v \in V, NEW rule \in [Nat -> [V -> V]]
    PROVE  \E w \in [Nat -> V] : Unrolls(w, v, rule)
<1> DEFINE G == {n \in Nat : \E g : Follows(g, V, v, rule, n)}
<1>1. 0 \in G
  <2> DEFINE g == [m \in {0} |-> v]
  <2>1. Follows(g, V, v, rule, 0)
    BY DEF Follows
  <2> QED BY <2>1
<1>2. ASSUME NEW n \in Nat, n \in G PROVE n + 1 \in G
  <2>1. PICK g : Follows(g, V, v, rule, n)
    BY <1>2
  <2>2. g[n] \in V /\ rule[n + 1][g[n]] \in V
    BY <2>1 DEF Follows
  <2> DEFINE h == [m \in 0 .. n + 1 |-> IF m = n + 1 THEN rule[n + 1][g[n]] ELSE g[m]]
  <2>3. h[0] = v
    BY <2>1 DEF Follows
  <2>4. ASSUME NEW m \in 0 .. n + 1 PROVE h[m] \in V
    BY <2>1, <2>2 DEF Follows
  <2>5. ASSUME NEW m \in 1 .. n + 1 PROVE h[m] = rule[m][h[m - 1]]
    <3>1. CASE m = n + 1
      <4>1. h[m] = rule[n + 1][g[n]] /\ m - 1 = n /\ h[n] = g[n]
        BY <3>1
      <4> HIDE DEF h
      <4> QED BY <3>1, <4>1
    <3>2. CASE m # n + 1
      <4>1. m \in 1 .. n /\ m - 1 \in 0 .. n
        BY <3>2
      <4>2. h[m] = g[m] /\ h[m - 1] = g[m - 1]
        BY <4>1
      <4> HIDE DEF h
      <4> QED BY <2>1, <4>1, <4>2 DEF Follows
    <3> QED BY <3>1, <3>2
  <2> HIDE DEF h
  <2>6. Follows(h, V, v, rule, n + 1)
    BY <2>3, <2>4, <2>5 DEF Follows
  <2> QED BY <2>6
<1>3. G \subseteq Nat
  OBVIOUS
<1>4. \A n \in Nat : n \in G
  <2> HIDE DEF G
  <2> QED BY <1>1, <1>2, <1>3, Upwards
<1> DEFINE f(n) == CHOOSE g : Follows(g, V, v, rule, n)
<1>5. \A n \in Nat : Follows(f(n), V, v, rule, n)
  BY <1>4
<1> HIDE DEF f
<1>6. ASSUME NEW k \in Nat PROVE f(k + 1)[k] = f(k)[k]
  <2> DEFINE E == {n \in Nat : n <= k => f(k + 1)[n] = f(k)[n]}
  <2>1. 0 \in E
    BY <1>5 DEF Follows
  <2>2. ASSUME NEW n \in Nat, n \in E PROVE n + 1 \in E
    <3> SUFFICES ASSUME n + 1 <= k PROVE f(k + 1)[n + 1] = f(k)[n + 1]
      OBVIOUS
    <3>1. n + 1 \in 1 .. k /\ n + 1 \in 1 .. k + 1 /\ (n + 1) - 1 = n /\ n <= k
      OBVIOUS
    <3>2. /\ f(k + 1)[n + 1] = rule[n + 1][f(k + 1)[n]]
          /\ f(k)[n + 1] = rule[n + 1][f(k)[n]]
      BY <1>5, <3>1 DEF Follows
    <3> QED BY <2>2, <3>1, <3>2
  <2>3. E \subseteq Nat
    OBVIOUS
  <2>4. \A n \in Nat : n \in E
    <3> HIDE DEF E
    <3> QED BY <2>1, <2>2, <2>3, Upwards
  <2> QED BY <2>4
<1> DEFINE w == [n \in Nat |-> f(n)[n]]
<1>7. w \in [Nat -> V]
  <2>1. \A n \in Nat : f(n)[n] \in V
    BY <1>5 DEF Follows
  <2> QED BY <2>1
<1>8. ASSUME NEW n \in Nat PROVE w[n] = IF n = 0 THEN v ELSE rule[n][w[n - 1]]
  <2>1. CASE n = 0
    BY <1>5, <2>1 DEF Follows
  <2>2. CASE n # 0
    <3>1. n - 1 \in Nat /\ n \in 1 .. n /\ (n - 1) + 1 = n
      BY <2>2
    <3>2. f(n)[n] = rule[n][f(n)[n - 1]]
      BY <1>5, <3>1 DEF Follows
    <3>3. f(n)[n - 1] = f(n - 1)[n - 1]
      BY <1>6, <3>1
    <3>4. w[n] = f(n)[n] /\ w[n - 1] = f(n - 1)[n - 1]
      BY <3>1
    <3> HIDE DEF w
    <3> QED BY <2>2, <3>2, <3>3, <3>4
  <2> QED BY <2>1, <2>2
<1>9. w = [n \in Nat |-> w[n]]
  OBVIOUS
<1> HIDE DEF w
<1>10. Unrolls(w, v, rule)
  BY <1>8, <1>9 DEF Unrolls
<1> QED BY <1>7, <1>10

-----------------------------------------------------------------------------
\* The path from a leaf: halving its number.
LEMMA Path ==
    ASSUME NEW k \in Nat
    PROVE  /\ path(k)[0] = k
           /\ \A n \in Nat : path(k)[n] \in Nat /\ path(k)[n + 1] = path(k)[n] \div 2
<1> DEFINE rule == [m \in Nat |-> [x \in Nat |-> x \div 2]]
           body(g) == [n \in Nat |-> IF n = 0 THEN k ELSE g[n - 1] \div 2]
           it == CHOOSE g : g = body(g)
<1>1. rule \in [Nat -> [Nat -> Nat]] /\ \A m, x \in Nat : rule[m][x] = x \div 2
  OBVIOUS
<1> HIDE DEF rule
<1>2. PICK w \in [Nat -> Nat] : Unrolls(w, k, rule)
  BY <1>1, Recursion
<1>3. w = body(w)
  <2>1. ASSUME NEW n \in Nat, n # 0 PROVE rule[n][w[n - 1]] = w[n - 1] \div 2
    <3>1. n - 1 \in Nat
      BY <2>1
    <3>2. w[n - 1] \in Nat
      BY <3>1
    <3> QED BY <1>1, <3>2
  <2> QED BY <1>2, <2>1 DEF Unrolls
<1>4. it = body(it)
  <2> HIDE DEF body
  <2> QED BY <1>3
<1>5. path(k) = it
  BY DEF path
<1> HIDE DEF it
<1>6. it[0] = k /\ \A n \in Nat : it[n + 1] = it[n] \div 2
  <2>1. \A n \in Nat : n + 1 \in Nat /\ n + 1 # 0 /\ (n + 1) - 1 = n
    OBVIOUS
  <2> QED BY <1>4, <2>1
<1> DEFINE G == {n \in Nat : it[n] \in Nat}
<1>7. 0 \in G
  BY <1>6
<1>8. ASSUME NEW n \in Nat, n \in G PROVE n + 1 \in G
  <2>1. it[n] \in Nat
    BY <1>8
  <2>2. it[n] \div 2 \in Nat
    BY <2>1
  <2> QED BY <1>6, <2>2
<1>9. G \subseteq Nat
  OBVIOUS
<1>10. \A n \in Nat : n \in G
  <2> HIDE DEF G
  <2> QED BY <1>7, <1>8, <1>9, Upwards
<1> QED BY <1>5, <1>6, <1>10

\* The powers of two.
LEMMA Powers ==
    /\ powers[0] = 1
    /\ \A n \in Nat : powers[n] \in Nat \ {0} /\ powers[n + 1] = 2 * powers[n]
<1> DEFINE V == Nat \ {0}
           rule == [m \in Nat |-> [x \in V |-> 2 * x]]
           body(g) == [n \in Nat |-> IF n = 0 THEN 1 ELSE 2 * g[n - 1]]
           it == CHOOSE g : g = body(g)
<1>1. rule \in [Nat -> [V -> V]] /\ \A m \in Nat : \A x \in V : rule[m][x] = 2 * x
  OBVIOUS
<1> HIDE DEF rule
<1>2. 1 \in V
  OBVIOUS
<1>3. PICK w \in [Nat -> V] : Unrolls(w, 1, rule)
  <2> HIDE DEF V
  <2>1. rule \in [Nat -> [V -> V]]
    BY <1>1
  <2> QED BY <1>2, <2>1, Recursion
<1>4. w = body(w)
  <2>1. ASSUME NEW n \in Nat, n # 0 PROVE rule[n][w[n - 1]] = 2 * w[n - 1]
    <3>1. n - 1 \in Nat
      BY <2>1
    <3> HIDE DEF V
    <3>2. w[n - 1] \in V
      BY <3>1
    <3> QED BY <1>1, <3>2
  <2> QED BY <1>3, <2>1 DEF Unrolls
<1>5. it = body(it)
  <2> HIDE DEF body
  <2> QED BY <1>4
<1>6. powers = it
  BY DEF powers
<1> HIDE DEF it
<1>7. it[0] = 1 /\ \A n \in Nat : it[n + 1] = 2 * it[n]
  <2>1. \A n \in Nat : n + 1 \in Nat /\ n + 1 # 0 /\ (n + 1) - 1 = n
    OBVIOUS
  <2> QED BY <1>5, <2>1
<1> DEFINE G == {n \in Nat : it[n] \in V}
<1>8. 0 \in G
  BY <1>7
<1>9. ASSUME NEW n \in Nat, n \in G PROVE n + 1 \in G
  <2>1. it[n] \in V
    BY <1>9
  <2>2. 2 * it[n] \in V
    BY <2>1
  <2> QED BY <1>7, <2>2
<1>10. G \subseteq Nat
  OBVIOUS
<1>11. \A n \in Nat : n \in G
  <2> HIDE DEF G
  <2> QED BY <1>8, <1>9, <1>10, Upwards
<1> QED BY <1>6, <1>7, <1>11

-----------------------------------------------------------------------------
\* The path from a leaf stays in the tree.
LEMMA PathInside ==
    ASSUME NEW leaves, NEW len \in Nat \ {0}, Row(leaves, len), NEW k \in Nat, k < len
    PROVE  \A n \in Nat : path(k)[n] < width(leaves, n)
<1> DEFINE W(n) == width(leaves, n)
           P(n) == path(k)[n]
           G == {n \in Nat : P(n) < W(n)}
<1>1. /\ W(0) = len
      /\ \A n \in Nat : W(n) \in Nat \ {0} /\ W(n + 1) = (W(n) + 1) \div 2
  BY Widths
<1>2. P(0) = k /\ \A n \in Nat : P(n) \in Nat /\ P(n + 1) = P(n) \div 2
  BY Path
<1> HIDE DEF W, P
<1>3. 0 \in G
  BY <1>1, <1>2
<1>4. ASSUME NEW n \in Nat, n \in G PROVE n + 1 \in G
  <2>1. P(n) \in Nat /\ W(n) \in Nat /\ P(n) < W(n)
    BY <1>1, <1>2, <1>4
  <2>2. P(n) \div 2 < (W(n) + 1) \div 2
    BY <2>1
  <2> QED BY <1>1, <1>2, <2>2
<1>5. G \subseteq Nat
  OBVIOUS
<1>6. \A n \in Nat : n \in G
  <2> HIDE DEF G
  <2> QED BY <1>3, <1>4, <1>5, Upwards
<1> QED BY <1>6 DEF W, P

\* Over a power of two of leaves every layer is exactly half the one below, so a
\* number whose halves end in 0 at the root is the number of a leaf.
LEMMA FullTree ==
    ASSUME NEW leaves, NEW h \in Nat, NEW len \in Nat \ {0}, len = powers[h],
           Row(leaves, len), NEW k \in Nat, path(k)[height(leaves)] = 0
    PROVE  k < len
<1> DEFINE W(n) == width(leaves, n)
           P(n) == path(k)[n]
           H == height(leaves)
           G == {n \in Nat : n <= h => W(n) = powers[h - n]}
           E == {j \in Nat : j <= h => P(h - j) < powers[j]}
<1>1. /\ powers[h] \in Nat \ {0} /\ powers[0] = 1
      /\ \A n \in Nat : powers[n] \in Nat \ {0} /\ powers[n + 1] = 2 * powers[n]
  BY Powers
<1>2. W(0) = powers[h] /\ \A n \in Nat : W(n) \in Nat \ {0} /\ W(n + 1) = (W(n) + 1) \div 2
  BY Widths
<1>3. P(0) = k /\ \A n \in Nat : P(n) \in Nat /\ P(n + 1) = P(n) \div 2
  BY Path
<1>4. H \in Nat /\ W(H) = 1 /\ \A n \in Nat : n < H => W(n) > 1
  BY Height
<1>5. P(H) = 0
  OBVIOUS
<1> HIDE DEF W, P, H
<1>6. 0 \in G
  BY <1>2
<1>7. ASSUME NEW n \in Nat, n \in G PROVE n + 1 \in G
  <2> SUFFICES ASSUME n + 1 <= h PROVE W(n + 1) = powers[h - (n + 1)]
    OBVIOUS
  <2> DEFINE j == h - (n + 1)
  <2>1. j \in Nat /\ j + 1 = h - n /\ n <= h
    OBVIOUS
  <2>2. W(n) = powers[j + 1]
    BY <1>7, <2>1
  <2>3. powers[j] \in Nat /\ powers[j + 1] = 2 * powers[j]
    BY <1>1, <2>1
  <2>4. (2 * powers[j] + 1) \div 2 = powers[j]
    BY <2>3
  <2> HIDE DEF j
  <2>5. W(n + 1) = powers[j]
    BY <1>2, <2>2, <2>3, <2>4
  <2> QED BY <2>5 DEF j
<1>8. \A n \in Nat : n \in G
  <2>1. G \subseteq Nat
    OBVIOUS
  <2> HIDE DEF G
  <2> QED BY <1>6, <1>7, <2>1, Upwards
<1>9. H = h
  <2>1. W(h) = 1
    <3>1. W(h) = powers[h - h] /\ h - h = 0
      BY <1>8
    <3> QED BY <1>1, <3>1
  <2>2. ~(h < H)
    BY <1>4, <2>1
  <2>3. ASSUME H < h PROVE FALSE
    <3>1. h - H \in Nat /\ h - H # 0 /\ H <= h
      BY <1>4, <2>3
    <3>2. W(H) = powers[h - H]
      BY <1>4, <1>8, <3>1
    <3> DEFINE j == h - H - 1
    <3>3. j \in Nat /\ h - H = j + 1
      BY <1>4, <3>1
    <3> HIDE DEF j
    <3>4. powers[j] \in Nat \ {0} /\ W(H) = 2 * powers[j]
      BY <1>1, <3>2, <3>3
    <3> QED BY <1>4, <3>4
  <2> QED BY <1>4, <2>2, <2>3
<1>10. 0 \in E
  BY <1>1, <1>5, <1>9
<1>11. ASSUME NEW j \in Nat, j \in E PROVE j + 1 \in E
  <2> SUFFICES ASSUME j + 1 <= h PROVE P(h - (j + 1)) < powers[j + 1]
    OBVIOUS
  <2> DEFINE n == h - (j + 1)
  <2>1. n \in Nat /\ n + 1 = h - j /\ j <= h
    OBVIOUS
  <2>2. P(n + 1) < powers[j]
    BY <1>11, <2>1
  <2>3. P(n) \in Nat /\ P(n + 1) = P(n) \div 2 /\ powers[j] \in Nat /\ powers[j + 1] = 2 * powers[j]
    BY <1>1, <1>3, <2>1
  <2> HIDE DEF n
  <2>4. P(n) < 2 * powers[j]
    BY <2>2, <2>3
  <2> QED BY <2>3, <2>4 DEF n
<1>12. \A j \in Nat : j \in E
  <2>1. E \subseteq Nat
    OBVIOUS
  <2> HIDE DEF E
  <2> QED BY <1>10, <1>11, <2>1, Upwards
<1>13. P(h - h) < powers[h] /\ h - h = 0
  BY <1>12
<1> QED BY <1>3, <1>13

-----------------------------------------------------------------------------
\* Hashes are terms.
LEMMA Terms ==
    /\ \A x, y : Leaf(x) = Leaf(y) => x = y
    /\ \A x, y : Trunc(x) = Trunc(y) => x = y
    /\ \A x, y, z : Leaf(x) # Node(y, z) /\ ZeroRoot # Leaf(x) /\ ZeroRoot # Node(y, z)
    /\ \A w, x, y, z : Node(w, x) = Node(y, z) => w = y /\ x = z
BY DEF Leaf, Trunc, Node, ZeroRoot

\* The sibling of node p in a layer, itself where there is none.
beside(layer, len, p) ==
    Trunc(IF sibling_of(p) < len THEN layer[sibling_of(p) + 1] ELSE layer[len])

\* What a node hashes to with its own sibling is the node above it.
LEMMA FoldsUp ==
    ASSUME NEW layer, NEW len \in Nat \ {0}, Row(layer, len), NEW p \in Nat, p < len
    PROVE  next_layer(layer)[p \div 2 + 1] =
               IF p % 2 = 0 THEN Node(Trunc(layer[p + 1]), beside(layer, len, p))
                            ELSE Node(beside(layer, len, p), Trunc(layer[p + 1]))
<1>1. PICK q \in Nat : /\ p = 2*q \/ p = 2*q + 1
                       /\ p \div 2 = q
                       /\ p % 2 = 0 <=> p = 2*q
  BY Halved
<1>2. q + 1 \in 1 .. (len + 1) \div 2
  BY <1>1
<1>3. next_layer(layer)[q + 1]
         = Node(Trunc(layer[2*(q + 1) - 1]),
                Trunc(IF 2*(q + 1) <= len THEN layer[2*(q + 1)] ELSE layer[2*(q + 1) - 1]))
  BY <1>2, NextLayer
<1>4. 2*(q + 1) - 1 = 2*q + 1 /\ 2*(q + 1) = 2*q + 2
  OBVIOUS
<1>5. CASE p = 2*q
  <2>1. sibling_of(p) = p + 1 /\ p % 2 = 0
    BY <1>1, <1>5 DEF sibling_of
  <2>2. p + 1 < len <=> 2*q + 2 <= len
    BY <1>5
  <2>3. ~(p + 1 < len) => len = p + 1
    OBVIOUS
  <2>4. beside(layer, len, p) = Trunc(IF 2*q + 2 <= len THEN layer[2*q + 2] ELSE layer[2*q + 1])
    BY <1>5, <2>1, <2>2, <2>3 DEF beside
  <2> QED BY <1>1, <1>3, <1>4, <1>5, <2>1, <2>4
<1>6. CASE p = 2*q + 1
  <2>1. sibling_of(p) = p - 1 /\ p % 2 # 0
    BY <1>1, <1>6 DEF sibling_of
  <2>2. 2*q + 2 <= len /\ p - 1 < len /\ (p - 1) + 1 = 2*q + 1 /\ p + 1 = 2*q + 2
    BY <1>6
  <2>3. beside(layer, len, p) = Trunc(layer[2*q + 1])
    BY <2>1, <2>2 DEF beside
  <2> QED BY <1>1, <1>3, <1>4, <2>1, <2>2, <2>3
<1> QED BY <1>1, <1>5, <1>6

\* A node that hashes to the node above place p, with whatever sibling, is at p.
LEMMA FoldsDown ==
    ASSUME NEW layer, NEW len \in Nat \ {0}, Row(layer, len), NEW p \in Nat, p < len,
           NEW x, NEW s,
           next_layer(layer)[p \div 2 + 1] =
               IF p % 2 = 0 THEN Node(Trunc(x), s) ELSE Node(s, Trunc(x))
    PROVE  x = layer[p + 1]
<1> DEFINE t == beside(layer, len, p)
           y == layer[p + 1]
<1>1. (IF p % 2 = 0 THEN Node(Trunc(x), s) ELSE Node(s, Trunc(x)))
        = IF p % 2 = 0 THEN Node(Trunc(y), t) ELSE Node(t, Trunc(y))
  BY FoldsUp
<1> HIDE DEF t, y
<1>2. Trunc(x) = Trunc(y)
  <2>1. CASE p % 2 = 0
    BY <1>1, <2>1, Terms
  <2>2. CASE p % 2 # 0
    BY <1>1, <2>2, Terms
  <2> QED BY <2>1, <2>2
<1> QED BY <1>2, Terms DEF y

\* The proof of a leaf has its siblings on every layer below the root.
LEMMA ProofEntries ==
    ASSUME NEW leaves, NEW len \in Nat \ {0}, Row(leaves, len), NEW k \in Nat, k < len
    PROVE  LET p == merkle_proof(build_tree(leaves), k)
           IN  /\ Row(p, height(leaves))
               /\ \A n \in Nat : n < height(leaves) =>
                     p[n + 1] = beside(layers(leaves)[n], width(leaves, n), path(k)[n])
<1> DEFINE tree == build_tree(leaves)
           H == height(leaves)
           p == merkle_proof(tree, k)
<1>1. H \in Nat /\ Len(tree.levels) = H + 1 /\ \A n \in 0 .. H : tree.levels[n + 1] = layers(leaves)[n]
  BY Tree, Height
<1> HIDE DEF tree, H
<1>2. Len(tree.levels) - 1 = H
  BY <1>1
<1>3. Row(p, H)
  BY <1>2 DEF merkle_proof, Row
<1>4. ASSUME NEW n \in Nat, n < H
      PROVE  p[n + 1] = beside(layers(leaves)[n], width(leaves, n), path(k)[n])
  <2>1. n + 1 \in 1 .. H /\ (n + 1) - 1 = n /\ n \in 0 .. H
    BY <1>1, <1>4
  <2>2. tree.levels[n + 1] = layers(leaves)[n]
    BY <1>1, <2>1
  <2> QED BY <1>2, <2>1, <2>2 DEF merkle_proof, beside, width, Last
<1> QED BY <1>3, <1>4 DEF p, H, tree

-----------------------------------------------------------------------------
(***************************************************************************)
(* The loop of compute_merkle_root.  After n iterations the index is the   *)
(* n-th place of the claimed path and n entries of the proof are used up.  *)
(* A shred that is what it says has come to the node of its path; and a    *)
(* shred that has come to the node of the path it claims, if that is a     *)
(* path of the tree, is the one at its start.                              *)
(***************************************************************************)
AtLayer(n) ==
    LET tree == leaves_of(size)
        here == layers(tree)[n][index + 1]
    IN  /\ index = path(claimed)[n]
        /\ Row(proof, height(tree) - n)
        /\ \A m \in 1 .. height(tree) - n :
              proof[m] = merkle_proof(build_tree(tree), owner)[n + m]
        /\ verdict # "none" => n = height(tree)
        /\ content = owner /\ claimed = owner => node = here
        /\ claimed < size /\ node = here => content = claimed

MerkleInv ==
    /\ size \in Nat \ {0}
    /\ owner \in Nat /\ owner < size
    /\ claimed \in Nat
    /\ verdict \in {"none", IF index # 0 THEN "mismatch" ELSE "root"}
    /\ \E n \in 0 .. height(leaves_of(size)) : AtLayer(n)

\* The leaves of a set are a sequence.
LEMMA LeavesRow ==
    ASSUME NEW k \in Nat \ {0}
    PROVE  Row(leaves_of(k), k) /\ \A m \in 0 .. k - 1 : leaves_of(k)[m + 1] = Leaf(m)
BY DEF leaves_of, Row

\* A shred starts at its leaf.
LEMMA MerkleInitInv == MerkleInit => MerkleInv
<1> SUFFICES ASSUME MerkleInit PROVE MerkleInv
  OBVIOUS
<1> DEFINE tree == leaves_of(size)
           H == height(tree)
           p == merkle_proof(build_tree(tree), owner)
<1>1. /\ size \in Nat \ {0} /\ owner \in Nat /\ owner < size /\ claimed \in Nat
      /\ index = claimed /\ node = Leaf(content) /\ verdict = "none" /\ proof = p
  BY MaxLeavesAssumption DEF MerkleInit
<1>2. Row(tree, size) /\ \A m \in 0 .. size - 1 : tree[m + 1] = Leaf(m)
  BY <1>1, LeavesRow
<1> HIDE DEF tree
<1>3. H \in Nat /\ Row(p, H)
  BY <1>1, <1>2, Height, ProofEntries
<1> HIDE DEF H, p
<1>4. 0 \in 0 .. H /\ H - 0 = H /\ \A m \in 1 .. H : 0 + m = m
  BY <1>3
<1>5. path(claimed)[0] = claimed /\ layers(tree)[0] = tree
  BY <1>1, Path, Layers
<1>6. claimed < size => tree[claimed + 1] = Leaf(claimed)
  BY <1>1, <1>2
<1>7. AtLayer(0)
  <2>1. content = owner /\ claimed = owner => node = layers(tree)[0][index + 1]
    BY <1>1, <1>5, <1>6
  <2>2. claimed < size /\ node = layers(tree)[0][index + 1] => content = claimed
    BY <1>1, <1>5, <1>6, Terms
  <2>3. Row(proof, H - 0) /\ \A m \in 1 .. H - 0 : proof[m] = p[0 + m]
    BY <1>1, <1>3, <1>4
  <2> QED BY <1>1, <1>5, <2>1, <2>2, <2>3 DEF AtLayer, H, p, tree
<1> QED BY <1>1, <1>4, <1>7 DEF MerkleInv, H, tree

\* The rest of a sequence.
LEMMA TailOfRow ==
    ASSUME NEW s, NEW k \in Nat \ {0}, Row(s, k)
    PROVE  Tail(s) = [m \in 1 .. k - 1 |-> s[m + 1]]
<1>1. s \in Seq({s[m] : m \in 1 .. k}) /\ Len(s) = k /\ s # <<>>
  BY DEF Row
<1> DEFINE S == {s[m] : m \in 1 .. k}
           t == Tail(s)
<1> HIDE DEF S
<1>2. t \in Seq(S) /\ Len(t) = k - 1
  BY <1>1 DEF S
<1>3. \A m \in 1 .. k - 1 : t[m] = s[m + 1]
  BY <1>1
<1> HIDE DEF t
<1>4. t = [m \in 1 .. k - 1 |-> t[m]]
  BY <1>2
<1> QED BY <1>3, <1>4 DEF t

\* One iteration climbs one layer.
LEMMA FoldInv == MerkleInv /\ Fold => MerkleInv'
<1> SUFFICES ASSUME MerkleInv, Fold PROVE MerkleInv'
  OBVIOUS
<1> DEFINE tree == leaves_of(size)
           H == height(tree)
           L == layers(tree)
           W(n) == width(tree, n)
           p == merkle_proof(build_tree(tree), owner)
<1>1. PICK n \in 0 .. H : AtLayer(n)
  BY DEF MerkleInv
<1>2. /\ size \in Nat \ {0} /\ owner \in Nat /\ owner < size /\ claimed \in Nat /\ verdict = "none"
      /\ proof # <<>> /\ index' = index \div 2 /\ proof' = Tail(proof)
      /\ node' = IF index % 2 = 0 THEN Node(Trunc(node), Head(proof)) ELSE Node(Head(proof), Trunc(node))
      /\ UNCHANGED <<size, owner, content, claimed, verdict>>
  BY DEF MerkleInv, Fold
<1>3. Row(tree, size)
  BY <1>2, LeavesRow
<1>4. tree' = tree /\ H' = H /\ L' = L /\ p' = p
  BY <1>2
<1>5. /\ index = path(claimed)[n] /\ Row(proof, H - n)
      /\ \A m \in 1 .. H - n : proof[m] = p[n + m]
      /\ content = owner /\ claimed = owner => node = L[n][index + 1]
      /\ claimed < size /\ node = L[n][index + 1] => content = claimed
  BY <1>1 DEF AtLayer
<1> HIDE DEF tree
<1>6. H \in Nat
  BY <1>2, <1>3, Height
<1>7. /\ \A m \in Nat : /\ path(claimed)[m] \in Nat /\ path(claimed)[m + 1] = path(claimed)[m] \div 2
                        /\ path(owner)[m] \in Nat
      /\ \A m \in Nat : W(m) \in Nat \ {0} /\ Row(L[m], W(m)) /\ L[m + 1] = next_layer(L[m])
  BY <1>2, <1>3, Path, Widths, Layers
<1>8. \A m \in Nat : path(owner)[m] < W(m) /\ (claimed < size => path(claimed)[m] < W(m))
  BY <1>2, <1>3, PathInside
<1>9. \A m \in Nat : m < H => p[m + 1] = beside(L[m], W(m), path(owner)[m])
  BY <1>2, <1>3, ProofEntries
<1> HIDE DEF H, L, W, p
<1>10. n \in Nat /\ n < H
  <2>1. n \in Nat /\ n <= H
    BY <1>6
  <2>2. n # H
    <3>1. ASSUME n = H PROVE FALSE
      <4>1. H - n = 0
        BY <1>6, <3>1
      <4>2. proof = <<>>
        BY <1>5, <4>1 DEF Row
      <4> QED BY <1>2, <4>2
    <3> QED BY <3>1
  <2> QED BY <1>6, <2>1, <2>2
<1>11. H - n \in Nat \ {0} /\ H - n - 1 \in Nat /\ H - (n + 1) = H - n - 1 /\ n + 1 \in 0 .. H
  BY <1>6, <1>10
<1>12. Head(proof) = p[n + 1] /\ Row(Tail(proof), H - (n + 1))
       /\ \A m \in 1 .. H - (n + 1) : Tail(proof)[m] = p[(n + 1) + m]
  <2> DEFINE k == H - n
  <2>1. k \in Nat \ {0} /\ H - (n + 1) = k - 1 /\ k - 1 \in Nat
    BY <1>11
  <2>2. Row(proof, k) /\ \A m \in 1 .. k : proof[m] = p[n + m]
    BY <1>5
  <2> HIDE DEF k
  <2>3. Len(proof) = k
    BY <2>1, <2>2 DEF Row
  <2>4. Tail(proof) = [m \in 1 .. k - 1 |-> proof[m + 1]]
    BY <2>1, <2>2, TailOfRow
  <2>5. Head(proof) = p[n + 1]
    <3>1. 1 \in 1 .. k
      BY <2>1
    <3> QED BY <2>2, <3>1 DEF Head
  <2>6. Row(Tail(proof), k - 1)
    BY <2>4 DEF Row
  <2>7. ASSUME NEW m \in 1 .. k - 1 PROVE Tail(proof)[m] = p[(n + 1) + m]
    <3>1. m + 1 \in 1 .. k /\ n + (m + 1) = (n + 1) + m
      BY <1>10, <2>1
    <3> QED BY <2>2, <2>4, <3>1
  <2> QED BY <2>1, <2>5, <2>6, <2>7
<1>13. content = owner /\ claimed = owner => node' = L[n + 1][index' + 1]
  <2> SUFFICES ASSUME content = owner, claimed = owner PROVE node' = L[n + 1][index' + 1]
    OBVIOUS
  <2>1. /\ index \in Nat /\ index < W(n) /\ node = L[n][index + 1]
        /\ Head(proof) = beside(L[n], W(n), index)
    BY <1>5, <1>7, <1>8, <1>9, <1>10, <1>12
  <2>2. next_layer(L[n])[index \div 2 + 1] =
          IF index % 2 = 0 THEN Node(Trunc(L[n][index + 1]), beside(L[n], W(n), index))
                           ELSE Node(beside(L[n], W(n), index), Trunc(L[n][index + 1]))
    BY <1>7, <1>10, <2>1, FoldsUp
  <2> QED BY <1>2, <1>7, <1>10, <2>1, <2>2
<1>14. claimed < size /\ node' = L[n + 1][index' + 1] => content = claimed
  <2> SUFFICES ASSUME claimed < size, node' = L[n + 1][index' + 1] PROVE content = claimed
    OBVIOUS
  <2>1. index \in Nat /\ index < W(n) /\ W(n) \in Nat \ {0} /\ Row(L[n], W(n))
    BY <1>5, <1>7, <1>8, <1>10
  <2>2. next_layer(L[n])[index \div 2 + 1] =
          IF index % 2 = 0 THEN Node(Trunc(node), Head(proof)) ELSE Node(Head(proof), Trunc(node))
    BY <1>2, <1>7, <1>10
  <2>3. node = L[n][index + 1]
    BY <2>1, <2>2, FoldsDown
  <2> QED BY <1>5, <2>3
<1>15. index' = path(claimed)[n + 1]
  BY <1>2, <1>5, <1>7, <1>10
<1>16. AtLayer(n + 1)'
  <2>1. /\ content' = content /\ owner' = owner /\ claimed' = claimed /\ size' = size
        /\ verdict' = "none" /\ proof' = Tail(proof)
    BY <1>2
  <2>2. AtLayer(n + 1)' <=>
          /\ index' = path(claimed')[n + 1]
          /\ Row(proof', H' - (n + 1))
          /\ \A m \in 1 .. H' - (n + 1) : proof'[m] = p'[n + 1 + m]
          /\ verdict' # "none" => n + 1 = H'
          /\ content' = owner' /\ claimed' = owner' => node' = L'[n + 1][index' + 1]
          /\ claimed' < size' /\ node' = L'[n + 1][index' + 1] => content' = claimed'
    BY DEF AtLayer, H, L, p, tree
  <2> QED BY <1>4, <1>12, <1>13, <1>14, <1>15, <2>1, <2>2
<1>17. n + 1 \in 0 .. height(leaves_of(size))'
  BY <1>4, <1>11 DEF H, tree
<1> QED BY <1>2, <1>16, <1>17 DEF MerkleInv

\* Every step keeps to the path.
LEMMA MerkleNextInv == MerkleInv /\ [MerkleNext]_merkle_vars => MerkleInv'
<1> SUFFICES ASSUME MerkleInv, [MerkleNext]_merkle_vars PROVE MerkleInv'
  OBVIOUS
<1>1. CASE Fold
  BY <1>1, FoldInv
<1>2. CASE Finish
  <2>1. PICK n \in 0 .. height(leaves_of(size)) : AtLayer(n)
    BY DEF MerkleInv
  <2>2. /\ proof = <<>> /\ verdict' = IF index # 0 THEN "mismatch" ELSE "root"
        /\ UNCHANGED <<size, owner, content, claimed, index, node, proof>>
    BY <1>2 DEF Finish
  <2>3. n = height(leaves_of(size))
    <3> DEFINE k == height(leaves_of(size)) - n
    <3>1. height(leaves_of(size)) \in Nat
      BY LeavesRow, Height DEF MerkleInv
    <3>2. k \in Nat /\ Row(proof, k)
      BY <2>1, <3>1 DEF AtLayer
    <3> HIDE DEF k
    <3>3. Len(proof) = k /\ Len(proof) = 0
      BY <2>2, <3>2 DEF Row
    <3>4. k = 0
      BY <3>3
    <3> QED BY <3>1, <3>4 DEF k
  <2>4. AtLayer(n)'
    BY <2>1, <2>2, <2>3 DEF AtLayer
  <2> QED BY <2>1, <2>2, <2>4 DEF MerkleInv
<1>3. CASE UNCHANGED merkle_vars
  BY <1>3 DEF MerkleInv, AtLayer, merkle_vars
<1> QED BY <1>1, <1>2, <1>3 DEF MerkleNext

\* The invariant binds a shred to its position.
LEMMA MerkleInvBound == MerkleInv => PositionBound
<1> SUFFICES ASSUME MerkleInv PROVE PositionBound
  OBVIOUS
<1> DEFINE tree == leaves_of(size)
           H == height(tree)
           L == layers(tree)
<1>1. PICK n \in 0 .. H : AtLayer(n)
  BY DEF MerkleInv
<1>2. /\ size \in Nat \ {0} /\ owner \in Nat /\ owner < size /\ claimed \in Nat
      /\ verdict \in {"none", IF index # 0 THEN "mismatch" ELSE "root"}
  BY DEF MerkleInv
<1>3. /\ index = path(claimed)[n]
      /\ verdict # "none" => n = H
      /\ content = owner /\ claimed = owner => node = L[n][index + 1]
      /\ claimed < size /\ node = L[n][index + 1] => content = claimed
  BY <1>1 DEF AtLayer
<1>4. Row(tree, size)
  BY <1>2, LeavesRow
<1>5. build_tree(tree).root = L[H][1]
  BY <1>2, <1>4, Tree
<1>6. verifies <=> verdict = "root" /\ node = L[H][1]
  BY <1>5 DEF verifies
<1>7. H \in Nat /\ width(tree, H) = 1
  BY <1>2, <1>4, Height
<1>8. path(owner)[H] < width(tree, H) /\ path(owner)[H] \in Nat
  BY <1>2, <1>4, <1>7, PathInside, Path
<1>9. \A h \in Nat : size = powers[h] /\ path(claimed)[H] = 0 => claimed < size
  BY <1>2, <1>4, FullTree
<1> HIDE DEF tree, H, L
<1>10. ASSUME verdict # "none", content = owner, claimed = owner PROVE verifies
  <2>1. n = H /\ node = L[H][index + 1] /\ index = path(owner)[H]
    BY <1>3, <1>10
  <2>2. index = 0
    BY <1>7, <1>8, <2>1
  <2>3. verdict = "root" /\ index + 1 = 1
    BY <1>2, <1>10, <2>2
  <2> QED BY <1>6, <2>1, <2>3
<1>11. ASSUME verifies PROVE index = 0 /\ n = H /\ node = L[H][1]
  BY <1>2, <1>3, <1>6, <1>11
<1>12. ASSUME verifies, claimed < size PROVE content = claimed
  <2>1. index + 1 = 1 /\ n = H /\ node = L[H][1]
    BY <1>11, <1>12
  <2> QED BY <1>3, <1>12, <2>1
<1>13. ASSUME verifies, NEW h \in 0 .. MaxLeaves, size = powers[h] PROVE claimed < size
  <2>1. h \in Nat /\ path(claimed)[H] = 0
    BY <1>3, <1>11, <1>13, MaxLeavesAssumption
  <2> QED BY <1>9, <1>13, <2>1
<1> QED BY <1>10, <1>12, <1>13 DEF PositionBound

(***************************************************************************)
(* compute_merkle_root binds a shred to its position: with its own index   *)
(* and proof it folds to the signed root, for sets of every size; one that *)
(* verifies under an index of the set is the one the leader put there; and *)
(* where the size is a power of two no index past the end verifies.        *)
(***************************************************************************)
THEOREM BoundToPosition == MerkleSpec => []PositionBound
BY MerkleInitInv, MerkleNextInv, MerkleInvBound, PTL DEF MerkleSpec

-----------------------------------------------------------------------------
(***************************************************************************)
(* The slot root.  A layer of different nodes has different nodes above    *)
(* it, and is known from the layer above: only the end of the layer could  *)
(* be a node paired with itself or two equal ones.                         *)
(***************************************************************************)
Different(layer, len) == \A m, n \in 1 .. len : layer[m] = layer[n] => m = n

\* Different nodes have different parents.
LEMMA AboveDifferent ==
    ASSUME NEW layer, NEW len \in Nat \ {0}, Row(layer, len), Different(layer, len)
    PROVE  Different(next_layer(layer), (len + 1) \div 2)
<1> SUFFICES ASSUME NEW m \in 1 .. (len + 1) \div 2, NEW n \in 1 .. (len + 1) \div 2,
                    next_layer(layer)[m] = next_layer(layer)[n]
             PROVE  m = n
  BY DEF Different
<1>1. m \in Nat /\ n \in Nat /\ 2*m - 1 \in 1 .. len /\ 2*n - 1 \in 1 .. len
  OBVIOUS
<1> DEFINE x == Trunc(IF 2*m <= len THEN layer[2*m] ELSE layer[2*m - 1])
           y == Trunc(IF 2*n <= len THEN layer[2*n] ELSE layer[2*n - 1])
<1>2. Node(Trunc(layer[2*m - 1]), x) = Node(Trunc(layer[2*n - 1]), y)
  BY NextLayer
<1> HIDE DEF x, y
<1>3. layer[2*m - 1] = layer[2*n - 1]
  BY <1>2, Terms
<1>4. 2*m - 1 = 2*n - 1
  BY <1>1, <1>3 DEF Different
<1> QED BY <1>1, <1>4

\* A layer of different nodes is known from the layer above.
LEMMA KnownFromAbove ==
    ASSUME NEW a, NEW k \in Nat \ {0}, Row(a, k), Different(a, k),
           NEW b, NEW l \in Nat \ {0}, Row(b, l), Different(b, l),
           next_layer(a) = next_layer(b)
    PROVE  a = b /\ k = l
<1> DEFINE q == (k + 1) \div 2
<1>1. q \in Nat \ {0} /\ (l + 1) \div 2 \in Nat
  BY HalfUp
<1>2. (l + 1) \div 2 = q
  <2>1. Row(next_layer(a), q) /\ Row(next_layer(a), (l + 1) \div 2)
    BY NextLayer
  <2>2. Len(next_layer(a)) = q /\ Len(next_layer(a)) = (l + 1) \div 2
    BY <1>1, <2>1 DEF Row
  <2> QED BY <2>2
<1>3. k \in {2*q - 1, 2*q} /\ l \in {2*q - 1, 2*q}
  BY <1>2
<1>4. ASSUME NEW m \in 1 .. q
      PROVE  /\ a[2*m - 1] = b[2*m - 1]
             /\ (IF 2*m <= k THEN a[2*m] ELSE a[2*m - 1]) = IF 2*m <= l THEN b[2*m] ELSE b[2*m - 1]
  <2> DEFINE x == IF 2*m <= k THEN a[2*m] ELSE a[2*m - 1]
             y == IF 2*m <= l THEN b[2*m] ELSE b[2*m - 1]
  <2>1. next_layer(a)[m] = Node(Trunc(a[2*m - 1]), Trunc(x))
    BY NextLayer
  <2>2. next_layer(b)[m] = Node(Trunc(b[2*m - 1]), Trunc(y))
    BY <1>2, NextLayer
  <2> HIDE DEF x, y
  <2>3. Trunc(a[2*m - 1]) = Trunc(b[2*m - 1]) /\ Trunc(x) = Trunc(y)
    BY <2>1, <2>2, Terms
  <2>4. a[2*m - 1] = b[2*m - 1] /\ x = y
    BY <2>3, Terms
  <2> QED BY <2>4 DEF x, y
<1> HIDE DEF q
<1>5. q \in 1 .. q
  BY <1>1
<1>6. ASSUME k = 2*q, l = 2*q - 1 PROVE FALSE
  <2>1. a[2*q] = a[2*q - 1]
    BY <1>1, <1>4, <1>5, <1>6
  <2>2. 2*q \in 1 .. k /\ 2*q - 1 \in 1 .. k /\ 2*q # 2*q - 1
    BY <1>1, <1>6
  <2> QED BY <2>1, <2>2 DEF Different
<1>7. ASSUME l = 2*q, k = 2*q - 1 PROVE FALSE
  <2>1. b[2*q] = b[2*q - 1]
    BY <1>1, <1>4, <1>5, <1>7
  <2>2. 2*q \in 1 .. l /\ 2*q - 1 \in 1 .. l /\ 2*q # 2*q - 1
    BY <1>1, <1>7
  <2> QED BY <2>1, <2>2 DEF Different
<1>8. k = l
  BY <1>3, <1>6, <1>7
<1>9. ASSUME NEW n \in 1 .. k PROVE a[n] = b[n]
  <2>1. PICK m \in 1 .. q : n = 2*m - 1 \/ n = 2*m
    <3>0. n \in Nat
      BY <1>1
    <3>1. PICK r \in Nat : n = 2*r \/ n = 2*r + 1
      <4>1. n \div 2 \in Nat /\ (n = 2 * (n \div 2) \/ n = 2 * (n \div 2) + 1)
        BY <3>0, Halved
      <4> QED BY <4>1
    <3>2. CASE n = 2*r
      <4>1. r \in 1 .. q
        BY <1>1, <1>3, <3>2
      <4> QED BY <3>2, <4>1
    <3>3. CASE n = 2*r + 1
      <4>1. r + 1 \in 1 .. q /\ n = 2*(r + 1) - 1
        BY <1>1, <1>3, <3>3
      <4> QED BY <4>1
    <3> QED BY <3>1, <3>2, <3>3
  <2>2. CASE n = 2*m - 1
    BY <1>4, <2>2
  <2>3. CASE n = 2*m
    BY <1>4, <1>8, <2>3
  <2> QED BY <2>1, <2>2, <2>3
<1>10. a = b
  BY <1>8, <1>9 DEF Row
<1> QED BY <1>8, <1>10

\* All layers over different leaves have different nodes.
LEMMA LayersDifferent ==
    ASSUME NEW leaves, NEW len \in Nat \ {0}, Row(leaves, len), Different(leaves, len)
    PROVE  \A n \in Nat : Different(layers(leaves)[n], width(leaves, n))
<1> DEFINE L == layers(leaves)
           W(n) == width(leaves, n)
           G == {n \in Nat : Different(L[n], W(n))}
<1>1. L[0] = leaves /\ W(0) = len
  BY Layers, Widths
<1>2. \A n \in Nat : /\ W(n) \in Nat \ {0} /\ Row(L[n], W(n)) /\ W(n + 1) = (W(n) + 1) \div 2
                     /\ L[n + 1] = next_layer(L[n])
  BY Layers, Widths
<1> HIDE DEF L, W
<1>3. 0 \in G
  BY <1>1
<1>4. ASSUME NEW n \in Nat, n \in G PROVE n + 1 \in G
  <2>1. Different(L[n + 1], W(n + 1))
    BY <1>2, <1>4, AboveDifferent
  <2> QED BY <2>1
<1>5. G \subseteq Nat
  OBVIOUS
<1>6. \A n \in Nat : n \in G
  <2> HIDE DEF G
  <2> QED BY <1>3, <1>4, <1>5, Upwards
<1> QED BY <1>6 DEF L, W

\* A list of FEC roots as a listener has it: different, and of any form.
RootList(list, len) == Row(list, len) /\ Different(list, len)

\* Ladders of the same height with the same root have the same leaves.
LEMMA SameLeaves ==
    ASSUME NEW a, NEW k \in Nat \ {0}, RootList(a, k),
           NEW b, NEW l \in Nat \ {0}, RootList(b, l),
           height(a) = height(b), layers(a)[height(a)][1] = layers(b)[height(b)][1]
    PROVE  a = b
<1> DEFINE A == layers(a)
           B == layers(b)
           V(n) == width(a, n)
           W(n) == width(b, n)
           H == height(a)
           G == {n \in Nat : n <= H => A[H - n] = B[H - n]}
<1>1. height(a) \in Nat /\ height(b) \in Nat
  BY Height DEF RootList
<1>2. height(b) = H
  OBVIOUS
<1>3. \A n \in Nat : /\ V(n) \in Nat \ {0} /\ Row(A[n], V(n)) /\ Different(A[n], V(n))
                     /\ W(n) \in Nat \ {0} /\ Row(B[n], W(n)) /\ Different(B[n], W(n))
                     /\ A[n + 1] = next_layer(A[n]) /\ B[n + 1] = next_layer(B[n])
  BY Layers, Widths, LayersDifferent DEF RootList
<1>4. V(H) = 1 /\ W(H) = 1 /\ A[H][1] = B[H][1] /\ A[0] = a /\ B[0] = b
  BY <1>2, Height, Layers DEF RootList
<1>5. H \in Nat
  BY <1>1
<1> HIDE DEF A, B, V, W, H
<1>6. 0 \in G
  <2>1. Row(A[H], 1) /\ Row(B[H], 1)
    BY <1>3, <1>4, <1>5
  <2>2. A[H] = B[H]
    BY <1>4, <2>1 DEF Row
  <2> QED BY <1>5, <2>2
<1>7. ASSUME NEW n \in Nat, n \in G PROVE n + 1 \in G
  <2> SUFFICES ASSUME n + 1 <= H PROVE A[H - (n + 1)] = B[H - (n + 1)]
    OBVIOUS
  <2> DEFINE x == H - (n + 1)
  <2>1. x \in Nat /\ x + 1 = H - n /\ n <= H
    BY <1>5
  <2>2. A[x + 1] = B[x + 1]
    BY <1>7, <2>1
  <2> HIDE DEF x
  <2>3. A[x] = B[x]
    <3> DEFINE p == A[x]
               q == B[x]
               v == V(x)
               w == W(x)
    <3>1. /\ v \in Nat \ {0} /\ Row(p, v) /\ Different(p, v)
          /\ w \in Nat \ {0} /\ Row(q, w) /\ Different(q, w)
      BY <1>3, <2>1
    <3>2. next_layer(p) = next_layer(q)
      BY <1>3, <2>1, <2>2
    <3> HIDE DEF p, q, v, w
    <3>3. p = q
      BY <3>1, <3>2, KnownFromAbove
    <3> QED BY <3>3 DEF p, q
  <2> QED BY <2>3 DEF x
<1>8. \A n \in Nat : n \in G
  <2>1. G \subseteq Nat
    OBVIOUS
  <2> HIDE DEF G
  <2> QED BY <1>6, <1>7, <2>1, Upwards
<1>9. A[0] = B[0]
  <2>1. H \in G /\ H - H = 0
    BY <1>5, <1>8
  <2> QED BY <1>5, <2>1
<1> QED BY <1>4, <1>9

-----------------------------------------------------------------------------
SlotRootInv ==
    /\ \E k \in Nat : RootList(mine, k)
    /\ \E l \in Nat : RootList(theirs, l)

\* A listener's list gets one more root.
LEMMA ListExtended ==
    ASSUME NEW list, NEW k \in Nat, RootList(list, k), NEW longer \in extended(list)
    PROVE  RootList(longer, k + 1)
<1>1. PICK e \in SetRoots : e \notin Range(list) /\ longer = Append(list, e)
  BY DEF extended
<1>2. DOMAIN list = 1 .. k /\ Len(list) = k
  BY DEF RootList, Row
<1>3. \A m \in 1 .. k : list[m] # e
  BY <1>1, <1>2 DEF Range
<1>4. longer = [m \in 1 .. k + 1 |-> IF m = k + 1 THEN e ELSE list[m]]
  <2>1. longer = Append(list, e)
    BY <1>1
  <2>2. list \in Seq({list[m] : m \in 1 .. k})
    BY DEF RootList, Row
  <2>3. longer \in Seq({list[m] : m \in 1 .. k} \cup {e}) /\ Len(longer) = k + 1
    BY <1>2, <2>1, <2>2
  <2>4. longer[k + 1] = e /\ \A m \in 1 .. k : longer[m] = list[m]
    BY <1>2, <2>1, <2>2
  <2>5. longer = [m \in 1 .. k + 1 |-> longer[m]]
    BY <2>3
  <2>6. \A m \in 1 .. k + 1 : longer[m] = IF m = k + 1 THEN e ELSE list[m]
    BY <2>4
  <2> QED BY <2>5, <2>6
<1>5. Row(longer, k + 1)
  BY <1>4 DEF Row
<1>6. Different(longer, k + 1)
  <2> SUFFICES ASSUME NEW m \in 1 .. k + 1, NEW n \in 1 .. k + 1, longer[m] = longer[n]
               PROVE  m = n
    BY DEF Different
  <2>1. longer[m] = (IF m = k + 1 THEN e ELSE list[m]) /\ longer[n] = IF n = k + 1 THEN e ELSE list[n]
    BY <1>4
  <2>2. (m = k + 1 \/ m \in 1 .. k) /\ (n = k + 1 \/ n \in 1 .. k)
    OBVIOUS
  <2> QED BY <1>3, <2>1, <2>2 DEF RootList, Different
<1> QED BY <1>5, <1>6 DEF RootList

\* Both listeners start without roots.
LEMMA SlotRootInitInv == SlotRootInit => SlotRootInv
<1> SUFFICES ASSUME SlotRootInit PROVE SlotRootInv
  OBVIOUS
<1>1. RootList(mine, 0) /\ RootList(theirs, 0)
  BY DEF SlotRootInit, RootList, Row, Different
<1> QED BY <1>1 DEF SlotRootInv

\* The lists stay lists of different roots.
LEMMA SlotRootNextInv == SlotRootInv /\ [SlotRootNext]_slot_root_vars => SlotRootInv'
<1> SUFFICES ASSUME SlotRootInv, [SlotRootNext]_slot_root_vars PROVE SlotRootInv'
  OBVIOUS
<1>1. PICK k \in Nat : RootList(mine, k)
  BY DEF SlotRootInv
<1>2. PICK l \in Nat : RootList(theirs, l)
  BY DEF SlotRootInv
<1>3. CASE mine' \in extended(mine) /\ UNCHANGED theirs
  <2>1. RootList(mine', k + 1) /\ RootList(theirs', l)
    BY <1>1, <1>2, <1>3, ListExtended
  <2> QED BY <2>1 DEF SlotRootInv
<1>4. CASE theirs' \in extended(theirs) /\ UNCHANGED mine
  <2>1. RootList(theirs', l + 1) /\ RootList(mine', k)
    BY <1>1, <1>2, <1>4, ListExtended
  <2> QED BY <2>1 DEF SlotRootInv
<1>5. CASE UNCHANGED slot_root_vars
  BY <1>5 DEF SlotRootInv, slot_root_vars
<1> QED BY <1>3, <1>4, <1>5 DEF SlotRootNext

\* Equal slot roots at equal heights come from equal lists.
LEMMA SlotRootInvBinding == SlotRootInv => SlotRootBinding
<1> SUFFICES ASSUME SlotRootInv, agree, height(mine) = height(theirs)
             PROVE  mine = theirs
  BY DEF SlotRootBinding
<1>1. PICK k \in Nat : RootList(mine, k)
  BY DEF SlotRootInv
<1>2. PICK l \in Nat : RootList(theirs, l)
  BY DEF SlotRootInv
<1>3. \A list : RootList(list, 0) => list = <<>>
  BY DEF RootList, Row
<1>4. k \in Nat \ {0} /\ l \in Nat \ {0}
  BY <1>1, <1>2, <1>3 DEF agree
<1>5. /\ aggregate_root(mine) = layers(mine)[height(mine)][1]
      /\ aggregate_root(theirs) = layers(theirs)[height(theirs)][1]
  BY <1>1, <1>2, <1>4, Tree DEF RootList
<1>6. layers(mine)[height(mine)][1] = layers(theirs)[height(theirs)][1]
  BY <1>5 DEF agree
<1> QED BY <1>1, <1>2, <1>4, <1>6, SameLeaves

(***************************************************************************)
(* What slot_root commits to, whatever hashes the FEC roots are: among     *)
(* lists whose ladders are of one height it determines the FEC roots and   *)
(* their order.                                                            *)
(***************************************************************************)
THEOREM Binding == SlotRootSpec => []SlotRootBinding
BY SlotRootInitInv, SlotRootNextInv, SlotRootInvBinding, PTL DEF SlotRootSpec

-----------------------------------------------------------------------------
(***************************************************************************)
(* The confidences.  The draws of k shreds are counted by Pascal's rule:   *)
(* multiplied by the k! orders they are drawn in they are the falling      *)
(* product of das_confidence.                                              *)
(***************************************************************************)

\* The recursion of the falling product.
LEMMA Falling ==
    ASSUME NEW m \in Int
    PROVE  /\ falling(m)[0] = 1
           /\ \A n \in Nat : falling(m)[n] \in Int /\ falling(m)[n + 1] = falling(m)[n] * (m - n)
<1> DEFINE rule == [n \in Nat |-> [x \in Int |-> x * (m - (n - 1))]]
           body(g) == [n \in Nat |-> IF n = 0 THEN 1 ELSE g[n - 1] * (m - (n - 1))]
           it == CHOOSE g : g = body(g)
<1>1. rule \in [Nat -> [Int -> Int]]
  <2>1. \A n \in Nat : \A x \in Int : x * (m - (n - 1)) \in Int
    OBVIOUS
  <2> QED BY <2>1
<1>2. \A n \in Nat : \A x \in Int : rule[n][x] = x * (m - (n - 1))
  OBVIOUS
<1> HIDE DEF rule
<1>3. PICK w \in [Nat -> Int] : Unrolls(w, 1, rule)
  <2>1. 1 \in Int
    OBVIOUS
  <2> QED BY <1>1, <2>1, Recursion
<1>4. w = body(w)
  <2>1. ASSUME NEW n \in Nat, n # 0 PROVE rule[n][w[n - 1]] = w[n - 1] * (m - (n - 1))
    <3>1. n - 1 \in Nat
      BY <2>1
    <3>2. w[n - 1] \in Int
      BY <3>1
    <3> QED BY <1>2, <3>2
  <2> QED BY <1>3, <2>1 DEF Unrolls
<1>5. it = body(it)
  <2> HIDE DEF body
  <2> QED BY <1>4
<1>6. falling(m) = it
  BY DEF falling
<1> HIDE DEF it
<1>7. it[0] = 1 /\ \A n \in Nat : it[n + 1] = it[n] * (m - n)
  <2>1. \A n \in Nat : n + 1 \in Nat /\ n + 1 # 0 /\ (n + 1) - 1 = n
    OBVIOUS
  <2> QED BY <1>5, <2>1
<1> DEFINE G == {n \in Nat : it[n] \in Int}
<1>8. 0 \in G
  BY <1>7
<1>9. ASSUME NEW n \in Nat, n \in G PROVE n + 1 \in G
  <2>1. it[n] \in Int
    BY <1>9
  <2>2. it[n] * (m - n) \in Int
    BY <2>1
  <2> QED BY <1>7, <2>2
<1>10. G \subseteq Nat
  OBVIOUS
<1>11. \A n \in Nat : n \in G
  <2> HIDE DEF G
  <2> QED BY <1>8, <1>9, <1>10, Upwards
<1> QED BY <1>6, <1>7, <1>11

\* Multiplication is associative.
LEMMA Assoc == ASSUME NEW a \in Int, NEW b \in Int, NEW c \in Int PROVE (a * b) * c = a * (b * c)
OBVIOUS

\* One more factor in front.
LEMMA FallingFront ==
    ASSUME NEW m \in Int
    PROVE  \A k \in Nat : falling(m + 1)[k + 1] = (m + 1) * falling(m)[k]
<1> DEFINE A == falling(m + 1)
           B == falling(m)
           G == {k \in Nat : A[k + 1] = (m + 1) * B[k]}
<1>1. m + 1 \in Int
  OBVIOUS
<1>2. A[0] = 1 /\ \A n \in Nat : A[n] \in Int /\ A[n + 1] = A[n] * ((m + 1) - n)
  BY <1>1, Falling
<1>3. B[0] = 1 /\ \A n \in Nat : B[n] \in Int /\ B[n + 1] = B[n] * (m - n)
  BY Falling
<1> HIDE DEF A, B
<1>4. 0 \in G
  <2>1. A[0 + 1] = A[0] * ((m + 1) - 0)
    BY <1>2
  <2> QED BY <1>2, <1>3, <2>1
<1>5. ASSUME NEW k \in Nat, k \in G PROVE k + 1 \in G
  <2>1. A[(k + 1) + 1] = A[k + 1] * ((m + 1) - (k + 1)) /\ B[k + 1] = B[k] * (m - k)
    BY <1>2, <1>3
  <2>2. A[k + 1] = (m + 1) * B[k] /\ (m + 1) - (k + 1) = m - k
    BY <1>5
  <2>3. ((m + 1) * B[k]) * (m - k) = (m + 1) * (B[k] * (m - k))
    BY <1>3, Assoc
  <2>4. A[(k + 1) + 1] = (m + 1) * B[k + 1]
    BY <2>1, <2>2, <2>3
  <2> QED BY <2>4
<1>6. G \subseteq Nat
  OBVIOUS
<1>7. \A n \in Nat : n \in G
  <2> HIDE DEF G
  <2> QED BY <1>4, <1>5, <1>6, Upwards
<1> QED BY <1>7 DEF A, B

\* The draws of k + 1 out of m + 1 leave the last out, or take it and k others.
LEMMA Pascal ==
    ASSUME NEW m \in Nat, NEW k \in Nat,
           IsFiniteSet(kSubset(k, 1 .. m)), IsFiniteSet(kSubset(k + 1, 1 .. m))
    PROVE  /\ IsFiniteSet(kSubset(k + 1, 1 .. m + 1))
           /\ Cardinality(kSubset(k + 1, 1 .. m + 1))
                = Cardinality(kSubset(k, 1 .. m)) + Cardinality(kSubset(k + 1, 1 .. m))
<1> DEFINE e == m + 1
           S == kSubset(k, 1 .. m)
           T == kSubset(k + 1, 1 .. m)
           U == kSubset(k + 1, 1 .. m + 1)
           with(s) == s \cup {e}
           X == {with(s) : s \in S}
           f == [s \in S |-> with(s)]
<1>1. \A s \in SUBSET (1 .. m + 1) : IsFiniteSet(s)
  <2>1. IsFiniteSet(1 .. m + 1)
    BY FS_Interval
  <2> QED BY <2>1, FS_Subset
<1>2. e \notin 1 .. m /\ 1 .. m + 1 = (1 .. m) \cup {e}
  OBVIOUS
<1>3. \A s \in SUBSET (1 .. m) : e \notin s /\ with(s) \in SUBSET (1 .. m + 1)
                                 /\ Cardinality(with(s)) = Cardinality(s) + 1
  <2> SUFFICES ASSUME NEW s \in SUBSET (1 .. m)
               PROVE  e \notin s /\ with(s) \in SUBSET (1 .. m + 1)
                      /\ Cardinality(with(s)) = Cardinality(s) + 1
    OBVIOUS
  <2>1. e \notin s /\ with(s) \in SUBSET (1 .. m + 1) /\ s \in SUBSET (1 .. m + 1)
    BY <1>2
  <2>2. IsFiniteSet(s)
    BY <1>1, <2>1
  <2> QED BY <2>1, <2>2, FS_AddElement
<1>4. X \subseteq U
  <2> SUFFICES ASSUME NEW s \in S PROVE with(s) \in U
    OBVIOUS
  <2>1. s \in SUBSET (1 .. m) /\ Cardinality(s) = k
    BY DEF kSubset
  <2>2. with(s) \in SUBSET (1 .. m + 1) /\ Cardinality(with(s)) = k + 1
    BY <1>3, <2>1
  <2> HIDE DEF with
  <2> QED BY <2>2 DEF kSubset
<1>5. T \subseteq U
  BY <1>2 DEF kSubset
<1>6. U \subseteq T \cup X
  <2> SUFFICES ASSUME NEW u \in U, u \notin T PROVE u \in X
    OBVIOUS
  <2>1. u \in SUBSET (1 .. m + 1) /\ Cardinality(u) = k + 1 /\ IsFiniteSet(u)
    BY <1>1 DEF kSubset
  <2>2. e \in u
    BY <1>2, <2>1 DEF kSubset
  <2> DEFINE s == u \ {e}
  <2>3. s \in SUBSET (1 .. m) /\ u = with(s)
    BY <1>2, <2>1, <2>2
  <2>4. Cardinality(s) = k
    <3>1. Cardinality(u \ {e}) = Cardinality(u) - 1
      BY <2>1, <2>2, FS_RemoveElement
    <3> QED BY <2>1, <3>1
  <2>5. s \in S
    BY <2>3, <2>4 DEF kSubset
  <2> HIDE DEF s, with
  <2> QED BY <2>3, <2>5
<1>7. U = T \cup X
  BY <1>4, <1>5, <1>6
<1>8. T \cap X = {}
  <2> SUFFICES ASSUME NEW s \in S, with(s) \in T PROVE FALSE
    OBVIOUS
  <2>1. with(s) \in SUBSET (1 .. m)
    BY DEF kSubset
  <2>2. e \in with(s)
    OBVIOUS
  <2> QED BY <1>2, <2>1, <2>2
<1>9. IsFiniteSet(X) /\ Cardinality(X) = Cardinality(S)
  <2>1. f \in [S -> X] /\ \A x \in X : \E s \in S : f[s] = x
    OBVIOUS
  <2>2. ASSUME NEW s \in S, NEW t \in S, f[s] = f[t] PROVE s = t
    <3>1. s \in SUBSET (1 .. m) /\ t \in SUBSET (1 .. m)
      BY DEF kSubset
    <3>2. e \notin s /\ e \notin t
      BY <1>3, <3>1
    <3>3. s \cup {e} = t \cup {e}
      BY <2>2
    <3> QED BY <3>2, <3>3
  <2> HIDE DEF f, X, S
  <2>3. f \in Bijection(S, X)
    BY <2>1, <2>2 DEF Bijection, Injection, Surjection, IsInjective
  <2>4. ExistsBijection(S, X)
    BY <2>3 DEF ExistsBijection
  <2>5. IsFiniteSet(S)
    BY DEF S
  <2> QED BY <2>4, <2>5, FS_Bijection
<1> HIDE DEF S, T, U, X
<1>10. IsFiniteSet(S) /\ IsFiniteSet(T)
  BY DEF S, T
<1>11. IsFiniteSet(U) /\ Cardinality(U) = Cardinality(T) + Cardinality(X) - Cardinality(T \cap X)
  BY <1>7, <1>9, <1>10, FS_Union
<1>12. Cardinality(T \cap X) = 0
  BY <1>8, FS_EmptySet
<1>13. Cardinality(S) \in Nat /\ Cardinality(T) \in Nat
  BY <1>10, FS_CardinalityType
<1>14. IsFiniteSet(U) /\ Cardinality(U) = Cardinality(S) + Cardinality(T)
  BY <1>9, <1>11, <1>12, <1>13
<1> QED BY <1>14 DEF S, T, U

\* The draws of no shred, and the draws out of none.
LEMMA NoDraws ==
    /\ \A m \in Nat : IsFiniteSet(kSubset(0, 1 .. m)) /\ Cardinality(kSubset(0, 1 .. m)) = 1
    /\ \A k \in Nat : IsFiniteSet(kSubset(k + 1, 1 .. 0)) /\ Cardinality(kSubset(k + 1, 1 .. 0)) = 0
<1>1. ASSUME NEW m \in Nat
      PROVE  IsFiniteSet(kSubset(0, 1 .. m)) /\ Cardinality(kSubset(0, 1 .. m)) = 1
  <2>1. \A s \in SUBSET (1 .. m) : Cardinality(s) = 0 <=> s = {}
    <3>1. IsFiniteSet(1 .. m)
      BY FS_Interval
    <3> QED BY <3>1, FS_Subset, FS_EmptySet
  <2>2. kSubset(0, 1 .. m) = {{}}
    BY <2>1 DEF kSubset
  <2> QED BY <2>2, FS_Singleton
<1>2. ASSUME NEW k \in Nat
      PROVE  IsFiniteSet(kSubset(k + 1, 1 .. 0)) /\ Cardinality(kSubset(k + 1, 1 .. 0)) = 0
  <2>1. \A s \in SUBSET (1 .. 0) : s = {}
    OBVIOUS
  <2>2. kSubset(k + 1, 1 .. 0) = {}
    BY <2>1, FS_EmptySet DEF kSubset
  <2> QED BY <2>2, FS_EmptySet
<1> QED BY <1>1, <1>2

\* k!, the orders in which k shreds are drawn.
orders(k) == falling(k)[k]

\* k! is a product.
LEMMA Orders ==
    /\ orders(0) = 1
    /\ \A k \in Nat : orders(k) \in Int /\ orders(k + 1) = (k + 1) * orders(k)
BY Falling, FallingFront DEF orders

\* The arithmetic of one step of Pascal's triangle.
LEMMA PascalStep ==
    ASSUME NEW m \in Int, NEW k \in Int, NEW c \in Int, NEW d \in Int, NEW o \in Int, NEW b \in Int,
           c * o = b, d * ((k + 1) * o) = b * (m - k)
    PROVE  (c + d) * ((k + 1) * o) = (m + 1) * b
<1> DEFINE p == (k + 1) * o
<1>1. p \in Int /\ (c + d) * p = c * p + d * p
  OBVIOUS
<1>2. c * p = (k + 1) * (c * o)
  OBVIOUS
<1>3. c * p = (k + 1) * b
  BY <1>2
<1>4. d * p = b * (m - k)
  OBVIOUS
<1>5. (k + 1) * b + b * (m - k) = (m + 1) * b
  OBVIOUS
<1> HIDE DEF p
<1>6. (c + d) * p = (m + 1) * b
  BY <1>1, <1>3, <1>4, <1>5
<1> QED BY <1>6 DEF p

\* How many draws of k out of m there are.
LEMMA Drawings ==
    \A m \in Nat : \A k \in Nat :
        /\ IsFiniteSet(kSubset(k, 1 .. m))
        /\ Cardinality(kSubset(k, 1 .. m)) * orders(k) = falling(m)[k]
<1> DEFINE fine(m, k) == /\ IsFiniteSet(kSubset(k, 1 .. m))
                         /\ Cardinality(kSubset(k, 1 .. m)) * orders(k) = falling(m)[k]
           G == {m \in Nat : \A k \in Nat : fine(m, k)}
<1>1. ASSUME NEW m \in Nat PROVE fine(m, 0)
  <2>1. m \in Int /\ 1 * 1 = 1
    OBVIOUS
  <2>2. falling(m)[0] = 1
    BY <2>1, Falling
  <2> QED BY <2>1, <2>2, NoDraws, Orders
<1>2. \A k \in Nat : k = 0 \/ \E l \in Nat : k = l + 1
  <2> SUFFICES ASSUME NEW k \in Nat, k # 0 PROVE \E l \in Nat : k = l + 1
    OBVIOUS
  <2>1. k - 1 \in Nat /\ k = (k - 1) + 1
    OBVIOUS
  <2> QED BY <2>1
<1>3. 0 \in G
  <2>1. ASSUME NEW k \in Nat PROVE fine(0, k + 1)
    <3>1. falling(0)[k + 1] = 0
      <4> DEFINE H == {n \in Nat : falling(0)[n + 1] = 0}
      <4>1. 0 \in H
        <5>1. falling(0)[0] = 1 /\ falling(0)[0 + 1] = falling(0)[0] * (0 - 0)
          BY Falling
        <5> QED BY <5>1
      <4>2. ASSUME NEW n \in Nat, n \in H PROVE n + 1 \in H
        <5>1. falling(0)[(n + 1) + 1] = falling(0)[n + 1] * (0 - (n + 1))
          BY Falling
        <5>2. falling(0)[n + 1] = 0
          BY <4>2
        <5> QED BY <5>1, <5>2
      <4>3. H \subseteq Nat
        OBVIOUS
      <4>4. k \in H
        <5> HIDE DEF H
        <5> QED BY <4>1, <4>2, <4>3, Upwards
      <4> QED BY <4>4
    <3>2. orders(k + 1) \in Int
      BY Orders
    <3>3. 0 * orders(k + 1) = 0
      BY <3>2
    <3> QED BY <3>1, <3>3, NoDraws
  <2> HIDE DEF fine
  <2>2. \A k \in Nat : fine(0, k)
    BY <1>1, <1>2, <2>1
  <2> QED BY <2>2
<1>4. ASSUME NEW m \in Nat, m \in G PROVE m + 1 \in G
  <2>1. \A k \in Nat : fine(m, k)
    BY <1>4
  <2>2. ASSUME NEW k \in Nat PROVE fine(m + 1, k + 1)
    <3> DEFINE c == Cardinality(kSubset(k, 1 .. m))
               d == Cardinality(kSubset(k + 1, 1 .. m))
               e == Cardinality(kSubset(k + 1, 1 .. m + 1))
               b == falling(m)[k]
               o == orders(k)
    <3>1. IsFiniteSet(kSubset(k, 1 .. m)) /\ IsFiniteSet(kSubset(k + 1, 1 .. m))
      BY <2>1
    <3>2. IsFiniteSet(kSubset(k + 1, 1 .. m + 1)) /\ e = c + d
      BY <3>1, Pascal
    <3>3. c \in Int /\ d \in Int
      BY <3>1, FS_CardinalityType
    <3>4. c * o = b /\ d * orders(k + 1) = falling(m)[k + 1]
      BY <2>1
    <3>5. o \in Int /\ orders(k + 1) = (k + 1) * o
      BY Orders
    <3>6. b \in Int /\ falling(m)[k + 1] = b * (m - k)
      BY Falling
    <3>7. falling(m + 1)[k + 1] = (m + 1) * b
      BY FallingFront
    <3> HIDE DEF b, c, d, o
    <3>8. (c + d) * ((k + 1) * o) = (m + 1) * b
      BY <3>3, <3>4, <3>5, <3>6, PascalStep
    <3> QED BY <3>2, <3>5, <3>7, <3>8
  <2> HIDE DEF fine
  <2>3. \A k \in Nat : fine(m + 1, k)
    <3>1. m + 1 \in Nat
      OBVIOUS
    <3> QED BY <1>1, <1>2, <2>2, <3>1
  <2> QED BY <2>3
<1>5. G \subseteq Nat
  OBVIOUS
<1>6. \A m \in Nat : m \in G
  <2> HIDE DEF G
  <2> QED BY <1>3, <1>4, <1>5, Upwards
<1> QED BY <1>6

-----------------------------------------------------------------------------
\* One set: what its confidence leaves out is the share of the blind draws.
DrawnInv == drawn \in [FecSets -> SUBSET Shreds]

LEMMA OneSet ==
    ASSUME DrawnInv, NEW f \in FecSets
    PROVE  LET c == confidence(f)
               a == Cardinality(draws(f))
               b == Cardinality(unnoticed(f))
           IN  /\ c[1] \in Int /\ c[2] \in Int /\ a \in Int /\ b \in Int
               /\ (c[2] - c[1]) * a = c[2] * b
<1> DEFINE n == Cardinality(drawn[f])
           a == Cardinality(draws(f))
           b == Cardinality(unnoticed(f))
           T == falling(Total)[n]
           P == falling(Threshold - 1)[n]
           o == orders(n)
<1>1. n \in Nat
  <2>1. IsFiniteSet(Shreds)
    BY FS_Interval, ThresholdAssumption DEF Shreds
  <2>2. drawn[f] \in SUBSET Shreds
    BY DEF DrawnInv
  <2> QED BY <2>1, <2>2, FS_Subset, FS_CardinalityType
<1>2. Total \in Nat /\ Threshold - 1 \in Nat /\ Threshold \in Nat
  BY ThresholdAssumption
<1>3. draws(f) = kSubset(n, 1 .. Total)
  BY DEF draws, Shreds
<1>4. unnoticed(f) = kSubset(n, 1 .. Threshold - 1)
  <2>1. 1 .. Threshold - 1 \subseteq 1 .. Total
    BY ThresholdAssumption
  <2>2. unnoticed(f) = {s \in kSubset(n, 1 .. Total) : s \subseteq 1 .. Threshold - 1}
    BY <1>3 DEF unnoticed, Published
  <2> HIDE DEF n
  <2> QED BY <2>1, <2>2 DEF kSubset
<1>5. a \in Int /\ b \in Int /\ a * o = T /\ b * o = P
  <2>1. IsFiniteSet(draws(f)) /\ a * o = T
    BY <1>1, <1>2, <1>3, Drawings
  <2>2. IsFiniteSet(unnoticed(f)) /\ b * o = P
    BY <1>1, <1>2, <1>4, Drawings
  <2> QED BY <2>1, <2>2, FS_CardinalityType
<1>6. o \in Int /\ T \in Int /\ P \in Int
  <2>1. o \in Int
    BY <1>1, Orders
  <2>2. Total \in Int /\ Threshold - 1 \in Int
    BY <1>2
  <2> HIDE DEF n
  <2>3. T \in Int /\ P \in Int
    BY <1>1, <2>2, Falling
  <2> QED BY <2>1, <2>3
<1>7. CASE n >= Threshold
  <2>1. confidence(f) = <<1, 1>>
    BY <1>7 DEF confidence, DasConfidence
  <2>2. unnoticed(f) = {}
    <3>1. \A s \in SUBSET (1 .. Threshold - 1) : Cardinality(s) # n
      <4>1. IsFiniteSet(1 .. Threshold - 1) /\ Cardinality(1 .. Threshold - 1) = Threshold - 1
        BY <1>2, FS_Interval
      <4>2. ASSUME NEW s \in SUBSET (1 .. Threshold - 1) PROVE Cardinality(s) # n
        <5>1. IsFiniteSet(s) /\ Cardinality(s) <= Threshold - 1
          BY <4>1, FS_Subset
        <5>2. Cardinality(s) \in Nat
          BY <5>1, FS_CardinalityType
        <5> QED BY <1>1, <1>2, <1>7, <5>1, <5>2
      <4> QED BY <4>2
    <3> QED BY <1>4, <3>1 DEF kSubset
  <2>3. b = 0
    BY <2>2, FS_EmptySet
  <2> HIDE DEF a, b
  <2>4. (1 - 1) * a = 1 * b
    BY <1>5, <2>3
  <2> QED BY <1>5, <2>1, <2>4 DEF a, b
<1>8. CASE ~(n >= Threshold)
  <2>1. confidence(f) = <<T - P, T>>
    BY <1>8 DEF confidence, DasConfidence
  <2> HIDE DEF a, b, T, P, o
  <2>2. (T - (T - P)) * a = T * b
    <3>1. T - (T - P) = P
      BY <1>6
    <3>2. (b * o) * a = (a * o) * b
      BY <1>5, <1>6
    <3> QED BY <1>5, <3>1, <3>2
  <2>3. T - P \in Int
    BY <1>6
  <2> QED BY <1>5, <1>6, <2>1, <2>2, <2>3 DEF a, b
<1> QED BY <1>7, <1>8

-----------------------------------------------------------------------------
(***************************************************************************)
(* Products over the sets.  All folds take the members of a set in the     *)
(* same order, so they can be compared factor by factor.                   *)
(***************************************************************************)
member(s) == CHOOSE x \in s : TRUE

\* w[s] is the product of h over s.
Multiplies(w, F, h) ==
    w = [s \in SUBSET F |-> IF s = {} THEN 1 ELSE h[member(s)] * w[s \ {member(s)}]]

\* Taking a member out of a set.
LEMMA Taken ==
    ASSUME NEW F, IsFiniteSet(F), NEW s \in SUBSET F
    PROVE  /\ Cardinality(s) \in Nat
           /\ s = {} <=> Cardinality(s) = 0
           /\ s # {} => /\ member(s) \in F
                        /\ s \ {member(s)} \in SUBSET F
                        /\ Cardinality(s \ {member(s)}) = Cardinality(s) - 1
<1>1. IsFiniteSet(s)
  BY FS_Subset
<1>2. Cardinality(s) \in Nat /\ (s = {} <=> Cardinality(s) = 0)
  BY <1>1, FS_CardinalityType, FS_EmptySet
<1>3. ASSUME s # {} PROVE member(s) \in s
  BY <1>3 DEF member
<1> QED BY <1>1, <1>2, <1>3, FS_RemoveElement

\* What holds of the empty set, and of a set if it holds without one member.
LEMMA MemberByMember ==
    ASSUME NEW F, IsFiniteSet(F), NEW G, {} \in G,
           \A s \in SUBSET F : s # {} /\ s \ {member(s)} \in G => s \in G
    PROVE  \A s \in SUBSET F : s \in G
<1> DEFINE N == {n \in Nat : \A s \in SUBSET F : Cardinality(s) = n => s \in G}
<1>1. 0 \in N
  BY Taken
<1>2. ASSUME NEW n \in Nat, n \in N PROVE n + 1 \in N
  <2> SUFFICES ASSUME NEW s \in SUBSET F, Cardinality(s) = n + 1 PROVE s \in G
    OBVIOUS
  <2>1. s # {} /\ s \ {member(s)} \in SUBSET F /\ Cardinality(s \ {member(s)}) = n
    BY Taken
  <2>2. s \ {member(s)} \in G
    BY <1>2, <2>1
  <2> QED BY <2>1, <2>2
<1>3. N \subseteq Nat
  OBVIOUS
<1>4. \A n \in Nat : n \in N
  <2> HIDE DEF N
  <2> QED BY <1>1, <1>2, <1>3, Upwards
<1>5. ASSUME NEW s \in SUBSET F PROVE s \in G
  <2>1. Cardinality(s) \in Nat
    BY Taken
  <2>2. Cardinality(s) \in N
    BY <1>4, <2>1
  <2> QED BY <2>2
<1> QED BY <1>5

\* There is a product, over a finite set of factors.
LEMMA ProductExists ==
    ASSUME NEW F, IsFiniteSet(F), NEW h \in [F -> Int]
    PROVE  \E w : Multiplies(w, F, h)
<1> DEFINE V == [SUBSET F -> Int]
           v == [s \in SUBSET F |-> 1]
           next(u) == [s \in SUBSET F |-> IF s = {} THEN 1 ELSE h[member(s)] * u[s \ {member(s)}]]
           rule == [n \in Nat |-> [u \in V |-> next(u)]]
<1>1. v \in V
  OBVIOUS
<1>2. ASSUME NEW u \in V PROVE next(u) \in V
  <2>1. ASSUME NEW s \in SUBSET F, s # {} PROVE h[member(s)] * u[s \ {member(s)}] \in Int
    <3>1. member(s) \in F /\ s \ {member(s)} \in SUBSET F
      BY <2>1, Taken
    <3>2. h[member(s)] \in Int /\ u[s \ {member(s)}] \in Int
      BY <3>1
    <3> QED BY <3>2
  <2> QED BY <2>1
<1> HIDE DEF next
<1>3. rule \in [Nat -> [V -> V]] /\ \A n \in Nat : \A u \in V : rule[n][u] = next(u)
  <2> HIDE DEF V
  <2> QED BY <1>2
<1> HIDE DEF rule, v
<1>4. PICK a \in [Nat -> V] : Unrolls(a, v, rule)
  <2> HIDE DEF V
  <2> QED BY <1>1, <1>3, Recursion
<1>5. ASSUME NEW n \in Nat PROVE a[n + 1] = next(a[n])
  <2>1. n + 1 \in Nat /\ n + 1 # 0 /\ (n + 1) - 1 = n
    OBVIOUS
  <2>2. a[n + 1] = rule[n + 1][a[n]]
    BY <1>4, <2>1 DEF Unrolls
  <2>3. a[n] \in V
    OBVIOUS
  <2> HIDE DEF V
  <2> QED BY <1>3, <2>1, <2>2, <2>3
<1> DEFINE w == [s \in SUBSET F |-> IF s = {} THEN 1 ELSE a[Cardinality(s)][s]]
<1>6. a[0] = v
  BY <1>4 DEF Unrolls
<1>7. ASSUME NEW s \in SUBSET F, s # {}
      PROVE  w[s] = h[member(s)] * w[s \ {member(s)}]
  <2> DEFINE r == s \ {member(s)}
             n == Cardinality(r)
  <2>1. r \in SUBSET F /\ n \in Nat /\ Cardinality(s) = n + 1 /\ (r = {} <=> n = 0)
    <3>1. Cardinality(s) \in Nat /\ Cardinality(s) # 0 /\ r \in SUBSET F /\ n = Cardinality(s) - 1
      BY <1>7, Taken
    <3>2. r = {} <=> n = 0
      <4> HIDE DEF r
      <4> QED BY <3>1, Taken
    <3> QED BY <3>1, <3>2
  <2>2. w[s] = a[n + 1][s]
    BY <1>7, <2>1
  <2>3. a[n + 1][s] = h[member(s)] * a[n][r]
    BY <1>5, <1>7, <2>1 DEF next
  <2>4. a[n][r] = w[r]
    <3> HIDE DEF r
    <3>1. CASE r = {}
      BY <1>6, <2>1, <3>1 DEF v
    <3>2. CASE r # {}
      BY <2>1, <3>2
    <3> QED BY <3>1, <3>2
  <2> QED BY <2>2, <2>3, <2>4
<1>8. w[{}] = 1
  OBVIOUS
<1>9. w = [s \in SUBSET F |-> w[s]]
  OBVIOUS
<1> HIDE DEF w
<1>10. Multiplies(w, F, h)
  BY <1>7, <1>8, <1>9 DEF Multiplies
<1> QED BY <1>10

\* u is to d as b is to a.
InProportion(u, d, a, b) == u \in Int /\ d \in Int /\ a \in Int /\ b \in Int /\ u * a = d * b

\* The arithmetic of one more set.
LEMMA OneMore ==
    ASSUME NEW u, NEW d, NEW a, NEW b, InProportion(u, d, a, b),
           NEW p, NEW q, NEW x, NEW y, InProportion(p, q, x, y)
    PROVE  InProportion(u * p, d * q, a * x, b * y)
<1>1. u \in Int /\ d \in Int /\ a \in Int /\ b \in Int /\ u * a = d * b
  BY DEF InProportion
<1>2. p \in Int /\ q \in Int /\ x \in Int /\ y \in Int /\ p * x = q * y
  BY DEF InProportion
<1>3. (u * p) * (a * x) = (u * a) * (p * x)
  BY <1>1, <1>2
<1>4. (d * q) * (b * y) = (d * b) * (q * y)
  BY <1>1, <1>2
<1>5. u * p \in Int /\ d * q \in Int /\ a * x \in Int /\ b * y \in Int
  BY <1>1, <1>2
<1>6. (u * p) * (a * x) = (d * q) * (b * y)
  BY <1>1, <1>2, <1>3, <1>4
<1> QED BY <1>5, <1>6 DEF InProportion

\* What is left out is what is blind, so what is kept is what notices.
LEMMA Complement ==
    ASSUME NEW u, NEW d, NEW a, NEW b, InProportion(u, d, a, b)
    PROVE  (d - u) * a = d * (a - b)
<1>1. u \in Int /\ d \in Int /\ a \in Int /\ b \in Int /\ u * a = d * b
  BY DEF InProportion
<1>2. (d - u) * a = d * a - u * a /\ d * (a - b) = d * a - d * b
  BY <1>1
<1> QED BY <1>1, <1>2

\* The factors of four products, and the products.
Factors(F, u, d, a, b) == \A f \in F : InProportion(u[f], d[f], a[f], b[f])

Products(F, u, d, a, b, U, D, A, B) ==
    /\ Multiplies(U, F, u) /\ Multiplies(D, F, d)
    /\ Multiplies(A, F, a) /\ Multiplies(B, F, b)

\* Products whose factors are in proportion are in proportion.
LEMMA Proportion ==
    ASSUME NEW F, IsFiniteSet(F), NEW u, NEW d, NEW a, NEW b, Factors(F, u, d, a, b),
           NEW U, NEW D, NEW A, NEW B, Products(F, u, d, a, b, U, D, A, B)
    PROVE  InProportion(U[F], D[F], A[F], B[F])
<1> DEFINE G == {s \in SUBSET F : InProportion(U[s], D[s], A[s], B[s])}
<1>1. {} \in G
  <2>1. U[{}] = 1 /\ D[{}] = 1 /\ A[{}] = 1 /\ B[{}] = 1
    BY DEF Products, Multiplies
  <2> QED BY <2>1 DEF InProportion
<1>2. ASSUME NEW s \in SUBSET F, s # {}, s \ {member(s)} \in G PROVE s \in G
  <2> DEFINE f == member(s)
             r == s \ {f}
  <2>1. InProportion(u[f], d[f], a[f], b[f])
    BY <1>2, Taken DEF Factors
  <2>2. \A w, h : Multiplies(w, F, h) => w[s] = h[f] * w[r]
    <3> SUFFICES ASSUME NEW w, NEW h, Multiplies(w, F, h) PROVE w[s] = h[f] * w[r]
      OBVIOUS
    <3> QED BY <1>2 DEF Multiplies
  <2>3. InProportion(U[r], D[r], A[r], B[r])
    BY <1>2
  <2> HIDE DEF f, r
  <2>4. U[s] = u[f] * U[r] /\ D[s] = d[f] * D[r] /\ A[s] = a[f] * A[r] /\ B[s] = b[f] * B[r]
    BY <2>2 DEF Products
  <2>5. InProportion(u[f] * U[r], d[f] * D[r], a[f] * A[r], b[f] * B[r])
    BY <2>1, <2>3, OneMore
  <2> QED BY <2>4, <2>5
<1>3. F \in G
  <2>1. F \in SUBSET F
    OBVIOUS
  <2> HIDE DEF G
  <2> QED BY <1>1, <1>2, <2>1, MemberByMember
<1> QED BY <1>3

\* The folds are such products.
LEMMA Product ==
    ASSUME NEW F, IsFiniteSet(F), NEW h \in [F -> Int]
    PROVE  \E w : /\ Multiplies(w, F, h)
                  /\ FoldFunction(LAMBDA n, acc : n * acc, 1, h) = w[F]
<1> DEFINE body(g) == [s \in SUBSET F |-> IF s = {} THEN 1
                         ELSE h[CHOOSE x \in s : TRUE] * g[s \ {CHOOSE x \in s : TRUE}]]
           it == CHOOSE g : g = body(g)
<1>1. FoldFunction(LAMBDA n, acc : n * acc, 1, h) = it[F]
  <2>1. DOMAIN h = F
    OBVIOUS
  <2> QED BY <2>1 DEF FoldFunction, FoldFunctionOnSet, MapThenFoldSet
<1>2. \A g : Multiplies(g, F, h) <=> g = body(g)
  BY DEF Multiplies, member
<1> HIDE DEF body
<1>3. it = body(it)
  BY <1>2, ProductExists
<1> HIDE DEF it
<1> QED BY <1>1, <1>2, <1>3

\* The terms of the slot's confidence over the confidences c of its sets.
Shares(F, c, u, d) ==
    /\ c = [f \in F |-> c[f]]
    /\ u \in [F -> Int] /\ d \in [F -> Int]
    /\ \A f \in F : u[f] = c[f][2] - c[f][1] /\ d[f] = c[f][2]

\* The slot's confidence is made of two such products.
LEMMA SlotProducts ==
    ASSUME NEW F, IsFiniteSet(F), NEW c, NEW u, NEW d, Shares(F, c, u, d)
    PROVE  \E w, x : /\ Multiplies(w, F, u) /\ Multiplies(x, F, d)
                     /\ SlotDasConfidence(c) = <<x[F] - w[F], x[F]>>
<1>0. /\ c = [f \in F |-> c[f]]
      /\ u \in [F -> Int] /\ d \in [F -> Int]
      /\ \A f \in F : u[f] = c[f][2] - c[f][1] /\ d[f] = c[f][2]
  BY DEF Shares
<1> DEFINE some(s) == CHOOSE x \in s : TRUE
           missed(g) == [s \in SUBSET F |-> IF s = {} THEN 1
                           ELSE (c[some(s)][2] - c[some(s)][1]) * g[s \ {some(s)}]]
           whole(g) == [s \in SUBSET F |-> IF s = {} THEN 1 ELSE c[some(s)][2] * g[s \ {some(s)}]]
           w == CHOOSE g : g = missed(g)
           x == CHOOSE g : g = whole(g)
<1>1. SlotDasConfidence(c) = <<x[F] - w[F], x[F]>>
  <2>1. DOMAIN c = F
    BY <1>0
  <2> QED BY <2>1 DEF SlotDasConfidence, FoldFunction, FoldFunctionOnSet, MapThenFoldSet
<1>2. \A s \in SUBSET F : s # {} => some(s) \in F
  OBVIOUS
<1>3. \A g : Multiplies(g, F, u) <=> g = missed(g)
  <2>1. \A g : missed(g) = [s \in SUBSET F |-> IF s = {} THEN 1 ELSE u[some(s)] * g[s \ {some(s)}]]
    <3> HIDE DEF some
    <3> QED BY <1>0, <1>2
  <2> HIDE DEF missed
  <2> QED BY <2>1 DEF Multiplies, member
<1>4. \A g : Multiplies(g, F, d) <=> g = whole(g)
  <2>1. \A g : whole(g) = [s \in SUBSET F |-> IF s = {} THEN 1 ELSE d[some(s)] * g[s \ {some(s)}]]
    <3> HIDE DEF some
    <3> QED BY <1>0, <1>2
  <2> HIDE DEF whole
  <2> QED BY <2>1 DEF Multiplies, member
<1> HIDE DEF missed, whole
<1>5. w = missed(w)
  BY <1>0, <1>3, ProductExists
<1>6. x = whole(x)
  BY <1>0, <1>4, ProductExists
<1> HIDE DEF w, x
<1> QED BY <1>1, <1>3, <1>4, <1>5, <1>6

\* Nothing is drawn at first.
LEMMA DrawnInitInv == SamplingInit => DrawnInv
BY DEF SamplingInit, DrawnInv

\* Only shreds of the set are drawn.
LEMMA DrawnNextInv == DrawnInv /\ [SamplingNext]_drawn => DrawnInv'
<1> SUFFICES ASSUME DrawnInv, [SamplingNext]_drawn PROVE DrawnInv'
  OBVIOUS
<1>1. CASE SamplingNext
  <2>1. PICK f \in FecSets, k \in Shreds : Draw(f, k)
    BY <1>1 DEF SamplingNext
  <2> QED BY <2>1 DEF Draw, DrawnInv
<1>2. CASE UNCHANGED drawn
  BY <1>2 DEF DrawnInv
<1> QED BY <1>1, <1>2

\* The confidences are exact whatever was drawn.
LEMMA DrawnInvExact == DrawnInv => ConfidenceIsExact
<1> SUFFICES ASSUME DrawnInv, NEW F \in SUBSET FecSets
             PROVE  LET c     == SlotDasConfidence([f \in F |-> confidence(f)])
                        all   == FoldFunction(LAMBDA n, acc : n * acc, 1, [f \in F |-> Cardinality(draws(f))])
                        blind == FoldFunction(LAMBDA n, acc : n * acc, 1, [f \in F |-> Cardinality(unnoticed(f))])
                    IN  c[1] * all = c[2] * (all - blind)
  BY DEF ConfidenceIsExact
<1> DEFINE c == [f \in F |-> confidence(f)]
           u == [f \in F |-> confidence(f)[2] - confidence(f)[1]]
           d == [f \in F |-> confidence(f)[2]]
           a == [f \in F |-> Cardinality(draws(f))]
           b == [f \in F |-> Cardinality(unnoticed(f))]
<1>1. IsFiniteSet(F)
  BY FecSetsAssumption, FS_Subset
<1>2. \A f \in F : /\ confidence(f)[1] \in Int /\ confidence(f)[2] \in Int
                   /\ Cardinality(draws(f)) \in Int /\ Cardinality(unnoticed(f)) \in Int
                   /\ (confidence(f)[2] - confidence(f)[1]) * Cardinality(draws(f))
                        = confidence(f)[2] * Cardinality(unnoticed(f))
  BY OneSet
<1>3. a \in [F -> Int] /\ b \in [F -> Int]
  BY <1>2
<1>4. Factors(F, u, d, a, b)
  BY <1>2 DEF Factors, InProportion
<1>5. Shares(F, c, u, d)
  BY <1>2 DEF Shares
<1> HIDE DEF c, u, d, a, b
<1>6. PICK U, D : /\ Multiplies(U, F, u) /\ Multiplies(D, F, d)
                  /\ SlotDasConfidence(c) = <<D[F] - U[F], D[F]>>
  BY <1>1, <1>5, SlotProducts
<1>7. PICK A : Multiplies(A, F, a) /\ FoldFunction(LAMBDA n, acc : n * acc, 1, a) = A[F]
  BY <1>1, <1>3, Product
<1>8. PICK B : Multiplies(B, F, b) /\ FoldFunction(LAMBDA n, acc : n * acc, 1, b) = B[F]
  BY <1>1, <1>3, Product
<1>9. InProportion(U[F], D[F], A[F], B[F])
  <2>1. Products(F, u, d, a, b, U, D, A, B)
    BY <1>6, <1>7, <1>8 DEF Products
  <2> QED BY <1>1, <1>4, <2>1, Proportion
<1>10. (D[F] - U[F]) * A[F] = D[F] * (A[F] - B[F])
  BY <1>9, Complement
<1>11. /\ SlotDasConfidence(c)[1] = D[F] - U[F]
       /\ SlotDasConfidence(c)[2] = D[F]
  BY <1>6
<1>12. SlotDasConfidence(c)[1] * FoldFunction(LAMBDA n, acc : n * acc, 1, a)
         = SlotDasConfidence(c)[2]
             * (FoldFunction(LAMBDA n, acc : n * acc, 1, a) - FoldFunction(LAMBDA n, acc : n * acc, 1, b))
  BY <1>7, <1>8, <1>10, <1>11
<1> QED BY <1>12 DEF a, b, c

(***************************************************************************)
(* das_confidence and slot_das_confidence are the probabilities they say   *)
(* they are, for every threshold, every set size, every number of FEC sets *)
(* and whatever was drawn of each.                                         *)
(***************************************************************************)
THEOREM ExactConfidence == SamplingSpec => []ConfidenceIsExact
BY DrawnInitInv, DrawnNextInv, DrawnInvExact, PTL DEF SamplingSpec

=============================================================================
