----------------------------- MODULE BitPlanes -----------------------------
(* A tensor's way from eight-bit LUT indices through the offload file to the
   indices the recovery kernel looks up. The file holds three sections: the low
   four bits of each index, the middle two, the high two. A tier of 1 or 2 reads
   only the beginning of each chunk of it: every reader looks at the node's
   lut_tier for itself, while a caller may set it at any moment.

   What is modelled is a node of one tensor. The codec is the IdentityCompressor,
   which block-LUT chunks are stored with.                                     *)
EXTENDS Integers, FiniteSets

CONSTANTS N,          \* indices in the tensor
          NumChunks,  \* num_file_chunks
          WarpSize,   \* GPU threads that step together
          Weights,    \* tensors of indices to try
          Tiers,      \* tiers the node may have
          MaxSets     \* bound of the model: how often a caller sets the tier

Places == 0..(N - 1)

\* Without whole groups of four indices the packing raises.
ASSUME PlanesAssumption ==
  /\ N \in Nat /\ N % 4 = 0 /\ NumChunks \in Nat \ {0} /\ WarpSize \in Nat \ {0}
  /\ \A v \in Weights : v \in [Places -> 0..255]
  /\ Tiers \subseteq {0, 1, 2} /\ MaxSets \in Nat

Stale == 256   \* a byte that earlier reads left in a thread's buffer
Bytes == 0..256
Of(b, v) == IF b = Stale THEN Stale ELSE v
Nibble(b, j) == Of(b, IF j % 2 = 0 THEN b % 16 ELSE b \div 16)
Pair(b, j) == Of(b, (b \div 4^j) % 4)

\* split_and_extract_from_tensor: what the file holds of the indices w
PackedLow(w)  == [k \in 0..(N \div 2 - 1) |-> (w[2*k] % 16) + 16 * (w[2*k + 1] % 16)]
PackedPair(w, div) ==
  [k \in 0..(N \div 4 - 1) |-> LET P(j) == (w[4*k + j] \div div) % 4 IN
                               P(0) + 4 * P(1) + 16 * P(2) + 64 * P(3)]
PackedSwapped(w) ==   \* a bug: the two short sections change places
  [p \in Places |->
     IF p < N \div 2 THEN PackedLow(w)[p]
     ELSE IF p < N \div 2 + N \div 4 THEN PackedPair(w, 64)[p - N \div 2]
     ELSE PackedPair(w, 16)[p - N \div 2 - N \div 4]]
Packed(w) ==
  [p \in Places |->
     IF p < N \div 2 THEN PackedLow(w)[p]
     ELSE IF p < N \div 2 + N \div 4 THEN PackedPair(w, 16)[p - N \div 2]
     ELSE PackedPair(w, 64)[p - N \div 2 - N \div 4]]

\* The chunks: the sections one after the other, cut into equal parts, of which the
\* last may be shorter, or empty.
Chunks == 0..(NumChunks - 1)
PerChunk == (N + NumChunks - 1) \div NumChunks
From(c) == c * PerChunk
Size(c) == IF From(c + 1) <= N THEN PerChunk ELSE IF From(c) <= N THEN N - From(c) ELSE 0
ChunkOf(p) == p \div PerChunk
Unseen == -1   \* no tier

VARIABLES w,        \* the indices that were packed
          tier,     \* node->lut_tier
          buffer,   \* per chunk: what its worker's compressed_buffer holds
          step,     \* per chunk: "queued", "read" or "done"
          host,     \* the pinned buffer
          gpu,      \* gpu_exp_ptr
          held,     \* per GPU thread: the byte it has loaded
          warp,     \* per warp of unpack_4bit_stage2: "ready", "loaded" or "stored"
          stage,    \* "load", "stage1", "stage2", "recover", "done"
          readAs,   \* history: per chunk, the tier it was read for
          copiedAs, \* history: the tier at which it was copied to the host
          looked,   \* history: the tier SetDevice saw
          overtaken, \* history: a warp loaded after a higher one had stored
          sets
planesVars == <<w, tier, buffer, step, host, gpu, held, warp, stage,
                readAs, copiedAs, looked, overtaken, sets>>

Threads == 0..(N \div 2 - 1)
Warps == 0..((N \div 2 - 1) \div WarpSize)
ThreadsOf(v) == {i \in Threads : i \div WarpSize = v}

PlanesInit ==
  /\ w \in Weights /\ tier \in Tiers
  /\ buffer = [c \in Chunks |-> [k \in 0..(Size(c) - 1) |-> Stale]]
  /\ step = [c \in Chunks |-> "queued"]
  /\ host = [p \in Places |-> Stale] /\ gpu = [p \in Places |-> Stale]
  /\ held = [i \in Threads |-> Stale] /\ warp = [v \in Warps |-> "ready"]
  /\ stage = "load" /\ overtaken = FALSE /\ sets = 0
  /\ readAs = [c \in Chunks |-> Unseen] /\ copiedAs = readAs /\ looked = Unseen

SetTier == /\ sets < MaxSets /\ stage # "done" /\ sets' = sets + 1
           /\ \E t \in Tiers \ {tier} : tier' = t
           /\ UNCHANGED <<w, buffer, step, host, gpu, held, warp, stage,
                          readAs, copiedAs, looked, overtaken>>

\* An operation: read as much of the chunk as the tier asks for ...
ReadSize(size, t) ==
  IF t = 2 THEN size \div 2 ELSE IF t = 1 THEN (size * 3) \div 4 ELSE size
Read(c) ==
  /\ step[c] = "queued" /\ step' = [step EXCEPT ![c] = "read"]
  /\ buffer' = [buffer EXCEPT ![c] =
       [k \in DOMAIN @ |-> IF k < ReadSize(Size(c), tier)
                             THEN Packed(w)[From(c) + k] ELSE @[k]]]
  /\ readAs' = [readAs EXCEPT ![c] = tier]
  /\ UNCHANGED <<w, tier, host, gpu, held, warp, stage, copiedAs, looked, overtaken, sets>>

\* A failed read throws; the operation catches it and counts as done.
ReadFails(c) ==
  /\ step[c] = "queued" /\ step' = [step EXCEPT ![c] = "done"]
  /\ UNCHANGED <<w, tier, buffer, host, gpu, held, warp, stage,
                 readAs, copiedAs, looked, overtaken, sets>>

\* ... copy the whole chunk, read or not, and for the 6-bit tier unpack it in
\* place, front to back.
SixBits(low, mid, j) == IF Stale \in {low, mid} THEN Stale
                          ELSE Nibble(low, j) + 16 * Pair(mid, j)
UnpackGroup(b, size, i) ==
  LET mid == b[size \div 2 + i]
      One(d, j) == [d EXCEPT ![4*i + j] = SixBits(d[2*i + j \div 2], mid, j)]
  IN One(One(One(One(b, 0), 1), 2), 3)
WarmUnpacked(b, size) ==
  LET after[n \in 0..(size \div 4)] ==   \* the buffer after n groups
        IF n = 0 THEN b ELSE UnpackGroup(after[n - 1], size, n - 1)
  IN after[size \div 4]
Copy(c) ==
  /\ step[c] = "read" /\ step' = [step EXCEPT ![c] = "done"]
  /\ LET b == IF tier = 1 THEN WarmUnpacked(buffer[c], Size(c)) ELSE buffer[c] IN
     host' = [p \in Places |-> IF p - From(c) \in DOMAIN b
                                    THEN b[p - From(c)] ELSE host[p]]
  /\ copiedAs' = [copiedAs EXCEPT ![c] = tier]
  /\ UNCHANGED <<w, tier, buffer, gpu, held, warp, stage, readAs, looked, overtaken, sets>>

\* SetDevice, once all chunks are there: the 4-bit tier is unpacked on the GPU.
SetDevice ==
  /\ stage = "load" /\ \A c \in Chunks : step[c] = "done"
  /\ gpu' = host /\ looked' = tier
  /\ stage' = IF tier = 2 THEN "stage1" ELSE "recover"
  /\ UNCHANGED <<w, tier, buffer, step, host, held, warp, readAs, copiedAs, overtaken, sets>>

\* Stage 1 reads only below and writes only above the middle.
Stage1Short == [p \in Places |-> IF p > N \div 2 THEN gpu[p - N \div 2] ELSE gpu[p]]
Stage1Copy == [p \in Places |-> IF p >= N \div 2 THEN gpu[p - N \div 2] ELSE gpu[p]]
Stage1 == /\ stage = "stage1" /\ gpu' = Stage1Copy /\ stage' = "stage2"
          /\ UNCHANGED <<w, tier, buffer, step, host, held, warp,
                         readAs, copiedAs, looked, overtaken, sets>>

\* Stage 2: the threads of a warp load together and store together; warps run in
\* any order and overlap.
WarpLoad(v) ==
  /\ stage = "stage2" /\ warp[v] = "ready" /\ warp' = [warp EXCEPT ![v] = "loaded"]
  /\ held' = [i \in Threads |-> IF i \in ThreadsOf(v) THEN gpu[N \div 2 + i] ELSE held[i]]
  /\ overtaken' = (overtaken \/ \E u \in Warps : u > v /\ warp[u] = "stored")
  /\ UNCHANGED <<w, tier, buffer, step, host, gpu, stage, readAs, copiedAs, looked, sets>>
WarpStore(v) ==
  /\ stage = "stage2" /\ warp[v] = "loaded" /\ warp' = [warp EXCEPT ![v] = "stored"]
  /\ gpu' = [p \in Places |-> IF p \div 2 \in ThreadsOf(v)
                                   THEN Nibble(held[p \div 2], p) ELSE gpu[p]]
  /\ stage' = IF \A u \in Warps : warp'[u] = "stored" THEN "recover" ELSE stage
  /\ UNCHANGED <<w, tier, buffer, step, host, held, readAs, copiedAs, looked, overtaken, sets>>

\* The recovery kernel looks up each byte of gpu_exp_ptr in the tier's table.
Recover == /\ stage = "recover" /\ stage' = "done"
           /\ UNCHANGED <<w, tier, buffer, step, host, gpu, held, warp,
                          readAs, copiedAs, looked, overtaken, sets>>

PlanesNext == \/ SetTier \/ SetDevice \/ Stage1 \/ Recover
              \/ \E c \in Chunks : Read(c) \/ ReadFails(c) \/ Copy(c)
              \/ \E v \in Warps : WarpLoad(v) \/ WarpStore(v)
PlanesSpec == PlanesInit /\ [][PlanesNext]_planesVars
-----------------------------------------------------------------------------
Bits(t) == CASE t = 0 -> 256 [] t = 1 -> 64 [] OTHER -> 16
Recovered(t) == \A p \in Places : gpu[p] = w[p] % Bits(t)

\* The three sections determine the indices: each is its nibble and its two pairs.
PlanesKeepIndices ==
  \A v \in Weights : LET f == Packed(v) IN \A p \in Places :
    v[p] = Nibble(f[p \div 2], p) + 16 * Pair(f[N \div 2 + p \div 4], p % 4)
           + 64 * Pair(f[N \div 2 + N \div 4 + p \div 4], p % 4)

\* Whether the p-th byte of the file came to the buffer it is copied from.
WasRead(p) == LET c == ChunkOf(p) IN
              readAs[c] # Unseen /\ p - From(c) < ReadSize(Size(c), readAs[c])

\* Whatever tiers the readers saw and whichever reads failed, what is looked up is
\* accounted for byte by byte, in any number of chunks. Unpacked on the GPU, an index
\* has the four low bits it should, unless a warp loaded after a higher one, which
\* wrote over the scratch half, had stored; and it is stale if the byte with these
\* bits is not one that was read: the low section may lie in parts of the chunks that
\* tier 2 leaves out. As copied, a byte is the packed one or, where not read, stale; and
\* in a chunk unpacked for tier 1 whole groups are made of bytes that were read,
\* unless it was read for tier 2.
LooksUpWhatWasRead ==
  stage = "done" => \A p \in Places :
    LET b == IF looked = 2 THEN p \div 2 ELSE p   \* the byte it comes from
        c == ChunkOf(b)
    IN /\ copiedAs[c] # 1 /\ ~(looked = 2 /\ overtaken) =>
            gpu[p] = IF ~WasRead(b) THEN Stale
                       ELSE IF looked = 2 THEN w[p] % 16 ELSE Packed(w)[p]
       /\ copiedAs[c] = 1 /\ readAs[c] # 2 /\ looked # 2
          /\ b - From(c) < 4 * (Size(c) \div 4) => gpu[p] # Stale

\* "result[i] = LUT[indices[i]] * absmax[i / 128]": the indices looked up are
\* those of the tensor, to the tier's number of bits, if all saw the same tier.
RecoversIndices ==
  stage = "done" => \A t \in Tiers :
    looked = t /\ (\A c \in Chunks : readAs[c] = t /\ copiedAs[c] = t) => Recovered(t)
=============================================================================
