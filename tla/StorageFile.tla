---------------------------- MODULE StorageFile ----------------------------
(***************************************************************************)
(* A file on its way to the storage network (zg_storage_sdk/core/file.py,  *)
(* utils/file_utils.py): the file is cut into chunks, padded, and read     *)
(* twice through FileIterator: in segments, whose roots are the leaves of  *)
(* the file's Merkle tree (merkle_tree), and in the nodes of the           *)
(* submission to the Flow contract (create_submission).  Then its segments *)
(* are cut out for the upload (Uploader.get_segment).                      *)
(*                                                                         *)
(* Contents do not matter beyond their place: chunk k hashes to <<k>>, and *)
(* a chunk of padding to <<0>>.                                            *)
(***************************************************************************)
EXTENDS Merkle

CONSTANTS
    CHUNK,         \* DEFAULT_CHUNK_SIZE, bytes
    SEGMENT,       \* DEFAULT_SEGMENT_MAX_CHUNKS
    Sizes          \* bound: the file sizes modelled, bytes

NumSplits(total, unit) == (total - 1) \div unit + 1

(* Sizes are bounded by the powers of two of Merkle.                       *)
ASSUME StorageFileAssumption ==
    /\ CHUNK \in Nat \ {0} /\ SEGMENT \in Nat \ {0}
    /\ Sizes \subseteq Nat
    /\ \A s \in Sizes : NumSplits(s, CHUNK) <= 2 ^ 30

(* SEGMENT, 1024 in the code, is a power of two.                           *)
ASSUME SegmentAssumption == SEGMENT \in Powers

VARIABLES
    size,          \* the file's size in bytes
    phase,
    offset,        \* the iterator's offset, bytes
    leaves,        \* the roots of the segments read
    submission,    \* the submission's nodes
    inner          \* the roots of the segments of the node being made

fileVars == <<size, phase, offset, leaves, submission, inner>>

----------------------------------------------------------------------------
NextPow2(n) == IF n = 0 THEN 0 ELSE Min({p \in Powers : p >= n})

(* Chunks are padded to a multiple of a sixteenth of the next power of two. *)
PaddedChunks(chunks) ==
    LET minChunk == IF NextPow2(chunks) >= 16 THEN NextPow2(chunks) \div 16 ELSE 1
    IN  IF NextPow2(chunks) = chunks THEN chunks
        ELSE NumSplits(chunks, minChunk) * minChunk

NumChunks == NumSplits(size, CHUNK)
NumSegments == NumSplits(size, CHUNK * SEGMENT)
PaddedSize == PaddedChunks(NumChunks) * CHUNK

(* Mutant: the last batch is read in full.                                 *)
Read_PastEnd(from, batch) ==
    [k \in 1 .. batch \div CHUNK |->
        IF from + (k - 1) * CHUNK < size THEN <<from \div CHUNK + k>> ELSE <<0>>]

(* What iter.next() reads at an offset: the hashes of the chunks of one    *)
(* batch, fewer at the end of the padded file, zeros after the file's end. *)
Read(from, batch) ==
    LET length == Min({batch, PaddedSize - from})
    IN  [k \in 1 .. length \div CHUNK |->
            IF from + (k - 1) * CHUNK < size THEN <<from \div CHUNK + k>>
                                             ELSE <<0>>]

(* A power of two is taken from what is left, if it is as much.            *)
Take(s, p) ==
    IF s.left >= p THEN [left |-> s.left - p, taken |-> Append(s.taken, p)] ELSE s

(* The powers of two that make up the padded size, largest first.          *)
SplitNodes ==
    FoldLeft(Take, [left |-> PaddedChunks(NumChunks), taken |-> << >>],
             [k \in 1 .. 31 |-> 2 ^ (31 - k)]).taken

(* Mutant: the last fragment is as large as the others.                    *)
Split_Full(fragmentSize) ==
    [k \in 1 .. NumSplits(size, fragmentSize) |->
        [from |-> (k - 1) * fragmentSize, size |-> fragmentSize]]

(* The fragments of a file, from offset 0: where each starts and its size. *)
Split(fragmentSize) ==
    [k \in 1 .. NumSplits(size, fragmentSize) |->
        [from |-> (k - 1) * fragmentSize,
         size |-> Min({size - (k - 1) * fragmentSize, fragmentSize})]]

(* Mutant: the last segment goes with its padding.                         *)
GetSegment_Padded(k) ==
    LET from == k * SEGMENT
        read == Read(from * CHUNK, SEGMENT * CHUNK)
    IN  [data |-> read, proof |-> ProofAt(leaves, k + 1),
         last |-> from + Len(read) >= NumChunks]

(* Uploader.get_segment: the chunks of a segment without the padding, and  *)
(* whether it was the last one.                                            *)
GetSegment(k) ==
    LET from == k * SEGMENT
        read == Read(from * CHUNK, SEGMENT * CHUNK)
        last == from + Len(read) >= NumChunks
    IN  [data |-> IF last THEN SubSeq(read, 1, NumChunks - from) ELSE read,
         proof |-> ProofAt(leaves, k + 1),
         last |-> last]

----------------------------------------------------------------------------
(* The shape of the state; no iterator reads past the padded file.         *)
FileTypeOK ==
    /\ size \in Sizes
    /\ phase \in {"merkle_tree", "create_submission", "ready", "error"}
    /\ offset \in {k * CHUNK : k \in 0 .. PaddedChunks(NumChunks)}
    /\ Len(leaves) <= PaddedChunks(NumChunks)
    /\ Len(submission) <= Len(SplitNodes)
    /\ Len(inner) <= PaddedChunks(NumChunks)

FileInit ==
    /\ size \in Sizes
    /\ phase = "merkle_tree"
    /\ offset = 0
    /\ leaves = << >> /\ submission = << >> /\ inner = << >>

(* merkle_tree: the root of the next segment becomes a leaf; at the end    *)
(* the tree is built, unless it has no leaves.                             *)
MerkleTree ==
    /\ phase = "merkle_tree"
    /\ LET segment == Read(offset, SEGMENT * CHUNK)
       IN  \/ /\ offset < PaddedSize
              /\ leaves' = Append(leaves, RootHash(segment))
              /\ offset' = offset + Len(segment) * CHUNK
              /\ UNCHANGED phase
           \/ /\ offset = PaddedSize
              /\ phase' = IF leaves = << >> THEN "error" ELSE "create_submission"
              /\ offset' = 0
              /\ UNCHANGED leaves
    /\ UNCHANGED <<size, submission, inner>>

(* The node that is made next, and where it starts.                        *)
Chunks == SplitNodes[Len(submission) + 1]

(* A node of at most a segment is read at once, a larger one by segments.  *)
Batch == Min({Chunks, SEGMENT})

(* create_node: reads the node's segments and puts their tree's root and   *)
(* height into the submission.                                             *)
CreateNode ==
    /\ phase = "create_submission" /\ Len(submission) < Len(SplitNodes)
    /\ LET segment == Read(offset, Batch * CHUNK)
           roots == Append(inner, RootHash(segment))
       IN  /\ offset' = offset + Len(segment) * CHUNK
           /\ IF Len(roots) * Batch < Chunks
              THEN inner' = roots /\ UNCHANGED submission
              ELSE /\ submission' = Append(submission,
                                           [chunks |-> Chunks, root |-> RootHash(roots)])
                   /\ inner' = << >>
    /\ UNCHANGED <<size, phase, leaves>>

CreateSubmission ==
    /\ phase = "create_submission" /\ Len(submission) = Len(SplitNodes)
    /\ phase' = "ready"
    /\ UNCHANGED <<size, offset, leaves, submission, inner>>

FileNext == MerkleTree \/ CreateNode \/ CreateSubmission

FileSpec == FileInit /\ [][FileNext]_fileVars

----------------------------------------------------------------------------
Ready == phase = "ready"

(* The root that the uploader looks the file up under and that is settled  *)
(* on the chain is the one the Flow contract gets from the submission,     *)
(* joining its nodes from the smallest up, although the two are computed   *)
(* from different cuts of the padded file.                                 *)
SubmissionHasFileRoot ==
    Ready => LET join(node, rest) == Combine(node.root, rest)
             IN  RootHash(leaves) =
                     FoldRight(join, Front(submission), Last(submission).root)

(* The segments that are uploaded hold every chunk of the file once and    *)
(* nothing else, and only the last one ends the upload.                    *)
SegmentsHoldFile ==
    Ready =>
        /\ FlattenSeq([k \in 1 .. NumSegments |-> GetSegment(k - 1).data])
               = [k \in 1 .. NumChunks |-> <<k>>]
        /\ \A k \in 0 .. NumSegments - 1 :
               GetSegment(k).last <=> k = NumSegments - 1

(* A node that pads an uploaded segment again finds its proof valid, for   *)
(* the segment's index and for no other one.                               *)
ProofsLocateSegments ==
    Ready =>
        \A k \in 0 .. NumSegments - 1 :
            LET segment == GetSegment(k)
                padded == RootHash(Read(k * SEGMENT * CHUNK, SEGMENT * CHUNK))
            IN  \A at \in 0 .. Len(leaves) - 1 :
                    Validate(segment.proof, RootHash(leaves), padded, at, Len(leaves))
                        = IF at = k THEN "valid" ELSE "position mismatch"

(* The fragments of a large file follow each other without a gap, are not  *)
(* empty and end where the file ends.                                      *)
FragmentsHoldFile ==
    \A f \in Sizes \ {0} :
        LET parts == Split(f)
        IN  /\ \A k \in 1 .. Len(parts) :
                   parts[k].size > 0 /\ (k < Len(parts) =>
                       parts[k].from + parts[k].size = parts[k + 1].from)
            /\ parts # << >> => Last(parts).from + Last(parts).size = size
=============================================================================
