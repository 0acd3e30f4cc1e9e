------------------------------- MODULE Merkle -------------------------------
(***************************************************************************)
(* The Merkle trees of the storage SDK (zg_storage_sdk/core/merkle.py).    *)
(* Hashing is injective: the hash of an inner node is the pair of its      *)
(* children's hashes, the hash of a leaf a sequence of length one.  The    *)
(* tree is given by its leaves; positions are counted from 1 in sequences  *)
(* and from 0 where the code computes with them.                           *)
(***************************************************************************)
EXTENDS Integers, Sequences, SequencesExt, FiniteSetsExt

Combine(left, right) == <<left, right>>

(* Mutant: an odd last node is paired with itself.                         *)
Level_Doubled(nodes) ==
    [k \in 1 .. (Len(nodes) + 1) \div 2 |->
        IF 2 * k <= Len(nodes) THEN Combine(nodes[2 * k - 1], nodes[2 * k])
                               ELSE Combine(nodes[2 * k - 1], nodes[2 * k - 1])]

(* One round of build(): neighbours are paired, an odd last node moves up. *)
Level(nodes) ==
    [k \in 1 .. (Len(nodes) + 1) \div 2 |->
        IF 2 * k <= Len(nodes) THEN Combine(nodes[2 * k - 1], nodes[2 * k])
                               ELSE nodes[2 * k - 1]]

(* Powers of two, as many as TLC's integers hold.                          *)
Powers == {2 ^ k : k \in 0 .. 30}

(* The rounds go on until one node is left, which halves their number.     *)
Rounds(count) == [k \in 1 .. Cardinality({p \in Powers : p < count}) |-> k]

RootHash(leaves) ==
    FoldLeft(LAMBDA nodes, round : Level(nodes), leaves, Rounds(Len(leaves)))[1]

----------------------------------------------------------------------------
(* proof_at: the hashes of the siblings on the way up, and whether the     *)
(* node of the way is the left one.                                        *)
Climb(way) ==
    LET isLeft == way.at % 2 = 1
        sibling == IF isLeft THEN way.at + 1 ELSE way.at - 1
        alone == sibling > Len(way.nodes)
    IN  [nodes |-> Level(way.nodes), at |-> (way.at + 1) \div 2,
         lemma |-> IF alone THEN way.lemma ELSE Append(way.lemma, way.nodes[sibling]),
         path |-> IF alone THEN way.path ELSE Append(way.path, isLeft)]

ProofAt(leaves, i) ==
    LET way == FoldLeft(LAMBDA w, round : Climb(w),
                        [nodes |-> leaves, at |-> i,
                         lemma |-> <<leaves[i]>>, path |-> << >>],
                        Rounds(Len(leaves)))
    IN  IF Len(leaves) = 1 THEN [lemma |-> leaves, path |-> << >>]
        ELSE [lemma |-> Append(way.lemma, RootHash(leaves)), path |-> way.path]

----------------------------------------------------------------------------
(* Proof.validate: the first check that fails.                             *)
WellFormed(proof) ==
    \/ proof.path = << >> /\ Len(proof.lemma) = 1
    \/ proof.path # << >> /\ Len(proof.lemma) = Len(proof.path) + 2

Join(proof, hash, k) == IF proof.path[k] THEN Combine(hash, proof.lemma[k + 1])
                                         ELSE Combine(proof.lemma[k + 1], hash)

ValidRoot(proof) ==
    FoldLeftDomain(LAMBDA hash, k : Join(proof, hash, k), Head(proof.lemma), proof.path)
        = Last(proof.lemma)

(* Mutant: the left subtree takes half of the leaves.                      *)
LeftSide_Half(n) == n \div 2

(* The leaves of the left subtree: the largest power of two below n.       *)
LeftSide(n) == Max({0} \cup {p \in Powers : p < n})

(* The path from the root down tells the position of the leaf.             *)
Descend(s, isLeft) ==
    IF isLeft THEN [s EXCEPT !.count = LeftSide(s.count)]
    ELSE [position |-> s.position + LeftSide(s.count),
          count |-> s.count - LeftSide(s.count)]

CalculateProofPosition(path, leafCount) ==
    FoldLeft(Descend, [position |-> 0, count |-> leafCount], Reverse(path)).position

Validate(proof, root, hash, position, leafCount) ==
    CASE ~WellFormed(proof) -> "wrong format"
      [] WellFormed(proof) /\ hash # Head(proof.lemma) -> "content mismatch"
      [] WellFormed(proof) /\ hash = Head(proof.lemma)
            /\ Len(proof.lemma) > 1 /\ root # Last(proof.lemma) -> "root mismatch"
      [] OTHER ->
           IF CalculateProofPosition(proof.path, leafCount) # position
           THEN "position mismatch"
           ELSE IF ValidRoot(proof) THEN "valid" ELSE "validation failure"
=============================================================================
