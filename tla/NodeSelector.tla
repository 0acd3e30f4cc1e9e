---------------------------- MODULE NodeSelector ----------------------------
(***************************************************************************)
(* Which storage nodes keep a file (zg_storage_sdk/core/node_selector.py). *)
(* A node with the shard config <<numShard, shardId>> keeps the segments   *)
(* whose index is shardId modulo numShard; numShard is a power of two.     *)
(*                                                                         *)
(* The segment tree counts for every residue class how many of the         *)
(* selected nodes keep it: the tree node <<m, r>> stands for the residue r *)
(* modulo m, and its children for the two halves of the class.  replica    *)
(* is the least count below it, lazy_tags what its children do not know.   *)
(***************************************************************************)
EXTENDS Integers, Sequences, SequencesExt, FiniteSets

CONSTANT
    MaxShards      \* bound: the largest numShard of any node, a power of two

ASSUME NodeSelectorAssumption == MaxShards \in Nat \ {0}

Powers == {2 ^ k : k \in 0 .. 10}

TreeNode == UNION {{m} \X (0 .. m - 1) : m \in {p \in Powers : p <= 2 * MaxShards}}

(* is_valid_config, of what a node answers.                                *)
ValidConfig(config) ==
    config[1] \in Powers /\ config[1] <= MaxShards /\ config[2] < config[1]

Children(v) == {<<2 * v[1], v[2]>>, <<2 * v[1], v[2] + v[1]>>}

EmptyTree == [v \in TreeNode |-> [replica |-> 0, lazy |-> 0]]

Pushdown(tree, v) ==
    [w \in TreeNode |->
        IF w \in Children(v) THEN [replica |-> tree[w].replica + tree[v].lazy,
                                   lazy |-> tree[w].lazy + tree[v].lazy]
        ELSE IF w = v THEN [tree[v] EXCEPT !.lazy = 0] ELSE tree[w]]

(* Mutant: a class counts as kept when one of its halves is.               *)
PullUp_Max(tree, v) ==
    [tree EXCEPT ![v].replica =
        CHOOSE n \in {tree[w].replica : w \in Children(v)} :
            \A w \in Children(v) : n >= tree[w].replica]

PullUp(tree, v) ==
    [tree EXCEPT ![v].replica =
        CHOOSE n \in {tree[w].replica : w \in Children(v)} :
            \A w \in Children(v) : n <= tree[w].replica]

(* The tree nodes on the way from the root to a config, itself excluded.   *)
Way(config) ==
    LET depth == CHOOSE k \in 0 .. 10 : 2 ^ k = config[1]
    IN  [k \in 1 .. depth |-> <<2 ^ (k - 1), config[2] % 2 ^ (k - 1)>>]

(* insert, first half: down to a tree node's child, unless its class has   *)
(* its replicas already.                                                   *)
Down(s, v, expectedReplica) ==
    IF s.full \/ s.tree[v].replica >= expectedReplica
    THEN [s EXCEPT !.full = TRUE]
    ELSE [s EXCEPT !.tree = Pushdown(@, v), !.visited = <<v>> \o @]

(* insert: down the way, and up again.                                     *)
Insert(tree, config, expectedReplica) ==
    LET s == FoldLeft(LAMBDA t, v : Down(t, v, expectedReplica),
                      [tree |-> tree, visited |-> << >>, full |-> FALSE],
                      Way(config))
        inserted == ~s.full /\ s.tree[config].replica < expectedReplica
        counted == IF inserted
                   THEN [s.tree EXCEPT ![config] = [replica |-> @.replica + 1,
                                                    lazy |-> @.lazy + 1]]
                   ELSE s.tree
    IN  [tree |-> FoldLeft(PullUp, counted, s.visited), inserted |-> inserted]

(* Python's sort: a sequence of the set's members without an inversion.    *)
(* (TLC's SortSeq is one only if `before` tells all members apart.)        *)
Sorted(S, before(_, _)) ==
    CHOOSE seq \in SetToSeqs(S) :
        \A i, j \in DOMAIN seq : i < j => ~before(seq[j], seq[i])

(* One round of select_nodes' loop: a node is selected if it is inserted.  *)
Try(s, n, config, expectedReplica) ==
    IF s.tree[<<1, 0>>].replica >= expectedReplica THEN s
    ELSE LET i == Insert(s.tree, config[n], expectedReplica)
         IN  [tree |-> i.tree,
              selected |-> IF i.inserted THEN Append(s.selected, n)
                                         ELSE s.selected]

(* select_nodes, of nodes with the configs of the function config: the     *)
(* nodes in the order of their configs, until the root has its replicas.   *)
SelectNodes(nodes, config, expectedReplica) ==
    LET before(m, n) ==
            \/ config[m][1] < config[n][1]
            \/ config[m][1] = config[n][1] /\ config[m][2] < config[n][2]
        s == FoldLeft(LAMBDA t, n : Try(t, n, config, expectedReplica),
                      [tree |-> EmptyTree, selected |-> << >>],
                      Sorted(nodes, before))
    IN  [ok |-> expectedReplica # 0 /\ s.tree[<<1, 0>>].replica >= expectedReplica,
         selected |-> s.selected]
=============================================================================
