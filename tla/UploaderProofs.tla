--------------------------- MODULE UploaderProofs ---------------------------
(***************************************************************************)
(* The uploader, for every network, file, number of replicas and size of   *)
(* tasks: the nodes that are sent segments keep each segment often enough, *)
(* they are sent their own segments only, and what is reported as uploaded *)
(* is stored.                                                              *)
(***************************************************************************)
EXTENDS Uploader, SequenceLemmas, FiniteSetTheorems

----------------------------------------------------------------------------
(* The numbers of shards and the tree's nodes.                             *)
LEMMA PowersAre == Powers = {1, 2, 4, 8, 16, 32, 64, 128, 256, 512, 1024}
<1>1. /\ 2 ^ 0 = 1 /\ 2 ^ 1 = 2 /\ 2 ^ 2 = 4 /\ 2 ^ 3 = 8 /\ 2 ^ 4 = 16 /\ 2 ^ 5 = 32
      /\ 2 ^ 6 = 64 /\ 2 ^ 7 = 128 /\ 2 ^ 8 = 256 /\ 2 ^ 9 = 512 /\ 2 ^ 10 = 1024
  OBVIOUS
<1>2. 0 .. 10 = {0, 1, 2, 3, 4, 5, 6, 7, 8, 9, 10}
  OBVIOUS
<1>3. Powers = {2 ^ k : k \in {0, 1, 2, 3, 4, 5, 6, 7, 8, 9, 10}}
  BY <1>2 DEF Powers
<1>4. QED
  BY <1>1, <1>3

(* A node of the tree is a class of residues.                              *)
LEMMA TreeNodeParts ==
    ASSUME NEW v \in TreeNode
    PROVE  /\ v = <<v[1], v[2]>> /\ v[1] \in Powers /\ v[1] \in Nat \ {0}
           /\ v[1] <= 2 * MaxShards /\ v[2] \in 0 .. v[1] - 1
<1>1. PICK m \in {p \in Powers : p <= 2 * MaxShards} : v \in {m} \X (0 .. m - 1)
  BY DEF TreeNode
<1>2. m \in Nat \ {0}
  BY <1>1, PowersAre
<1>3. QED
  BY <1>1, <1>2

(* And the other way round.                                                *)
LEMMA TreeNodeIntro ==
    ASSUME NEW m \in Powers, m <= 2 * MaxShards, NEW r \in 0 .. m - 1
    PROVE  <<m, r>> \in TreeNode
BY DEF TreeNode

(* The root, of which all are.                                             *)
LEMMA RootInTree == <<1, 0>> \in TreeNode
<1>1. 1 \in Powers /\ 1 <= 2 * MaxShards /\ 0 \in 0 .. 1 - 1
  BY PowersAre, NodeSelectorAssumption
<1>2. QED
  BY <1>1, TreeNodeIntro

(* Where a valid config is.                                                *)
LEMMA ConfigInTree ==
    ASSUME NEW c \in Nat \X Nat, ValidConfig(c)
    PROVE  c \in TreeNode /\ c[1] <= MaxShards
<1>1. c[1] \in Powers /\ c[1] <= MaxShards /\ c[2] \in 0 .. c[1] - 1 /\ c = <<c[1], c[2]>>
  BY DEF ValidConfig
<1>2. c[1] <= 2 * MaxShards
  BY <1>1, NodeSelectorAssumption
<1>3. QED
  BY <1>1, <1>2, TreeNodeIntro

(* Between two powers there is none.                                       *)
LEMMA NextPower ==
    ASSUME NEW p \in Powers, NEW q \in Powers, p < q PROVE 2 * p \in Powers /\ 2 * p <= q
BY PowersAre

(* The two halves of a class.                                              *)
LEMMA ChildrenAre ==
    ASSUME NEW v \in TreeNode, NEW w \in Children(v)
    PROVE  /\ w = <<w[1], w[2]>> /\ w[1] = 2 * v[1] /\ w[2] \in 0 .. w[1] - 1
           /\ w[2] = v[2] \/ w[2] = v[2] + v[1]
           /\ w # v /\ w # <<1, 0>>
<1>1. v[1] \in Nat \ {0} /\ v[2] \in 0 .. v[1] - 1
  BY TreeNodeParts
<1>2. w = <<2 * v[1], v[2]>> \/ w = <<2 * v[1], v[2] + v[1]>>
  BY DEF Children
<1>3. w[1] = 2 * v[1] /\ (w[2] = v[2] \/ w[2] = v[2] + v[1]) /\ w = <<w[1], w[2]>>
  BY <1>2
<1>4. w[1] # v[1] /\ w[1] # 1 /\ w[2] \in 0 .. w[1] - 1
  BY <1>1, <1>3
<1>5. QED
  BY <1>3, <1>4

(* They are nodes of the tree if anything is below the class.              *)
LEMMA ChildrenInTree ==
    ASSUME NEW v \in TreeNode, NEW c \in TreeNode, v[1] < c[1]
    PROVE  Children(v) \subseteq TreeNode
<1> SUFFICES ASSUME NEW w \in Children(v) PROVE w \in TreeNode
  OBVIOUS
<1>1. /\ v[1] \in Powers /\ c[1] \in Powers /\ c[1] <= 2 * MaxShards
      /\ c[1] \in Nat /\ v[1] \in Nat
  BY TreeNodeParts
<1>2. 2 * v[1] \in Powers /\ 2 * v[1] <= c[1]
  BY <1>1, NextPower
<1>3. /\ w = <<w[1], w[2]>> /\ w[1] = 2 * v[1] /\ w[2] \in 0 .. w[1] - 1
  BY ChildrenAre
<1>4. w[1] \in Powers /\ w[1] <= 2 * MaxShards
  BY <1>1, <1>2, <1>3, NodeSelectorAssumption
<1>5. QED
  BY <1>3, <1>4, TreeNodeIntro

(* A class has one parent.                                                 *)
LEMMA OneParent ==
    ASSUME NEW u \in TreeNode, NEW v \in TreeNode, NEW w,
           w \in Children(u), w \in Children(v)
    PROVE  u = v
<1>1. /\ u = <<u[1], u[2]>> /\ u[1] \in Nat \ {0} /\ u[2] \in 0 .. u[1] - 1
      /\ v = <<v[1], v[2]>> /\ v[1] \in Nat \ {0} /\ v[2] \in 0 .. v[1] - 1
  BY TreeNodeParts
<1>2. /\ w[1] = 2 * u[1] /\ (w[2] = u[2] \/ w[2] = u[2] + u[1])
      /\ w[1] = 2 * v[1] /\ (w[2] = v[2] \/ w[2] = v[2] + v[1])
  BY ChildrenAre
<1>3. u[1] = v[1] /\ u[2] = v[2]
  BY <1>1, <1>2
<1>4. QED
  BY <1>1, <1>3

(* What is in a class is in one of its halves.                             *)
LEMMA InHalf ==
    ASSUME NEW v \in TreeNode, NEW s \in Nat, s % v[1] = v[2]
    PROVE  \E w \in Children(v) : s % w[1] = w[2]
<1>1. v[1] \in Powers /\ v[2] \in Nat
  BY TreeNodeParts
<1>2. \A p \in Powers : s % (2 * p) = s % p \/ s % (2 * p) = (s % p) + p
  BY PowersAre
<1>3. s % (2 * v[1]) = v[2] \/ s % (2 * v[1]) = v[2] + v[1]
  BY <1>1, <1>2
<1>4. QED
  BY <1>3 DEF Children

(* What is in a half is in the class.                                      *)
LEMMA InWhole ==
    ASSUME NEW v \in TreeNode, NEW w \in Children(v), NEW s \in Nat, s % w[1] = w[2]
    PROVE  s % v[1] = v[2]
<1>1. v[1] \in Powers /\ v[1] \in Nat \ {0} /\ v[2] \in 0 .. v[1] - 1
  BY TreeNodeParts
<1>2. w[1] = 2 * v[1] /\ (w[2] = v[2] \/ w[2] = v[2] + v[1])
  BY ChildrenAre
<1>3. \A p \in Powers : \A r \in 0 .. p - 1 :
          s % (2 * p) = r \/ s % (2 * p) = r + p => s % p = r
  BY PowersAre
<1>4. QED
  BY <1>1, <1>2, <1>3

----------------------------------------------------------------------------
(* What the tree promises.  kept says of each segment how many of the      *)
(* selected nodes keep it.  need[v] is what the classes above v have not   *)
(* told it yet: no class counts more than each of its segments has.        *)
Tree == [TreeNode -> [replica : Int, lazy : Int]]

Promises(tree, kept, need) ==
    /\ need[<<1, 0>>] = 0
    /\ \A v \in TreeNode : \A w \in Children(v) \cap TreeNode :
           need[w] = need[v] + tree[v].lazy
    /\ \A v \in TreeNode : \A s \in Nat :
           s % v[1] = v[2] => tree[v].replica + need[v] <= kept[s]

Sound(tree, kept) == \E need \in [TreeNode -> Int] : Promises(tree, kept, need)

(* The empty tree promises nothing.                                        *)
LEMMA EmptySound ==
    ASSUME NEW kept \in [Nat -> Nat]
    PROVE  EmptyTree \in Tree /\ Sound(EmptyTree, kept)
<1> DEFINE need == [v \in TreeNode |-> 0]
<1>1. EmptyTree \in Tree
  BY DEF EmptyTree, Tree
<1>2. \A v \in TreeNode : EmptyTree[v].replica = 0 /\ EmptyTree[v].lazy = 0
  BY DEF EmptyTree
<1>3. need \in [TreeNode -> Int] /\ \A v \in TreeNode : need[v] = 0
  OBVIOUS
<1> HIDE DEF need
<1>4. Promises(EmptyTree, kept, need)
  BY <1>2, <1>3, RootInTree DEF Promises
<1>5. QED
  BY <1>1, <1>3, <1>4 DEF Sound

(* What a tree whose root has the replicas promises.                       *)
LEMMA RootPromises ==
    ASSUME NEW tree \in Tree, NEW kept \in [Nat -> Nat], Sound(tree, kept),
           NEW s \in Nat
    PROVE  tree[<<1, 0>>].replica <= kept[s]
<1>1. PICK need \in [TreeNode -> Int] : Promises(tree, kept, need)
  BY DEF Sound
<1> DEFINE root == <<1, 0>>
<1>2. root \in TreeNode /\ s % root[1] = root[2]
  BY RootInTree
<1>3. need[root] = 0 /\ tree[root].replica + need[root] <= kept[s]
  BY <1>1, <1>2 DEF Promises
<1>4. tree[root].replica \in Int
  BY <1>2 DEF Tree
<1>5. QED
  BY <1>3, <1>4

(* pushdown changes no promise: what a class has not told its halves they  *)
(* are told.                                                               *)
LEMMA PushdownSound ==
    ASSUME NEW tree \in Tree, NEW kept \in [Nat -> Nat], Sound(tree, kept),
           NEW v \in TreeNode
    PROVE  /\ Pushdown(tree, v) \in Tree /\ Sound(Pushdown(tree, v), kept)
           /\ Pushdown(tree, v)[v].lazy = 0
           /\ \A u \in TreeNode \ Children(v) :
                  tree[u].lazy = 0 => Pushdown(tree, v)[u].lazy = 0
<1> DEFINE new == Pushdown(tree, v)
<1>1. PICK need \in [TreeNode -> Int] : Promises(tree, kept, need)
  BY DEF Sound
<1>2. \A u \in TreeNode : tree[u] \in [replica : Int, lazy : Int]
  BY DEF Tree
<1>3. v \notin Children(v)
  BY ChildrenAre
<1>4. /\ \A u \in TreeNode \cap Children(v) :
             /\ new[u].replica = tree[u].replica + tree[v].lazy
             /\ new[u].lazy = tree[u].lazy + tree[v].lazy
      /\ new[v].replica = tree[v].replica /\ new[v].lazy = 0
      /\ \A u \in TreeNode \ Children(v) : u # v => new[u] = tree[u]
  BY <1>2, <1>3 DEF Pushdown
<1>5. new \in Tree
  <2>1. ASSUME NEW u \in TreeNode
        PROVE  (IF u \in Children(v) THEN [replica |-> tree[u].replica + tree[v].lazy,
                                           lazy |-> tree[u].lazy + tree[v].lazy]
                ELSE IF u = v THEN [tree[v] EXCEPT !.lazy = 0] ELSE tree[u])
               \in [replica : Int, lazy : Int]
    BY <1>2
  <2>2. QED
    BY <2>1 DEF Pushdown, Tree
<1> DEFINE told == [u \in TreeNode |-> IF u \in Children(v) THEN need[v] ELSE need[u]]
<1>6. told \in [TreeNode -> Int] /\ \A u \in TreeNode :
          told[u] = IF u \in Children(v) THEN need[v] ELSE need[u]
  OBVIOUS
<1> HIDE DEF told, new
<1>7. \A u \in TreeNode : /\ tree[u].replica \in Int /\ tree[u].lazy \in Int
                          /\ need[u] \in Int
  BY <1>2
<1>8. told[<<1, 0>>] = 0
  BY <1>1, <1>6, RootInTree, ChildrenAre DEF Promises
<1>9. ASSUME NEW u \in TreeNode, NEW w \in Children(u) \cap TreeNode
      PROVE  told[w] = told[u] + new[u].lazy
  <2>1. need[w] = need[u] + tree[u].lazy
    BY <1>1 DEF Promises
  <2>2. CASE u = v
    BY <1>3, <1>4, <1>6, <1>7, <2>2
  <2>3. CASE u # v
    <3>1. w \notin Children(v)
      BY <2>3, OneParent
    <3>2. told[w] = need[w]
      BY <1>6, <3>1
    <3>3. CASE u \in Children(v)
      <4>1. need[u] = need[v] + tree[v].lazy
        BY <1>1, <3>3 DEF Promises
      <4>2. told[u] = need[v] /\ new[u].lazy = tree[u].lazy + tree[v].lazy
        BY <1>4, <1>6, <3>3
      <4>3. QED
        BY <1>7, <2>1, <3>2, <4>1, <4>2
    <3>4. CASE u \notin Children(v)
      BY <1>4, <1>6, <2>1, <2>3, <3>2, <3>4
    <3>5. QED
      BY <3>3, <3>4
  <2>4. QED
    BY <2>2, <2>3
<1>10. ASSUME NEW u \in TreeNode, NEW s \in Nat, s % u[1] = u[2]
       PROVE  new[u].replica + told[u] <= kept[s]
  <2>1. tree[u].replica + need[u] <= kept[s]
    BY <1>1, <1>10 DEF Promises
  <2>2. CASE u \in Children(v)
    <3>1. need[u] = need[v] + tree[v].lazy
      BY <1>1, <2>2 DEF Promises
    <3>2. told[u] = need[v] /\ new[u].replica = tree[u].replica + tree[v].lazy
      BY <1>4, <1>6, <2>2
    <3>3. QED
      BY <1>7, <2>1, <3>1, <3>2
  <2>3. CASE u \notin Children(v)
    BY <1>4, <1>6, <2>1, <2>3
  <2>4. QED
    BY <2>2, <2>3
<1>11. Promises(new, kept, told)
  BY <1>8, <1>9, <1>10 DEF Promises
<1>12. Sound(new, kept)
  BY <1>6, <1>11 DEF Sound
<1>13. ASSUME NEW u \in TreeNode \ Children(v), tree[u].lazy = 0
       PROVE  new[u].lazy = 0
  BY <1>4, <1>13
<1>14. QED
  BY <1>4, <1>5, <1>12, <1>13 DEF new

(* The lesser of the halves' counts.                                       *)
Least2(tree, v) ==
    CHOOSE n \in {tree[w].replica : w \in Children(v)} :
        \A w \in Children(v) : n <= tree[w].replica

Inner == {v \in TreeNode : Children(v) \subseteq TreeNode}

LEMMA PullUpType ==
    ASSUME NEW tree \in Tree, NEW v \in Inner
    PROVE  /\ PullUp(tree, v) \in Tree
           /\ PullUp(tree, v) = [tree EXCEPT ![v].replica = Least2(tree, v)]
           /\ Least2(tree, v) \in Int
           /\ \A w \in Children(v) : Least2(tree, v) <= tree[w].replica
<1> DEFINE counts == {tree[w].replica : w \in Children(v)}
           least == Least2(tree, v)
<1>1. \A u \in TreeNode : tree[u] \in [replica : Int, lazy : Int]
  BY DEF Tree
<1>2. v \in TreeNode /\ Children(v) \subseteq TreeNode
  BY DEF Inner
<1>3. least \in Int /\ \A w \in Children(v) : least <= tree[w].replica
  <2>1. PICK a, b : Children(v) = {a, b}
    BY DEF Children
  <2>2. a \in TreeNode /\ b \in TreeNode /\ tree[a].replica \in Int /\ tree[b].replica \in Int
    BY <1>1, <1>2, <2>1
  <2>3. \E n \in counts : \A w \in Children(v) : n <= tree[w].replica
    <3>1. CASE tree[a].replica <= tree[b].replica
      BY <2>1, <2>2, <3>1
    <3>2. CASE tree[b].replica <= tree[a].replica
      BY <2>1, <2>2, <3>2
    <3>3. QED
      BY <2>2, <3>1, <3>2
  <2>4. least \in counts /\ \A w \in Children(v) : least <= tree[w].replica
    BY <2>3 DEF Least2
  <2>5. counts \subseteq Int
    BY <1>1, <1>2
  <2>6. QED
    BY <2>4, <2>5
<1>4. PullUp(tree, v) = [tree EXCEPT ![v].replica = least]
  BY DEF PullUp, Least2
<1> HIDE DEF least, counts
<1>5. [tree EXCEPT ![v].replica = least] \in Tree
  BY <1>1, <1>2, <1>3 DEF Tree
<1>6. QED
  BY <1>3, <1>4, <1>5 DEF least

(* A class counts what both halves do, if they know all that it does.      *)
LEMMA PullUpSound ==
    ASSUME NEW tree \in Tree, NEW kept \in [Nat -> Nat], Sound(tree, kept),
           NEW v \in Inner, tree[v].lazy = 0
    PROVE  /\ Sound(PullUp(tree, v), kept)
           /\ \A u \in TreeNode : PullUp(tree, v)[u].lazy = tree[u].lazy
<1> DEFINE new == PullUp(tree, v)
           least == Least2(tree, v)
<1>1. PICK need \in [TreeNode -> Int] : Promises(tree, kept, need)
  BY DEF Sound
<1>2. \A u \in TreeNode : tree[u] \in [replica : Int, lazy : Int]
  BY DEF Tree
<1>3. /\ v \in TreeNode /\ Children(v) \subseteq TreeNode
      /\ new = [tree EXCEPT ![v].replica = least]
      /\ least \in Int /\ \A w \in Children(v) : least <= tree[w].replica
  BY PullUpType DEF Inner
<1> HIDE DEF least, new
<1>5. /\ \A u \in TreeNode : new[u].lazy = tree[u].lazy
      /\ \A u \in TreeNode \ {v} : new[u].replica = tree[u].replica
      /\ new[v].replica = least
  BY <1>2, <1>3 DEF Tree
<1>6. ASSUME NEW s \in Nat, s % v[1] = v[2] PROVE least + need[v] <= kept[s]
  <2>1. PICK w \in Children(v) : s % w[1] = w[2]
    BY <1>3, <1>6, InHalf
  <2>2. tree[w].replica + need[w] <= kept[s] /\ need[w] = need[v] + tree[v].lazy
    BY <1>1, <1>3, <2>1 DEF Promises
  <2>3. least <= tree[w].replica /\ tree[w].replica \in Int /\ need[v] \in Int
    BY <1>2, <1>3
  <2>4. QED
    BY <1>3, <2>2, <2>3
<1>7. ASSUME NEW u \in TreeNode, NEW s \in Nat, s % u[1] = u[2]
      PROVE  new[u].replica + need[u] <= kept[s]
  BY <1>1, <1>5, <1>6, <1>7 DEF Promises
<1>8. ASSUME NEW u \in TreeNode, NEW w \in Children(u) \cap TreeNode
      PROVE  need[w] = need[u] + new[u].lazy
  BY <1>1, <1>5 DEF Promises
<1>9. Promises(new, kept, need)
  BY <1>1, <1>7, <1>8 DEF Promises
<1>10. QED
  BY <1>5, <1>9 DEF Sound, new

(* What is strictly below a class.                                         *)
Below(c, w) == c[1] < w[1] /\ w[2] % c[1] = c[2]

(* The halves of a class and those below it are below it.                  *)
LEMMA BelowChild ==
    ASSUME NEW c \in TreeNode, NEW u \in TreeNode, NEW w \in Children(u)
    PROVE  Below(c, w) <=> (u = c \/ Below(c, u))
<1>1. /\ u = <<u[1], u[2]>> /\ u[1] \in Powers /\ u[1] \in Nat \ {0} /\ u[2] \in 0 .. u[1] - 1
      /\ c = <<c[1], c[2]>> /\ c[1] \in Powers /\ c[1] \in Nat \ {0} /\ c[2] \in 0 .. c[1] - 1
  BY TreeNodeParts
<1>2. w[1] = 2 * u[1] /\ (w[2] = u[2] \/ w[2] = u[2] + u[1])
  BY ChildrenAre
<1>3. c[1] < 2 * u[1] <=> c[1] <= u[1]
  <2>1. \A p, q \in Powers : p < 2 * q <=> p <= q
    BY PowersAre
  <2>2. QED
    BY <1>1, <2>1
<1>4. c[1] <= u[1] => w[2] % c[1] = u[2] % c[1]
  <2>1. \A p, q \in Powers : \A r \in Nat : p <= q => (r + q) % p = r % p
    BY PowersAre
  <2>2. u[2] \in Nat
    BY <1>1
  <2>3. QED
    BY <1>1, <1>2, <2>1, <2>2
<1>5. c[1] = u[1] => u[2] % c[1] = u[2]
  <2>1. \A p \in Powers : \A r \in 0 .. p - 1 : r % p = r
    BY PowersAre
  <2>2. QED
    BY <1>1, <2>1
<1>6. Below(c, w) <=> (c[1] <= u[1] /\ u[2] % c[1] = c[2])
  BY <1>2, <1>3, <1>4 DEF Below
<1>7. QED
  BY <1>1, <1>5, <1>6 DEF Below

(* The segments of a class are those of the classes it is below.           *)
LEMMA BelowKeeps ==
    ASSUME NEW c \in TreeNode, NEW u \in TreeNode, Below(c, u),
           NEW s \in Nat, s % u[1] = u[2]
    PROVE  s % c[1] = c[2]
<1>1. u[1] \in Powers /\ c[1] \in Powers
  BY TreeNodeParts
<1>2. \A p, q \in Powers : p < q => (s % q) % p = s % p
  BY PowersAre
<1>3. QED
  BY <1>1, <1>2 DEF Below

(* A node more, and what the classes count then.                           *)
Count(tree, c) ==
    [tree EXCEPT ![c] = [replica |-> @.replica + 1, lazy |-> @.lazy + 1]]

KeptWith(kept, c) == [s \in Nat |-> kept[s] + (IF s % c[1] = c[2] THEN 1 ELSE 0)]

LEMMA CountSound ==
    ASSUME NEW tree \in Tree, NEW kept \in [Nat -> Nat], Sound(tree, kept),
           NEW c \in TreeNode
    PROVE  /\ Count(tree, c) \in Tree /\ Sound(Count(tree, c), KeptWith(kept, c))
           /\ \A u \in TreeNode \ {c} : Count(tree, c)[u].lazy = tree[u].lazy
<1> DEFINE new == Count(tree, c)
           more == KeptWith(kept, c)
<1>1. PICK need \in [TreeNode -> Int] : Promises(tree, kept, need)
  BY DEF Sound
<1>2. \A u \in TreeNode : tree[u] \in [replica : Int, lazy : Int]
  BY DEF Tree
<1>3. /\ new \in Tree
      /\ new[c].replica = tree[c].replica + 1 /\ new[c].lazy = tree[c].lazy + 1
      /\ \A u \in TreeNode \ {c} : new[u] = tree[u]
  BY <1>2 DEF Tree, Count
<1> DEFINE now == [u \in TreeNode |-> need[u] + (IF Below(c, u) THEN 1 ELSE 0)]
<1>4. now \in [TreeNode -> Int] /\ \A u \in TreeNode :
          now[u] = need[u] + (IF Below(c, u) THEN 1 ELSE 0)
  OBVIOUS
<1>5. \A s \in Nat : more[s] = kept[s] + (IF s % c[1] = c[2] THEN 1 ELSE 0)
  BY DEF KeptWith
<1> HIDE DEF now, new, more
<1>6. \A u \in TreeNode : /\ tree[u].replica \in Int /\ tree[u].lazy \in Int
                          /\ need[u] \in Int
  BY <1>2
<1>7. ~Below(c, c) /\ ~Below(c, <<1, 0>>)
  BY TreeNodeParts DEF Below
<1>8. now[<<1, 0>>] = 0
  BY <1>1, <1>4, <1>7, RootInTree DEF Promises
<1>9. ASSUME NEW u \in TreeNode, NEW w \in Children(u) \cap TreeNode
      PROVE  now[w] = now[u] + new[u].lazy
  <2>1. need[w] = need[u] + tree[u].lazy
    BY <1>1 DEF Promises
  <2>2. Below(c, w) <=> (u = c \/ Below(c, u))
    BY BelowChild
  <2>3. QED
    BY <1>3, <1>4, <1>6, <1>7, <2>1, <2>2
<1>10. ASSUME NEW u \in TreeNode, NEW s \in Nat, s % u[1] = u[2]
       PROVE  new[u].replica + now[u] <= more[s]
  <2>1. tree[u].replica + need[u] <= kept[s] /\ kept[s] \in Int
    BY <1>1, <1>10 DEF Promises
  <2>2. CASE u = c
    BY <1>3, <1>4, <1>5, <1>6, <1>7, <1>10, <2>1, <2>2
  <2>3. CASE u # c /\ Below(c, u)
    <3>1. s % c[1] = c[2]
      BY <1>10, <2>3, BelowKeeps
    <3>2. QED
      BY <1>3, <1>4, <1>5, <1>6, <2>1, <2>3, <3>1
  <2>4. CASE u # c /\ ~Below(c, u)
    BY <1>3, <1>4, <1>5, <1>6, <2>1, <2>4
  <2>5. QED
    BY <2>2, <2>3, <2>4
<1>11. Promises(new, more, now)
  BY <1>8, <1>9, <1>10 DEF Promises
<1>12. \A u \in TreeNode \ {c} : new[u].lazy = tree[u].lazy
  BY <1>3
<1>13. QED
  BY <1>3, <1>4, <1>11, <1>12 DEF Sound, new, more

----------------------------------------------------------------------------
(* The way down to a config and up again.                                  *)
DownState == [tree : Tree, visited : Seq(TreeNode), full : BOOLEAN]

(* A step down leaves a tree.                                              *)
LEMMA DownType ==
    ASSUME NEW s \in DownState, NEW v \in TreeNode, NEW expectedReplica
    PROVE  Down(s, v, expectedReplica) \in DownState
<1>1. Pushdown(s.tree, v) \in Tree
  <2>1. s.tree \in Tree /\ \A u \in TreeNode : s.tree[u] \in [replica : Int, lazy : Int]
    BY DEF DownState, Tree
  <2>2. ASSUME NEW u \in TreeNode
        PROVE  (IF u \in Children(v) THEN [replica |-> s.tree[u].replica + s.tree[v].lazy,
                                           lazy |-> s.tree[u].lazy + s.tree[v].lazy]
                ELSE IF u = v THEN [s.tree[v] EXCEPT !.lazy = 0] ELSE s.tree[u])
               \in [replica : Int, lazy : Int]
    BY <2>1
  <2>3. QED
    BY <2>2 DEF Pushdown, Tree
<1>2. <<v>> \o s.visited \in Seq(TreeNode)
  BY DEF DownState
<1>3. QED
  BY <1>1, <1>2 DEF Down, DownState

(* The fold takes the steps one after the other.                           *)
DownAll(base, way, expectedReplica) ==
    FoldLeft(LAMBDA t, v : Down(t, v, expectedReplica), base, way)

GoesDown(f, base, way, expectedReplica, n) ==
    /\ DownAll(base, way, expectedReplica) = f[n]
    /\ f[0] = base
    /\ \A k \in 1 .. n : f[k] = Down(f[k - 1], way[k], expectedReplica)

LEMMA DownSteps ==
    ASSUME NEW expectedReplica, NEW base \in DownState, NEW n \in Nat,
           NEW way \in [1 .. n -> TreeNode]
    PROVE  \E f : GoesDown(f, base, way, expectedReplica, n)
<1> DEFINE g == [x \in DownState \X (1 .. n) |-> Down(x[1], way[x[2]], expectedReplica)]
           Is(it) == it = [s \in SUBSET (1 .. n) |->
                              IF s = {} THEN base
                              ELSE Down(it[s \ {Max(s)}], way[Max(s)], expectedReplica)]
<1>1. g \in [DownState \X (1 .. n) -> DownState]
  BY DownType
<1>2. PICK it \in [SUBSET (1 .. n) -> DownState] : Folds(it, g, base, n)
  <2> HIDE DEF g
  <2>1. QED
    BY <1>1, FoldsExist
<1>3. Is(it)
  <2>1. ASSUME NEW s \in SUBSET (1 .. n), s # {}
        PROVE  g[<<it[s \ {Max(s)}], Max(s)>>]
                   = Down(it[s \ {Max(s)}], way[Max(s)], expectedReplica)
    <3>1. Max(s) \in 1 .. n
      BY <2>1, LastOne
    <3>2. it[s \ {Max(s)}] \in DownState
      OBVIOUS
    <3>3. QED
      BY <3>1, <3>2
  <2>2. it = [s \in SUBSET (1 .. n) |->
                 IF s = {} THEN base ELSE g[<<it[s \ {Max(s)}], Max(s)>>]]
    BY <1>2 DEF Folds
  <2> HIDE DEF g
  <2>3. QED
    BY <2>1, <2>2
<1> DEFINE F == CHOOSE h : Is(h)
<1>4. Is(F)
  <2> HIDE DEF Is
  <2>1. QED
    BY <1>3
<1>5. DownAll(base, way, expectedReplica) = F[1 .. n]
  <2>1. DOMAIN way = 1 .. n
    OBVIOUS
  <2>2. QED
    BY <2>1 DEF DownAll, FoldLeft, MapThenFoldSet
<1> HIDE DEF F
<1> DEFINE f == [k \in 0 .. n |-> F[1 .. k]]
<1>6. f[0] = base
  <2>1. 1 .. 0 = {} /\ 0 \in 0 .. n
    OBVIOUS
  <2>2. F[{}] = base
    BY <1>4
  <2>3. QED
    BY <2>1, <2>2
<1>7. ASSUME NEW k \in 1 .. n PROVE f[k] = Down(f[k - 1], way[k], expectedReplica)
  <2>1. 1 .. k \in SUBSET (1 .. n) /\ k \in Nat \ {0} /\ k \in 0 .. n /\ k - 1 \in 0 .. n
    OBVIOUS
  <2>2. 1 .. k # {} /\ Max(1 .. k) = k /\ (1 .. k) \ {Max(1 .. k)} = 1 .. (k - 1)
    BY <2>1, FirstPositions
  <2>3. F[1 .. k] = Down(F[(1 .. k) \ {Max(1 .. k)}], way[Max(1 .. k)], expectedReplica)
    BY <1>4, <2>1, <2>2
  <2>4. QED
    BY <2>1, <2>2, <2>3
<1>8. n \in 0 .. n
  OBVIOUS
<1>9. GoesDown(f, base, way, expectedReplica, n)
  BY <1>5, <1>6, <1>7, <1>8 DEF GoesDown
<1>10. QED
  BY <1>9

(* The way up takes its steps one after the other, too.                    *)
GoesUp(f, base, up, n) ==
    /\ FoldLeft(PullUp, base, up) = f[n]
    /\ f[0] = base
    /\ \A k \in 1 .. n : f[k] = PullUp(f[k - 1], up[k])

LEMMA PullUpSteps ==
    ASSUME NEW base \in Tree, NEW n \in Nat, NEW up \in [1 .. n -> Inner]
    PROVE  \E f : GoesUp(f, base, up, n)
<1> DEFINE g == [x \in Tree \X (1 .. n) |-> PullUp(x[1], up[x[2]])]
           Is(it) == it = [s \in SUBSET (1 .. n) |->
                              IF s = {} THEN base
                              ELSE PullUp(it[s \ {Max(s)}], up[Max(s)])]
<1>1. g \in [Tree \X (1 .. n) -> Tree]
  BY PullUpType
<1>2. PICK it \in [SUBSET (1 .. n) -> Tree] : Folds(it, g, base, n)
  <2> HIDE DEF g
  <2>1. QED
    BY <1>1, FoldsExist
<1>3. Is(it)
  <2>1. ASSUME NEW s \in SUBSET (1 .. n), s # {}
        PROVE  g[<<it[s \ {Max(s)}], Max(s)>>] = PullUp(it[s \ {Max(s)}], up[Max(s)])
    <3>1. Max(s) \in 1 .. n
      BY <2>1, LastOne
    <3>2. it[s \ {Max(s)}] \in Tree
      OBVIOUS
    <3>3. QED
      BY <3>1, <3>2
  <2>2. it = [s \in SUBSET (1 .. n) |->
                 IF s = {} THEN base ELSE g[<<it[s \ {Max(s)}], Max(s)>>]]
    BY <1>2 DEF Folds
  <2> HIDE DEF g
  <2>3. QED
    BY <2>1, <2>2
<1> DEFINE F == CHOOSE h : Is(h)
<1>4. Is(F)
  <2> HIDE DEF Is
  <2>1. QED
    BY <1>3
<1>5. FoldLeft(PullUp, base, up) = F[1 .. n]
  <2>1. DOMAIN up = 1 .. n
    OBVIOUS
  <2>2. QED
    BY <2>1 DEF FoldLeft, MapThenFoldSet
<1> HIDE DEF F
<1> DEFINE f == [k \in 0 .. n |-> F[1 .. k]]
<1>6. f[0] = base
  <2>1. 1 .. 0 = {} /\ 0 \in 0 .. n
    OBVIOUS
  <2>2. F[{}] = base
    BY <1>4
  <2>3. QED
    BY <2>1, <2>2
<1>7. ASSUME NEW k \in 1 .. n PROVE f[k] = PullUp(f[k - 1], up[k])
  <2>1. 1 .. k \in SUBSET (1 .. n) /\ k \in Nat \ {0} /\ k \in 0 .. n /\ k - 1 \in 0 .. n
    OBVIOUS
  <2>2. 1 .. k # {} /\ Max(1 .. k) = k /\ (1 .. k) \ {Max(1 .. k)} = 1 .. (k - 1)
    BY <2>1, FirstPositions
  <2>3. F[1 .. k] = PullUp(F[(1 .. k) \ {Max(1 .. k)}], up[Max(1 .. k)])
    BY <1>4, <2>1, <2>2
  <2>4. QED
    BY <2>1, <2>2, <2>3
<1>8. n \in 0 .. n
  OBVIOUS
<1>9. GoesUp(f, base, up, n)
  BY <1>5, <1>6, <1>7, <1>8 DEF GoesUp
<1>10. QED
  BY <1>9

(* The powers in their order.                                              *)
LEMMA PowersGrow ==
    /\ \A k \in 0 .. 10 : 2 ^ k \in Powers
    /\ \A j, k \in 0 .. 10 : j < k => 2 ^ j < 2 ^ k
<1>1. /\ 2 ^ 0 = 1 /\ 2 ^ 1 = 2 /\ 2 ^ 2 = 4 /\ 2 ^ 3 = 8 /\ 2 ^ 4 = 16 /\ 2 ^ 5 = 32
      /\ 2 ^ 6 = 64 /\ 2 ^ 7 = 128 /\ 2 ^ 8 = 256 /\ 2 ^ 9 = 512 /\ 2 ^ 10 = 1024
  OBVIOUS
<1>2. \A k \in 0 .. 10 : k \in {0, 1, 2, 3, 4, 5, 6, 7, 8, 9, 10}
  OBVIOUS
<1>3. \A j, k \in 0 .. 10 : j < k => 2 ^ j < 2 ^ k
  <2> DEFINE power == [k \in 0 .. 10 |-> 2 ^ k]
  <2>1. \A k \in 0 .. 10 : power[k] = 2 ^ k
    OBVIOUS
  <2>2. /\ power[0] = 1 /\ power[1] = 2 /\ power[2] = 4 /\ power[3] = 8
        /\ power[4] = 16 /\ power[5] = 32 /\ power[6] = 64 /\ power[7] = 128
        /\ power[8] = 256 /\ power[9] = 512 /\ power[10] = 1024
    BY <1>1
  <2> HIDE DEF power
  <2>3. \A j, k \in {0, 1, 2, 3, 4, 5, 6, 7, 8, 9, 10} : j < k => power[j] < power[k]
    BY <2>2
  <2>4. \A j, k \in 0 .. 10 : j < k => power[j] < power[k]
    BY <1>2, <2>3
  <2>5. QED
    BY <2>1, <2>4, Zenon
<1>4. QED
  BY <1>3 DEF Powers

(* The way to a config gets closer to it with each step.                   *)
LEMMA WayDown ==
    ASSUME NEW c \in TreeNode
    PROVE  \E n \in Nat :
               /\ Way(c) \in [1 .. n -> {v \in Inner : v[1] < c[1]}]
               /\ \A j, k \in 1 .. n : j < k => Way(c)[j][1] < Way(c)[k][1]
<1> DEFINE n == CHOOSE k \in 0 .. 10 : 2 ^ k = c[1]
<1>1. /\ c[1] \in Powers /\ c[1] <= 2 * MaxShards /\ c[1] \in Nat /\ c[2] \in Nat
  BY TreeNodeParts
<1>2. n \in 0 .. 10 /\ 2 ^ n = c[1]
  BY <1>1 DEF Powers
<1>3. Way(c) = [k \in 1 .. n |-> <<2 ^ (k - 1), c[2] % 2 ^ (k - 1)>>]
  BY DEF Way
<1> HIDE DEF n
<1>4. ASSUME NEW k \in 1 .. n
      PROVE  /\ Way(c)[k] \in {v \in Inner : v[1] < c[1]} /\ Way(c)[k][1] = 2 ^ (k - 1)
  <2> DEFINE p == 2 ^ (k - 1)
             v == <<p, c[2] % p>>
  <2>1. k - 1 \in 0 .. 10 /\ k - 1 < n
    BY <1>2
  <2>2. p \in Powers /\ p < c[1]
    BY <1>2, <2>1, PowersGrow
  <2> HIDE DEF p
  <2>3. p \in Nat \ {0} /\ c[2] % p \in 0 .. p - 1
    <3>1. \A q \in Powers : q \in Nat \ {0} /\ c[2] % q \in 0 .. q - 1
      BY <1>1, PowersAre
    <3>2. QED
      BY <2>2, <3>1
  <2>4. p <= 2 * MaxShards
    BY <1>1, <2>2, <2>3, NodeSelectorAssumption
  <2>5. v \in TreeNode
    BY <2>2, <2>3, <2>4, TreeNodeIntro
  <2>6. v[1] < c[1]
    BY <2>2
  <2>7. Children(v) \subseteq TreeNode
    BY <2>5, <2>6, ChildrenInTree
  <2>8. Way(c)[k] = v
    BY <1>3 DEF p
  <2>9. QED
    BY <2>5, <2>6, <2>7, <2>8 DEF Inner, p
<1>5. ASSUME NEW j \in 1 .. n, NEW k \in 1 .. n, j < k
      PROVE  Way(c)[j][1] < Way(c)[k][1]
  <2>1. j - 1 \in 0 .. 10 /\ k - 1 \in 0 .. 10 /\ j - 1 < k - 1
    BY <1>2, <1>5
  <2>2. 2 ^ (j - 1) < 2 ^ (k - 1)
    BY <2>1, PowersGrow
  <2>3. QED
    BY <1>4, <2>2
<1>6. Way(c) \in [1 .. n -> {v \in Inner : v[1] < c[1]}]
  BY <1>3, <1>4
<1>7. QED
  BY <1>2, <1>5, <1>6

(* The classes visited so far: they have told their halves all they know.  *)
Told(s, c, n, way, k) ==
    \A i \in 1 .. Len(s.visited) :
        LET v == s.visited[i]
        IN  /\ v \in Inner /\ v[1] < c[1] /\ s.tree[v].lazy = 0
            /\ \A j \in k + 1 .. n : v[1] < way[j][1]

(* A step down.                                                            *)
LEMMA DownSound ==
    ASSUME NEW kept \in [Nat -> Nat], NEW c \in TreeNode, NEW expectedReplica,
           NEW n \in Nat, NEW way \in [1 .. n -> {v \in Inner : v[1] < c[1]}],
           \A i, j \in 1 .. n : i < j => way[i][1] < way[j][1],
           NEW k \in 1 .. n, NEW s \in DownState,
           Sound(s.tree, kept), Told(s, c, n, way, k - 1)
    PROVE  LET d == Down(s, way[k], expectedReplica)
           IN  d \in DownState /\ Sound(d.tree, kept) /\ Told(d, c, n, way, k)
<1> DEFINE d == Down(s, way[k], expectedReplica)
           w == way[k]
<1>1. w \in Inner /\ w \in TreeNode /\ w[1] < c[1] /\ d \in DownState
  BY DownType DEF Inner
<1>2. s.tree \in Tree /\ s.visited \in Seq(TreeNode) /\ s.full \in BOOLEAN
  BY DEF DownState
<1>a. \A j \in k + 1 .. n : w[1] < way[j][1]
  OBVIOUS
<1> SUFFICES d \in DownState /\ Sound(d.tree, kept) /\ Told(d, c, n, way, k)
  OBVIOUS
<1> HIDE DEF d, w
<1>3. CASE s.full \/ s.tree[w].replica >= expectedReplica
  <2>1. d.tree = s.tree /\ d.visited = s.visited
    BY <1>3 DEF Down, DownState, d, w
  <2>2. \A j \in k + 1 .. n : j \in (k - 1) + 1 .. n
    OBVIOUS
  <2>3. Told(d, c, n, way, k)
    BY <2>1, <2>2 DEF Told
  <2>4. QED
    BY <1>1, <2>1, <2>3
<1>4. CASE ~(s.full \/ s.tree[w].replica >= expectedReplica)
  <2>1. d.tree = Pushdown(s.tree, w) /\ d.visited = <<w>> \o s.visited
    BY <1>4 DEF Down, DownState, d, w
  <2>2. /\ Sound(d.tree, kept) /\ d.tree[w].lazy = 0
        /\ \A u \in TreeNode \ Children(w) : s.tree[u].lazy = 0 => d.tree[u].lazy = 0
    <3>1. /\ Pushdown(s.tree, w) \in Tree /\ Sound(Pushdown(s.tree, w), kept)
          /\ Pushdown(s.tree, w)[w].lazy = 0
          /\ \A u \in TreeNode \ Children(w) :
                 s.tree[u].lazy = 0 => Pushdown(s.tree, w)[u].lazy = 0
      <4>1. w \in TreeNode /\ s.tree \in Tree /\ Sound(s.tree, kept)
        BY <1>1, <1>2
      <4>2. QED
        BY <4>1, PushdownSound, Zenon
    <3>2. PICK t : t = Pushdown(s.tree, w)
      OBVIOUS
    <3>3. d.tree = t
      BY <2>1, <3>2
    <3>4. QED
      BY <3>1, <3>2, <3>3, Zenon
  <2>3. ASSUME NEW i \in 1 .. Len(d.visited)
        PROVE  LET v == d.visited[i]
               IN  /\ v \in Inner /\ v[1] < c[1] /\ d.tree[v].lazy = 0
                   /\ \A j \in k + 1 .. n : v[1] < way[j][1]
    <3>2. /\ d.visited[i] = IF i = 1 THEN w ELSE s.visited[i - 1]
          /\ i # 1 => i - 1 \in 1 .. Len(s.visited)
      <4>1. \A j \in 1 .. Len(<<w>> \o s.visited) :
                /\ (<<w>> \o s.visited)[j] = IF j = 1 THEN w ELSE s.visited[j - 1]
                /\ j # 1 => j - 1 \in 1 .. Len(s.visited)
        BY <1>1, <1>2, Prepend
      <4>2. QED
        BY <2>1, <2>3, <4>1, Zenon
    <3>3. CASE i = 1
      BY <1>1, <1>a, <2>2, <3>2, <3>3
    <3>4. CASE i # 1
      <4>1. i - 1 \in 1 .. Len(s.visited)
        BY <3>2, <3>4
      <4> DEFINE v == s.visited[i - 1]
      <4>2. /\ v \in Inner /\ v[1] < c[1] /\ s.tree[v].lazy = 0
            /\ \A j \in (k - 1) + 1 .. n : v[1] < way[j][1]
        BY <4>1 DEF Told
      <4>3. v[1] < w[1] /\ \A j \in k + 1 .. n : v[1] < way[j][1]
        <5>1. k \in (k - 1) + 1 .. n /\ \A j \in k + 1 .. n : j \in (k - 1) + 1 .. n
          OBVIOUS
        <5>2. QED
          BY <4>2, <5>1 DEF w
      <4>4. v \notin Children(w) /\ v \in TreeNode
        <5>1. v \in TreeNode /\ v[1] \in Nat /\ w[1] \in Nat /\ w[1] # 0
          BY <1>1, <4>2, TreeNodeParts DEF Inner
        <5> HIDE DEF v
        <5>2. v[1] # 2 * w[1]
          <6>1. \A x, y \in Nat : x < y => x # 2 * y
            OBVIOUS
          <6>2. QED
            BY <4>3, <5>1, <6>1, Zenon
        <5>3. QED
          BY <1>1, <5>1, <5>2, ChildrenAre
      <4>5. QED
        BY <2>2, <3>2, <3>4, <4>2, <4>3, <4>4
    <3>5. QED
      BY <3>3, <3>4
  <2>4. Told(d, c, n, way, k)
    BY <2>3 DEF Told
  <2>5. QED
    BY <1>1, <2>2, <2>4
<1>5. QED
  BY <1>3, <1>4

(* The way down.                                                           *)
WentDown(s, kept, c) ==
    /\ s \in DownState /\ Sound(s.tree, kept)
    /\ \A i \in 1 .. Len(s.visited) :
           LET v == s.visited[i]
           IN  v \in Inner /\ v[1] < c[1] /\ s.tree[v].lazy = 0

LEMMA WaySound ==
    ASSUME NEW tree \in Tree, NEW kept \in [Nat -> Nat], Sound(tree, kept),
           NEW c \in TreeNode, NEW expectedReplica,
           NEW base, base = [tree |-> tree, visited |-> << >>, full |-> FALSE],
           NEW s, s = DownAll(base, Way(c), expectedReplica)
    PROVE  WentDown(s, kept, c)
<1>1. PICK n \in Nat :
          /\ Way(c) \in [1 .. n -> {v \in Inner : v[1] < c[1]}]
          /\ \A j, k \in 1 .. n : j < k => Way(c)[j][1] < Way(c)[k][1]
  BY WayDown
<1>2. PICK way : way = Way(c)
  OBVIOUS
<1>3. way \in [1 .. n -> TreeNode]
  BY <1>1, <1>2 DEF Inner
<1>4. base \in DownState /\ base.tree = tree /\ base.visited = << >>
  BY DEF DownState
<1>5. PICK f : /\ DownAll(base, way, expectedReplica) = f[n]
               /\ f[0] = base
               /\ \A k \in 1 .. n : f[k] = Down(f[k - 1], way[k], expectedReplica)
  <2>1. \E f : GoesDown(f, base, way, expectedReplica, n)
    BY <1>3, <1>4, DownSteps
  <2>2. QED
    BY <2>1, Zenon DEF GoesDown
<1> DEFINE Good(k) == /\ f[k] \in DownState /\ Sound(f[k].tree, kept)
                      /\ Told(f[k], c, n, way, k)
           Bad == {k \in 0 .. n : ~Good(k)}
<1>6. Good(0)
  <2>1. 1 .. Len(base.visited) = {}
    BY <1>4
  <2>2. Told(base, c, n, way, 0)
    BY <2>1 DEF Told
  <2>3. QED
    BY <1>4, <1>5, <2>2
<1>7. ASSUME NEW k \in 1 .. n, Good(k - 1) PROVE Good(k)
  <2>1. LET d == Down(f[k - 1], way[k], expectedReplica)
        IN  d \in DownState /\ Sound(d.tree, kept) /\ Told(d, c, n, way, k)
    BY <1>1, <1>2, <1>7, DownSound
  <2>2. f[k] = Down(f[k - 1], way[k], expectedReplica)
    BY <1>5
  <2>3. QED
    BY <2>1, <2>2
<1> HIDE DEF Good
<1>8. Bad = {}
  <2> SUFFICES ASSUME Bad # {} PROVE FALSE
    OBVIOUS
  <2>1. Bad \in SUBSET Nat
    OBVIOUS
  <2>2. PICK k \in Bad : \A j \in Bad : k <= j
    BY <2>1, Least
  <2>3. k # 0 /\ k \in 0 .. n
    BY <1>6, <2>2
  <2>4. k \in 1 .. n /\ k - 1 \in 0 .. n /\ k - 1 \notin Bad
    BY <2>2, <2>3
  <2>5. QED
    BY <1>7, <2>2, <2>4
<1>9. Good(n)
  <2>1. n \in 0 .. n
    OBVIOUS
  <2>2. QED
    BY <1>8, <2>1
<1>10. s = f[n]
  BY <1>2, <1>5
<1>11. s \in DownState /\ Sound(s.tree, kept) /\ Told(s, c, n, way, n)
  BY <1>9, <1>10 DEF Good
<1>12. QED
  BY <1>11 DEF Told, WentDown

(* The way up.                                                             *)
LEMMA UpSound ==
    ASSUME NEW base \in Tree, NEW kept \in [Nat -> Nat], Sound(base, kept),
           NEW up \in Seq(TreeNode),
           \A i \in 1 .. Len(up) : up[i] \in Inner /\ base[up[i]].lazy = 0
    PROVE  FoldLeft(PullUp, base, up) \in Tree /\ Sound(FoldLeft(PullUp, base, up), kept)
<1>1. PICK n \in Nat : n = Len(up)
  BY LenProperties
<1>2. up \in [1 .. n -> Inner]
  BY <1>1
<1>3. PICK f : /\ FoldLeft(PullUp, base, up) = f[n]
               /\ f[0] = base
               /\ \A k \in 1 .. n : f[k] = PullUp(f[k - 1], up[k])
  <2>1. \E f : GoesUp(f, base, up, n)
    BY <1>2, PullUpSteps
  <2>2. QED
    BY <2>1, Zenon DEF GoesUp
<1> DEFINE Good(k) == /\ f[k] \in Tree /\ Sound(f[k], kept)
                      /\ \A u \in TreeNode : f[k][u].lazy = base[u].lazy
           Bad == {k \in 0 .. n : ~Good(k)}
<1>4. Good(0)
  BY <1>3
<1>5. ASSUME NEW k \in 1 .. n, Good(k - 1) PROVE Good(k)
  <2>1. up[k] \in Inner /\ up[k] \in TreeNode /\ base[up[k]].lazy = 0
    BY <1>1 DEF Inner
  <2>2. f[k - 1] \in Tree /\ Sound(f[k - 1], kept) /\ f[k - 1][up[k]].lazy = 0
    BY <1>5, <2>1
  <2>3. /\ PullUp(f[k - 1], up[k]) \in Tree
        /\ Sound(PullUp(f[k - 1], up[k]), kept)
        /\ \A u \in TreeNode : PullUp(f[k - 1], up[k])[u].lazy = f[k - 1][u].lazy
    BY <2>1, <2>2, PullUpType, PullUpSound
  <2>4. f[k] = PullUp(f[k - 1], up[k])
    BY <1>3
  <2>5. QED
    BY <1>5, <2>3, <2>4
<1> HIDE DEF Good
<1>6. Bad = {}
  <2> SUFFICES ASSUME Bad # {} PROVE FALSE
    OBVIOUS
  <2>1. Bad \in SUBSET Nat
    OBVIOUS
  <2>2. PICK k \in Bad : \A j \in Bad : k <= j
    BY <2>1, Least
  <2>3. k # 0 /\ k \in 0 .. n
    BY <1>4, <2>2
  <2>4. k \in 1 .. n /\ k - 1 \in 0 .. n /\ k - 1 \notin Bad
    BY <2>2, <2>3
  <2>5. QED
    BY <1>5, <2>2, <2>4
<1>7. Good(n)
  <2>1. n \in 0 .. n
    OBVIOUS
  <2>2. QED
    BY <1>6, <2>1
<1>8. QED
  BY <1>3, <1>7 DEF Good

(* insert: a node that is inserted is counted, and nobody else.            *)
LEMMA InsertSound ==
    ASSUME NEW tree \in Tree, NEW kept \in [Nat -> Nat], Sound(tree, kept),
           NEW c \in TreeNode, NEW expectedReplica
    PROVE  LET i == Insert(tree, c, expectedReplica)
           IN  /\ i.tree \in Tree /\ i.inserted \in BOOLEAN
               /\ Sound(i.tree, IF i.inserted THEN KeptWith(kept, c) ELSE kept)
<1>a. PICK base : base = [tree |-> tree, visited |-> << >>, full |-> FALSE]
  OBVIOUS
<1>b. PICK s : s = DownAll(base, Way(c), expectedReplica)
  OBVIOUS
<1> DEFINE inserted == ~s.full /\ s.tree[c].replica < expectedReplica
           counted == IF inserted THEN Count(s.tree, c) ELSE s.tree
           now == IF inserted THEN KeptWith(kept, c) ELSE kept
           i == Insert(tree, c, expectedReplica)
<1>c. WentDown(s, kept, c)
  BY <1>a, <1>b, WaySound
<1>1. /\ s \in DownState /\ Sound(s.tree, kept)
      /\ \A j \in 1 .. Len(s.visited) :
             LET v == s.visited[j]
             IN  v \in Inner /\ v[1] < c[1] /\ s.tree[v].lazy = 0
  BY <1>c DEF WentDown
<1>2. i = [tree |-> FoldLeft(PullUp, counted, s.visited), inserted |-> inserted]
  BY <1>a, <1>b DEF Insert, Count, DownAll
<1> SUFFICES /\ i.tree \in Tree /\ i.inserted \in BOOLEAN
             /\ Sound(i.tree, IF i.inserted THEN KeptWith(kept, c) ELSE kept)
  OBVIOUS
<1> HIDE DEF i
<1>3. s.tree \in Tree /\ s.visited \in Seq(TreeNode)
  BY <1>1 DEF DownState
<1>4. /\ Count(s.tree, c) \in Tree /\ Sound(Count(s.tree, c), KeptWith(kept, c))
      /\ \A u \in TreeNode \ {c} : Count(s.tree, c)[u].lazy = s.tree[u].lazy
  BY <1>1, <1>3, CountSound
<1>5. now \in [Nat -> Nat] /\ KeptWith(kept, c) \in [Nat -> Nat]
  BY DEF KeptWith
<1>6. counted \in Tree /\ Sound(counted, now)
  BY <1>1, <1>3, <1>4
<1>7. \A j \in 1 .. Len(s.visited) :
          s.visited[j] \in Inner /\ counted[s.visited[j]].lazy = 0
  <2>1. ASSUME NEW j \in 1 .. Len(s.visited)
        PROVE  s.visited[j] \in Inner /\ counted[s.visited[j]].lazy = 0
    <3>1. PICK v : /\ v = s.visited[j] /\ v \in Inner /\ v \in TreeNode /\ v[1] < c[1]
                   /\ s.tree[v].lazy = 0
      BY <1>1 DEF Inner
    <3>2. v # c
      <4>1. \A x, y \in Nat : x < y => x # y
        OBVIOUS
      <4>2. v[1] \in Nat /\ c[1] \in Nat
        BY <3>1, TreeNodeParts
      <4>3. v[1] # c[1]
        BY <3>1, <4>1, <4>2
      <4>4. QED
        BY <4>3
    <3>3. QED
      BY <1>4, <3>1, <3>2
  <2>2. QED
    BY <2>1
<1> HIDE DEF counted, now
<1>8. /\ FoldLeft(PullUp, counted, s.visited) \in Tree
      /\ Sound(FoldLeft(PullUp, counted, s.visited), now)
  BY <1>3, <1>5, <1>6, <1>7, UpSound
<1>9. i.tree = FoldLeft(PullUp, counted, s.visited) /\ i.inserted = inserted
  BY <1>2
<1>10. QED
  BY <1>8, <1>9 DEF now

----------------------------------------------------------------------------
(* Sorting.  R has the pairs of which the first is before the second.      *)
InOrder(seq, R) ==
    \A i, j \in DOMAIN seq : i < j => <<seq[j], seq[i]>> \notin R

(* A set can be sorted when each part of it has a first element.           *)
LEMMA Sortable ==
    ASSUME NEW S, IsFiniteSet(S), NEW R,
           \A T \in SUBSET S : T # {} => \E x \in T : \A y \in T : <<y, x>> \notin R
    PROVE  \E seq \in SetToSeqs(S) : InOrder(seq, R)
<1> DEFINE Has(T) == \E seq \in SetToSeqs(T) : InOrder(seq, R)
           Bad == {n \in Nat : \E T \in SUBSET S : Cardinality(T) = n /\ ~Has(T)}
<1>1. \A T \in SUBSET S : IsFiniteSet(T) /\ Cardinality(T) \in Nat
  BY FS_Subset, FS_CardinalityType
<1>2. ASSUME NEW T \in SUBSET S, T # {},
             \A U \in SUBSET S : Cardinality(U) = Cardinality(T) - 1 => Has(U)
      PROVE  Has(T)
  <2>1. PICK x \in T : \A y \in T : <<y, x>> \notin R
    BY <1>2
  <2> DEFINE U == T \ {x}
  <2>2. PICK n \in Nat : n = Cardinality(U) /\ Cardinality(T) = n + 1
    BY <1>1, FS_RemoveElement
  <2>3. PICK q \in SetToSeqs(U) : InOrder(q, R)
    <3>1. U \in SUBSET S
      OBVIOUS
    <3>2. Cardinality(U) = Cardinality(T) - 1
      BY <2>2
    <3> HIDE DEF U
    <3>3. Has(U)
      <4> HIDE DEF Has
      <4>1. QED
        BY <1>2, <3>1, <3>2
    <3>4. QED
      BY <3>3
  <2>4. q \in [1 .. n -> U] /\ \A i, j \in 1 .. n : i # j => q[i] # q[j]
    BY <2>2 DEF SetToSeqs
  <2> DEFINE r == [i \in 1 .. n + 1 |-> IF i = 1 THEN x ELSE q[i - 1]]
  <2>5. /\ r[1] = x
        /\ \A i \in 1 .. n + 1 : i # 1 => i - 1 \in 1 .. n /\ r[i] = q[i - 1]
    OBVIOUS
  <2>6. r \in [1 .. n + 1 -> T]
    BY <2>4, <2>5
  <2> HIDE DEF r, U
  <2>7. \A i, j \in 1 .. n + 1 : i # j => r[i] # r[j]
    <3>1. \A i \in 1 .. n : q[i] # x
      BY <2>4 DEF U
    <3>2. \A i, j \in 1 .. n + 1 : i # j => i - 1 # j - 1
      OBVIOUS
    <3>3. QED
      BY <2>4, <2>5, <3>1, <3>2
  <2>8. r \in SetToSeqs(T)
    BY <2>2, <2>6, <2>7 DEF SetToSeqs
  <2>9. \A i, j \in 1 .. n : i < j => <<q[j], q[i]>> \notin R
    BY <2>3, <2>4 DEF InOrder
  <2>10. ASSUME NEW i \in 1 .. n + 1, NEW j \in 1 .. n + 1, i < j
         PROVE  <<r[j], r[i]>> \notin R
    <3>1. CASE i = 1
      BY <2>1, <2>5, <2>6, <3>1
    <3>2. CASE i # 1
      <4>1. j # 1 /\ i - 1 < j - 1
        BY <2>10, <3>2
      <4>2. QED
        BY <2>5, <2>9, <3>2, <4>1
    <3>3. QED
      BY <3>1, <3>2
  <2>11. InOrder(r, R)
    BY <2>6, <2>10 DEF InOrder
  <2>12. QED
    BY <2>8, <2>11
<1>3. Has({})
  <2>1. Cardinality({}) = 0 /\ 1 .. 0 = {}
    BY FS_EmptySet
  <2>2. << >> \in SetToSeqs({})
    BY <2>1 DEF SetToSeqs
  <2>3. InOrder(<< >>, R)
    BY DEF InOrder
  <2>4. QED
    BY <2>2, <2>3
<1> HIDE DEF Has
<1>4. Bad = {}
  <2> SUFFICES ASSUME Bad # {} PROVE FALSE
    OBVIOUS
  <2>1. Bad \in SUBSET Nat
    OBVIOUS
  <2>2. PICK n \in Bad : \A m \in Bad : n <= m
    BY <2>1, Least
  <2>3. PICK T \in SUBSET S : Cardinality(T) = n /\ ~Has(T)
    BY <2>2
  <2>4. T # {} /\ n \in Nat
    BY <1>3, <2>2, <2>3
  <2>5. n # 0
    BY <1>1, <2>3, <2>4, FS_EmptySet
  <2>6. n - 1 \in Nat /\ n - 1 \notin Bad
    BY <2>2, <2>4, <2>5
  <2>7. QED
    BY <1>2, <2>3, <2>4, <2>6
<1>5. QED
  BY <1>1, <1>4 DEF Has

(* Then each element has its place.                                        *)
LEMMA AllListed ==
    ASSUME NEW S, IsFiniteSet(S), NEW seq \in SetToSeqs(S)
    PROVE  /\ Cardinality(S) \in Nat /\ seq \in [1 .. Cardinality(S) -> S]
           /\ seq \in Seq(S) /\ Len(seq) = Cardinality(S)
           /\ \A i, j \in 1 .. Cardinality(S) : seq[i] = seq[j] => i = j
           /\ \A x \in S : \E i \in 1 .. Cardinality(S) : seq[i] = x
<1> DEFINE n == Cardinality(S)
           D == 1 .. n
<1>1. n \in Nat
  BY FS_CardinalityType
<1>2. seq \in [D -> S] /\ \A i, j \in D : i # j => seq[i] # seq[j]
  BY DEF SetToSeqs
<1>3. IsFiniteSet(D) /\ Cardinality(D) = n
  <2>1. IsFiniteSet(1 .. n) /\ Cardinality(1 .. n) = IF 1 > n THEN 0 ELSE n - 1 + 1
    BY <1>1, FS_Interval
  <2>2. QED
    BY <1>1, <2>1
<1> HIDE DEF n, D
<1>4. seq \in Injection(D, S)
  BY <1>2 DEF Injection, IsInjective
<1>5. seq \in Surjection(D, S)
  BY <1>3, <1>4, FS_Injection DEF n
<1>6. \A x \in S : \E i \in D : seq[i] = x
  BY <1>5 DEF Surjection
<1>7. seq \in Seq(S) /\ Len(seq) = n
  BY <1>1, <1>2 DEF D
<1>8. QED
  BY <1>1, <1>2, <1>6, <1>7 DEF n, D

----------------------------------------------------------------------------
(* select_nodes: the nodes in the order of their configs.                  *)
Configured(nodes, conf) ==
    \A n \in nodes : conf[n] \in Nat \X Nat /\ ValidConfig(conf[n])

Earlier(conf, m, n) ==
    \/ conf[m][1] < conf[n][1]
    \/ conf[m][1] = conf[n][1] /\ conf[m][2] < conf[n][2]

Listed(nodes, conf) ==
    CHOOSE seq \in SetToSeqs(nodes) :
        \A i, j \in DOMAIN seq : i < j => ~Earlier(conf, seq[j], seq[i])

LEMMA ListedIs ==
    ASSUME NEW nodes, IsFiniteSet(nodes), NEW conf, Configured(nodes, conf)
    PROVE  Listed(nodes, conf) \in SetToSeqs(nodes)
<1> DEFINE R == {p \in nodes \X nodes : Earlier(conf, p[1], p[2])}
<1>1. ASSUME NEW T \in SUBSET nodes, T # {}
      PROVE  \E x \in T : \A y \in T : <<y, x>> \notin R
  <2>1. \A n \in T : conf[n][1] \in Nat /\ conf[n][2] \in Nat
    BY DEF Configured
  <2> DEFINE first == {conf[n][1] : n \in T}
  <2>2. first \in SUBSET Nat /\ first # {}
    BY <1>1, <2>1
  <2>3. PICK a \in first : \A m \in first : a <= m
    BY <2>2, Least
  <2> DEFINE second == {conf[n][2] : n \in {k \in T : conf[k][1] = a}}
  <2>4. second \in SUBSET Nat /\ second # {}
    BY <2>1, <2>3
  <2>5. PICK b \in second : \A m \in second : b <= m
    BY <2>4, Least
  <2>6. PICK x \in T : conf[x][1] = a /\ conf[x][2] = b
    BY <2>5
  <2>7. ASSUME NEW y \in T PROVE ~Earlier(conf, y, x)
    <3>1. a <= conf[y][1] /\ (conf[y][1] = a => b <= conf[y][2])
      BY <2>3, <2>5
    <3>2. PICK c, d : c = conf[y][1] /\ d = conf[y][2] /\ c \in Nat /\ d \in Nat
      BY <2>1
    <3>3. a \in Nat /\ b \in Nat
      BY <2>1, <2>6
    <3>4. ~(c < a \/ (c = a /\ d < b))
      BY <3>1, <3>2, <3>3
    <3>5. QED
      BY <2>6, <3>2, <3>4 DEF Earlier
  <2>8. QED
    BY <2>7
<1>2. PICK seq \in SetToSeqs(nodes) : InOrder(seq, R)
  <2> HIDE DEF R
  <2>1. QED
    BY <1>1, Sortable
<1>3. ASSUME NEW i \in DOMAIN seq, NEW j \in DOMAIN seq, i < j
      PROVE  ~Earlier(conf, seq[j], seq[i])
  <2>1. seq[i] \in nodes /\ seq[j] \in nodes
    BY <1>2 DEF SetToSeqs
  <2>2. QED
    BY <1>2, <1>3, <2>1 DEF InOrder
<1>4. QED
  BY <1>2, <1>3 DEF Listed

(* The rounds of the loop.                                                 *)
TryAll(base, order, conf, expectedReplica) ==
    FoldLeft(LAMBDA t, n : Try(t, n, conf, expectedReplica), base, order)

LEMMA SelectNodesIs ==
    ASSUME NEW nodes, NEW conf, NEW expectedReplica,
           NEW base, base = [tree |-> EmptyTree, selected |-> << >>],
           NEW s, s = TryAll(base, Listed(nodes, conf), conf, expectedReplica)
    PROVE  SelectNodes(nodes, conf, expectedReplica)
               = [ok |-> expectedReplica # 0 /\ s.tree[<<1, 0>>].replica >= expectedReplica,
                  selected |-> s.selected]
BY DEF SelectNodes, Sorted, Listed, Earlier, TryAll

(* How often a list of nodes keeps a segment.                              *)
Keepers(chosen, conf, x) ==
    {i \in 1 .. Len(chosen) : x % conf[chosen[i]][1] = conf[chosen[i]][2]}

KeptBy(chosen, conf) == [x \in Nat |-> Cardinality(Keepers(chosen, conf, x))]

LEMMA KeptByType ==
    ASSUME NEW nodes, NEW conf, NEW chosen \in Seq(nodes)
    PROVE  /\ KeptBy(chosen, conf) \in [Nat -> Nat]
           /\ \A x \in Nat : IsFiniteSet(Keepers(chosen, conf, x))
<1>1. ASSUME NEW x \in Nat
      PROVE  /\ Cardinality(Keepers(chosen, conf, x)) \in Nat
             /\ IsFiniteSet(Keepers(chosen, conf, x))
  <2>1. Len(chosen) \in Nat
    BY LenProperties
  <2>2. IsFiniteSet(1 .. Len(chosen))
    BY <2>1, FS_Interval
  <2>3. Keepers(chosen, conf, x) \in SUBSET (1 .. Len(chosen))
    BY DEF Keepers
  <2>4. IsFiniteSet(Keepers(chosen, conf, x))
    BY <2>2, <2>3, FS_Subset
  <2>5. QED
    BY <2>4, FS_CardinalityType
<1>2. QED
  BY <1>1 DEF KeptBy

(* One node more.                                                          *)
LEMMA KeptByAppend ==
    ASSUME NEW nodes, NEW conf, NEW chosen \in Seq(nodes), NEW n \in nodes
    PROVE  KeptBy(Append(chosen, n), conf) = KeptWith(KeptBy(chosen, conf), conf[n])
<1> DEFINE l == Len(chosen)
           more == Append(chosen, n)
<1>1. l \in Nat
  BY LenProperties
<1>2. /\ Len(more) = l + 1 /\ more[l + 1] = n
      /\ \A i \in 1 .. l : more[i] = chosen[i]
  BY AppendProperties
<1> HIDE DEF l, more
<1>3. ASSUME NEW x \in Nat
      PROVE  Cardinality(Keepers(more, conf, x))
                 = Cardinality(Keepers(chosen, conf, x))
                       + (IF x % conf[n][1] = conf[n][2] THEN 1 ELSE 0)
  <2> DEFINE old == Keepers(chosen, conf, x)
             new == Keepers(more, conf, x)
  <2>1. IsFiniteSet(old) /\ Cardinality(old) \in Nat
    BY KeptByType, FS_CardinalityType
  <2>2. l + 1 \notin old
    BY <1>1 DEF Keepers, l
  <2>3. \A i \in 1 .. l + 1 : i \in 1 .. l \/ i = l + 1
    BY <1>1
  <2>4. l + 1 \in 1 .. l + 1 /\ \A i \in 1 .. l : i \in 1 .. l + 1
    BY <1>1
  <2>5. CASE x % conf[n][1] = conf[n][2]
    <3>1. new = old \cup {l + 1}
      BY <1>2, <2>3, <2>4, <2>5 DEF Keepers, l
    <3> HIDE DEF old, new
    <3>2. Cardinality(new) = Cardinality(old) + 1
      BY <2>1, <2>2, <3>1, FS_AddElement
    <3>3. QED
      BY <2>5, <3>2 DEF old, new
  <2>6. CASE x % conf[n][1] # conf[n][2]
    <3>1. new = old
      BY <1>2, <2>3, <2>4, <2>6 DEF Keepers, l
    <3> HIDE DEF old, new
    <3>2. QED
      BY <2>1, <2>6, <3>1 DEF old, new
  <2>7. QED
    BY <2>5, <2>6
<1>4. QED
  BY <1>3 DEF KeptBy, KeptWith, more

(* A round keeps the tree's promises about the nodes selected so far.      *)
TryState(nodes, conf) ==
    {s \in [tree : Tree, selected : Seq(nodes)] :
        Sound(s.tree, KeptBy(s.selected, conf))}

LEMMA TrySound ==
    ASSUME NEW nodes, NEW conf, Configured(nodes, conf), NEW expectedReplica,
           NEW s \in TryState(nodes, conf), NEW n \in nodes
    PROVE  Try(s, n, conf, expectedReplica) \in TryState(nodes, conf)
<1>1. /\ s.tree \in Tree /\ s.selected \in Seq(nodes)
      /\ Sound(s.tree, KeptBy(s.selected, conf))
  BY DEF TryState
<1>2. conf[n] \in TreeNode
  BY ConfigInTree DEF Configured
<1> DEFINE i == Insert(s.tree, conf[n], expectedReplica)
           kept == KeptBy(s.selected, conf)
<1>3. kept \in [Nat -> Nat]
  BY <1>1, KeptByType
<1>4. /\ i.tree \in Tree /\ i.inserted \in BOOLEAN
      /\ Sound(i.tree, IF i.inserted THEN KeptWith(kept, conf[n]) ELSE kept)
  BY <1>1, <1>2, <1>3, InsertSound
<1>5. Append(s.selected, n) \in Seq(nodes)
  BY <1>1
<1>6. KeptBy(Append(s.selected, n), conf) = KeptWith(kept, conf[n])
  BY <1>1, KeptByAppend
<1> HIDE DEF i, kept
<1>7. CASE s.tree[<<1, 0>>].replica >= expectedReplica
  BY <1>7 DEF Try
<1>8. CASE ~(s.tree[<<1, 0>>].replica >= expectedReplica)
  <2> DEFINE t == [tree |-> i.tree,
                   selected |-> IF i.inserted THEN Append(s.selected, n) ELSE s.selected]
  <2>1. Try(s, n, conf, expectedReplica) = t
    BY <1>8 DEF Try, i
  <2>2. t \in [tree : Tree, selected : Seq(nodes)]
    BY <1>1, <1>4, <1>5
  <2>3. Sound(t.tree, KeptBy(t.selected, conf))
    <3>1. CASE i.inserted
      BY <1>4, <1>6, <3>1
    <3>2. CASE ~i.inserted
      BY <1>4, <3>2 DEF kept
    <3>3. QED
      BY <3>1, <3>2
  <2>4. QED
    BY <2>1, <2>2, <2>3 DEF TryState
<1>9. QED
  BY <1>7, <1>8

(* The rounds one after the other.                                         *)
TriesAll(f, base, order, conf, expectedReplica, n) ==
    /\ TryAll(base, order, conf, expectedReplica) = f[n]
    /\ f[0] = base
    /\ \A k \in 1 .. n : f[k] = Try(f[k - 1], order[k], conf, expectedReplica)

LEMMA TrySteps ==
    ASSUME NEW nodes, NEW conf, Configured(nodes, conf), NEW expectedReplica,
           NEW base \in TryState(nodes, conf), NEW n \in Nat,
           NEW order \in [1 .. n -> nodes]
    PROVE  \E f : TriesAll(f, base, order, conf, expectedReplica, n)
<1> DEFINE T == TryState(nodes, conf)
           g == [x \in T \X (1 .. n) |-> Try(x[1], order[x[2]], conf, expectedReplica)]
           Is(it) == it = [s \in SUBSET (1 .. n) |->
                              IF s = {} THEN base
                              ELSE Try(it[s \ {Max(s)}], order[Max(s)], conf, expectedReplica)]
<1>1. g \in [T \X (1 .. n) -> T]
  BY TrySound
<1>2. PICK it \in [SUBSET (1 .. n) -> T] : Folds(it, g, base, n)
  <2> HIDE DEF g, T
  <2>1. base \in T
    BY DEF T
  <2>2. QED
    BY <1>1, <2>1, FoldsExist
<1>3. Is(it)
  <2>1. ASSUME NEW s \in SUBSET (1 .. n), s # {}
        PROVE  g[<<it[s \ {Max(s)}], Max(s)>>]
                   = Try(it[s \ {Max(s)}], order[Max(s)], conf, expectedReplica)
    <3>1. Max(s) \in 1 .. n
      BY <2>1, LastOne
    <3>2. it[s \ {Max(s)}] \in T
      OBVIOUS
    <3>3. QED
      BY <3>1, <3>2
  <2>2. it = [s \in SUBSET (1 .. n) |->
                 IF s = {} THEN base ELSE g[<<it[s \ {Max(s)}], Max(s)>>]]
    BY <1>2 DEF Folds
  <2> HIDE DEF g
  <2>3. QED
    BY <2>1, <2>2
<1> DEFINE F == CHOOSE h : Is(h)
<1>4. Is(F)
  <2> HIDE DEF Is
  <2>1. QED
    BY <1>3
<1>5. TryAll(base, order, conf, expectedReplica) = F[1 .. n]
  <2>1. DOMAIN order = 1 .. n
    OBVIOUS
  <2>2. QED
    BY <2>1 DEF TryAll, FoldLeft, MapThenFoldSet
<1> HIDE DEF F
<1> DEFINE f == [k \in 0 .. n |-> F[1 .. k]]
<1>6. f[0] = base
  <2>1. 1 .. 0 = {} /\ 0 \in 0 .. n
    OBVIOUS
  <2>2. F[{}] = base
    BY <1>4
  <2>3. QED
    BY <2>1, <2>2
<1>7. ASSUME NEW k \in 1 .. n
      PROVE  f[k] = Try(f[k - 1], order[k], conf, expectedReplica)
  <2>1. 1 .. k \in SUBSET (1 .. n) /\ k \in Nat \ {0} /\ k \in 0 .. n /\ k - 1 \in 0 .. n
    OBVIOUS
  <2>2. 1 .. k # {} /\ Max(1 .. k) = k /\ (1 .. k) \ {Max(1 .. k)} = 1 .. (k - 1)
    BY <2>1, FirstPositions
  <2>3. F[1 .. k] = Try(F[(1 .. k) \ {Max(1 .. k)}], order[Max(1 .. k)], conf, expectedReplica)
    BY <1>4, <2>1, <2>2
  <2>4. QED
    BY <2>1, <2>2, <2>3
<1>8. n \in 0 .. n
  OBVIOUS
<1>9. TriesAll(f, base, order, conf, expectedReplica, n)
  BY <1>5, <1>6, <1>7, <1>8 DEF TriesAll
<1>10. QED
  BY <1>9

(* No node is selected twice, nor one whose turn has not come.             *)
Different(chosen) ==
    \A i, j \in 1 .. Len(chosen) : chosen[i] = chosen[j] => i = j

LEMMA AppendDifferent ==
    ASSUME NEW nodes, NEW q \in Seq(nodes), NEW x \in nodes, Different(q),
           \A i \in 1 .. Len(q) : q[i] # x
    PROVE  Different(Append(q, x))
<1> DEFINE l == Len(q)
           r == Append(q, x)
<1>1. l \in Nat
  BY LenProperties
<1>2. Len(r) = l + 1 /\ r[l + 1] = x /\ \A i \in 1 .. l : r[i] = q[i]
  BY AppendProperties
<1> HIDE DEF r
<1>3. \A i, j \in 1 .. l : q[i] = q[j] => i = j
  BY DEF Different
<1>4. \A i \in 1 .. l + 1 : i \in 1 .. l \/ i = l + 1
  BY <1>1
<1>5. \A i, j \in 1 .. l + 1 : r[i] = r[j] => i = j
  BY <1>2, <1>3, <1>4
<1>6. QED
  BY <1>2, <1>5 DEF Different, r

(* What select_nodes says is so: it selects nodes, none of them twice, and *)
(* if it is content then every segment is kept often enough.               *)
Enough(chosen, conf, expectedReplica) ==
    \A x \in Nat : expectedReplica <= Cardinality(Keepers(chosen, conf, x))

LEMMA SelectSound ==
    ASSUME NEW nodes, IsFiniteSet(nodes), NEW conf, Configured(nodes, conf),
           NEW expectedReplica \in Nat
    PROVE  LET s == SelectNodes(nodes, conf, expectedReplica)
           IN  /\ s.selected \in Seq(nodes) /\ Different(s.selected)
               /\ s.ok \in BOOLEAN
               /\ s.ok => Enough(s.selected, conf, expectedReplica)
<1>1. PICK order : order = Listed(nodes, conf)
  OBVIOUS
<1>2. PICK n \in Nat : /\ order \in [1 .. n -> nodes]
                       /\ \A i, j \in 1 .. n : order[i] = order[j] => i = j
  BY <1>1, ListedIs, AllListed
<1>3. PICK base : base = [tree |-> EmptyTree, selected |-> << >>]
  OBVIOUS
<1>4. base \in TryState(nodes, conf)
  <2>1. KeptBy(<< >>, conf) \in [Nat -> Nat]
    <3>1. << >> \in Seq(nodes)
      OBVIOUS
    <3>2. QED
      BY <3>1, KeptByType
  <2>2. EmptyTree \in Tree /\ Sound(EmptyTree, KeptBy(<< >>, conf))
    BY <2>1, EmptySound
  <2>3. QED
    BY <1>3, <2>2 DEF TryState
<1>5. PICK f : /\ TryAll(base, order, conf, expectedReplica) = f[n]
               /\ f[0] = base
               /\ \A k \in 1 .. n : f[k] = Try(f[k - 1], order[k], conf, expectedReplica)
  <2>1. \E f : TriesAll(f, base, order, conf, expectedReplica, n)
    BY <1>2, <1>4, TrySteps
  <2>2. QED
    BY <2>1, Zenon DEF TriesAll
<1> DEFINE Good(k) == /\ f[k] \in TryState(nodes, conf) /\ Different(f[k].selected)
                      /\ \A i \in 1 .. Len(f[k].selected) :
                             \E j \in 1 .. k : f[k].selected[i] = order[j]
           Bad == {k \in 0 .. n : ~Good(k)}
<1>6. Good(0)
  <2>1. 1 .. Len(base.selected) = {}
    BY <1>3
  <2>2. Different(base.selected)
    BY <2>1 DEF Different
  <2>3. QED
    BY <1>4, <1>5, <2>1, <2>2
<1>7. ASSUME NEW k \in 1 .. n, Good(k - 1) PROVE Good(k)
  <2>1. PICK s : s = f[k - 1]
    OBVIOUS
  <2>2. /\ s \in TryState(nodes, conf) /\ s.selected \in Seq(nodes)
        /\ Different(s.selected) /\ order[k] \in nodes
        /\ f[k] = Try(s, order[k], conf, expectedReplica)
    BY <1>2, <1>5, <1>7, <2>1 DEF TryState
  <2>3. f[k] \in TryState(nodes, conf)
    BY <2>2, TrySound
  <2>4. f[k].selected = s.selected \/ f[k].selected = Append(s.selected, order[k])
    BY <2>2 DEF Try
  <2>5. ASSUME NEW i \in 1 .. Len(s.selected)
        PROVE  s.selected[i] # order[k] /\ \E j \in 1 .. k : s.selected[i] = order[j]
    <3>1. PICK j \in 1 .. k - 1 : s.selected[i] = order[j]
      BY <1>7, <2>1
    <3>2. j \in 1 .. n /\ j # k /\ j \in 1 .. k
      OBVIOUS
    <3>3. QED
      BY <1>2, <3>1, <3>2
  <2>6. CASE f[k].selected = s.selected
    BY <2>2, <2>3, <2>5, <2>6
  <2>7. CASE f[k].selected = Append(s.selected, order[k])
    <3>1. Different(f[k].selected)
      BY <2>2, <2>5, <2>7, AppendDifferent
    <3>2. ASSUME NEW i \in 1 .. Len(f[k].selected)
          PROVE  \E j \in 1 .. k : f[k].selected[i] = order[j]
      <4>1. /\ Len(f[k].selected) = Len(s.selected) + 1 /\ Len(s.selected) \in Nat
            /\ f[k].selected[Len(s.selected) + 1] = order[k]
            /\ \A m \in 1 .. Len(s.selected) : f[k].selected[m] = s.selected[m]
        BY <2>2, <2>7, AppendProperties, LenProperties
      <4>2. i \in 1 .. Len(s.selected) \/ i = Len(s.selected) + 1
        BY <3>2, <4>1
      <4>3. k \in 1 .. k
        OBVIOUS
      <4>4. QED
        BY <2>5, <4>1, <4>2, <4>3
    <3>3. QED
      BY <2>3, <3>1, <3>2
  <2>8. QED
    BY <2>4, <2>6, <2>7
<1> HIDE DEF Good
<1>8. Bad = {}
  <2> SUFFICES ASSUME Bad # {} PROVE FALSE
    OBVIOUS
  <2>1. Bad \in SUBSET Nat
    OBVIOUS
  <2>2. PICK k \in Bad : \A j \in Bad : k <= j
    BY <2>1, Least
  <2>3. k # 0 /\ k \in 0 .. n
    BY <1>6, <2>2
  <2>4. k \in 1 .. n /\ k - 1 \in 0 .. n /\ k - 1 \notin Bad
    BY <2>2, <2>3
  <2>5. QED
    BY <1>7, <2>2, <2>4
<1>9. PICK s : s = f[n]
  OBVIOUS
<1>10. /\ s \in TryState(nodes, conf) /\ Different(s.selected)
       /\ s.tree \in Tree /\ s.selected \in Seq(nodes)
       /\ Sound(s.tree, KeptBy(s.selected, conf))
  <2>1. n \in 0 .. n
    OBVIOUS
  <2>2. QED
    BY <1>8, <1>9, <2>1 DEF Good, TryState
<1>11. SelectNodes(nodes, conf, expectedReplica)
           = [ok |-> expectedReplica # 0 /\ s.tree[<<1, 0>>].replica >= expectedReplica,
              selected |-> s.selected]
  BY <1>1, <1>3, <1>5, <1>9, SelectNodesIs
<1>12. ASSUME s.tree[<<1, 0>>].replica >= expectedReplica
       PROVE  Enough(s.selected, conf, expectedReplica)
  <2>1. ASSUME NEW x \in Nat
        PROVE  expectedReplica <= Cardinality(Keepers(s.selected, conf, x))
    <3> DEFINE kept == KeptBy(s.selected, conf)
    <3>1. kept \in [Nat -> Nat] /\ kept[x] = Cardinality(Keepers(s.selected, conf, x))
      BY <1>10, KeptByType DEF KeptBy
    <3>2. s.tree[<<1, 0>>].replica <= kept[x]
      BY <1>10, <3>1, RootPromises
    <3>3. s.tree[<<1, 0>>].replica \in Int
      BY <1>10, RootInTree DEF Tree
    <3>4. PICK a, b : /\ a = s.tree[<<1, 0>>].replica /\ b = kept[x] /\ a \in Int /\ b \in Int
                      /\ a <= b /\ a >= expectedReplica
      BY <1>12, <3>1, <3>2, <3>3
    <3>5. expectedReplica <= b
      BY <3>4
    <3>6. QED
      BY <3>1, <3>4, <3>5
  <2>2. QED
    BY <2>1 DEF Enough
<1>13. PICK t : t = SelectNodes(nodes, conf, expectedReplica)
  OBVIOUS
<1>14. /\ t.selected = s.selected
       /\ t.ok = (expectedReplica # 0 /\ s.tree[<<1, 0>>].replica >= expectedReplica)
  BY <1>11, <1>13
<1>15. t.ok \in BOOLEAN /\ (t.ok => Enough(t.selected, conf, expectedReplica))
  <2>1. t.ok \in BOOLEAN
    BY <1>14
  <2>2. t.ok => s.tree[<<1, 0>>].replica >= expectedReplica
    BY <1>14
  <2>3. QED
    BY <1>12, <1>14, <2>1, <2>2
<1>16. QED
  BY <1>10, <1>13, <1>14, <1>15

(* The nodes among those selected that keep a segment.                     *)
LEMMA EnoughNodes ==
    ASSUME NEW nodes, IsFiniteSet(nodes), NEW conf, NEW q \in Seq(nodes),
           Different(q), NEW expectedReplica \in Nat,
           Enough(q, conf, expectedReplica), NEW x \in Nat,
           NEW keep, keep = {n \in nodes : x % conf[n][1] = conf[n][2]}
    PROVE  expectedReplica <= Cardinality(keep)
<1> DEFINE at_ == Keepers(q, conf, x)
           f == [i \in at_ |-> q[i]]
<1>1. \A i \in at_ : i \in 1 .. Len(q) /\ q[i] \in keep
  BY ElementOfSeq DEF Keepers
<1>2. f \in Injection(at_, keep)
  BY <1>1 DEF Injection, IsInjective, Different
<1>3. IsFiniteSet(keep)
  BY FS_Subset
<1>4. IsFiniteSet(at_) /\ Cardinality(at_) <= Cardinality(keep)
  <2> HIDE DEF at_, f
  <2>1. QED
    BY <1>2, <1>3, FS_Injection
<1>5. expectedReplica <= Cardinality(at_)
  BY DEF Enough
<1>6. Cardinality(at_) \in Nat /\ Cardinality(keep) \in Nat
  BY <1>3, <1>4, FS_CardinalityType
<1> HIDE DEF at_
<1>7. QED
  BY <1>4, <1>5, <1>6

----------------------------------------------------------------------------
(* next_segment_index: the segments of a node from there on.               *)
LEMMA NextOwn ==
    ASSUME NEW c \in Nat \X Nat, c[1] # 0, c[2] < c[1], NEW a \in Nat
    PROVE  /\ NextSegmentIndex(c, a) \in Nat /\ NextSegmentIndex(c, a) >= a
           /\ \A m \in Nat : (NextSegmentIndex(c, a) + c[1] * m) % c[1] = c[2]
           /\ \A s \in Nat : s >= a /\ s % c[1] = c[2] =>
                  \E m \in Nat : s = NextSegmentIndex(c, a) + c[1] * m
<1>1. PICK p, r, f : /\ p = c[1] /\ r = c[2] /\ f = NextSegmentIndex(c, a)
                     /\ p \in Nat \ {0} /\ r \in 0 .. p - 1
  OBVIOUS
<1>2. PICK u \in Nat : /\ f = p * u + r /\ f >= a
                       /\ \A q \in Nat : p * q + r >= a => q >= u
  <2>1. CASE p < 2
    <3>1. p = 1 /\ r = 0 /\ f = a
      BY <1>1, <2>1 DEF NextSegmentIndex
    <3>2. f = p * a + r /\ f >= a /\ \A q \in Nat : p * q + r >= a => q >= a
      BY <3>1
    <3>3. QED
      BY <3>2
  <2>2. CASE p >= 2
    <3> DEFINE y == a + p - 1 - r
               u == y \div p
               w == y % p
    <3>1. y \in Nat
      BY <1>1
    <3>2. f = u * p + r
      BY <1>1, <2>2 DEF NextSegmentIndex
    <3>y. y = a + p - 1 - r
      OBVIOUS
    <3> HIDE DEF y
    <3>3. u \in Nat /\ w \in 0 .. p - 1 /\ y = p * u + w
      BY <1>1, <3>1, ModRange
    <3> HIDE DEF u, w
    <3>4. u * p = p * u /\ p * u \in Nat
      BY <1>1, <3>3
    <3>5. f = p * u + r /\ f >= a
      BY <1>1, <3>2, <3>3, <3>4, <3>y
    <3>6. ASSUME NEW q \in Nat, p * q + r >= a PROVE q >= u
      <4>1. CASE q < u
        <5>1. p * (u - q) >= p
          BY <1>1, <3>3, <4>1, TimesGrows
        <5>2. p * (u - q) = p * u - p * q /\ p * q \in Nat
          BY <1>1, <3>3, Distributes
        <5>3. QED
          BY <1>1, <3>3, <3>4, <3>6, <3>y, <5>1, <5>2
      <4>2. QED
        BY <3>3, <4>1
    <3>7. QED
      BY <3>3, <3>5, <3>6
  <2>3. QED
    BY <1>1, <2>1, <2>2
<1>3. ASSUME NEW m \in Nat PROVE (f + p * m) % p = r
  <2>1. p * (u + m) = p * u + p * m /\ u + m \in Nat /\ p * u \in Nat /\ p * m \in Nat
    BY <1>1, Distributes
  <2>2. PICK x, q : /\ x = f + p * m /\ q = u + m /\ q \in Nat /\ x \in Nat /\ x = p * q + r
    BY <1>1, <1>2, <2>1
  <2>3. x % p = r
    <3>1. p \in Nat \ {0} /\ q \in Nat /\ r \in 0 .. p - 1 /\ x \in Nat /\ x = p * q + r
      BY <1>1, <2>2
    <3>2. QED
      BY <3>1, ModUnique, Zenon
  <2>4. QED
    BY <2>2, <2>3
<1>4. ASSUME NEW s \in Nat, s >= a, s % p = r
      PROVE  \E m \in Nat : s = f + p * m
  <2>1. PICK q \in Nat : s = p * q + r
    <3>1. s \div p \in Nat /\ s = p * (s \div p) + (s % p)
      BY <1>1, ModRange, Zenon
    <3>2. QED
      BY <1>4, <3>1
  <2>2. q - u \in Nat
    BY <1>2, <1>4, <2>1
  <2>3. p * (q - u) = p * q - p * u /\ p * q \in Nat /\ p * u \in Nat
    BY <1>1, Distributes
  <2>4. s = f + p * (q - u)
    BY <1>1, <1>2, <2>1, <2>3
  <2>5. QED
    BY <2>2, <2>4
<1>5. f \in Nat
  BY <1>1, <1>2
<1>6. QED
  BY <1>1, <1>2, <1>3, <1>4, <1>5

(* A function on 1 .. n is a sequence.                                     *)
LEMMA SeqIntro ==
    \A S : \A n \in Nat : \A f \in [1 .. n -> S] : f \in Seq(S) /\ Len(f) = n
OBVIOUS

(* The file's segments.                                                    *)
LEMMA Placed ==
    ASSUME at \in DOMAIN Fragments
    PROVE  /\ StartSegment \in Nat /\ NumSegments \in Nat \ {0}
           /\ EndSegment \in Nat /\ EndSegment >= StartSegment
           /\ EndSegment = StartSegment + NumSegments - 1
           /\ Segments \subseteq Nat /\ TaskSize \in Nat \ {0}
<1>1. Fragments[at] \in Nat \X (Nat \ {0})
  BY UploaderAssumption, ElementOfSeq
<1>2. StartSegment \in Nat /\ NumSegments \in Nat \ {0}
  BY <1>1 DEF StartSegment, NumSegments
<1>3. TaskSize \in Nat \ {0}
  BY UploaderAssumption
<1>4. QED
  BY <1>2, <1>3 DEF EndSegment, Segments

(* The segments of a node's tasks are its own, and all of them.            *)
LEMMA TasksAre ==
    ASSUME at \in DOMAIN Fragments, NEW n, config[n] \in Nat \X Nat,
           ValidConfig(config[n])
    PROVE  /\ TasksFor(n) \in Seq([node : {n}, segIndex : Nat])
           /\ \A k \in 1 .. Len(TasksFor(n)) : Sent(TasksFor(n)[k]) \subseteq Own(n)
           /\ \A s \in Own(n) :
                  \E k \in 1 .. Len(TasksFor(n)) : s \in Sent(TasksFor(n)[k])
<1>1. PICK c, p, r, a, z, T :
          /\ c = config[n] /\ p = c[1] /\ r = c[2] /\ a = StartSegment
          /\ z = EndSegment /\ T = TaskSize
  OBVIOUS
<1>2. /\ p \in Nat \ {0} /\ r \in 0 .. p - 1 /\ a \in Nat /\ z \in Nat
      /\ T \in Nat \ {0}
  <2>1. c[1] \in Powers /\ c[2] \in Nat /\ c[2] < c[1]
    BY <1>1 DEF ValidConfig
  <2>2. \A q \in Powers : q \in Nat \ {0}
    BY PowersAre
  <2>3. QED
    BY <1>1, <2>1, <2>2, Placed
<1>3. PICK f : /\ f = NextSegmentIndex(config[n], StartSegment)
               /\ f \in Nat /\ f >= a
               /\ \A m \in Nat : (f + p * m) % p = r
               /\ \A s \in Nat : s >= a /\ s % p = r => \E m \in Nat : s = f + p * m
  <2>1. c \in Nat \X Nat /\ c[1] # 0 /\ c[2] < c[1]
    BY <1>1, <1>2
  <2>2. /\ NextSegmentIndex(c, a) \in Nat /\ NextSegmentIndex(c, a) >= a
        /\ \A m \in Nat : (NextSegmentIndex(c, a) + c[1] * m) % c[1] = c[2]
        /\ \A s \in Nat : s >= a /\ s % c[1] = c[2] =>
               \E m \in Nat : s = NextSegmentIndex(c, a) + c[1] * m
    BY <1>2, <2>1, NextOwn
  <2>3. PICK f : f = NextSegmentIndex(c, a)
    OBVIOUS
  <2>4. f = NextSegmentIndex(config[n], StartSegment)
    BY <1>1, <2>3
  <2>5. /\ f \in Nat /\ f >= a
        /\ \A m \in Nat : (f + p * m) % p = r
        /\ \A s \in Nat : s >= a /\ s % p = r => \E m \in Nat : s = f + p * m
    <3>1. c[1] = p /\ c[2] = r
      BY <1>1
    <3>2. QED
      BY <2>2, <2>3, <3>1, Zenon
  <2>6. QED
    BY <2>4, <2>5
<1>4. PICK step : step = p * T /\ step \in Nat \ {0}
  BY <1>2
<1>5. PICK count : /\ count = IF f > z THEN 0 ELSE (z - f) \div step + 1
                   /\ count \in Nat
                   /\ \A q \in Nat : f + step * q <= z => q + 1 <= count
  <2>1. CASE f > z
    <3>1. \A q \in Nat : step * q >= 0
      BY <1>4
    <3>2. \A q \in Nat : ~(f + step * q <= z)
      BY <1>2, <1>3, <1>4, <2>1, <3>1
    <3>3. QED
      BY <2>1, <3>2
  <2>2. CASE ~(f > z)
    <3>1. PICK d : d = z - f /\ d \in Nat
      BY <1>2, <1>3, <2>2
    <3>2. d \div step \in Nat
      BY <1>4, <3>1, ModRange
    <3>3. ASSUME NEW q \in Nat, f + step * q <= z PROVE q <= d \div step
      <4>1. step * q <= d
        <5>1. step * q \in Nat
          BY <1>4
        <5>2. QED
          BY <1>2, <1>3, <3>1, <3>3, <5>1
      <4>2. QED
        BY <1>4, <3>1, <4>1, FitsOften
    <3>4. QED
      BY <2>2, <3>1, <3>2, <3>3
  <2>3. QED
    BY <2>1, <2>2
<1>6. TasksFor(n) = [k \in 1 .. count |->
                        [node |-> n, segIndex |-> f + (k - 1) * step - a]]
  BY <1>1, <1>3, <1>4, <1>5 DEF TasksFor
<1>7. \A k \in 1 .. count : /\ k - 1 \in Nat /\ (k - 1) * step \in Nat
                            /\ f + (k - 1) * step - a \in Nat
  <2>1. ASSUME NEW k \in 1 .. count
        PROVE  k - 1 \in Nat /\ (k - 1) * step \in Nat
    BY <1>4, <1>5
  <2>2. QED
    BY <1>2, <1>3, <2>1
<1>8. TasksFor(n) \in Seq([node : {n}, segIndex : Nat]) /\ Len(TasksFor(n)) = count
  <2> DEFINE task(k) == [node |-> n, segIndex |-> f + (k - 1) * step - a]
  <2>1. \A k \in 1 .. count : task(k) \in [node : {n}, segIndex : Nat]
    BY <1>7
  <2>2. TasksFor(n) = [k \in 1 .. count |-> task(k)]
    BY <1>6
  <2> HIDE DEF task
  <2>3. TasksFor(n) \in [1 .. count -> [node : {n}, segIndex : Nat]]
    BY <2>1, <2>2
  <2>4. count \in Nat
    BY <1>5
  <2>5. PICK R : R = [node : {n}, segIndex : Nat]
    OBVIOUS
  <2>6. PICK t : t = TasksFor(n)
    OBVIOUS
  <2>7. t \in [1 .. count -> R]
    BY <2>3, <2>5, <2>6, Zenon
  <2>8. t \in Seq(R) /\ Len(t) = count
    BY <2>4, <2>7, SeqIntro, Zenon
  <2>9. QED
    BY <2>5, <2>6, <2>8, Zenon
<1>9. Own(n) = {s \in a .. z : s % p = r}
  BY <1>1 DEF Own, Segments
<1>10. ASSUME NEW k \in 1 .. count
       PROVE  Sent(TasksFor(n)[k])
                  = {f + p * (T * (k - 1) + j) : j \in 0 .. T - 1} \cap a .. z
  <2>1. PICK i : i = (k - 1) * step /\ i \in Nat
    BY <1>7
  <2>2. TasksFor(n)[k] = [node |-> n, segIndex |-> f + i - a]
    BY <1>6, <2>1
  <2>3. Sent(TasksFor(n)[k]) = {a + (f + i - a) + j * p : j \in 0 .. T - 1} \cap a .. z
    BY <1>1, <2>2 DEF Sent, Segments
  <2>4. \A j \in 0 .. T - 1 : a + (f + i - a) + j * p = f + p * (T * (k - 1) + j)
    <3>1. ASSUME NEW j \in 0 .. T - 1
          PROVE  a + (f + i - a) + j * p = f + p * (T * (k - 1) + j)
      <4>1. k - 1 \in Int /\ T * (k - 1) \in Int /\ T * (k - 1) + j \in Int
        BY <1>2
      <4>2. p * (T * (k - 1) + j) = p * (T * (k - 1)) + p * j
        BY <1>2, <4>1, Distributes
      <4>3. p * (T * (k - 1)) = i /\ p * j = j * p /\ p * j \in Int
        BY <1>2, <1>4, <2>1
      <4>4. QED
        BY <1>2, <1>3, <2>1, <4>2, <4>3
    <3>2. QED
      BY <3>1
  <2>5. QED
    BY <2>3, <2>4
<1>11. ASSUME NEW k \in 1 .. count PROVE Sent(TasksFor(n)[k]) \subseteq Own(n)
  <2>1. ASSUME NEW j \in 0 .. T - 1 PROVE (f + p * (T * (k - 1) + j)) % p = r
    <3>1. T * (k - 1) + j \in Nat
      <4>1. k - 1 \in Nat /\ T * (k - 1) \in Nat
        BY <1>2
      <4>2. QED
        BY <1>2, <4>1
    <3>2. QED
      BY <1>3, <3>1
  <2>2. QED
    BY <1>9, <1>10, <2>1
<1>12. ASSUME NEW s \in Own(n)
       PROVE  \E k \in 1 .. count : s \in Sent(TasksFor(n)[k])
  <2>1. s \in a .. z /\ s \in Nat /\ s >= a /\ s <= z /\ s % p = r
    BY <1>2, <1>9
  <2>2. PICK m \in Nat : s = f + p * m
    BY <1>3, <2>1
  <2>3. PICK q, j : /\ q = m \div T /\ j = m % T
                    /\ q \in Nat /\ j \in 0 .. T - 1 /\ m = T * q + j
    <3>1. m \div T \in Nat /\ m % T \in 0 .. T - 1 /\ m = T * (m \div T) + (m % T)
      BY <1>2, ModRange, Zenon
    <3>2. QED
      BY <3>1
  <2>4. f + step * q <= z
    <3>1. p * m = p * (T * q) + p * j /\ p * (T * q) = step * q
      <4>1. T * q \in Int
        BY <1>2, <2>3
      <4>2. p * (T * q + j) = p * (T * q) + p * j
        BY <1>2, <2>3, <4>1, Distributes
      <4>3. p * (T * q) = step * q
        BY <1>2, <1>4, <2>3
      <4>4. QED
        BY <2>3, <4>2, <4>3
    <3>2. p * j \in Nat /\ step * q \in Nat
      BY <1>2, <1>4, <2>3
    <3>3. QED
      BY <1>2, <1>3, <2>1, <2>2, <3>1, <3>2
  <2>5. q + 1 \in 1 .. count /\ (q + 1) - 1 = q
    BY <1>5, <2>3, <2>4
  <2>6. s = f + p * (T * ((q + 1) - 1) + j)
    BY <2>2, <2>3, <2>5
  <2>7. s \in Sent(TasksFor(n)[q + 1])
    <3>1. PICK k \in 1 .. count : k = q + 1
      BY <2>5
    <3>2. s \in {f + p * (T * (k - 1) + i) : i \in 0 .. T - 1}
      BY <2>3, <2>6, <3>1
    <3>3. s \in Sent(TasksFor(n)[k])
      BY <1>10, <2>1, <3>2
    <3>4. QED
      BY <3>1, <3>3
  <2>8. QED
    BY <2>5, <2>7
<1>13. QED
  BY <1>8, <1>11, <1>12

----------------------------------------------------------------------------
(* The rounds: the lists with tasks from the shortest on.                  *)
Shorter(lists, i, j) ==
    \/ Len(lists[i]) < Len(lists[j])
    \/ Len(lists[i]) = Len(lists[j]) /\ i < j

Filled(lists) == {i \in DOMAIN lists : lists[i] # << >>}

FromShortest(lists) ==
    CHOOSE seq \in SetToSeqs(Filled(lists)) :
        \A i, j \in DOMAIN seq : i < j => ~Shorter(lists, seq[j], seq[i])

RoundsIn(lists, order) ==
    IF order = << >> THEN << >>
    ELSE FlattenSeq([r \in 1 .. Len(lists[order[1]]) |->
                        [i \in DOMAIN order |-> lists[order[i]][r]]])

LEMMA InRoundsIs ==
    ASSUME NEW lists PROVE InRounds(lists) = RoundsIn(lists, FromShortest(lists))
BY DEF InRounds, RoundsIn, Sorted, FromShortest, Filled, Shorter

(* The order has all of them.                                              *)
LEMMA FromShortestIs ==
    ASSUME NEW T, NEW m \in Nat, NEW lists \in [1 .. m -> Seq(T)]
    PROVE  \E d \in Nat :
               /\ FromShortest(lists) \in [1 .. d -> Filled(lists)]
               /\ \A x \in Filled(lists) : \E i \in 1 .. d : FromShortest(lists)[i] = x
               /\ \A i \in 1 .. d :
                      Len(lists[FromShortest(lists)[1]])
                          <= Len(lists[FromShortest(lists)[i]])
<1> DEFINE S == Filled(lists)
           R == {p \in S \X S : Shorter(lists, p[1], p[2])}
<1>1. S \subseteq 1 .. m
  BY DEF Filled
<1>2. IsFiniteSet(S)
  <2>1. IsFiniteSet(1 .. m)
    BY FS_Interval
  <2> HIDE DEF S
  <2>2. QED
    BY <1>1, <2>1, FS_Subset
<1>3. \A i \in S : i \in Nat /\ Len(lists[i]) \in Nat
  BY <1>1, LenProperties
<1> HIDE DEF S
<1>4. ASSUME NEW U \in SUBSET S, U # {}
      PROVE  \E x \in U : \A y \in U : <<y, x>> \notin R
  <2> DEFINE first == {Len(lists[i]) : i \in U}
  <2>1. first \in SUBSET Nat /\ first # {}
    BY <1>3, <1>4
  <2>2. PICK a \in first : \A l \in first : a <= l
    BY <2>1, Least
  <2> DEFINE second == {i \in U : Len(lists[i]) = a}
  <2>3. second \in SUBSET Nat /\ second # {}
    BY <1>3, <2>2
  <2>4. PICK x \in second : \A l \in second : x <= l
    BY <2>3, Least
  <2>5. ASSUME NEW y \in U PROVE ~Shorter(lists, y, x)
    <3>1. a <= Len(lists[y]) /\ (Len(lists[y]) = a => x <= y)
      BY <2>2, <2>4
    <3>2. PICK b : b = Len(lists[y]) /\ b \in Nat /\ a \in Nat /\ x \in Nat /\ y \in Nat
      BY <1>3, <2>1, <2>2, <2>4
    <3>3. ~(b < a \/ (b = a /\ y < x))
      BY <3>1, <3>2
    <3>4. Len(lists[x]) = a
      BY <2>4
    <3>5. QED
      BY <3>2, <3>3, <3>4 DEF Shorter
  <2>6. QED
    BY <2>4, <2>5
<1>5. PICK seq \in SetToSeqs(S) : InOrder(seq, R)
  <2> HIDE DEF R
  <2>1. QED
    BY <1>2, <1>4, Sortable
<1>6. ASSUME NEW i \in DOMAIN seq, NEW j \in DOMAIN seq, i < j
      PROVE  ~Shorter(lists, seq[j], seq[i])
  <2>1. seq[i] \in S /\ seq[j] \in S
    BY <1>5 DEF SetToSeqs
  <2>2. QED
    BY <1>5, <1>6, <2>1 DEF InOrder
<1>7. PICK order : /\ order = FromShortest(lists) /\ order \in SetToSeqs(S)
                   /\ \A i, j \in DOMAIN order : i < j =>
                          ~Shorter(lists, order[j], order[i])
  BY <1>5, <1>6 DEF FromShortest, S
<1>8. PICK d \in Nat : /\ order \in [1 .. d -> S]
                       /\ \A x \in S : \E i \in 1 .. d : order[i] = x
  <2>1. PICK I : I = S
    OBVIOUS
  <2>2. IsFiniteSet(I) /\ order \in SetToSeqs(I)
    BY <1>2, <1>7, <2>1
  <2>3. /\ Cardinality(I) \in Nat /\ order \in [1 .. Cardinality(I) -> I]
        /\ \A x \in I : \E i \in 1 .. Cardinality(I) : order[i] = x
    BY <2>2, AllListed
  <2>4. QED
    BY <2>1, <2>3
<1>9. ASSUME NEW i \in 1 .. d
      PROVE  Len(lists[order[1]]) <= Len(lists[order[i]])
  <2>1. 1 \in 1 .. d /\ (i = 1 \/ 1 < i)
    OBVIOUS
  <2>2. PICK a, b : /\ a = Len(lists[order[1]]) /\ b = Len(lists[order[i]])
                    /\ a \in Nat /\ b \in Nat
    BY <1>3, <1>8, <2>1
  <2>3. CASE i = 1
    BY <2>2, <2>3
  <2>4. CASE 1 < i
    <3>1. ~Shorter(lists, order[i], order[1])
      BY <1>7, <1>8, <2>1, <2>4
    <3>2. ~(b < a)
      BY <2>2, <3>1 DEF Shorter
    <3>3. QED
      BY <2>2, <3>2
  <2>5. QED
    BY <2>1, <2>3, <2>4
<1>10. QED
  BY <1>7, <1>8, <1>9, Zenon DEF S

(* What the rounds have of the lists.                                      *)
Rounds(T, m, lists, made) ==
    /\ made \in Seq(T)
    /\ \A j \in 1 .. Len(made) :
           \E i \in 1 .. m : \E k \in 1 .. Len(lists[i]) : made[j] = lists[i][k]
    /\ made = << >> => Filled(lists) = {}
    /\ (\A i, j \in Filled(lists) : Len(lists[i]) = Len(lists[j])) =>
           \A i \in 1 .. m : \A k \in 1 .. Len(lists[i]) :
               \E j \in 1 .. Len(made) : made[j] = lists[i][k]

(* Where FlattenSeq has the parts.                                         *)
Strung(S, q, e, v) ==
    /\ v \in Seq(S) /\ Len(v) = e[Len(q)]
    /\ \A i \in 1 .. Len(q) : e[i] <= e[Len(q)]
    /\ \A i \in 1 .. Len(q) : \A k \in 1 .. Len(q[i]) : v[e[i - 1] + k] = q[i][k]
    /\ \A j \in 1 .. Len(v) :
           \E i \in 1 .. Len(q) : \E k \in 1 .. Len(q[i]) : v[j] = q[i][k]

LEMMA StrungIs ==
    ASSUME NEW S, NEW q \in Seq(Seq(S)), NEW e, Offsets(e, q)
    PROVE  Strung(S, q, e, FlattenSeq(q))
<1>1. /\ FlattenSeq(q) \in Seq(S) /\ Len(FlattenSeq(q)) = e[Len(q)]
      /\ \A i \in 1 .. Len(q) : e[i] <= e[Len(q)]
  BY FlattenParts, SMTT(30)
<1>2. \A i \in 1 .. Len(q) : \A k \in 1 .. Len(q[i]) :
          FlattenSeq(q)[e[i - 1] + k] = q[i][k]
  BY FlattenParts, SMTT(30)
<1>3. \A j \in 1 .. Len(FlattenSeq(q)) :
          \E i \in 1 .. Len(q) : \E k \in 1 .. Len(q[i]) : FlattenSeq(q)[j] = q[i][k]
  BY FlattenParts, ZenonT(30)
<1>4. QED
  BY <1>1, <1>2, <1>3, Zenon DEF Strung

LEMMA RoundsAre ==
    ASSUME NEW T, NEW m \in Nat, NEW lists \in [1 .. m -> Seq(T)]
    PROVE  Rounds(T, m, lists, InRounds(lists))
<1>1. PICK order : order = FromShortest(lists)
  OBVIOUS
<1>2. PICK d \in Nat :
          /\ order \in [1 .. d -> Filled(lists)]
          /\ \A x \in Filled(lists) : \E i \in 1 .. d : order[i] = x
          /\ \A i \in 1 .. d : Len(lists[order[1]]) <= Len(lists[order[i]])
  BY <1>1, FromShortestIs
<1>3. PICK made : made = InRounds(lists) /\ made = RoundsIn(lists, order)
  BY <1>1, InRoundsIs
<1>4. \A i \in 1 .. m : lists[i] \in Seq(T) /\ Len(lists[i]) \in Nat
  BY LenProperties
<1>5. DOMAIN lists = 1 .. m /\ Filled(lists) \subseteq 1 .. m
  BY DEF Filled
<1>6. CASE d = 0
  <2>1. 1 .. d = {}
    BY <1>6
  <2>2. Filled(lists) = {} /\ order = << >>
    BY <1>2, <2>1
  <2>3. made = << >>
    BY <1>3, <2>2 DEF RoundsIn
  <2>4. \A i \in 1 .. m : 1 .. Len(lists[i]) = {}
    <3>1. \A i \in 1 .. m : lists[i] = << >>
      BY <1>5, <2>2 DEF Filled
    <3>2. QED
      BY <3>1
  <2>5. << >> \in Seq(T) /\ 1 .. Len(<< >>) = {}
    OBVIOUS
  <2>6. QED
    BY <1>3, <1>5, <2>2, <2>3, <2>4, <2>5 DEF Rounds
<1>7. CASE d # 0
  <2> DEFINE l == Len(lists[order[1]])
             row(r) == [i \in 1 .. d |-> lists[order[i]][r]]
             q == [r \in 1 .. l |-> row(r)]
             e == [i \in 0 .. l |-> i * d]
  <2>1. 1 \in 1 .. d
    BY <1>7
  <2>2. \A i \in 1 .. d : order[i] \in 1 .. m /\ lists[order[i]] # << >>
    BY <1>2 DEF Filled
  <2>3. l \in Nat \ {0} /\ \A i \in 1 .. d : l <= Len(lists[order[i]])
    <3>1. lists[order[1]] \in Seq(T) /\ lists[order[1]] # << >>
      BY <1>4, <2>1, <2>2
    <3>2. QED
      BY <1>2, <3>1, LenProperties, EmptySeq
  <2>4. order # << >> /\ DOMAIN order = 1 .. d
    BY <1>2, <2>1
  <2>5. made = FlattenSeq(q)
    BY <1>3, <2>4 DEF RoundsIn
  <2> HIDE DEF l
  <2>6. ASSUME NEW r \in 1 .. l PROVE row(r) \in Seq(T) /\ Len(row(r)) = d
    <3>1. ASSUME NEW i \in 1 .. d PROVE lists[order[i]][r] \in T
      <4>1. r \in 1 .. Len(lists[order[i]])
        BY <1>4, <2>2, <2>3
      <4>2. QED
        BY <1>4, <2>2, <4>1, ElementOfSeq
    <3>2. row(r) \in [1 .. d -> T]
      BY <3>1
    <3> HIDE DEF row
    <3>3. QED
      BY <3>2, SeqIntro, Zenon
  <2>7. q \in [1 .. l -> Seq(T)] /\ \A r \in 1 .. l : q[r] = row(r)
    BY <2>6
  <2> HIDE DEF row
  <2>8. q \in Seq(Seq(T)) /\ Len(q) = l
    <3> HIDE DEF q
    <3>1. l \in Nat
      BY <2>3
    <3>2. QED
      BY <2>7, <3>1, SeqIntro, Zenon
  <2>9. Offsets(e, q)
    <3>1. e \in [0 .. l -> Nat] /\ e[0] = 0
      BY <2>3
    <3>2. \A i \in 1 .. l : e[i] = e[i - 1] + d
      BY <2>3
    <3> HIDE DEF e, q
    <3>3. QED
      BY <2>6, <2>7, <2>8, <3>1, <3>2 DEF Offsets
  <2>10. e[l] = l * d /\ e[l] \in Nat \ {0}
    BY <1>7, <2>3
  <2> HIDE DEF e, q
  <2>11. /\ made \in Seq(T) /\ Len(made) = e[l]
         /\ \A i \in 1 .. l : e[i] <= e[l]
         /\ \A i \in 1 .. l : \A k \in 1 .. Len(q[i]) : made[e[i - 1] + k] = q[i][k]
         /\ \A j \in 1 .. Len(made) :
                \E i \in 1 .. l : \E k \in 1 .. Len(q[i]) : made[j] = q[i][k]
    <3>1. Strung(T, q, e, FlattenSeq(q))
      BY <2>8, <2>9, StrungIs
    <3>2. Strung(T, q, e, made) /\ Len(q) = l
      BY <2>5, <2>8, <3>1, Zenon
    <3>3. QED
      BY <3>2, Zenon DEF Strung
  <2>12. \A r \in 1 .. l : \A i \in 1 .. d :
             Len(q[r]) = d /\ q[r][i] = lists[order[i]][r]
    BY <2>6, <2>7 DEF row
  <2>13. ASSUME NEW j \in 1 .. Len(made)
         PROVE  \E i \in 1 .. m : \E k \in 1 .. Len(lists[i]) : made[j] = lists[i][k]
    <3>1. PICK r \in 1 .. l : \E i \in 1 .. Len(q[r]) : made[j] = q[r][i]
      BY <2>11
    <3>2. PICK i \in 1 .. d : made[j] = q[r][i]
      <4>1. PICK i \in 1 .. Len(q[r]) : made[j] = q[r][i]
        BY <3>1
      <4>2. Len(q[r]) = d
        BY <2>6, <2>7, <3>1
      <4>3. QED
        BY <4>1, <4>2
    <3>3. order[i] \in 1 .. m /\ r \in 1 .. Len(lists[order[i]])
      BY <1>4, <2>2, <2>3
    <3>4. PICK x : x = order[i]
      OBVIOUS
    <3>5. x \in 1 .. m /\ r \in 1 .. Len(lists[x])
      BY <3>3, <3>4
    <3>6. made[j] = lists[x][r]
      BY <2>12, <3>2, <3>4
    <3>7. QED
      BY <3>5, <3>6, Zenon
  <2>14. made # << >>
    BY <2>10, <2>11
  <2>15. ASSUME \A i, j \in Filled(lists) : Len(lists[i]) = Len(lists[j]),
                NEW x \in 1 .. m, NEW k \in 1 .. Len(lists[x])
         PROVE  \E j \in 1 .. Len(made) : made[j] = lists[x][k]
    <3>1. x \in Filled(lists)
      <4>1. CASE lists[x] = << >>
        <5>1. 1 .. Len(lists[x]) = {}
          BY <4>1
        <5>2. QED
          BY <5>1
      <4>2. QED
        BY <1>5, <4>1 DEF Filled
    <3>2. PICK i \in 1 .. d : order[i] = x
      BY <1>2, <3>1
    <3>3. order[1] \in Filled(lists)
      BY <1>2, <2>1
    <3>4. k \in 1 .. l
      BY <2>15, <3>1, <3>3 DEF l
    <3>5. Len(q[k]) = d /\ q[k][i] = lists[x][k]
      BY <2>12, <3>2, <3>4
    <3>6. made[e[k - 1] + i] = lists[x][k]
      BY <2>11, <3>4, <3>5
    <3>7. e[k - 1] + i \in 1 .. Len(made)
      <4>1. k - 1 \in 0 .. l /\ k \in 0 .. l
        BY <2>3, <3>4
      <4>2. PICK u, v : /\ u = e[k - 1] /\ v = e[k] /\ u \in Nat /\ v \in Nat
                        /\ v = u + d /\ v <= e[l] /\ e[l] \in Nat
        <5>1. e \in [0 .. l -> Nat] /\ e[k] = e[k - 1] + Len(q[k])
          BY <2>8, <2>9, <3>4 DEF Offsets
        <5>2. PICK u, v : u = e[k - 1] /\ v = e[k]
          OBVIOUS
        <5>3. u \in Nat /\ v \in Nat
          BY <4>1, <5>1, <5>2
        <5>4. v = u + d
          BY <3>5, <5>1, <5>2
        <5>5. v <= e[l] /\ e[l] \in Nat
          BY <2>10, <2>11, <3>4, <5>2
        <5>6. QED
          BY <5>2, <5>3, <5>4, <5>5, Zenon
      <4>3. PICK w : w = e[l]
        OBVIOUS
      <4>4. u + i \in 1 .. w
        <5>1. u \in Nat /\ w \in Nat /\ u + d <= w /\ i \in 1 .. d /\ d \in Nat
          BY <1>2, <4>2, <4>3
        <5>2. QED
          BY <5>1
      <4>5. QED
        <5>1. Len(made) = w
          BY <2>11, <4>3
        <5>2. QED
          BY <4>2, <4>4, <5>1
    <3>8. QED
      BY <3>6, <3>7
  <2>16. QED
    <3>1. /\ made \in Seq(T) /\ made # << >>
          /\ \A j \in 1 .. Len(made) :
                 \E i \in 1 .. m : \E k \in 1 .. Len(lists[i]) : made[j] = lists[i][k]
      BY <2>11, <2>13, <2>14
    <3>2. (\A i, j \in Filled(lists) : Len(lists[i]) = Len(lists[j])) =>
              \A i \in 1 .. m : \A k \in 1 .. Len(lists[i]) :
                  \E j \in 1 .. Len(made) : made[j] = lists[i][k]
      BY <2>15, Zenon
    <3>3. Rounds(T, m, lists, made)
      BY <3>1, <3>2, Zenon DEF Rounds
    <3>4. QED
      BY <1>3, <3>3
<1>8. QED
  BY <1>6, <1>7

----------------------------------------------------------------------------
(* The inductive invariant.  What is true of a stage of an upload is that  *)
(* before the tasks there are none, and that another fragment follows when *)
(* it says so.                                                             *)
TaskOf(nodes) == [node : nodes, segIndex : Nat]

Typed ==
    /\ at \in DOMAIN Fragments
    /\ indexed \in [Node -> Indexed] /\ config \in [Node -> Nat \X Nat]
    /\ selected \in Seq(Node) /\ Different(selected)
    /\ tasks \in Seq(TaskOf(Selected))
    /\ results \in Seq({"ok", "failed"}) /\ Len(results) <= Len(tasks)
    /\ attempt \in 0 .. TooManyDataRetries - 1 /\ rootless \in BOOLEAN
    /\ report \in {"none", "error", "empty", "clean", "partial"}
    /\ synced \subseteq logged /\ logged \subseteq Node
    /\ stored \in [Node -> SUBSET Nat]

Staged ==
    /\ phase \in {"select", "find", "submit", "wait", "split", "tasks",
                  "upload", "finality", "next", "done"}
    /\ phase \in {"select", "find", "submit", "wait", "split", "tasks"} =>
           tasks = << >> /\ results = << >>
    /\ phase = "select" => report = "none"
    /\ phase = "upload" => tasks # << >>
    /\ phase = "next" => at # Len(Fragments)

(* The selected nodes' own configs were found to do before there are tasks.*)
Checked ==
    phase = "tasks" \/ tasks # << >> =>
        /\ \A n \in Selected : ValidConfig(config[n])
        /\ \A s \in Segments :
               ExpectedReplica <= Cardinality({n \in Selected : s \in Own(n)})

TasksOwn == \A i \in 1 .. Len(tasks) : Sent(tasks[i]) \subseteq Own(tasks[i].node)

(* A node that stores something of the file knows the file.                *)
StoredKnown == \A n \in Node : stored[n] # {} => n \in logged

(* If the nodes have equally many tasks, no task of a node that needs its  *)
(* segments is left out.                                                   *)
AllTasks ==
    tasks # << >> /\ SameLengths =>
        \A n \in Selected :
            \/ Complete(n)
            \/ \A k \in 1 .. Len(TasksFor(n)) :
                   \E i \in 1 .. Len(tasks) : tasks[i] = TasksFor(n)[k]

IInv ==
    /\ Typed /\ Staged /\ Checked /\ TasksOwn /\ OwnSegmentsOnly
    /\ StoredKnown /\ AllTasks /\ OkTaskIsStored /\ EvenUploadIsComplete

(* The selected nodes are nodes.                                           *)
LEMMA SelectedNodes ==
    ASSUME Typed PROVE Selected \subseteq Node /\ IsFiniteSet(Selected)
<1>1. selected \in Seq(Node)
  BY DEF Typed
<1>2. Selected \subseteq Node
  BY <1>1, ElementOfSeq DEF Selected
<1>3. QED
  BY <1>2, UploaderAssumption, FS_Subset

(* As long as the file is the same so are its segments and tasks.          *)
LEMMA SameFile ==
    ASSUME given' = given
    PROVE  /\ at' = at /\ config' = config /\ selected' = selected /\ opts' = opts
           /\ indexed' = indexed /\ Selected' = Selected /\ Segments' = Segments
           /\ StartSegment' = StartSegment /\ EndSegment' = EndSegment
           /\ \A n : Own(n)' = Own(n) /\ TasksFor(n)' = TasksFor(n)
           /\ \A t : Sent(t)' = Sent(t)
<1>1. /\ at' = at /\ config' = config /\ selected' = selected /\ opts' = opts
      /\ indexed' = indexed
  BY DEF given
<1>2. StartSegment' = StartSegment /\ NumSegments' = NumSegments /\ Selected' = Selected
  BY <1>1 DEF StartSegment, NumSegments, Selected
<1>3. EndSegment' = EndSegment /\ Segments' = Segments
  BY <1>2 DEF EndSegment, Segments
<1>4. \A n : Own(n)' = Own(n)
  BY <1>1, <1>3 DEF Own
<1>5. \A n : TasksFor(n)' = TasksFor(n)
  BY <1>1, <1>2, <1>3 DEF TasksFor
<1>6. \A t : Sent(t)' = Sent(t)
  BY <1>1, <1>2, <1>3 DEF Sent
<1>7. QED
  BY <1>1, <1>2, <1>3, <1>4, <1>5, <1>6

(* What most steps do to the file: the nodes get to know it and are        *)
(* brought segments of theirs.                                             *)
Grows ==
    /\ given' = given /\ tasks' = tasks
    /\ logged \subseteq logged' /\ logged' \subseteq Node /\ synced' \subseteq logged'
    /\ stored' \in [Node -> SUBSET Nat]
    /\ \A n \in Node : /\ stored[n] \subseteq stored'[n] /\ stored'[n] \subseteq Own(n)
                       /\ stored'[n] # {} => n \in logged'

(* Nothing at all happens to it.                                           *)
LEMMA Stays ==
    ASSUME IInv, given' = given, tasks' = tasks, network' = network PROVE Grows
<1>1. logged' = logged /\ synced' = synced /\ stored' = stored
  BY DEF network
<1>2. QED
  BY <1>1 DEF IInv, Typed, OwnSegmentsOnly, StoredKnown, Grows

(* A node that knows the file stores segments of its own.                  *)
LEMMA Stores ==
    ASSUME IInv, given' = given, tasks' = tasks, synced' = synced, logged' = logged,
           NEW n \in logged, NEW X \in SUBSET Own(n), Store(n, X)
    PROVE  Grows /\ X \subseteq stored'[n]
<1>1. /\ stored \in [Node -> SUBSET Nat] /\ logged \subseteq Node /\ n \in Node
      /\ synced \subseteq logged
  BY DEF IInv, Typed
<1>2. Own(n) \subseteq Nat
  BY Placed DEF IInv, Typed, Own
<1>3. stored' = [stored EXCEPT ![n] = stored[n] \cup X]
  BY DEF Store
<1>4. stored' \in [Node -> SUBSET Nat]
  BY <1>1, <1>2, <1>3
<1>5. /\ stored'[n] = stored[n] \cup X
      /\ \A m \in Node \ {n} : stored'[m] = stored[m]
  BY <1>1, <1>3
<1>6. \A m \in Node : stored[m] \subseteq Own(m) /\ (stored[m] # {} => m \in logged)
  BY DEF IInv, OwnSegmentsOnly, StoredKnown
<1>7. \A m \in Node : /\ stored[m] \subseteq stored'[m] /\ stored'[m] \subseteq Own(m)
                      /\ stored'[m] # {} => m \in logged'
  BY <1>1, <1>5, <1>6
<1>8. QED
  BY <1>1, <1>4, <1>5, <1>7 DEF Grows

(* A complete node remains so.                                             *)
LEMMA RemainsComplete ==
    ASSUME IInv, Grows PROVE \A n \in Node : Complete(n) => Complete(n)'
<1>1. \A n : Own(n)' = Own(n)
  BY SameFile DEF Grows
<1>2. QED
  BY <1>1 DEF Grows, Complete

(* What else is so after such a step.                                      *)
AnswersTyped ==
    /\ results \in Seq({"ok", "failed"}) /\ Len(results) <= Len(tasks)
    /\ attempt \in 0 .. TooManyDataRetries - 1 /\ rootless \in BOOLEAN
    /\ report \in {"none", "error", "empty", "clean", "partial"}

LEMMA GrowsKeeps ==
    ASSUME IInv, Grows, AnswersTyped', OkTaskIsStored'
    PROVE  /\ Typed' /\ TasksOwn' /\ OwnSegmentsOnly' /\ StoredKnown' /\ AllTasks'
           /\ (phase' = "tasks" => phase = "tasks") => Checked'
           /\ (report' = report => EvenUploadIsComplete')
<1>1. /\ at' = at /\ config' = config /\ selected' = selected /\ indexed' = indexed
      /\ Selected' = Selected /\ Segments' = Segments
      /\ \A n : Own(n)' = Own(n) /\ TasksFor(n)' = TasksFor(n)
      /\ \A t : Sent(t)' = Sent(t)
  BY SameFile DEF Grows
<1>2. tasks' = tasks
  BY DEF Grows
<1>3. \A n \in Node : Complete(n) => Complete(n)'
  BY RemainsComplete
<1>4. Selected \subseteq Node
  BY SelectedNodes DEF IInv
<1>5. Typed'
  <2>1. at' \in DOMAIN Fragments /\ indexed' \in [Node -> Indexed]
        /\ config' \in [Node -> Nat \X Nat]
        /\ selected' \in Seq(Node) /\ Different(selected')
        /\ tasks' \in Seq(TaskOf(Selected'))
    BY <1>1, <1>2 DEF IInv, Typed
  <2>2. synced' \subseteq logged' /\ logged' \subseteq Node
        /\ stored' \in [Node -> SUBSET Nat]
    BY DEF Grows
  <2>3. QED
    BY <2>1, <2>2 DEF Typed, AnswersTyped
<1>6. TasksOwn'
  BY <1>1, <1>2 DEF IInv, TasksOwn
<1>7. OwnSegmentsOnly' /\ StoredKnown'
  BY <1>1 DEF Grows, OwnSegmentsOnly, StoredKnown
<1>8. SameLengths' <=> SameLengths
  BY <1>1 DEF SameLengths
<1>9. AllTasks'
  BY <1>1, <1>2, <1>3, <1>4, <1>8 DEF IInv, AllTasks
<1>10. ASSUME phase' = "tasks" => phase = "tasks" PROVE Checked'
  BY <1>1, <1>2, <1>10 DEF IInv, Checked
<1>11. ASSUME report' = report PROVE EvenUploadIsComplete'
  BY <1>1, <1>3, <1>4, <1>8, <1>11 DEF IInv, EvenUploadIsComplete
<1>12. QED
  BY <1>5, <1>6, <1>7, <1>9, <1>10, <1>11

(* A step that sends nothing.                                              *)
LEMMA QuietStep ==
    ASSUME IInv, given' = given, tasks' = tasks, answers' = answers,
           network' = network,
           report' \in {"none", "error", "empty", "clean", "partial"}
    PROVE  /\ Grows /\ AnswersTyped' /\ OkTaskIsStored'
           /\ Typed' /\ TasksOwn' /\ OwnSegmentsOnly' /\ StoredKnown' /\ AllTasks'
           /\ (phase' = "tasks" => phase = "tasks") => Checked'
           /\ (report' = report => EvenUploadIsComplete')
<1>1. Grows
  BY Stays
<1>2. results' = results /\ attempt' = attempt /\ rootless' = rootless /\ stored' = stored
  BY DEF answers, network
<1>3. AnswersTyped'
  BY <1>2 DEF IInv, Typed, AnswersTyped
<1>4. OkTaskIsStored'
  BY <1>2, SameFile DEF IInv, OkTaskIsStored
<1>5. QED
  BY <1>1, <1>3, <1>4, GrowsKeeps

(* The upload of a file ends.                                              *)
LEMMA EndStaged ==
    ASSUME at' = at, NEW with, Ends(with), with # "none" PROVE Staged'
BY DEF Ends, After, Staged

(* An error raises no claim.                                               *)
LEMMA ErrorStep ==
    ASSUME IInv, given' = given, tasks' = tasks, answers' = answers,
           network' = network, Ends("error")
    PROVE  IInv'
<1>1. report' = "error" /\ phase' # "tasks" /\ at' = at
  BY DEF Ends, After, given
<1>2. Staged'
  BY <1>1, EndStaged
<1>3. EvenUploadIsComplete'
  BY <1>1 DEF EvenUploadIsComplete
<1>4. QED
  BY <1>1, <1>2, <1>3, QuietStep DEF IInv

(* The calls that only move on.                                            *)
LEMMA FindStep == ASSUME IInv, FindExisting PROVE IInv'
<1>1. /\ given' = given /\ tasks' = tasks /\ answers' = answers
      /\ report' = report /\ network' = network
      /\ phase = "find" /\ phase' \in {"split", "submit"} /\ at' = at
      /\ results' = results
  BY DEF FindExisting, given, answers
<1>2. report' \in {"none", "error", "empty", "clean", "partial"}
  BY <1>1 DEF IInv, Typed
<1>3. Staged'
  BY <1>1 DEF IInv, Staged
<1>4. QED
  BY <1>1, <1>2, <1>3, QuietStep DEF IInv

LEMMA WaitStep == ASSUME IInv, WaitForLogEntry PROVE IInv'
<1>1. /\ given' = given /\ tasks' = tasks /\ answers' = answers
      /\ report' = report /\ network' = network
      /\ phase = "wait" /\ phase' = "split" /\ at' = at /\ results' = results
  BY DEF WaitForLogEntry, given, answers
<1>2. report' \in {"none", "error", "empty", "clean", "partial"}
  BY <1>1 DEF IInv, Typed
<1>3. Staged'
  BY <1>1 DEF IInv, Staged
<1>4. QED
  BY <1>1, <1>2, <1>3, QuietStep DEF IInv

LEMMA FinalityStep == ASSUME IInv, WaitForFinality PROVE IInv'
<1>1. /\ given' = given /\ tasks' = tasks /\ answers' = answers
      /\ report' = report /\ network' = network
      /\ phase' = After(report) /\ at' = at
  BY DEF WaitForFinality, given
<1>2. report' \in {"none", "error", "empty", "clean", "partial"}
  BY <1>1 DEF IInv, Typed
<1>3. phase' \in {"done", "next"} /\ (phase' = "next" => at # Len(Fragments))
  BY <1>1 DEF After
<1>4. Staged'
  BY <1>1, <1>3 DEF Staged
<1>5. QED
  BY <1>1, <1>2, <1>3, <1>4, QuietStep DEF IInv

LEMMA RaisesStep == ASSUME IInv, CallRaises \/ WaitRaises PROVE IInv'
BY ErrorStep DEF CallRaises, WaitRaises

(* The transaction is the network's business.                              *)
LEMMA SubmitStep == ASSUME IInv, SubmitTransaction PROVE IInv'
<1>1. /\ given' = given /\ tasks' = tasks /\ answers' = answers /\ phase = "submit"
      /\ synced' = synced /\ logged' = logged /\ stored' = stored /\ at' = at
      /\ results' = results /\ attempt' = attempt /\ rootless' = rootless
  BY DEF SubmitTransaction, given, answers
<1>2. Grows
  BY <1>1 DEF IInv, Typed, OwnSegmentsOnly, StoredKnown, Grows
<1>3. OkTaskIsStored'
  BY <1>1, SameFile DEF IInv, OkTaskIsStored
<1>4. CASE phase' = "wait" /\ report' = report
  <2>1. AnswersTyped'
    BY <1>1, <1>4 DEF IInv, Typed, AnswersTyped
  <2>2. Staged'
    BY <1>1, <1>4 DEF IInv, Staged
  <2>3. QED
    BY <1>2, <1>3, <1>4, <2>1, <2>2, GrowsKeeps DEF IInv
<1>5. CASE Ends("error")
  <2>1. report' = "error" /\ phase' # "tasks"
    BY <1>5 DEF Ends, After
  <2>2. AnswersTyped'
    BY <1>1, <2>1 DEF IInv, Typed, AnswersTyped
  <2>3. Staged' /\ EvenUploadIsComplete'
    BY <1>1, <1>5, <2>1, EndStaged DEF EvenUploadIsComplete
  <2>4. QED
    BY <1>2, <1>3, <2>1, <2>2, <2>3, GrowsKeeps DEF IInv
<1>6. QED
  BY <1>4, <1>5 DEF SubmitTransaction

(* select_nodes, of the indexer's picture.                                 *)
LEMMA SelectStep == ASSUME IInv, Select PROVE IInv'
<1>1. /\ phase = "select" /\ indexed' = indexed /\ config' = config /\ at' = at
      /\ tasks' = tasks /\ results' = results /\ attempt' = attempt
      /\ rootless' = rootless /\ synced' = synced /\ logged' = logged
      /\ stored' = stored
  BY DEF Select, answers, network
<1>2. tasks = << >> /\ results = << >> /\ report = "none"
  BY <1>1 DEF IInv, Staged
<1>3. PICK s : s = SelectNodes(Node, indexed, ExpectedReplica)
  OBVIOUS
<1>4. s.selected \in Seq(Node) /\ Different(s.selected)
  <2>1. Configured(Node, indexed)
    BY UploaderAssumption DEF IInv, Typed, Configured
  <2>2. IsFiniteSet(Node) /\ ExpectedReplica \in Nat
    BY UploaderAssumption
  <2>3. QED
    BY <1>3, <2>1, <2>2, SelectSound
<1>5. \/ selected' = s.selected /\ phase' = "find" /\ report' = report
      \/ Ends("error") /\ selected' = selected
  BY <1>3 DEF Select
<1>6. selected' \in Seq(Node) /\ Different(selected')
  BY <1>4, <1>5 DEF IInv, Typed
<1>7. report' \in {"none", "error"} /\ phase' \in {"find", "done", "next"}
  BY <1>2, <1>5 DEF Ends, After
<1>8. Typed'
  <2>1. tasks' \in Seq(TaskOf(Selected')) /\ results' \in Seq({"ok", "failed"})
        /\ Len(results') <= Len(tasks')
    BY <1>1, <1>2
  <2>2. QED
    BY <1>1, <1>6, <1>7, <2>1 DEF IInv, Typed
<1>9. Staged'
  BY <1>1, <1>2, <1>5, EndStaged DEF Staged
<1>10. \A n : Own(n)' = Own(n)
  BY <1>1 DEF Own, Segments, StartSegment, EndSegment, NumSegments
<1>11. OwnSegmentsOnly' /\ StoredKnown'
  BY <1>1, <1>10 DEF IInv, OwnSegmentsOnly, StoredKnown
<1>12. Checked' /\ TasksOwn' /\ AllTasks' /\ OkTaskIsStored'
  <2>1. tasks' = << >> /\ results' = << >> /\ 1 .. Len(<< >>) = {} /\ DOMAIN << >> = {}
    BY <1>1, <1>2
  <2>2. QED
    BY <1>7, <2>1 DEF Checked, TasksOwn, AllTasks, OkTaskIsStored
<1>13. EvenUploadIsComplete'
  BY <1>7 DEF EvenUploadIsComplete
<1>14. QED
  BY <1>8, <1>9, <1>11, <1>12, <1>13 DEF IInv

(* check_replica's promise is that of select_nodes about the nodes' own    *)
(* configs.                                                                *)
LEMMA ReplicaChecked ==
    ASSUME Typed, CheckReplica, \A n \in Selected : ValidConfig(config[n])
    PROVE  \A s \in Segments :
               ExpectedReplica <= Cardinality({n \in Selected : s \in Own(n)})
<1>1. Selected \subseteq Node /\ IsFiniteSet(Selected)
  BY SelectedNodes
<1>2. Configured(Selected, config)
  BY <1>1 DEF Typed, Configured
<1>3. ExpectedReplica \in Nat
  BY UploaderAssumption
<1>4. PICK s : s = SelectNodes(Selected, config, ExpectedReplica)
  OBVIOUS
<1>5. /\ s.selected \in Seq(Selected) /\ Different(s.selected)
      /\ Enough(s.selected, config, ExpectedReplica)
  BY <1>1, <1>2, <1>3, <1>4, SelectSound DEF CheckReplica
<1>6. ASSUME NEW x \in Segments
      PROVE  ExpectedReplica <= Cardinality({n \in Selected : x \in Own(n)})
  <2>1. x \in Nat
    BY Placed DEF Typed
  <2>2. PICK keep : keep = {n \in Selected : x % config[n][1] = config[n][2]}
    OBVIOUS
  <2>3. ExpectedReplica <= Cardinality(keep)
    BY <1>1, <1>3, <1>5, <2>1, <2>2, EnoughNodes
  <2>4. keep = {n \in Selected : x \in Own(n)}
    BY <2>2 DEF Own
  <2>5. QED
    BY <2>3, <2>4
<1>7. QED
  BY <1>6

LEMMA SplitStep == ASSUME IInv, SplitTasks PROVE IInv'
<1>1. /\ given' = given /\ tasks' = tasks /\ answers' = answers
      /\ network' = network /\ phase = "split" /\ at' = at /\ results' = results
  BY DEF SplitTasks, given, answers
<1>2. tasks = << >> /\ results = << >>
  BY <1>1 DEF IInv, Staged
<1>3. CASE Ends("error")
  BY <1>1, <1>3, ErrorStep
<1>4. CASE Ends("empty") /\ \A n \in Selected : Complete(n)
  <2>1. report' = "empty" /\ phase' # "tasks"
    BY <1>4 DEF Ends, After
  <2>2. Staged'
    BY <1>1, <1>4, EndStaged
  <2>3. Grows /\ Selected' = Selected /\ Selected \subseteq Node
    BY <1>1, Stays, SameFile, SelectedNodes DEF IInv
  <2>4. EvenUploadIsComplete'
    BY <1>4, <2>3, RemainsComplete DEF EvenUploadIsComplete
  <2>5. QED
    BY <1>1, <2>1, <2>2, <2>4, QuietStep DEF IInv
<1>5. CASE /\ CheckReplica /\ \A n \in Selected : ValidConfig(config[n])
           /\ phase' = "tasks" /\ report' = report
  <2>1. report' \in {"none", "error", "empty", "clean", "partial"}
    BY <1>5 DEF IInv, Typed
  <2>2. Staged'
    BY <1>1, <1>2, <1>5 DEF Staged
  <2>3. \A s \in Segments :
            ExpectedReplica <= Cardinality({n \in Selected : s \in Own(n)})
    BY <1>5, ReplicaChecked DEF IInv
  <2>4. Checked'
    <3>1. /\ Selected' = Selected /\ Segments' = Segments /\ config' = config
          /\ \A n : Own(n)' = Own(n)
      BY <1>1, SameFile
    <3>2. QED
      BY <1>5, <2>3, <3>1 DEF Checked
  <2>5. QED
    BY <1>1, <1>5, <2>1, <2>2, <2>4, QuietStep DEF IInv
<1>6. QED
  BY <1>3, <1>4, <1>5 DEF SplitTasks

(* What tasks are made of the nodes' own, and which.                       *)
Made(made) ==
    /\ made \in Seq(TaskOf(Selected))
    /\ \A j \in 1 .. Len(made) : Sent(made[j]) \subseteq Own(made[j].node)
    /\ made = << >> => \A n \in Selected : Complete(n) \/ Own(n) = {}
    /\ SameLengths =>
           \A n \in Selected :
               \/ Complete(n)
               \/ \A k \in 1 .. Len(TasksFor(n)) :
                      \E j \in 1 .. Len(made) : made[j] = TasksFor(n)[k]

LEMMA MadeTasks ==
    ASSUME IInv, phase = "tasks", NEW lists,
           lists = [i \in DOMAIN selected |->
                       IF Complete(selected[i]) /\ Cardinality(stored[selected[i]]) >= NumSegments
                       THEN << >> ELSE TasksFor(selected[i])],
           NEW made, made = InRounds(lists)
    PROVE  Made(made)
<1>1. PICK m \in Nat : m = Len(selected) /\ selected \in [1 .. m -> Selected]
  <2>1. selected \in Seq(Node) /\ Len(selected) \in Nat
    BY LenProperties DEF IInv, Typed
  <2>2. DOMAIN selected = 1 .. Len(selected)
    BY <2>1
  <2>3. QED
    BY <2>1, <2>2 DEF Selected
<1>2. \A n \in Selected : config[n] \in Nat \X Nat /\ ValidConfig(config[n])
  BY SelectedNodes DEF IInv, Typed, Checked
<1>3. \A n \in Selected :
          /\ TasksFor(n) \in Seq(TaskOf({n}))
          /\ \A k \in 1 .. Len(TasksFor(n)) : Sent(TasksFor(n)[k]) \subseteq Own(n)
          /\ \A s \in Own(n) :
                 \E k \in 1 .. Len(TasksFor(n)) : s \in Sent(TasksFor(n)[k])
  BY <1>2, TasksAre DEF IInv, Typed, TaskOf
<1>4. \A n \in Selected : TasksFor(n) \in Seq(TaskOf(Selected))
  <2>1. ASSUME NEW n \in Selected PROVE TasksFor(n) \in Seq(TaskOf(Selected))
    <3>1. TaskOf({n}) \subseteq TaskOf(Selected)
      BY DEF TaskOf
    <3>2. PICK U, V, t : /\ U = TaskOf({n}) /\ V = TaskOf(Selected) /\ t = TasksFor(n)
                         /\ t \in Seq(U) /\ U \subseteq V
      BY <1>3, <3>1
    <3>3. t \in Seq(V)
      <4>1. PICK l \in Nat : l = Len(t) /\ t \in [1 .. l -> U]
        BY <3>2, LenProperties
      <4>2. t \in [1 .. l -> V]
        BY <3>2, <4>1
      <4>3. QED
        BY <4>2, SeqIntro, Zenon
    <3>4. QED
      BY <3>2, <3>3, Zenon
  <2>2. QED
    BY <2>1
<1>5. PICK T : T = TaskOf(Selected)
  OBVIOUS
<1>6. \A i \in 1 .. m : lists[i] = << >> \/ lists[i] = TasksFor(selected[i])
  BY <1>1
<1>7. lists \in [1 .. m -> Seq(T)]
  <2>1. \A i \in 1 .. m : lists[i] \in Seq(T)
    <3>1. << >> \in Seq(T)
      OBVIOUS
    <3>2. QED
      BY <1>1, <1>4, <1>5, <1>6, <3>1
  <2>2. lists = [i \in 1 .. m |-> lists[i]]
    BY <1>1
  <2>3. QED
    BY <2>1, <2>2
<1>8. Rounds(T, m, lists, made)
  BY <1>7, RoundsAre
<1>9. DOMAIN lists = 1 .. m
  BY <1>7
<1>a. /\ \A j \in 1 .. Len(made) :
             \E i \in 1 .. m : \E k \in 1 .. Len(lists[i]) : made[j] = lists[i][k]
      /\ (\A i, j \in Filled(lists) : Len(lists[i]) = Len(lists[j])) =>
             \A i \in 1 .. m : \A k \in 1 .. Len(lists[i]) :
                 \E j \in 1 .. Len(made) : made[j] = lists[i][k]
  BY <1>8, Zenon DEF Rounds
<1>10. \A i \in 1 .. m :
           \/ Complete(selected[i]) \/ lists[i] = TasksFor(selected[i])
  BY <1>1
<1>11. ASSUME NEW j \in 1 .. Len(made) PROVE Sent(made[j]) \subseteq Own(made[j].node)
  <2>1. PICK i \in 1 .. m : \E k \in 1 .. Len(lists[i]) : made[j] = lists[i][k]
    BY <1>a
  <2>2. PICK k \in 1 .. Len(lists[i]) : made[j] = lists[i][k]
    BY <2>1
  <2>3. lists[i] # << >>
    <3>1. CASE lists[i] = << >>
      <4>1. 1 .. Len(lists[i]) = {}
        BY <3>1
      <4>2. QED
        BY <4>1
    <3>2. QED
      BY <3>1
  <2>4. PICK n \in Selected : n = selected[i] /\ lists[i] = TasksFor(n)
    BY <1>1, <1>6, <2>3
  <2>5. k \in 1 .. Len(TasksFor(n)) /\ made[j] = TasksFor(n)[k]
    BY <2>2, <2>4
  <2>6. TasksFor(n)[k] \in TaskOf({n})
    BY <1>3, <2>5, ElementOfSeq
  <2>7. made[j].node = n
    BY <2>5, <2>6 DEF TaskOf
  <2>8. Sent(TasksFor(n)[k]) \subseteq Own(n)
    BY <1>3, <2>5
  <2>9. QED
    BY <2>5, <2>7, <2>8, Zenon
<1>12. ASSUME made = << >>, NEW n \in Selected PROVE Complete(n) \/ Own(n) = {}
  <2>1. PICK i \in 1 .. m : n = selected[i]
    BY <1>1 DEF Selected
  <2>2. lists[i] = << >>
    BY <1>8, <1>9, <1>12 DEF Rounds, Filled
  <2>3. CASE lists[i] = TasksFor(n)
    <3>1. 1 .. Len(TasksFor(n)) = {}
      BY <2>2, <2>3
    <3>2. QED
      BY <1>3, <3>1
  <2>4. QED
    BY <1>10, <2>1, <2>3
<1>13. ASSUME SameLengths, NEW n \in Selected, ~Complete(n),
              NEW k \in 1 .. Len(TasksFor(n))
       PROVE  \E j \in 1 .. Len(made) : made[j] = TasksFor(n)[k]
  <2>1. PICK i \in 1 .. m : n = selected[i]
    BY <1>1 DEF Selected
  <2>2. lists[i] = TasksFor(n)
    BY <1>10, <1>13, <2>1
  <2>3. \A x, y \in Filled(lists) : Len(lists[x]) = Len(lists[y])
    <3>1. ASSUME NEW x \in Filled(lists)
          PROVE  selected[x] \in Selected /\ lists[x] = TasksFor(selected[x])
      BY <1>1, <1>6, <1>9 DEF Filled
    <3>2. QED
      BY <1>13, <3>1 DEF SameLengths
  <2>4. \A x \in 1 .. m : \A l \in 1 .. Len(lists[x]) :
            \E j \in 1 .. Len(made) : made[j] = lists[x][l]
    BY <1>a, <2>3, Zenon
  <2>5. QED
    <3>1. k \in 1 .. Len(lists[i]) /\ lists[i][k] = TasksFor(n)[k]
      BY <1>13, <2>2
    <3>2. PICK ls, l : ls = lists /\ l = ls[i] /\ k \in 1 .. Len(l) /\ l[k] = TasksFor(n)[k]
      BY <3>1
    <3>3. \A j \in 1 .. Len(l) : \E h \in 1 .. Len(made) : made[h] = l[j]
      <4>1. \A j \in 1 .. Len(lists[i]) : \E h \in 1 .. Len(made) : made[h] = lists[i][j]
        BY <2>4, Zenon
      <4>2. lists[i] = l
        BY <3>2
      <4>3. QED
        BY <4>1, <4>2, Zenon
    <3>4. PICK h \in 1 .. Len(made) : made[h] = l[k]
      BY <3>2, <3>3, Zenon
    <3>5. made[h] = TasksFor(n)[k]
      BY <3>2, <3>4
    <3>6. QED
      BY <3>5
<1>14. made \in Seq(TaskOf(Selected))
  BY <1>5, <1>8 DEF Rounds
<1>15. QED
  BY <1>11, <1>12, <1>13, <1>14 DEF Made

LEMMA MakeStep == ASSUME IInv, MakeTasks PROVE IInv'
<1>1. /\ given' = given /\ answers' = answers /\ network' = network
      /\ phase = "tasks" /\ at' = at /\ results' = results /\ attempt' = attempt
      /\ rootless' = rootless /\ stored' = stored /\ logged' = logged /\ synced' = synced
  BY DEF MakeTasks, given, answers, network
<1>2. tasks = << >> /\ results = << >>
  BY <1>1 DEF IInv, Staged
<1>3. PICK lists :
          lists = [i \in DOMAIN selected |->
                      IF Complete(selected[i]) /\ Cardinality(stored[selected[i]]) >= NumSegments
                      THEN << >> ELSE TasksFor(selected[i])]
  OBVIOUS
<1>4. PICK made : made = InRounds(lists)
  OBVIOUS
<1>5. /\ tasks' = made
      /\ IF made = << >> THEN Ends("empty")
         ELSE phase' = "upload" /\ report' = report
  BY <1>3, <1>4 DEF MakeTasks
<1>o. Made(made)
  BY <1>1, <1>3, <1>4, MadeTasks
<1>6. /\ made \in Seq(TaskOf(Selected))
      /\ \A j \in 1 .. Len(made) : Sent(made[j]) \subseteq Own(made[j].node)
      /\ made = << >> => \A n \in Selected : Complete(n) \/ Own(n) = {}
      /\ SameLengths =>
             \A n \in Selected :
                 \/ Complete(n)
                 \/ \A k \in 1 .. Len(TasksFor(n)) :
                        \E j \in 1 .. Len(made) : made[j] = TasksFor(n)[k]
  BY <1>o DEF Made
<1>7. /\ at' = at /\ config' = config /\ selected' = selected /\ indexed' = indexed
      /\ Selected' = Selected /\ Segments' = Segments
      /\ \A n : Own(n)' = Own(n) /\ TasksFor(n)' = TasksFor(n)
      /\ \A t : Sent(t)' = Sent(t)
  BY <1>1, SameFile
<1>8. \A n : Complete(n)' <=> Complete(n)
  BY <1>1, <1>7 DEF Complete
<1>9. report' \in {report, "empty"} /\ phase' \in {"upload", "done", "next"}
  BY <1>5 DEF Ends, After
<1>10. Typed'
  <2>1. results' \in Seq({"ok", "failed"}) /\ Len(results') <= Len(tasks')
    <3>1. << >> \in Seq({"ok", "failed"}) /\ Len(<< >>) = 0
      OBVIOUS
    <3>2. Len(made) \in Nat
      BY <1>6, LenProperties
    <3>3. QED
      BY <1>1, <1>2, <1>5, <3>1, <3>2
  <2>2. tasks' \in Seq(TaskOf(Selected'))
    BY <1>5, <1>6, <1>7
  <2>3. QED
    BY <1>1, <1>7, <1>9, <2>1, <2>2 DEF IInv, Typed
<1>11. Staged'
  <2>1. CASE made = << >>
    BY <1>1, <1>5, <2>1, EndStaged
  <2>2. CASE made # << >>
    BY <1>5, <2>2 DEF Staged
  <2>3. QED
    BY <2>1, <2>2
<1>12. Checked'
  BY <1>1, <1>7 DEF IInv, Checked
<1>13. TasksOwn'
  BY <1>5, <1>6, <1>7 DEF TasksOwn
<1>14. OwnSegmentsOnly' /\ StoredKnown'
  BY <1>1, <1>7 DEF IInv, OwnSegmentsOnly, StoredKnown
<1>15. SameLengths' <=> SameLengths
  BY <1>7 DEF SameLengths
<1>16. AllTasks'
  BY <1>5, <1>6, <1>7, <1>8, <1>15 DEF AllTasks
<1>17. OkTaskIsStored'
  <2>1. DOMAIN results' = {}
    BY <1>1, <1>2
  <2>2. QED
    BY <2>1 DEF OkTaskIsStored
<1>18. EvenUploadIsComplete'
  <2>1. CASE made = << >>
    BY <1>6, <1>7, <1>8, <2>1 DEF EvenUploadIsComplete
  <2>2. CASE made # << >>
    BY <1>5, <1>7, <1>8, <1>15, <2>2 DEF IInv, EvenUploadIsComplete
  <2>3. QED
    BY <2>1, <2>2
<1>19. QED
  BY <1>10, <1>11, <1>12, <1>13, <1>14, <1>16, <1>17, <1>18 DEF IInv

(* Every task is some selected node's.                                     *)
LEMMA TasksAreNodes ==
    ASSUME IInv
    PROVE  \A i \in 1 .. Len(tasks) :
               tasks[i] \in TaskOf(Selected) /\ tasks[i].node \in Selected \cap Node
<1>1. tasks \in Seq(TaskOf(Selected)) /\ Selected \subseteq Node
  BY SelectedNodes DEF IInv, Typed
<1>2. ASSUME NEW i \in 1 .. Len(tasks)
      PROVE  tasks[i] \in TaskOf(Selected) /\ tasks[i].node \in Selected \cap Node
  <2>1. tasks[i] \in TaskOf(Selected)
    BY <1>1, <1>2, ElementOfSeq
  <2>2. QED
    BY <1>1, <2>1 DEF TaskOf
<1>3. QED
  BY <1>2

(* The task being sent.                                                    *)
LEMMA TheTask ==
    ASSUME IInv, Sending
    PROVE  /\ Len(results) \in Nat /\ Len(results) + 1 \in 1 .. Len(tasks)
           /\ Task = tasks[Len(results) + 1]
           /\ Task.node \in Selected /\ Task.node \in Node
           /\ Sent(Task) \subseteq Own(Task.node)
<1>1. Len(results) \in Nat /\ Len(tasks) \in Nat /\ Len(results) < Len(tasks)
  BY LenProperties DEF IInv, Typed, Sending
<1>2. Len(results) + 1 \in 1 .. Len(tasks)
  BY <1>1
<1>3. Task.node \in Selected \cap Node
  BY <1>2, TasksAreNodes DEF Task
<1>4. Sent(Task) \subseteq Own(Task.node)
  BY <1>2 DEF IInv, TasksOwn, Task
<1>5. QED
  BY <1>1, <1>2, <1>3, <1>4 DEF Task

(* Its result.                                                             *)
LEMMA ResultAdded ==
    ASSUME IInv, Grows, Sending, NEW result \in {"ok", "failed"}, TaskEnds(result),
           result = "ok" => Sent(Task) \subseteq stored'[Task.node],
           phase' = phase, report' = report
    PROVE  IInv'
<1>1. /\ Len(results) \in Nat /\ Len(results) + 1 \in 1 .. Len(tasks)
      /\ Task = tasks[Len(results) + 1]
  BY TheTask
<1>2. /\ results' = Append(results, result) /\ attempt' = 0 /\ rootless' = FALSE
      /\ tasks' = tasks /\ at' = at /\ phase = "upload" /\ tasks \in Seq(TaskOf(Selected))
      /\ results \in Seq({"ok", "failed"})
  BY SameFile DEF TaskEnds, Grows, Sending, IInv, Typed
<1>3. /\ results' \in Seq({"ok", "failed"}) /\ Len(results') = Len(results) + 1
      /\ \A i \in 1 .. Len(results) : results'[i] = results[i]
  BY <1>2, AppendProperties
<1>4. AnswersTyped'
  <2>1. Len(results') <= Len(tasks')
    <3>1. PICK l, t : l = Len(results) /\ t = Len(tasks) /\ l \in Nat /\ l + 1 \in 1 .. t
      BY <1>1
    <3>2. l + 1 <= t
      BY <3>1
    <3>3. QED
      BY <1>2, <1>3, <3>1, <3>2
  <2>2. attempt' \in 0 .. TooManyDataRetries - 1
    BY <1>2, UploaderAssumption
  <2>3. QED
    BY <1>2, <1>3, <2>1, <2>2 DEF IInv, Typed, AnswersTyped
<1>5. OkTaskIsStored'
  <2>1. ASSUME NEW i \in DOMAIN results', results'[i] = "ok"
        PROVE  Sent(tasks[i]) \subseteq stored'[tasks[i].node]
    <3>1. i \in 1 .. Len(results) \/ i = Len(results) + 1
      <4>1. DOMAIN results' = 1 .. Len(results')
        BY <1>3
      <4>2. PICK l : l = Len(results) /\ l \in Nat /\ i \in 1 .. l + 1
        BY <1>1, <1>3, <2>1, <4>1
      <4>3. i \in 1 .. l \/ i = l + 1
        BY <4>2
      <4>4. QED
        BY <4>2, <4>3
    <3>2. CASE i = Len(results) + 1
      <4>1. results'[i] = result
        BY <1>2, <3>2, AppendProperties
      <4>2. QED
        BY <1>1, <2>1, <3>2, <4>1
    <3>3. CASE i \in 1 .. Len(results)
      <4>1. results[i] = "ok" /\ i \in DOMAIN results
        BY <1>2, <1>3, <2>1, <3>3
      <4>2. Sent(tasks[i]) \subseteq stored[tasks[i].node]
        BY <4>1 DEF IInv, OkTaskIsStored
      <4>3. i \in 1 .. Len(tasks)
        <5>1. PICK l, t : /\ l = Len(results) /\ t = Len(tasks) /\ l \in Nat
                          /\ l + 1 \in 1 .. t /\ i \in 1 .. l
          BY <1>1, <3>3
        <5>2. i \in 1 .. t
          BY <5>1
        <5>3. QED
          BY <5>1, <5>2
      <4>4. tasks[i].node \in Node
        BY <4>3, TasksAreNodes
      <4>5. QED
        BY <4>2, <4>4 DEF Grows
    <3>4. QED
      BY <3>1, <3>2, <3>3
  <2>2. \A t : Sent(t)' = Sent(t)
    BY SameFile DEF Grows
  <2>3. QED
    BY <1>2, <2>1, <2>2 DEF OkTaskIsStored
<1>6. Staged'
  BY <1>2 DEF IInv, Staged
<1>7. QED
  BY <1>2, <1>4, <1>5, <1>6, GrowsKeeps DEF IInv

(* No result yet.                                                          *)
LEMMA NoResult ==
    ASSUME IInv, Grows, results' = results,
           attempt' \in 0 .. TooManyDataRetries - 1, rootless' \in BOOLEAN,
           phase' = phase, report' = report
    PROVE  IInv'
<1>1. tasks' = tasks /\ at' = at /\ \A t : Sent(t)' = Sent(t)
  BY SameFile DEF Grows
<1>2. AnswersTyped'
  BY <1>1 DEF IInv, Typed, AnswersTyped
<1>3. OkTaskIsStored'
  <2>1. ASSUME NEW i \in DOMAIN results, results[i] = "ok"
        PROVE  Sent(tasks[i]) \subseteq stored'[tasks[i].node]
    <3>1. Sent(tasks[i]) \subseteq stored[tasks[i].node]
      BY <2>1 DEF IInv, OkTaskIsStored
    <3>2. tasks[i].node \in Node
      <4>1. i \in 1 .. Len(tasks)
        <5>1. PICK l, t : /\ l = Len(results) /\ t = Len(tasks) /\ l \in Nat
                          /\ t \in Nat /\ l <= t /\ i \in 1 .. l
          BY LenProperties DEF IInv, Typed
        <5>2. i \in 1 .. t
          BY <5>1
        <5>3. QED
          BY <5>1, <5>2
      <4>2. QED
        BY <4>1, TasksAreNodes
    <3>3. QED
      BY <3>1, <3>2 DEF Grows
  <2>2. QED
    BY <1>1, <2>1 DEF OkTaskIsStored
<1>4. Staged'
  BY <1>1 DEF IInv, Staged
<1>5. QED
  BY <1>2, <1>3, <1>4, GrowsKeeps DEF IInv

(* The node takes the task's segments.                                     *)
LEMMA AcceptedStep == ASSUME IInv, TaskAccepted PROVE IInv'
<1>1. /\ given' = given /\ tasks' = tasks /\ synced' = synced /\ logged' = logged
      /\ phase' = phase /\ report' = report /\ Sending /\ Task.node \in logged
      /\ Store(Task.node, Sent(Task)) /\ TaskEnds("ok")
  BY DEF TaskAccepted
<1>2. Sent(Task) \subseteq Own(Task.node)
  BY <1>1, TheTask
<1>3. PICK n \in logged : n = Task.node
  BY <1>1
<1>x. PICK X \in SUBSET Own(n) : X = Sent(Task)
  BY <1>2, <1>3
<1>4. Grows /\ X \subseteq stored'[n]
  BY <1>1, <1>3, <1>x, Stores
<1>5. QED
  BY <1>1, <1>3, <1>x, <1>4, ResultAdded

(* It has the whole file already, and so the task's segments.              *)
LEMMA AlreadyStep == ASSUME IInv, TaskAlreadyUploaded PROVE IInv'
<1>1. /\ given' = given /\ tasks' = tasks /\ network' = network
      /\ phase' = phase /\ report' = report /\ Sending /\ Complete(Task.node)
      /\ TaskEnds("ok") /\ stored' = stored
  BY DEF TaskAlreadyUploaded, network
<1>2. Grows
  BY <1>1, Stays
<1>3. Sent(Task) \subseteq stored'[Task.node]
  BY <1>1, TheTask DEF Complete
<1>4. QED
  BY <1>1, <1>2, <1>3, ResultAdded

(* The node may have written, whatever it answers.                         *)
LEMMA MayStore ==
    ASSUME IInv, Sending,
           (Task.node \in logged /\ Store(Task.node, Sent(Task))) \/ UNCHANGED stored,
           given' = given, tasks' = tasks, submitted' = submitted,
           synced' = synced, logged' = logged
    PROVE  Grows
<1>1. CASE Task.node \in logged /\ Store(Task.node, Sent(Task))
  <2>1. PICK n \in logged : n = Task.node
    BY <1>1
  <2>2. PICK X \in SUBSET Own(n) : X = Sent(Task)
    BY <2>1, TheTask
  <2>3. QED
    BY <1>1, <2>1, <2>2, Stores
<1>2. CASE stored' = stored
  BY <1>2, Stays DEF network
<1>3. QED
  BY <1>1, <1>2

LEMMA RetriedStep == ASSUME IInv, TaskRetried PROVE IInv'
<1>1. /\ given' = given /\ tasks' = tasks /\ submitted' = submitted
      /\ synced' = synced /\ logged' = logged
      /\ phase' = phase /\ report' = report /\ Sending /\ ~rootless
      /\ (Task.node \in logged /\ Store(Task.node, Sent(Task))) \/ UNCHANGED stored
  BY DEF TaskRetried
<1>2. Grows
  BY <1>1, MayStore
<1>3. CASE /\ attempt < TooManyDataRetries - 1
           /\ attempt' = attempt + 1 /\ results' = results /\ rootless' = rootless
  <2>1. attempt' \in 0 .. TooManyDataRetries - 1 /\ rootless' \in BOOLEAN
    BY <1>3, UploaderAssumption DEF IInv, Typed
  <2>2. QED
    BY <1>1, <1>2, <1>3, <2>1, NoResult
<1>4. CASE TaskEnds("failed")
  BY <1>1, <1>2, <1>4, ResultAdded
<1>5. QED
  BY <1>3, <1>4 DEF TaskRetried

LEMMA RejectedStep == ASSUME IInv, TaskRejected PROVE IInv'
<1>1. /\ given' = given /\ tasks' = tasks /\ network' = network
      /\ phase' = phase /\ report' = report /\ results' = results
      /\ attempt' = attempt /\ rootless' = TRUE
  BY DEF TaskRejected
<1>2. attempt' \in 0 .. TooManyDataRetries - 1
  BY <1>1 DEF IInv, Typed
<1>3. QED
  BY <1>1, <1>2, Stays, NoResult

LEMMA FailsStep == ASSUME IInv, TaskFails PROVE IInv'
<1>1. /\ given' = given /\ tasks' = tasks /\ submitted' = submitted
      /\ synced' = synced /\ logged' = logged
      /\ phase' = phase /\ report' = report /\ Sending /\ TaskEnds("failed")
      /\ (Task.node \in logged /\ Store(Task.node, Sent(Task))) \/ UNCHANGED stored
  BY DEF TaskFails
<1>2. Grows
  BY <1>1, MayStore
<1>3. QED
  BY <1>1, <1>2, ResultAdded

(* A node whose tasks are all in the list and all uploaded is complete,    *)
(* for its tasks are of all its segments.                                  *)
LEMMA AllSent ==
    ASSUME IInv, tasks # << >>, Len(results) = Len(tasks),
           \A i \in DOMAIN results : results[i] = "ok",
           NEW n \in Selected,
           \A k \in 1 .. Len(TasksFor(n)) :
               \E i \in 1 .. Len(tasks) : tasks[i] = TasksFor(n)[k]
    PROVE  Complete(n) \/ Own(n) = {}
<1>1. n \in Node /\ at \in DOMAIN Fragments /\ config[n] \in Nat \X Nat
  BY SelectedNodes DEF IInv, Typed
<1>2. ValidConfig(config[n])
  BY DEF IInv, Checked
<1>3. /\ TasksFor(n) \in Seq(TaskOf({n}))
      /\ \A s \in Own(n) :
             \E k \in 1 .. Len(TasksFor(n)) : s \in Sent(TasksFor(n)[k])
  BY <1>1, <1>2, TasksAre DEF TaskOf
<1>4. ASSUME NEW s \in Own(n) PROVE s \in stored[n]
  <2>1. PICK k \in 1 .. Len(TasksFor(n)) : s \in Sent(TasksFor(n)[k])
    BY <1>3
  <2>2. PICK i \in 1 .. Len(tasks) : tasks[i] = TasksFor(n)[k]
    OBVIOUS
  <2>3. TasksFor(n)[k] \in TaskOf({n})
    BY <1>3, ElementOfSeq
  <2>4. tasks[i].node = n
    BY <2>2, <2>3 DEF TaskOf
  <2>5. i \in DOMAIN results /\ results[i] = "ok"
    <3>1. results \in Seq({"ok", "failed"})
      BY DEF IInv, Typed
    <3>2. DOMAIN results = 1 .. Len(results)
      BY <3>1
    <3>3. QED
      BY <3>2
  <2>6. Sent(tasks[i]) \subseteq stored[tasks[i].node]
    BY <2>5 DEF IInv, OkTaskIsStored
  <2>7. QED
    BY <2>1, <2>2, <2>4, <2>6
<1>5. stored[n] # {} => n \in logged
  BY <1>1 DEF IInv, StoredKnown
<1>6. QED
  BY <1>4, <1>5 DEF Complete

(* What the call says in the end.                                          *)
LEMMA ReportStep == ASSUME IInv, Report PROVE IInv'
<1>1. /\ given' = given /\ tasks' = tasks /\ answers' = answers /\ network' = network
      /\ phase = "upload" /\ Len(results) = Len(tasks) /\ at' = at
      /\ report' = IF \E i \in DOMAIN results : results[i] = "failed"
                   THEN "partial" ELSE "clean"
      /\ phase' = IF opts.finality THEN "finality" ELSE After(report')
  BY DEF Report, given
<1>2. report' \in {"partial", "clean"}
  BY <1>1
<1>3. phase' \in {"finality", "done", "next"} /\ (phase' = "next" => at # Len(Fragments))
  BY <1>1 DEF After
<1>4. Staged'
  BY <1>1, <1>3 DEF Staged
<1>5. Grows /\ Selected' = Selected /\ Selected \subseteq Node
      /\ \A n : Own(n)' = Own(n) /\ TasksFor(n)' = TasksFor(n)
  BY <1>1, Stays, SameFile, SelectedNodes DEF IInv
<1>6. EvenUploadIsComplete'
  <2>1. SameLengths' <=> SameLengths
    BY <1>5 DEF SameLengths
  <2>2. ASSUME report' = "clean", SameLengths, NEW n \in Selected
        PROVE  Complete(n) \/ Own(n) = {}
    <3>1. tasks # << >>
      BY <1>1 DEF IInv, Staged
    <3>2. ASSUME NEW i \in DOMAIN results PROVE results[i] = "ok"
      <4>1. results[i] # "failed"
        BY <1>1, <2>2
      <4>2. results[i] \in {"ok", "failed"}
        BY ElementOfSeq DEF IInv, Typed
      <4>3. QED
        BY <4>1, <4>2
    <3>3. \/ Complete(n)
          \/ \A k \in 1 .. Len(TasksFor(n)) :
                 \E i \in 1 .. Len(tasks) : tasks[i] = TasksFor(n)[k]
      BY <2>2, <3>1 DEF IInv, AllTasks
    <3>4. QED
      BY <1>1, <3>1, <3>2, <3>3, AllSent
  <2>3. \A n \in Node : Complete(n) => Complete(n)'
    BY <1>5, RemainsComplete
  <2>4. QED
    BY <1>2, <1>5, <2>1, <2>2, <2>3 DEF EvenUploadIsComplete
<1>7. report' \in {"none", "error", "empty", "clean", "partial"}
  BY <1>2
<1>8. QED
  BY <1>1, <1>3, <1>4, <1>6, <1>7, QuietStep DEF IInv

(* Before a file is uploaded the nodes that know it have their segments.   *)
LEMMA OwnAtStart ==
    ASSUME at \in DOMAIN Fragments, NEW known \in SUBSET Node,
           NEW has, has = [n \in Node |-> IF n \in known THEN Own(n) ELSE {}]
    PROVE  /\ has \in [Node -> SUBSET Nat]
           /\ \A n \in Node : has[n] \subseteq Own(n) /\ (has[n] # {} => n \in known)
<1>1. \A n : Own(n) \subseteq Nat
  BY Placed DEF Own
<1>2. QED
  BY <1>1

(* The next fragment is one, and begins as the first did.                  *)
LEMMA NextFragmentStep == ASSUME IInv, NextFragment PROVE IInv'
<1>1. /\ phase = "next" /\ at' = at + 1 /\ phase' = "find"
      /\ indexed' = indexed /\ config' = config /\ selected' = selected
      /\ attempt' = attempt /\ rootless' = rootless
      /\ tasks' = << >> /\ results' = << >> /\ report' = "none"
      /\ synced' = {} /\ logged' \in SUBSET Node
      /\ stored' = [n \in Node |-> IF n \in logged' THEN Own(n)' ELSE {}]
  BY DEF NextFragment
<1>2. at' \in DOMAIN Fragments
  <2>1. PICK l \in Nat : l = Len(Fragments) /\ DOMAIN Fragments = 1 .. l
    BY UploaderAssumption, LenProperties
  <2>2. at \in 1 .. l /\ at # l
    BY <1>1, <2>1 DEF IInv, Typed, Staged
  <2>3. at + 1 \in 1 .. l
    BY <2>2
  <2>4. QED
    BY <1>1, <2>1, <2>3
<1>3. Selected' = Selected
  BY <1>1 DEF Selected
<1>4. \A n : Own(n)' \subseteq Nat
  <2>1. Fragments[at'] \in Nat \X (Nat \ {0})
    BY <1>2, UploaderAssumption, ElementOfSeq
  <2>2. Segments' \subseteq Nat
    BY <2>1 DEF Segments, StartSegment, NumSegments, EndSegment
  <2>3. QED
    BY <2>2 DEF Own
<1>5. /\ stored' \in [Node -> SUBSET Nat]
      /\ \A n \in Node : /\ stored'[n] \subseteq Own(n)'
                         /\ stored'[n] # {} => n \in logged'
  BY <1>1, <1>4
<1>6. /\ tasks' \in Seq(TaskOf(Selected')) /\ results' \in Seq({"ok", "failed"})
      /\ Len(tasks') = 0 /\ Len(results') = 0 /\ DOMAIN results' = {}
      /\ 1 .. Len(tasks') = {}
  BY <1>1
<1>7. Typed'
  BY <1>1, <1>2, <1>3, <1>5, <1>6 DEF IInv, Typed
<1>8. Staged' /\ Checked' /\ AllTasks' /\ EvenUploadIsComplete'
  BY <1>1 DEF Staged, Checked, AllTasks, EvenUploadIsComplete
<1>9. TasksOwn' /\ OkTaskIsStored'
  BY <1>6 DEF TasksOwn, OkTaskIsStored
<1>10. OwnSegmentsOnly' /\ StoredKnown'
  BY <1>5 DEF OwnSegmentsOnly, StoredKnown
<1>11. QED
  BY <1>7, <1>8, <1>9, <1>10 DEF IInv

(* A step of the network's.                                                *)
LEMMA NetworkGrows ==
    ASSUME IInv, Grows, call' = call PROVE IInv'
<1>1. /\ phase' = phase /\ results' = results /\ attempt' = attempt
      /\ rootless' = rootless /\ report' = report
  BY DEF call, answers
<1>2. attempt' \in 0 .. TooManyDataRetries - 1 /\ rootless' \in BOOLEAN
  BY <1>1 DEF IInv, Typed
<1>3. QED
  BY <1>1, <1>2, NoResult

LEMMA SyncStep == ASSUME IInv, NEW n \in Node, Sync(n) PROVE IInv'
<1>1. /\ synced' = synced \cup {n} /\ logged' = logged \cup {n}
      /\ given' = given /\ call' = call /\ tasks' = tasks /\ stored' = stored
  BY DEF Sync, call
<1>2. Grows
  BY <1>1 DEF IInv, Typed, OwnSegmentsOnly, StoredKnown, Grows
<1>3. QED
  BY <1>1, <1>2, NetworkGrows

LEMMA OtherUploaderStep == ASSUME IInv, NEW n \in Node, OtherUploader(n) PROVE IInv'
<1>1. /\ n \in logged /\ Store(n, Own(n))
      /\ given' = given /\ call' = call /\ tasks' = tasks
      /\ synced' = synced /\ logged' = logged
  BY DEF OtherUploader, call
<1>2. PICK X \in SUBSET Own(n) : X = Own(n)
  OBVIOUS
<1>3. Grows
  BY <1>1, <1>2, Stores
<1>4. QED
  BY <1>1, <1>3, NetworkGrows

----------------------------------------------------------------------------
LEMMA InitInv == Init => IInv
<1> SUFFICES ASSUME Init PROVE IInv
  OBVIOUS
<1>1. /\ at = 1 /\ phase = "select" /\ selected = << >> /\ tasks = << >>
      /\ results = << >> /\ attempt = 0 /\ rootless = FALSE /\ report = "none"
      /\ synced = {} /\ logged \in SUBSET Node
      /\ stored = [n \in Node |-> IF n \in logged THEN Own(n) ELSE {}]
  BY DEF Init
<1>2. at \in DOMAIN Fragments
  <2>1. Fragments \in Seq(Nat \X (Nat \ {0})) /\ Fragments # << >>
    BY UploaderAssumption
  <2>2. PICK l \in Nat : l = Len(Fragments) /\ DOMAIN Fragments = 1 .. l /\ l # 0
    BY <2>1, LenProperties, EmptySeq
  <2>3. 1 \in 1 .. l
    BY <2>2
  <2>4. QED
    BY <1>1, <2>2, <2>3
<1>3. indexed \in [Node -> Indexed] /\ config \in [Node -> Nat \X Nat]
  <2>1. indexed \in [Node -> Nat \X Nat]
    BY UploaderAssumption DEF Init
  <2>2. PICK n \in Node, c \in Live : config = [indexed EXCEPT ![n] = c]
    BY DEF Init
  <2>3. c \in Nat \X Nat
    BY UploaderAssumption
  <2>4. config \in [Node -> Nat \X Nat]
    BY <2>1, <2>2, <2>3
  <2>5. QED
    BY <2>4 DEF Init
<1>4. /\ stored \in [Node -> SUBSET Nat]
      /\ \A n \in Node : stored[n] \subseteq Own(n) /\ (stored[n] # {} => n \in logged)
  BY <1>1, <1>2, OwnAtStart
<1>5. /\ tasks \in Seq(TaskOf(Selected)) /\ results \in Seq({"ok", "failed"})
      /\ selected \in Seq(Node) /\ Different(selected)
      /\ Len(tasks) = 0 /\ Len(results) = 0 /\ DOMAIN results = {}
      /\ 1 .. Len(tasks) = {}
  BY <1>1 DEF Different
<1>6. attempt \in 0 .. TooManyDataRetries - 1
  BY <1>1, UploaderAssumption
<1>7. Typed
  <2>1. Len(results) <= Len(tasks)
    BY <1>5
  <2>2. report \in {"none", "error", "empty", "clean", "partial"} /\ rootless \in BOOLEAN
    BY <1>1
  <2>3. synced \subseteq logged /\ logged \subseteq Node
    BY <1>1
  <2>4. QED
    BY <1>2, <1>3, <1>4, <1>5, <1>6, <2>1, <2>2, <2>3 DEF Typed
<1>8. Staged /\ Checked /\ AllTasks /\ EvenUploadIsComplete
  BY <1>1 DEF Staged, Checked, AllTasks, EvenUploadIsComplete
<1>9. TasksOwn /\ OkTaskIsStored
  BY <1>5 DEF TasksOwn, OkTaskIsStored
<1>10. OwnSegmentsOnly /\ StoredKnown
  BY <1>4 DEF OwnSegmentsOnly, StoredKnown
<1>11. QED
  BY <1>7, <1>8, <1>9, <1>10 DEF IInv

LEMMA IdleStep == ASSUME IInv, UNCHANGED vars PROVE IInv'
<1>1. given' = given /\ call' = call /\ network' = network /\ tasks' = tasks
  BY DEF vars, call
<1>2. QED
  BY <1>1, Stays, NetworkGrows

LEMMA StepInv == IInv /\ [Next]_vars => IInv'
<1> SUFFICES ASSUME IInv, [Next]_vars PROVE IInv'
  OBVIOUS
<1>1. CASE Call
  BY <1>1, RaisesStep, SelectStep, FindStep, SubmitStep, WaitStep, SplitStep, MakeStep,
     AcceptedStep, AlreadyStep, RetriedStep, RejectedStep, FailsStep, ReportStep,
     FinalityStep, NextFragmentStep DEF Call
<1>2. CASE WaitRaises
  BY <1>2, RaisesStep
<1>3. CASE \E n \in Node : Sync(n) \/ OtherUploader(n)
  BY <1>3, SyncStep, OtherUploaderStep
<1>4. CASE UNCHANGED vars
  BY <1>4, IdleStep
<1>5. QED
  BY <1>1, <1>2, <1>3, <1>4 DEF Next

LEMMA Invariant == Spec => []IInv
BY InitInv, StepInv, PTL DEF Spec

----------------------------------------------------------------------------
(* The selected nodes are as many as the list of them is long.             *)
LEMMA SelectedCount ==
    ASSUME Typed PROVE Cardinality(Selected) = Len(selected)
<1>1. PICK m \in Nat : /\ m = Len(selected) /\ DOMAIN selected = 1 .. m
                       /\ selected \in [1 .. m -> Selected]
  <2>1. selected \in Seq(Node) /\ Len(selected) \in Nat
    BY LenProperties DEF Typed
  <2>2. DOMAIN selected = 1 .. Len(selected)
    BY <2>1
  <2>3. QED
    BY <2>1, <2>2 DEF Selected
<1>2. \A i, j \in 1 .. m : selected[i] = selected[j] => i = j
  BY <1>1 DEF Typed, Different
<1>3. \A n \in Selected : \E i \in 1 .. m : selected[i] = n
  BY <1>1 DEF Selected
<1>4. selected \in Bijection(1 .. m, Selected)
  BY <1>1, <1>2, <1>3 DEF Bijection, Injection, Surjection, IsInjective
<1>5. ExistsBijection(1 .. m, Selected)
  BY <1>4 DEF ExistsBijection
<1>6. QED
  BY <1>1, <1>5, FS_CountingElements

(* The state keeps its shape: a node is selected once however often the    *)
(* tree of shards lists it, there is never a result without its task, and  *)
(* a node that has read the log entry knows the file.                      *)
THEOREM TypeCorrect == Spec => []TypeOK
<1>1. IInv => TypeOK
  <2> SUFFICES ASSUME IInv PROVE TypeOK
    OBVIOUS
  <2>1. Typed
    BY DEF IInv
  <2>2. Selected \subseteq Node /\ Cardinality(Selected) = Len(selected)
    BY <2>1, SelectedNodes, SelectedCount
  <2>3. \A i \in DOMAIN results : results[i] \in {"ok", "failed"}
    BY <2>1, ElementOfSeq DEF Typed
  <2>4. \A n \in Node : stored[n] \subseteq Segments
    BY DEF IInv, OwnSegmentsOnly, Own
  <2>5. QED
    BY <2>1, <2>2, <2>3, <2>4 DEF IInv, Typed, Staged, TypeOK
<1>2. QED
  BY <1>1, Invariant, PTL

(* Once there are tasks the selected nodes keep every segment of the file  *)
(* as often as the caller asked for, by the configs they have themselves   *)
(* and not by those that the indexer has of them: split_tasks checks the   *)
(* replicas with the same select_nodes, whose tree of shards counts right. *)
THEOREM Covered == Spec => []SentOnlyIfCovered
<1>1. IInv => SentOnlyIfCovered
  <2> SUFFICES ASSUME IInv, tasks # << >>, NEW s \in Segments
               PROVE  Cardinality({n \in Selected : s \in Own(n)}) >= ExpectedReplica
    BY DEF SentOnlyIfCovered
  <2>1. PICK X : X = {n \in Selected : s \in Own(n)}
    OBVIOUS
  <2>2. IsFiniteSet(X)
    <3>1. IsFiniteSet(Selected) /\ X \subseteq Selected
      BY <2>1, SelectedNodes DEF IInv
    <3>2. QED
      BY <3>1, FS_Subset
  <2>3. Cardinality(X) \in Nat /\ ExpectedReplica \in Nat
    BY <2>2, FS_CardinalityType, UploaderAssumption
  <2>4. ExpectedReplica <= Cardinality(X)
    BY <2>1 DEF IInv, Checked
  <2>5. QED
    BY <2>1, <2>3, <2>4
<1>2. QED
  BY <1>1, Invariant, PTL

(* No node is sent a segment of another's shard, whatever power of two its *)
(* shards are, at whichever segment of the log the file begins and however *)
(* large tasks are.                                                        *)
THEOREM OnlyOwn == Spec => []OwnSegmentsOnly
<1>1. IInv => OwnSegmentsOnly
  BY DEF IInv
<1>2. QED
  BY <1>1, Invariant, PTL

(* What counts as uploaded is stored, also when a node that was busy wrote *)
(* in an attempt before and when another uploader completed it meanwhile.  *)
THEOREM OkStored == Spec => []OkTaskIsStored
<1>1. IInv => OkTaskIsStored
  BY DEF IInv
<1>2. QED
  BY <1>1, Invariant, PTL

(* When the nodes have equally many tasks, no task is left out by the      *)
(* rounds of the shortest list, and so an upload without a failed task, or *)
(* that finds nothing to do, leaves every selected node complete.          *)
THEOREM EvenComplete == Spec => []EvenUploadIsComplete
<1>1. IInv => EvenUploadIsComplete
  BY DEF IInv
<1>2. QED
  BY <1>1, Invariant, PTL

=============================================================================
