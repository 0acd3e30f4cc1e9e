----------------------- MODULE VericastAgentIDProofs -----------------------
(***************************************************************************)
(* The agent identities, for every set of accounts and roots, every supply *)
(* and mints nested to any depth.                                          *)
(***************************************************************************)
EXTENDS VericastAgentID, SequenceTheorems, TLAPS

(* A mint that is not finished has given out its token.                    *)
MintedExist == \A i \in 1 .. Len(pending) : Exists(pending[i].tokenId)

IInv == TypeOK /\ IdsAreUnique /\ MintedExist /\ DataComplete

----------------------------------------------------------------------------
(* The stack.                                                              *)

(* The stack of mints, read from its indices.                              *)
LEMMA PendingType ==
    ASSUME TypeOK
    PROVE  /\ Len(pending) \in Nat
           /\ \A i \in 1 .. Len(pending) : pending[i] \in Mint
<1>1. pending \in Seq(Mint)
  BY DEF TypeOK
<1> HIDE DEF Mint
<1>2. QED
  BY <1>1, ElementOfSeq, LenProperties

(* A mint that begins is on top, and the rest of the stack is as before.   *)
LEMMA Pushed ==
    ASSUME TypeOK, NEW mint \in Mint, pending' = Append(pending, mint)
    PROVE  /\ pending' \in Seq(Mint)
           /\ Len(pending') = Len(pending) + 1
           /\ \A i \in 1 .. Len(pending) : pending'[i] = pending[i]
           /\ pending'[Len(pending) + 1] = mint
<1>1. pending \in Seq(Mint)
  BY DEF TypeOK
<1> HIDE DEF Mint
<1>2. QED
  BY <1>1, AppendProperties

(* The mint that ends is gone, and the rest of the stack is as before.     *)
LEMMA Popped ==
    ASSUME TypeOK, pending # << >>,
           pending' = SubSeq(pending, 1, Len(pending) - 1)
    PROVE  /\ Len(pending) \in Nat \ {0}
           /\ Top \in Mint
           /\ pending' \in Seq(Mint)
           /\ Len(pending') = Len(pending) - 1
           /\ \A i \in 1 .. Len(pending') : pending'[i] = pending[i]
<1>1. pending \in Seq(Mint)
  BY DEF TypeOK
<1> HIDE DEF Mint
<1>2. Len(pending) \in Nat \ {0}
  BY <1>1, EmptySeq
<1>3. \A i \in 1 .. Len(pending) : pending[i] \in Mint
  BY <1>1, ElementOfSeq
<1>4. Top \in Mint
  BY <1>2, <1>3 DEF Top
<1> DEFINE n == Len(pending) - 1
<1>5. n \in Nat /\ \A i \in 1 .. n : pending[i] \in Mint
  BY <1>2, <1>3
<1>6. pending' = SubSeq(pending, 1, n)
  OBVIOUS
<1> HIDE DEF n
<1>7. /\ pending' \in Seq(Mint)
      /\ Len(pending') = IF 1 <= n THEN n - 1 + 1 ELSE 0
      /\ \A i \in 1 .. n - 1 + 1 : pending'[i] = pending[1 + i - 1]
  BY <1>5, <1>6, SubSeqProperties
<1>8. /\ pending' \in Seq(Mint) /\ Len(pending') = n
      /\ \A i \in 1 .. Len(pending') : pending'[i] = pending[i]
  BY <1>5, <1>7
<1>9. QED
  BY <1>2, <1>4, <1>8 DEF n

----------------------------------------------------------------------------
(* The invariant holds at first and every step preserves it.               *)

(* No token is minted and no mint is under way.                            *)
LEMMA InitIInv == Init => IInv
<1> SUFFICES ASSUME Init PROVE IInv
  OBVIOUS
<1> USE AgentAssumption
<1>1. Len(pending) = 0 /\ pending \in Seq(Mint)
  BY DEF Init
<1>2. TypeOK
  BY <1>1 DEF Init, TypeOK, TokenId, AgentType
<1>3. \A t \in TokenId : ~Exists(t) /\ ~(t < nextTokenId)
  BY DEF Init, Exists, TokenId
<1>4. IdsAreUnique
  BY <1>1, <1>3 DEF IdsAreUnique
<1>5. MintedExist
  BY <1>1 DEF MintedExist
<1>6. DataComplete
  BY <1>3 DEF Init, DataComplete
<1>7. QED
  BY <1>2, <1>4, <1>5, <1>6 DEF IInv

(* A mint that begins takes the next id, which no token had.               *)
LEMMA BeginMintIInv ==
    ASSUME IInv, NEW mint \in [tokenId : Nat, to : Address, root : Root,
                               type : AgentType, source : TokenId \cup {0}],
           mint.tokenId = nextTokenId, BeginMint(mint)
    PROVE  IInv'
<1> DEFINE n == nextTokenId
<1> USE AgentAssumption
<1>1. /\ TypeOK /\ IdsAreUnique /\ MintedExist /\ DataComplete
      /\ n \in 1 .. MAX_SUPPLY + 1 /\ n \in TokenId
      /\ ownerOf \in [TokenId -> Address \cup {NoOne}]
      /\ Len(pending) < MaxDepth
      /\ nextTokenId' = n + 1
      /\ ownerOf' = [ownerOf EXCEPT ![n] = mint.to]
      /\ pending' = Append(pending, mint)
      /\ UNCHANGED <<memoryRoots, agentTypes, usageAuthorized, source>>
  BY DEF IInv, TypeOK, BeginMint, TokenId
<1>2. mint \in Mint /\ mint.to \in Address /\ mint.to # NoOne
  BY <1>1 DEF Mint
<1>3. /\ Len(pending) \in Nat
      /\ \A i \in 1 .. Len(pending) : pending[i] \in Mint
  BY <1>1, PendingType
<1>4. /\ pending' \in Seq(Mint)
      /\ Len(pending') = Len(pending) + 1
      /\ \A i \in 1 .. Len(pending) : pending'[i] = pending[i]
      /\ pending'[Len(pending) + 1] = mint
  BY <1>1, <1>2, Pushed
<1>5. \A i \in 1 .. Len(pending) :
         /\ pending[i].tokenId \in TokenId
         /\ pending[i].tokenId < n
         /\ Exists(pending[i].tokenId)
  BY <1>1, <1>3 DEF MintedExist, IdsAreUnique, Mint
<1>6. \A t \in TokenId : Exists(t)' <=> (Exists(t) \/ t = n)
  BY <1>1, <1>2 DEF Exists
<1>7. TypeOK'
  <2>1. nextTokenId' \in 1 .. MAX_SUPPLY + 1
    BY <1>1 DEF TokenId
  <2>2. ownerOf' \in [TokenId -> Address \cup {NoOne}]
    BY <1>1, <1>2
  <2>3. Len(pending') <= MaxDepth
    BY <1>1, <1>3, <1>4
  <2>4. QED
    BY <1>1, <1>4, <2>1, <2>2, <2>3 DEF TypeOK
<1>8. IdsAreUnique'
  <2>1. \A t \in TokenId : Exists(t)' <=> t < nextTokenId'
    <3>1. \A t \in TokenId : t \in Nat /\ (Exists(t) <=> t < n)
      BY <1>1 DEF IdsAreUnique, TokenId
    <3>2. n \in Nat /\ nextTokenId' = n + 1
      BY <1>1
    <3> HIDE DEF n
    <3>3. \A t \in TokenId : t < nextTokenId' <=> (t < n \/ t = n)
      BY <3>1, <3>2
    <3>4. QED
      BY <1>6, <3>1, <3>3
  <2>2. ASSUME NEW i \in 1 .. Len(pending'), NEW j \in 1 .. Len(pending'), i < j
        PROVE  pending'[i].tokenId < pending'[j].tokenId
    <3>1. i \in 1 .. Len(pending) /\ pending'[i] = pending[i]
      BY <1>3, <1>4, <2>2
    <3>2. CASE j \in 1 .. Len(pending)
      BY <1>1, <1>4, <2>2, <3>1, <3>2 DEF IdsAreUnique
    <3>3. CASE j = Len(pending) + 1
      BY <1>4, <1>5, <3>1, <3>3
    <3>4. QED
      BY <1>3, <1>4, <3>2, <3>3
  <2>3. QED
    BY <2>1, <2>2 DEF IdsAreUnique
<1>9. MintedExist'
  <2> SUFFICES ASSUME NEW i \in 1 .. Len(pending')
               PROVE  Exists(pending[i].tokenId)'
    BY DEF MintedExist
  <2>1. CASE i \in 1 .. Len(pending)
    BY <1>4, <1>5, <1>6, <2>1 DEF Exists
  <2>2. CASE i = Len(pending) + 1
    BY <1>1, <1>4, <1>6, <2>2 DEF Exists
  <2>3. QED
    BY <1>3, <1>4, <2>1, <2>2
<1>10. DataComplete'
  <2> SUFFICES ASSUME NEW t \in TokenId
               PROVE  /\ Exists(t)' /\ t \notin Unfinished' => memoryRoots[t] # NoRoot
                      /\ ~Exists(t)' => memoryRoots[t] = NoRoot
    BY <1>1 DEF DataComplete
  <2>1. Unfinished \subseteq Unfinished'
    BY <1>3, <1>4 DEF Unfinished
  <2>2. n \in Unfinished'
    <3>1. Len(pending) + 1 \in 1 .. Len(pending')
      BY <1>3, <1>4
    <3>2. QED
      BY <1>1, <1>4, <3>1 DEF Unfinished
  <2>3. QED
    BY <1>1, <1>6, <2>1, <2>2 DEF DataComplete
<1>11. QED
  BY <1>7, <1>8, <1>9, <1>10 DEF IInv

(* The data of the innermost mint goes to that mint's own token.           *)
LEMMA FinishMintIInv ==
    ASSUME IInv, FinishMint
    PROVE  IInv'
<1> USE AgentAssumption
<1>1. /\ TypeOK /\ IdsAreUnique /\ MintedExist /\ DataComplete
      /\ pending # << >>
      /\ pending' = SubSeq(pending, 1, Len(pending) - 1)
      /\ memoryRoots' = [memoryRoots EXCEPT ![Top.tokenId] = Top.root]
      /\ agentTypes' = [agentTypes EXCEPT ![Top.tokenId] =
                           IF Top.source = 0 THEN Top.type
                                             ELSE agentTypes[Top.source]]
      /\ source' = [source EXCEPT ![Top.tokenId] = Top.source]
      /\ UNCHANGED <<nextTokenId, ownerOf, usageAuthorized>>
  BY DEF IInv, FinishMint
<1>2. /\ Len(pending) \in Nat \ {0}
      /\ Top \in Mint
      /\ pending' \in Seq(Mint)
      /\ Len(pending') = Len(pending) - 1
      /\ \A i \in 1 .. Len(pending') : pending'[i] = pending[i]
  BY <1>1, Popped
<1> DEFINE m == Top
<1>3. m = pending[Len(pending)]
  BY DEF Top
<1>4. /\ m.tokenId \in TokenId /\ m.root \in Root
      /\ m.type \in AgentType /\ m.source \in TokenId \cup {0}
  BY <1>2 DEF Mint
<1> HIDE DEF m
<1>5. /\ memoryRoots' = [memoryRoots EXCEPT ![m.tokenId] = m.root]
      /\ agentTypes' = [agentTypes EXCEPT ![m.tokenId] =
                           IF m.source = 0 THEN m.type ELSE agentTypes[m.source]]
      /\ source' = [source EXCEPT ![m.tokenId] = m.source]
  BY <1>1 DEF m
<1>6. \A t \in TokenId : Exists(t)' <=> Exists(t)
  BY <1>1 DEF Exists
<1>7. TypeOK'
  <2>1. memoryRoots' \in [TokenId -> Root \cup {NoRoot}]
    BY <1>1, <1>4, <1>5 DEF TypeOK
  <2>2. agentTypes' \in [TokenId -> AgentType]
    <3>1. agentTypes \in [TokenId -> AgentType]
      BY <1>1 DEF TypeOK
    <3>2. (IF m.source = 0 THEN m.type ELSE agentTypes[m.source]) \in AgentType
      BY <1>4, <3>1
    <3>3. QED
      BY <1>5, <3>1, <3>2
  <2>3. source' \in [TokenId -> TokenId \cup {0}]
    BY <1>1, <1>4, <1>5 DEF TypeOK
  <2>4. Len(pending') <= MaxDepth
    BY <1>1, <1>2 DEF TypeOK
  <2>5. QED
    BY <1>1, <1>2, <2>1, <2>2, <2>3, <2>4 DEF TypeOK
<1>8. IdsAreUnique'
  <2>1. \A i, j \in 1 .. Len(pending') :
           i < j => pending'[i].tokenId < pending'[j].tokenId
    BY <1>1, <1>2 DEF IdsAreUnique
  <2>2. QED
    BY <1>1, <1>6, <2>1 DEF IdsAreUnique
<1>9. MintedExist'
  BY <1>1, <1>2 DEF MintedExist, Exists
<1>10. DataComplete'
  <2> SUFFICES ASSUME NEW t \in TokenId
               PROVE  /\ Exists(t)' /\ t \notin Unfinished' => memoryRoots'[t] # NoRoot
                      /\ ~Exists(t)' => memoryRoots'[t] = NoRoot
    BY DEF DataComplete
  <2>1. memoryRoots \in [TokenId -> Root \cup {NoRoot}]
    BY <1>1 DEF TypeOK
  <2>2. CASE t = m.tokenId
    <3>1. Exists(t)
      BY <1>1, <1>2, <1>3, <2>2 DEF MintedExist
    <3>2. QED
      BY <1>4, <1>5, <1>6, <2>1, <2>2, <3>1
  <2>3. CASE t # m.tokenId
    <3>1. memoryRoots'[t] = memoryRoots[t]
      BY <1>5, <2>1, <2>3
    <3>2. t \in Unfinished => t \in Unfinished'
      <4> SUFFICES ASSUME t \in Unfinished PROVE t \in Unfinished'
        OBVIOUS
      <4>1. PICK i \in 1 .. Len(pending) : t = pending[i].tokenId
        BY DEF Unfinished
      <4>2. i # Len(pending)
        BY <1>3, <2>3, <4>1
      <4>3. i \in 1 .. Len(pending') /\ pending'[i] = pending[i]
        BY <1>2, <4>2
      <4>4. QED
        BY <4>1, <4>3 DEF Unfinished
    <3>3. QED
      BY <1>1, <1>6, <3>1, <3>2 DEF DataComplete
  <2>4. QED
    BY <2>2, <2>3
<1>11. QED
  BY <1>7, <1>8, <1>9, <1>10 DEF IInv

(* The owner and those it authorized write the data of tokens that exist;  *)
(* nobody mints or destroys one this way.                                  *)
LEMMA CallIInv ==
    ASSUME IInv, NEW sender \in Address, NEW t \in TokenId,
           \/ \E root \in Root : UpdateMemory(sender, t, root)
           \/ \E a \in Address : \/ AuthorizeUsage(sender, t, a)
                                 \/ TransferFrom(sender, t, a)
    PROVE  IInv'
<1> USE AgentAssumption
<1>1. /\ TypeOK /\ IdsAreUnique /\ MintedExist /\ DataComplete
      /\ UNCHANGED <<nextTokenId, agentTypes, pending, source>>
  BY DEF IInv, UpdateMemory, AuthorizeUsage, TransferFrom
<1>2. Len(pending) \in Nat /\ \A i \in 1 .. Len(pending) : pending[i].tokenId \in TokenId
  BY <1>1, PendingType DEF Mint
<1>3. /\ TypeOK'
      /\ \A u \in TokenId : Exists(u)' <=> Exists(u)
      /\ \A u \in TokenId : \/ memoryRoots'[u] = memoryRoots[u]
                            \/ Exists(u) /\ memoryRoots'[u] \in Root
  <2>1. CASE \E root \in Root : UpdateMemory(sender, t, root)
    <3>1. PICK root \in Root : UpdateMemory(sender, t, root)
      BY <2>1
    <3>2. memoryRoots' = [memoryRoots EXCEPT ![t] = root]
      BY <3>1 DEF UpdateMemory
    <3>3. memoryRoots' \in [TokenId -> Root \cup {NoRoot}]
      BY <1>1, <3>2 DEF TypeOK
    <3>4. QED
      BY <1>1, <3>1, <3>2, <3>3 DEF UpdateMemory, TypeOK, Exists
  <2>2. CASE \E a \in Address : AuthorizeUsage(sender, t, a)
    <3>1. PICK a \in Address : AuthorizeUsage(sender, t, a)
      BY <2>2
    <3>2. usageAuthorized' \in [TokenId -> SUBSET Address]
      BY <1>1, <3>1 DEF TypeOK, AuthorizeUsage
    <3>3. QED
      BY <1>1, <3>1, <3>2 DEF AuthorizeUsage, TypeOK, Exists
  <2>3. CASE \E a \in Address : TransferFrom(sender, t, a)
    <3>1. PICK a \in Address : TransferFrom(sender, t, a)
      BY <2>3
    <3>2. ownerOf' \in [TokenId -> Address \cup {NoOne}]
      BY <1>1, <3>1 DEF TypeOK, TransferFrom
    <3>3. \A u \in TokenId : Exists(u)' <=> Exists(u)
      BY <1>1, <3>1 DEF TypeOK, TransferFrom, Exists
    <3>4. QED
      BY <1>1, <3>1, <3>2, <3>3 DEF TransferFrom, TypeOK
  <2>4. QED
    BY <2>1, <2>2, <2>3
<1>4. IdsAreUnique'
  BY <1>1, <1>3 DEF IdsAreUnique
<1>5. MintedExist'
  BY <1>1, <1>2, <1>3 DEF MintedExist, Exists
<1>6. DataComplete'
  BY <1>1, <1>3 DEF DataComplete, Unfinished
<1>7. QED
  BY <1>3, <1>4, <1>5, <1>6 DEF IInv

(* Senders are accounts; what mintAgent and cloneAgent push is a mint.     *)
LEMMA NextIInv == IInv /\ [Next]_vars => IInv'
<1> SUFFICES ASSUME IInv, [Next]_vars PROVE IInv'
  OBVIOUS
<1>1. Sender \subseteq Address
  BY DEF Sender, Address
<1>2. nextTokenId \in Nat
  BY AgentAssumption DEF IInv, TypeOK
<1>3. ASSUME NEW sender \in Sender, NEW root \in Root, NEW type \in AgentType,
             MintAgent(sender, root, type)
      PROVE  IInv'
  BY <1>1, <1>2, <1>3, BeginMintIInv DEF MintAgent
<1>4. ASSUME NEW sender \in Sender, NEW t \in TokenId, NEW root \in Root,
             CloneAgent(sender, t, root)
      PROVE  IInv'
  BY <1>1, <1>2, <1>4, BeginMintIInv DEF CloneAgent, AgentType
<1>5. ASSUME NEW sender \in Sender, NEW t \in TokenId,
             \/ \E root \in Root : UpdateMemory(sender, t, root)
             \/ \E a \in Address : \/ AuthorizeUsage(sender, t, a)
                                   \/ TransferFrom(sender, t, a)
      PROVE  IInv'
  BY <1>1, <1>5, CallIInv
<1>6. CASE FinishMint
  BY <1>6, FinishMintIInv
<1>7. CASE UNCHANGED vars
  BY <1>7 DEF vars, IInv, TypeOK, IdsAreUnique, MintedExist, DataComplete,
              Exists, Unfinished
<1>8. QED
  BY <1>3, <1>4, <1>5, <1>6, <1>7 DEF Next

----------------------------------------------------------------------------
(* The inductive invariant: the ids, the stack of mints and the data.      *)
THEOREM Invariance == Spec => []IInv
<1>1. QED
  BY InitIInv, NextIInv, PTL DEF Spec

(* Every variable keeps its type.                                          *)
THEOREM TypeCorrect == Spec => []TypeOK
<1>1. IInv => TypeOK
  BY DEF IInv
<1>2. QED
  BY <1>1, Invariance, PTL

(* Ids are given out once, however deep mints are nested: the tokens that  *)
(* exist are those below _nextTokenId.                                     *)
THEOREM IdsStayUnique == Spec => []IdsAreUnique
<1>1. IInv => IdsAreUnique
  BY DEF IInv
<1>2. QED
  BY <1>1, Invariance, PTL

(* An agent whose mintAgent or cloneAgent has returned has its memory, and *)
(* no token has any before it is minted.                                   *)
THEOREM DataStaysComplete == Spec => []DataComplete
<1>1. IInv => DataComplete
  BY DEF IInv
<1>2. QED
  BY <1>1, Invariance, PTL

(* No call of anybody changes the type of an agent whose mint has          *)
(* returned.                                                               *)
THEOREM TypesAreSettled == Spec => TypeIsSettled
<1>1. IInv /\ [Next]_vars =>
         [\A t \in TokenId :
             Exists(t) /\ t \notin Unfinished => agentTypes'[t] = agentTypes[t]]_vars
  <2> SUFFICES ASSUME IInv, Next, NEW t \in TokenId, t \notin Unfinished
               PROVE  agentTypes'[t] = agentTypes[t]
    OBVIOUS
  <2>1. agentTypes \in [TokenId -> AgentType]
    BY DEF IInv, TypeOK
  <2>2. CASE FinishMint
    <3>1. /\ pending # << >>
          /\ pending' = SubSeq(pending, 1, Len(pending) - 1)
          /\ agentTypes' = [agentTypes EXCEPT ![Top.tokenId] =
                               IF Top.source = 0 THEN Top.type
                                                 ELSE agentTypes[Top.source]]
      BY <2>2 DEF FinishMint
    <3>2. Len(pending) \in Nat \ {0}
      BY <3>1, Popped DEF IInv
    <3>3. Top.tokenId \in Unfinished
      BY <3>2 DEF Top, Unfinished
    <3>4. QED
      BY <2>1, <3>1, <3>3
  <2>3. CASE UNCHANGED agentTypes
    BY <2>3
  <2>4. QED
    BY <2>2, <2>3 DEF Next, MintAgent, CloneAgent, BeginMint, UpdateMemory,
                      AuthorizeUsage, TransferFrom
<1>2. QED
  BY <1>1, Invariance, PTL DEF Spec, TypeIsSettled
=============================================================================
