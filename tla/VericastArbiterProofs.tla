----------------------- MODULE VericastArbiterProofs -----------------------
(***************************************************************************)
(* The invariant of the settlement contract, for every set of accounts and *)
(* payloads, every window and every stake.                                 *)
(***************************************************************************)
EXTENDS VericastArbiter, FiniteSetTheorems, TLAPS

(* The commits agree with the other two mappings, and with the clock.      *)
RecordsSound(w) ==
    \A c \in CommitId :
        /\ w.commits[c].blockHeight # 0 <=> w.sequencers[c] # NoOne
        /\ w.challengers[c] # NoOne => w.commits[c].blockHeight # 0
        /\ w.commits[c].disputed =>
              /\ w.commits[c].blockHeight # 0
              /\ w.challengers[c] # NoOne
              /\ ~w.commits[c].finalized
        /\ w.commits[c].finalized =>
              /\ w.commits[c].blockHeight # 0
              /\ w.commits[c].disputeEnd <= block
        /\ w.commits[c].blockHeight # 0 =>
              /\ w.commits[c].blockHeight = c[2]
              /\ w.commits[c].disputeEnd = c[2] + DISPUTE_WINDOW
              /\ c[2] <= block

(* Nobody but the arbiter itself can take its tokens.                      *)
EscrowClosed(w) == \A s \in Address : w.allowance[Arbiter][s] = 0

Sound(w) == RecordsSound(w) /\ Covered(w) /\ EscrowClosed(w)

(* What the verifier can have done to a commit since it was called.        *)
Since(s, t, c) ==
    \/ s = t
    \/ s = "absent" /\ t = "pending" /\ c[2] = block
    \/ s = "pending" /\ t = "finalized" /\ c[2] + DISPUTE_WINDOW <= block

(* A resolveDispute under way: it is the only one, the state it would go   *)
(* back to is sound too, and its own dispute is still open in both.        *)
FrameSound(f) ==
    /\ Sound(f.saved)
    /\ f.saved.commits[f.commitId].disputed
    /\ commits[f.commitId].disputed
    /\ \A c \in CommitId : Since(StatusOf(f.saved.commits[c]),
                                 StatusOf(commits[c]), c)
    /\ \A c \in CommitId : f.saved.commits[c].blockHeight # 0
                              => sequencers[c] = f.saved.sequencers[c]

IInv ==
    /\ TypeOK
    /\ Sound(World)
    /\ Len(frames) <= 1
    /\ frames # << >> => FrameSound(frames[1])

----------------------------------------------------------------------------
(* Counting the open disputes.                                             *)

(* There are finitely many commits, so finitely many open disputes.        *)
LEMMA DisputesFinite ==
    ASSUME NEW w
    PROVE  /\ IsFiniteSet(DisputedCommits(w))
           /\ Cardinality(DisputedCommits(w)) \in Nat
<1>1. IsFiniteSet(Height)
  BY FS_Interval, ArbiterAssumption DEF Height
<1>2. IsFiniteSet(CommitId)
  BY <1>1, FS_Product, ArbiterAssumption DEF CommitId
<1>3. DisputedCommits(w) \in SUBSET CommitId
  BY DEF DisputedCommits
<1>4. IsFiniteSet(DisputedCommits(w))
  BY <1>2, <1>3, FS_Subset
<1>5. QED
  BY <1>4, FS_CardinalityType

(* Multiplication by a natural number is monotonic.                        *)
LEMMA TimesMonotonic ==
    ASSUME NEW k \in Nat, NEW m \in Nat, NEW n \in Nat, m <= n
    PROVE  k * m <= k * n
<1>1. PICK d \in Nat : n = m + d
  BY n - m \in Nat
<1>2. k * n = k * m + k * d
  BY <1>1
<1>3. k * d \in Nat /\ k * m \in Nat
  OBVIOUS
<1>4. QED
  BY <1>2, <1>3

(* Covered survives a step that opens no dispute and takes nothing from    *)
(* the arbiter.                                                            *)
LEMMA CoveredKept ==
    ASSUME NEW v, NEW w, Covered(w),
           w.balanceOf[Arbiter] \in Nat, v.balanceOf[Arbiter] \in Nat,
           w.balanceOf[Arbiter] <= v.balanceOf[Arbiter],
           DisputedCommits(v) \subseteq DisputedCommits(w)
    PROVE  Covered(v)
<1> DEFINE m == Cardinality(DisputedCommits(v))
           n == Cardinality(DisputedCommits(w))
<1>1. m \in Nat /\ n \in Nat /\ m <= n
  BY DisputesFinite, FS_Subset
<1>2. MIN_STAKE * m <= MIN_STAKE * n
  BY <1>1, TimesMonotonic, ArbiterAssumption
<1>3. MIN_STAKE * m \in Nat /\ MIN_STAKE * n \in Nat
  BY <1>1, ArbiterAssumption
<1>4. QED
  BY <1>2, <1>3 DEF Covered

(* Covered survives a dispute that brings MIN_STAKE at least.              *)
LEMMA CoveredOpened ==
    ASSUME NEW v, NEW w, NEW c, Covered(w),
           w.balanceOf[Arbiter] \in Nat, v.balanceOf[Arbiter] \in Nat,
           w.balanceOf[Arbiter] + MIN_STAKE <= v.balanceOf[Arbiter],
           DisputedCommits(v) = DisputedCommits(w) \cup {c}
    PROVE  Covered(v)
<1> DEFINE m == Cardinality(DisputedCommits(v))
           n == Cardinality(DisputedCommits(w))
<1>a. m \in Nat /\ n \in Nat /\ IsFiniteSet(DisputedCommits(w))
  BY DisputesFinite
<1>b. Cardinality(DisputedCommits(w) \cup {c})
         = IF c \in DisputedCommits(w) THEN n ELSE n + 1
  BY <1>a, FS_AddElement
<1>1. m \in Nat /\ n \in Nat /\ m <= n + 1
  BY <1>a, <1>b
<1>2. MIN_STAKE * m <= MIN_STAKE * (n + 1)
  BY <1>1, TimesMonotonic, ArbiterAssumption
<1>3. MIN_STAKE * (n + 1) = MIN_STAKE * n + MIN_STAKE
  BY <1>1, ArbiterAssumption
<1>4. MIN_STAKE * m \in Nat /\ MIN_STAKE * n \in Nat
  BY <1>1, ArbiterAssumption
<1>5. QED
  BY <1>2, <1>3, <1>4, ArbiterAssumption DEF Covered

(* Covered survives a resolution, which pays MIN_STAKE for one dispute.    *)
LEMMA CoveredClosed ==
    ASSUME NEW v, NEW w, NEW c, Covered(w), c \in DisputedCommits(w),
           w.balanceOf[Arbiter] \in Nat, v.balanceOf[Arbiter] \in Nat,
           w.balanceOf[Arbiter] - MIN_STAKE <= v.balanceOf[Arbiter],
           DisputedCommits(v) = DisputedCommits(w) \ {c}
    PROVE  Covered(v)
<1> DEFINE m == Cardinality(DisputedCommits(v))
           n == Cardinality(DisputedCommits(w))
<1>a. m \in Nat /\ n \in Nat /\ IsFiniteSet(DisputedCommits(w))
  BY DisputesFinite
<1>b. Cardinality(DisputedCommits(w) \ {c}) = n - 1
  BY <1>a, FS_RemoveElement
<1>1. m \in Nat /\ n \in Nat /\ n = m + 1
  BY <1>a, <1>b
<1>2. MIN_STAKE * n = MIN_STAKE * m + MIN_STAKE
  BY <1>1, ArbiterAssumption
<1>3. MIN_STAKE * m \in Nat /\ MIN_STAKE * n \in Nat
  BY <1>1, ArbiterAssumption
<1>4. QED
  BY <1>2, <1>3, ArbiterAssumption DEF Covered

----------------------------------------------------------------------------
(* The token.                                                              *)

TokenType ==
    /\ balanceOf \in [Address -> Nat]
    /\ allowance \in [Address -> [Address -> Nat]]
    /\ totalSupply \in Int

(* No call of an account other than the arbiter takes tokens from it or    *)
(* gives an allowance over them.                                           *)
LEMMA TokenCallSafe ==
    ASSUME TokenType, EscrowClosed(World),
           NEW sender \in User \cup {Verifier}, Token!Call(sender)
    PROVE  /\ TokenType'
           /\ EscrowClosed(World)'
           /\ balanceOf[Arbiter] <= balanceOf'[Arbiter]
<1> USE ArbiterAssumption DEF TokenType, EscrowClosed, World, Address
<1>0. sender # Arbiter /\ sender \in Address /\ Arbiter \in Address
  OBVIOUS
<1>1. PICK amount \in Amounts :
        \/ \E to \in Address : Token!Transfer(sender, to, amount)
        \/ \E spender \in Spenders : Token!Approve(sender, spender, amount)
        \/ \E from, to \in Address :
              Token!TransferFrom(sender, from, to, amount)
        \/ Token!Burn(sender, amount)
        \/ \E holder \in Address : Token!BurnFrom(sender, holder, amount)
        \/ \E to \in Address : Token!Mint(sender, to, amount)
  BY DEF Token!Call
<1>2. amount \in Nat
  OBVIOUS
(* What the two shared parts of the calls leave behind.                    *)
<1>a. ASSUME NEW holder \in Address, NEW spender \in Address,
             Token!SpendAllowance(holder, spender, amount)
      PROVE  /\ allowance' \in [Address -> [Address -> Nat]]
             /\ \A s \in Address : allowance'[Arbiter][s] = 0
             /\ holder = Arbiter => amount = 0
  <2>1. CASE UNCHANGED allowance /\ allowance[holder][spender] = Unlimited
    BY <1>0, <1>2, <1>a, <2>1
  <2>2. CASE /\ amount <= allowance[holder][spender]
             /\ allowance' = [allowance EXCEPT ![holder][spender] = @ - amount]
    <3>1. allowance[holder][spender] - amount \in Nat
      BY <1>2, <2>2
    <3>2. allowance' \in [Address -> [Address -> Nat]]
      BY <2>2, <3>1
    <3>3. holder = Arbiter => amount = 0
      BY <1>0, <1>2, <2>2
    <3>4. \A s \in Address : allowance'[Arbiter][s] = 0
      BY <1>0, <1>2, <2>2, <3>3
    <3>5. QED
      BY <3>2, <3>3, <3>4
  <2>3. QED
    BY <1>a, <2>1, <2>2 DEF Token!SpendAllowance
<1>b. ASSUME NEW holder \in Address, Token!Destroy(holder, amount)
      PROVE  /\ balanceOf' \in [Address -> Nat]
             /\ totalSupply' \in Int
             /\ holder # Arbiter \/ amount = 0 =>
                   balanceOf[Arbiter] <= balanceOf'[Arbiter]
  <2>1. /\ amount <= balanceOf[holder]
        /\ balanceOf' = [balanceOf EXCEPT ![holder] = @ - amount]
        /\ totalSupply' = totalSupply - amount
    BY <1>b DEF Token!Destroy
  <2>2. balanceOf[holder] \in Nat /\ balanceOf[holder] - amount \in Nat
    BY <1>2, <2>1
  <2>3. balanceOf' \in [Address -> Nat]
    BY <2>1, <2>2
  <2>4. totalSupply' \in Int
    BY <1>2, <2>1
  <2>5. holder # Arbiter \/ amount = 0 =>
           balanceOf[Arbiter] <= balanceOf'[Arbiter]
    BY <1>0, <1>2, <2>1, <2>2
  <2>6. QED
    BY <2>3, <2>4, <2>5
<1>3. CASE \E to \in Address : Token!Transfer(sender, to, amount)
  BY <1>0, <1>2, <1>3 DEF Token!Transfer, Token!Move
<1>4. CASE \E spender \in Spenders : Token!Approve(sender, spender, amount)
  BY <1>0, <1>2, <1>4 DEF Token!Approve
<1>5. CASE \E from, to \in Address :
              Token!TransferFrom(sender, from, to, amount)
  <2>1. PICK from \in Address, to \in Address :
           Token!TransferFrom(sender, from, to, amount)
    BY <1>5
  <2>2. Token!SpendAllowance(from, sender, amount)
    BY <2>1 DEF Token!TransferFrom
  <2>3. /\ balanceOf' \in [Address -> Nat]
        /\ from # Arbiter \/ amount = 0 =>
              balanceOf[Arbiter] <= balanceOf'[Arbiter]
    BY <1>0, <1>2, <2>1 DEF Token!TransferFrom, Token!Move
  <2>4. QED
    BY <1>0, <1>a, <2>1, <2>2, <2>3 DEF Token!TransferFrom
<1>6. CASE Token!Burn(sender, amount)
  BY <1>0, <1>b, <1>6 DEF Token!Burn
<1>7. CASE \E holder \in Address : Token!BurnFrom(sender, holder, amount)
  <2>1. PICK holder \in Address : Token!BurnFrom(sender, holder, amount)
    BY <1>7
  <2>2. QED
    BY <1>0, <1>a, <1>b, <2>1 DEF Token!BurnFrom
<1>8. CASE \E to \in Address : Token!Mint(sender, to, amount)
  BY <1>0, <1>2, <1>8 DEF Token!Mint
<1>9. QED
  BY <1>1, <1>3, <1>4, <1>5, <1>6, <1>7, <1>8

----------------------------------------------------------------------------
(* The invariant holds at first and every step preserves it.               *)

(* Nothing is committed or disputed when the proxy is initialized.         *)
LEMMA InitIInv == Init => IInv
<1> SUFFICES ASSUME Init PROVE IInv
  OBVIOUS
<1> USE ArbiterAssumption
<1>1. TokenType /\ EscrowClosed(World)
  BY DEF Init, Token!Init, TokenType, EscrowClosed, World, Address
<1>2. /\ commits \in [CommitId -> Commit]
      /\ sequencers \in [CommitId -> Address \cup {NoOne}]
      /\ challengers \in [CommitId -> Address \cup {NoOne}]
      /\ commitCount \in Nat /\ staked \in [CommitId -> Nat]
  BY DEF Init, NoCommit, Commit
<1>3. block \in Height /\ frames = << >>
  BY DEF Init, Height
<1>4. TypeOK
  BY <1>1, <1>2, <1>3 DEF TypeOK, World, WorldType, TokenType
<1>5. RecordsSound(World)
  BY DEF Init, RecordsSound, World, NoCommit
<1>6. Covered(World)
  <2>1. DisputedCommits(World) = {}
    BY DEF Init, DisputedCommits, World, NoCommit
  <2>2. MIN_STAKE * Cardinality(DisputedCommits(World)) = 0
    BY <2>1, FS_EmptySet
  <2>3. balanceOf[Arbiter] \in Nat
    BY <1>1 DEF TokenType, Address
  <2>4. QED
    BY <2>2, <2>3 DEF Covered, World
<1>7. QED
  BY <1>1, <1>3, <1>4, <1>5, <1>6 DEF IInv, Sound

(* The commit number modelled never comes near the width of disputeEnd.    *)
LEMMA DeadlineFits ==
    ASSUME block \in Height
    PROVE  (block + DISPUTE_WINDOW) % UINT32 = block + DISPUTE_WINDOW
BY ArbiterAssumption, NoWrapAssumption DEF Height

(* The types of the variables, out of TypeOK.                              *)
LEMMA Types ==
    ASSUME TypeOK
    PROVE  /\ commits \in [CommitId -> Commit]
           /\ sequencers \in [CommitId -> Address \cup {NoOne}]
           /\ challengers \in [CommitId -> Address \cup {NoOne}]
           /\ commitCount \in Nat
           /\ staked \in [CommitId -> Nat]
           /\ TokenType
           /\ block \in Height
           /\ frames \in Seq([commitId : CommitId, saved : WorldType])
BY DEF TypeOK, World, WorldType, TokenType

(* A frame on the stack is a resolveDispute of some commit.                *)
LEMMA FrameType ==
    ASSUME NEW S, NEW s \in Seq(S), s # << >>
    PROVE  s[1] \in S /\ Len(s) \in Nat /\ 1 <= Len(s)
<1>1. Len(s) \in Nat /\ Len(s) # 0
  OBVIOUS
<1>2. 1 \in 1 .. Len(s)
  BY <1>1
<1>3. QED
  BY <1>1, <1>2

(* What is sound stays so while no block comes.                            *)
LEMMA SoundKept == ASSUME NEW w, Sound(w), UNCHANGED block PROVE Sound(w)'
  BY DEF Sound, RecordsSound, Covered, DisputedCommits, EscrowClosed

(* Setting a flag of a commit keeps the type of the mapping.               *)
LEMMA FlagSet ==
    ASSUME NEW f \in [CommitId -> Commit], NEW c \in CommitId, NEW b \in BOOLEAN
    PROVE  /\ [f EXCEPT ![c].disputed = b] \in [CommitId -> Commit]
           /\ [f EXCEPT ![c].finalized = b] \in [CommitId -> Commit]
<1>1. f[c] \in Commit
  OBVIOUS
<1>2. /\ [f[c] EXCEPT !.disputed = b] \in Commit
      /\ [f[c] EXCEPT !.finalized = b] \in Commit
  BY <1>1 DEF Commit
<1>3. QED
  BY <1>2

(* A submission adds pending commits of this block and nothing else.       *)
LEMMA SubmitAllIInv ==
    ASSUME IInv, NEW sender \in User \cup {Verifier},
           NEW payloads \in SUBSET Payload, SubmitAll(sender, payloads)
    PROVE  IInv'
<1> DEFINE new == {<<p, block>> : p \in payloads}
           fresh == [blockHeight |-> block,
                     disputeEnd |-> block + DISPUTE_WINDOW,
                     disputed |-> FALSE, finalized |-> FALSE]
<1> USE ArbiterAssumption
<1>1. TypeOK /\ Sound(World) /\ Len(frames) <= 1
  BY DEF IInv
<1>2. /\ commits \in [CommitId -> Commit]
      /\ sequencers \in [CommitId -> Address \cup {NoOne}]
      /\ challengers \in [CommitId -> Address \cup {NoOne}]
      /\ commitCount \in Nat /\ staked \in [CommitId -> Nat]
      /\ TokenType /\ block \in Height
      /\ frames \in Seq([commitId : CommitId, saved : WorldType])
  BY <1>1, Types
<1>3. /\ \A c \in new : ~Exists(c)
      /\ commits' = [c \in CommitId |-> IF c \in new THEN fresh ELSE commits[c]]
      /\ sequencers' = [c \in CommitId |->
                           IF c \in new THEN sender ELSE sequencers[c]]
      /\ commitCount' = commitCount + Cardinality(payloads)
      /\ UNCHANGED <<tokenVars, challengers, staked, block, frames>>
  BY <1>2, DeadlineFits DEF SubmitAll
<1>4. \A c \in new : c \in CommitId /\ c[2] = block
  BY <1>2 DEF CommitId
<1>5. fresh \in Commit
  <2>1. /\ block \in 0 .. MaxBlock
        /\ block + DISPUTE_WINDOW \in 0 .. MaxBlock + DISPUTE_WINDOW
    BY <1>2 DEF Height
  <2>2. QED
    BY <2>1 DEF Commit
<1>6. Cardinality(payloads) \in Nat
  BY FS_Subset, FS_CardinalityType
<1>7. TypeOK'
  <2>1. commits' \in [CommitId -> Commit]
    BY <1>2, <1>3, <1>5
  <2>2. sequencers' \in [CommitId -> Address \cup {NoOne}]
    BY <1>2, <1>3 DEF Address
  <2>3. commitCount' \in Nat
    BY <1>2, <1>3, <1>6
  <2>4. QED
    BY <1>2, <1>3, <2>1, <2>2, <2>3
    DEF TypeOK, World, WorldType, TokenType, tokenVars
<1>8. Sound(World)'
  <2>1. RecordsSound(World)'
    BY <1>1, <1>2, <1>3, <1>4
    DEF Sound, RecordsSound, World, Exists, Height, Address
  <2>2. Covered(World')
    <3>1. DisputedCommits(World') \subseteq DisputedCommits(World)
      BY <1>3 DEF DisputedCommits, World
    <3>2. World.balanceOf[Arbiter] = World'.balanceOf[Arbiter]
      BY <1>3 DEF World, tokenVars
    <3>3. World.balanceOf[Arbiter] \in Nat
      BY <1>2 DEF World, TokenType, Address
    <3>4. QED
      BY <1>1, <3>1, <3>2, <3>3, CoveredKept DEF Sound
  <2>3. EscrowClosed(World)'
    BY <1>1, <1>3 DEF Sound, EscrowClosed, World, tokenVars
  <2>4. QED
    BY <2>1, <2>2, <2>3 DEF Sound, Covered, DisputedCommits
<1>9. frames' # << >> => FrameSound(frames[1])'
  <2> SUFFICES ASSUME frames # << >> PROVE FrameSound(frames[1])'
    BY <1>3
  <2>1. FrameSound(frames[1])
    BY DEF IInv
  <2>2. Sound(frames[1].saved)'
    BY <1>3, <2>1, SoundKept DEF FrameSound
  <2>3. frames[1].commitId \in CommitId
    <3>1. frames[1] \in [commitId : CommitId, saved : WorldType]
      BY <1>2, FrameType
    <3>2. QED
      BY <3>1
  <2>4. commits'[frames[1].commitId].disputed
    BY <1>1, <1>3, <2>1, <2>3 DEF FrameSound, Sound, RecordsSound, World, Exists
  <2>5. \A c \in CommitId : Since(StatusOf(frames[1].saved.commits[c]),
                                  StatusOf(commits'[c]), c)
    <3> SUFFICES ASSUME NEW c \in CommitId
                 PROVE  Since(StatusOf(frames[1].saved.commits[c]),
                              StatusOf(commits'[c]), c)
      OBVIOUS
    <3>1. CASE c \in new
      <4>1. StatusOf(commits[c]) = "absent"
        BY <1>3, <3>1 DEF StatusOf, Exists
      <4>2. StatusOf(frames[1].saved.commits[c]) = "absent"
        BY <2>1, <4>1 DEF FrameSound, Since
      <4>3. StatusOf(fresh) = "pending"
        BY <1>2 DEF StatusOf, Height
      <4>4. QED
        BY <1>3, <1>4, <3>1, <4>2, <4>3 DEF Since
    <3>2. CASE c \notin new
      BY <1>3, <2>1, <3>2 DEF FrameSound
    <3>3. QED
      BY <3>1, <3>2
  <2>6. ASSUME NEW c \in CommitId, frames[1].saved.commits[c].blockHeight # 0
        PROVE  sequencers'[c] = frames[1].saved.sequencers[c]
    <3>1. StatusOf(frames[1].saved.commits[c]) # "absent"
      BY <2>6 DEF StatusOf
    <3>2. StatusOf(commits[c]) # "absent"
      BY <2>1, <3>1 DEF FrameSound, Since
    <3>3. c \notin new
      BY <1>3, <3>2 DEF StatusOf, Exists
    <3>4. QED
      BY <1>3, <2>1, <2>6, <3>3 DEF FrameSound
  <2>7. QED
    BY <1>3, <2>1, <2>2, <2>4, <2>5, <2>6 DEF FrameSound, Since
<1>10. QED
  BY <1>1, <1>3, <1>7, <1>8, <1>9 DEF IInv

(* A dispute brings in at least the MIN_STAKE it will cost.                *)
LEMMA DisputeIInv ==
    ASSUME IInv, NEW sender \in User \cup {Verifier}, NEW c \in CommitId,
           NEW stake \in Stakes, Dispute(sender, c, stake)
    PROVE  IInv'
<1> USE ArbiterAssumption
<1>1. TypeOK /\ Sound(World) /\ Len(frames) <= 1
  BY DEF IInv
<1>2. /\ commits \in [CommitId -> Commit]
      /\ sequencers \in [CommitId -> Address \cup {NoOne}]
      /\ challengers \in [CommitId -> Address \cup {NoOne}]
      /\ commitCount \in Nat /\ staked \in [CommitId -> Nat]
      /\ TokenType /\ block \in Height
      /\ frames \in Seq([commitId : CommitId, saved : WorldType])
  BY <1>1, Types
<1>3. /\ frames = << >> /\ UNCHANGED <<sequencers, commitCount, block, frames>>
      /\ Exists(c) /\ ~commits[c].finalized /\ ~commits[c].disputed
      /\ MIN_STAKE <= stake
      /\ Token!TransferFrom(Arbiter, sender, Arbiter, stake)
      /\ commits' = [commits EXCEPT ![c].disputed = TRUE]
      /\ challengers' = [challengers EXCEPT ![c] = sender]
      /\ staked' = [staked EXCEPT ![c] = stake]
  BY DEF Dispute, NotEntered
<1>4. stake \in Nat /\ MIN_STAKE \in Nat
  OBVIOUS
<1>5. sender # Arbiter /\ sender \in Address /\ Arbiter \in Address
  BY DEF Address
<1>6. /\ balanceOf' \in [Address -> Nat]
      /\ balanceOf'[Arbiter] = balanceOf[Arbiter] + stake
  <2>1. /\ stake <= balanceOf[sender]
        /\ balanceOf' = [balanceOf EXCEPT ![sender] = @ - stake,
                                          ![Arbiter] = @ + stake]
    BY <1>3 DEF Token!TransferFrom, Token!Move
  <2>2. balanceOf \in [Address -> Nat]
    BY <1>2 DEF TokenType
  <2>3. balanceOf[sender] - stake \in Nat /\ balanceOf[Arbiter] + stake \in Nat
    BY <1>4, <1>5, <2>1, <2>2
  <2>4. QED
    BY <1>5, <2>1, <2>2, <2>3
<1>7. /\ allowance' \in [Address -> [Address -> Nat]]
      /\ \A s \in Address : allowance'[Arbiter][s] = allowance[Arbiter][s]
  <2>1. CASE UNCHANGED allowance
    BY <1>2, <2>1 DEF TokenType
  <2>2. CASE /\ stake <= allowance[sender][Arbiter]
             /\ allowance' = [allowance EXCEPT ![sender][Arbiter] = @ - stake]
    <3>1. allowance[sender][Arbiter] - stake \in Nat
      BY <1>2, <1>4, <1>5, <2>2 DEF TokenType
    <3>2. QED
      BY <1>2, <1>5, <2>2, <3>1 DEF TokenType
  <2>3. QED
    BY <1>3, <2>1, <2>2 DEF Token!TransferFrom, Token!SpendAllowance
<1>8. totalSupply' \in Int
  BY <1>2, <1>3 DEF Token!TransferFrom, TokenType
<1>9. TypeOK'
  <2>1. commits' \in [CommitId -> Commit]
    BY <1>2, <1>3, FlagSet
  <2>2. challengers' \in [CommitId -> Address \cup {NoOne}]
    <3>1. /\ challengers' = [challengers EXCEPT ![c] = sender]
          /\ sender \in Address \cup {NoOne}
      BY <1>3, <1>5
    <3>2. QED
      BY <1>2, <3>1
  <2>3. QED
    BY <1>2, <1>3, <1>4, <1>6, <1>7, <1>8, <2>1, <2>2
    DEF TypeOK, World, WorldType
<1>10. RecordsSound(World)'
  <2>1. RecordsSound(World)
    BY <1>1 DEF Sound
  <2>2. /\ sequencers' = sequencers /\ block' = block
        /\ challengers'[c] = sender /\ sender # NoOne
        /\ commits[c].blockHeight # 0 /\ ~commits[c].finalized
        /\ \A d \in CommitId \ {c} : /\ commits'[d] = commits[d]
                                    /\ challengers'[d] = challengers[d]
    BY <1>2, <1>3, <1>5 DEF Exists
  <2>3. /\ commits'[c].blockHeight = commits[c].blockHeight
        /\ commits'[c].disputeEnd = commits[c].disputeEnd
        /\ commits'[c].finalized = commits[c].finalized
    BY <1>2, <1>3 DEF Commit
  <2>4. QED
    BY <2>1, <2>2, <2>3 DEF RecordsSound, World
<1>11. Covered(World')
  <2>1. DisputedCommits(World') = DisputedCommits(World) \cup {c}
    BY <1>2, <1>3 DEF DisputedCommits, World, Commit
  <2>2. /\ World.balanceOf[Arbiter] \in Nat /\ World'.balanceOf[Arbiter] \in Nat
        /\ World.balanceOf[Arbiter] + MIN_STAKE <= World'.balanceOf[Arbiter]
    BY <1>2, <1>3, <1>4, <1>5, <1>6 DEF World, TokenType
  <2>3. QED
    BY <1>1, <2>1, <2>2, CoveredOpened DEF Sound
<1>12. EscrowClosed(World)'
  BY <1>1, <1>7 DEF Sound, EscrowClosed, World
<1>13. QED
  BY <1>1, <1>3, <1>9, <1>10, <1>11, <1>12
  DEF IInv, Sound, Covered, DisputedCommits

(* Calling the verifier puts a sound state aside.                          *)
LEMMA ResolveDisputeIInv ==
    ASSUME IInv, NEW sender \in User \cup {Verifier}, NEW c \in CommitId,
           ResolveDispute(sender, c)
    PROVE  IInv'
<1>1. TypeOK /\ Sound(World) /\ Len(frames) <= 1
  BY DEF IInv
<1>2. /\ commits \in [CommitId -> Commit]
      /\ sequencers \in [CommitId -> Address \cup {NoOne}]
      /\ challengers \in [CommitId -> Address \cup {NoOne}]
      /\ commitCount \in Nat /\ staked \in [CommitId -> Nat]
      /\ TokenType /\ block \in Height
      /\ frames \in Seq([commitId : CommitId, saved : WorldType])
  BY <1>1, Types
<1> DEFINE f == [commitId |-> c, saved |-> World]
<1>3. /\ frames = << >> /\ commits[c].disputed
      /\ UNCHANGED <<tokenVars, arbiterVars, block>>
      /\ frames' = Append(frames, f)
  BY DEF ResolveDispute, NotEntered
<1>4. World \in WorldType
  BY <1>1 DEF TypeOK
<1>5. f \in [commitId : CommitId, saved : WorldType]
  BY <1>4
<1>6. /\ frames' \in Seq([commitId : CommitId, saved : WorldType])
      /\ Len(frames') = 1 /\ frames'[1] = f
  BY <1>3, <1>5
<1>7. World' = World
  BY <1>3 DEF World, tokenVars, arbiterVars
<1>8. TypeOK' /\ Sound(World)'
  BY <1>1, <1>2, <1>3, <1>6, <1>7
  DEF TypeOK, Sound, RecordsSound, Covered, DisputedCommits, EscrowClosed
<1>9. FrameSound(frames[1])'
  <2>1. frames'[1].saved = World' /\ frames'[1].commitId = c
    BY <1>6, <1>7
  <2>2. Sound(frames[1].saved)'
    BY <1>8, <2>1
    DEF Sound, RecordsSound, Covered, DisputedCommits, EscrowClosed
  <2>3. /\ commits' = commits /\ World'.commits = commits
        /\ sequencers' = sequencers /\ World'.sequencers = sequencers
    BY <1>3 DEF arbiterVars, World
  <2>4. (\A d \in CommitId : Since(StatusOf(frames[1].saved.commits[d]),
                                   StatusOf(commits[d]), d))'
    BY <2>1, <2>3 DEF Since
  <2>5. QED
    BY <1>3, <2>1, <2>2, <2>3, <2>4 DEF FrameSound
<1>10. QED
  BY <1>6, <1>8, <1>9 DEF IInv

(* Popping the only frame leaves the guard free.                           *)
LEMMA ReturnEmpties ==
    ASSUME TypeOK, Len(frames) <= 1, frames # << >>, Return
    PROVE  /\ Len(frames) = 1
           /\ Called = frames[1]
           /\ Called.commitId \in CommitId
           /\ Called.saved \in WorldType
           /\ frames' = << >>
<1> DEFINE Frame == [commitId : CommitId, saved : WorldType]
<1>1. frames \in Seq(Frame)
  BY Types
<1> HIDE DEF Frame
<1>2. frames[1] \in Frame
  BY <1>1, FrameType
<1>3. Len(frames) = 1
  <2>1. Len(frames) \in Nat
    BY <1>1, FrameType
  <2>2. 1 <= Len(frames)
    BY <1>1, FrameType
  <2>3. QED
    BY <2>1, <2>2
<1>4. frames' = SubSeq(frames, 1, 0)
  BY <1>3 DEF Return
<1>5. SubSeq(frames, 1, 0) = << >>
  BY <1>1
<1>6. Called = frames[1]
  BY <1>3 DEF Called
<1>7. frames[1].commitId \in CommitId /\ frames[1].saved \in WorldType
  BY <1>2 DEF Frame
<1>8. QED
  BY <1>3, <1>4, <1>5, <1>6, <1>7

(* A dispute that fails is paid for by the stake it brought.               *)
LEMMA ResolveValidIInv ==
    ASSUME IInv, ResolveValid
    PROVE  IInv'
<1> USE ArbiterAssumption
<1>1. TypeOK /\ Sound(World) /\ Len(frames) <= 1
  BY DEF IInv
<1>2. /\ commits \in [CommitId -> Commit]
      /\ sequencers \in [CommitId -> Address \cup {NoOne}]
      /\ challengers \in [CommitId -> Address \cup {NoOne}]
      /\ commitCount \in Nat /\ staked \in [CommitId -> Nat]
      /\ TokenType /\ block \in Height
      /\ frames \in Seq([commitId : CommitId, saved : WorldType])
  BY <1>1, Types
<1> DEFINE c == Called.commitId
<1>3. /\ frames # << >> /\ Return
      /\ Token!Transfer(Arbiter, Dead, MIN_STAKE)
      /\ commits' = [commits EXCEPT ![c].disputed = FALSE]
      /\ UNCHANGED <<sequencers, challengers, commitCount, staked, block>>
  BY DEF ResolveValid, NotEntered
<1>4. c \in CommitId /\ frames' = << >> /\ commits[c].disputed
  BY <1>1, <1>3, ReturnEmpties DEF IInv, FrameSound
<1> HIDE DEF c
<1>5. /\ balanceOf' \in [Address -> Nat]
      /\ balanceOf'[Arbiter] = balanceOf[Arbiter] - MIN_STAKE
      /\ UNCHANGED <<allowance, totalSupply>>
  <2>1. /\ balanceOf' = [balanceOf EXCEPT ![Arbiter] = @ - MIN_STAKE,
                                          ![Dead] = @ + MIN_STAKE]
        /\ MIN_STAKE <= balanceOf[Arbiter]
        /\ UNCHANGED <<allowance, totalSupply>>
    BY <1>3 DEF Token!Transfer, Token!Move
  <2>2. /\ balanceOf \in [Address -> Nat] /\ Arbiter # Dead
        /\ Arbiter \in Address /\ Dead \in Address /\ MIN_STAKE \in Nat
    BY <1>2 DEF TokenType, Address
  <2>3. balanceOf[Arbiter] - MIN_STAKE \in Nat /\ balanceOf[Dead] + MIN_STAKE \in Nat
    BY <2>1, <2>2
  <2>4. QED
    BY <2>1, <2>2, <2>3
<1>6. TypeOK'
  <2>1. commits' \in [CommitId -> Commit]
    BY <1>2, <1>3, <1>4, FlagSet
  <2>2. frames' \in Seq([commitId : CommitId, saved : WorldType])
    BY <1>4
  <2>3. QED
    BY <1>2, <1>3, <1>5, <2>1, <2>2 DEF TypeOK, World, WorldType, TokenType
<1>7. RecordsSound(World)'
  <2>1. RecordsSound(World)
    BY <1>1 DEF Sound
  <2>2. /\ sequencers' = sequencers /\ challengers' = challengers /\ block' = block
        /\ \A d \in CommitId :
              /\ commits'[d].blockHeight = commits[d].blockHeight
              /\ commits'[d].disputeEnd = commits[d].disputeEnd
              /\ commits'[d].finalized = commits[d].finalized
              /\ commits'[d].disputed => commits[d].disputed
    BY <1>2, <1>3, <1>4 DEF Commit
  <2>3. QED
    BY <2>1, <2>2 DEF RecordsSound, World
<1>8. Covered(World')
  <2>1. DisputedCommits(World') = DisputedCommits(World) \ {c}
    BY <1>2, <1>3, <1>4 DEF DisputedCommits, World, Commit
  <2>2. c \in DisputedCommits(World)
    BY <1>4 DEF DisputedCommits, World
  <2>3. /\ World.balanceOf[Arbiter] \in Nat /\ World'.balanceOf[Arbiter] \in Nat
        /\ World.balanceOf[Arbiter] - MIN_STAKE <= World'.balanceOf[Arbiter]
    BY <1>2, <1>5 DEF World, TokenType, Address
  <2>4. QED
    BY <1>1, <2>1, <2>2, <2>3, CoveredClosed DEF Sound
<1>9. EscrowClosed(World)'
  BY <1>1, <1>5 DEF Sound, EscrowClosed, World
<1>10. QED
  BY <1>4, <1>6, <1>7, <1>8, <1>9 DEF IInv, Sound, Covered, DisputedCommits

(* Paying MIN_STAKE out of the arbiter's balance, whoever receives it.     *)
LEMMA Refunded ==
    ASSUME NEW held \in [Address -> Nat], NEW to \in Address,
           MIN_STAKE <= held[Arbiter]
    PROVE  LET after == [held EXCEPT ![Arbiter] = @ - MIN_STAKE,
                                     ![to] = @ + MIN_STAKE]
           IN  /\ after \in [Address -> Nat]
               /\ held[Arbiter] - MIN_STAKE <= after[Arbiter]
<1> DEFINE after == [held EXCEPT ![Arbiter] = @ - MIN_STAKE,
                                 ![to] = @ + MIN_STAKE]
<1>1. Arbiter \in Address /\ MIN_STAKE \in Nat
  BY ArbiterAssumption DEF Address
<1>2. CASE to = Arbiter
  BY <1>1, <1>2
<1>3. CASE to # Arbiter
  <2>1. /\ held[Arbiter] \in Nat /\ held[Arbiter] - MIN_STAKE \in Nat
        /\ held[to] + MIN_STAKE \in Nat
    BY <1>1
  <2>2. after[Arbiter] = held[Arbiter] - MIN_STAKE
    BY <1>1, <1>3
  <2>3. after \in [Address -> Nat]
    BY <1>1, <1>3, <2>1
  <2>4. QED
    BY <2>1, <2>2, <2>3
<1>4. QED
  BY <1>2, <1>3

(* A dispute that is upheld gets back MIN_STAKE of the stake it brought,   *)
(* from the state the verifier was called in.                              *)
LEMMA ResolveInvalidIInv ==
    ASSUME IInv, ResolveInvalid
    PROVE  IInv'
<1> USE ArbiterAssumption
<1>1. TypeOK /\ Sound(World) /\ Len(frames) <= 1
  BY DEF IInv
<1>2. /\ commits \in [CommitId -> Commit]
      /\ sequencers \in [CommitId -> Address \cup {NoOne}]
      /\ challengers \in [CommitId -> Address \cup {NoOne}]
      /\ commitCount \in Nat /\ staked \in [CommitId -> Nat]
      /\ TokenType /\ block \in Height
      /\ frames \in Seq([commitId : CommitId, saved : WorldType])
  BY <1>1, Types
<1> DEFINE c == Called.commitId
           w == Called.saved
<1>3. /\ frames # << >> /\ Return
      /\ MIN_STAKE <= w.balanceOf[Arbiter]
      /\ balanceOf' = [w.balanceOf EXCEPT ![Arbiter] = @ - MIN_STAKE,
                                          ![w.challengers[c]] = @ + MIN_STAKE]
      /\ allowance' = w.allowance /\ totalSupply' = w.totalSupply
      /\ commits' = [w.commits EXCEPT ![c] = NoCommit]
      /\ sequencers' = [w.sequencers EXCEPT ![c] = NoOne]
      /\ challengers' = [w.challengers EXCEPT ![c] = NoOne]
      /\ commitCount' = w.commitCount /\ staked' = w.staked
      /\ UNCHANGED block
  BY DEF ResolveInvalid, NotEntered
<1>4. /\ c \in CommitId /\ w \in WorldType /\ frames' = << >>
      /\ Sound(w) /\ w.commits[c].disputed
  BY <1>1, <1>3, ReturnEmpties DEF IInv, FrameSound
<1> HIDE DEF c, w
<1>5. /\ w.commits \in [CommitId -> Commit]
      /\ w.sequencers \in [CommitId -> Address \cup {NoOne}]
      /\ w.challengers \in [CommitId -> Address \cup {NoOne}]
      /\ w.commitCount \in Nat /\ w.staked \in [CommitId -> Nat]
      /\ w.balanceOf \in [Address -> Nat]
      /\ w.allowance \in [Address -> [Address -> Nat]]
      /\ w.totalSupply \in Int
  BY <1>4 DEF WorldType
<1>6. w.challengers[c] \in Address
  BY <1>4, <1>5 DEF Sound, RecordsSound
<1>7. /\ balanceOf' \in [Address -> Nat]
      /\ w.balanceOf[Arbiter] - MIN_STAKE <= balanceOf'[Arbiter]
  BY <1>3, <1>5, <1>6, Refunded
<1>8. TypeOK'
  <2>1. commits' \in [CommitId -> Commit]
    BY <1>3, <1>4, <1>5 DEF Commit, NoCommit
  <2>2. /\ sequencers' \in [CommitId -> Address \cup {NoOne}]
        /\ challengers' \in [CommitId -> Address \cup {NoOne}]
    BY <1>3, <1>4, <1>5
  <2>3. frames' \in Seq([commitId : CommitId, saved : WorldType])
    BY <1>4
  <2>4. QED
    BY <1>2, <1>3, <1>5, <1>7, <2>1, <2>2, <2>3 DEF TypeOK, World, WorldType
<1>9. RecordsSound(World)'
  <2>1. /\ commits'[c].blockHeight = 0 /\ sequencers'[c] = NoOne
        /\ challengers'[c] = NoOne /\ ~commits'[c].disputed /\ ~commits'[c].finalized
    BY <1>3, <1>4, <1>5 DEF NoCommit
  <2>2. \A d \in CommitId \ {c} :
            /\ commits'[d] = w.commits[d] /\ sequencers'[d] = w.sequencers[d]
            /\ challengers'[d] = w.challengers[d]
    BY <1>3, <1>5
  <2>3. RecordsSound(w) /\ block' = block
    BY <1>3, <1>4 DEF Sound
  <2>4. QED
    BY <2>1, <2>2, <2>3 DEF RecordsSound, World
<1>10. Covered(World')
  <2>1. DisputedCommits(World') = DisputedCommits(w) \ {c}
    BY <1>3, <1>4, <1>5 DEF DisputedCommits, World, NoCommit
  <2>2. c \in DisputedCommits(w)
    BY <1>4 DEF DisputedCommits
  <2>3. /\ w.balanceOf[Arbiter] \in Nat /\ World'.balanceOf[Arbiter] \in Nat
        /\ w.balanceOf[Arbiter] - MIN_STAKE <= World'.balanceOf[Arbiter]
    BY <1>5, <1>7 DEF World, Address
  <2>4. QED
    BY <1>4, <2>1, <2>2, <2>3, CoveredClosed DEF Sound
<1>11. EscrowClosed(World)'
  BY <1>3, <1>4 DEF Sound, EscrowClosed, World
<1>12. QED
  BY <1>4, <1>8, <1>9, <1>10, <1>11 DEF IInv, Sound, Covered, DisputedCommits

(* A transaction that reverts goes back to a sound state.                  *)
LEMMA ResolveRevertsIInv ==
    ASSUME IInv, ResolveReverts
    PROVE  IInv'
<1>1. TypeOK /\ Sound(World) /\ Len(frames) <= 1
  BY DEF IInv
<1>2. /\ commits \in [CommitId -> Commit]
      /\ sequencers \in [CommitId -> Address \cup {NoOne}]
      /\ challengers \in [CommitId -> Address \cup {NoOne}]
      /\ commitCount \in Nat /\ staked \in [CommitId -> Nat]
      /\ TokenType /\ block \in Height
      /\ frames \in Seq([commitId : CommitId, saved : WorldType])
  BY <1>1, Types
<1> DEFINE w == Called.saved
<1>3. /\ frames # << >> /\ Return /\ UNCHANGED block
      /\ balanceOf' = w.balanceOf /\ allowance' = w.allowance
      /\ totalSupply' = w.totalSupply
      /\ commits' = w.commits /\ sequencers' = w.sequencers
      /\ challengers' = w.challengers /\ commitCount' = w.commitCount
      /\ staked' = w.staked
  BY DEF ResolveReverts, NotEntered
<1>4. w \in WorldType /\ frames' = << >> /\ Sound(w)
  BY <1>1, <1>3, ReturnEmpties DEF IInv, FrameSound
<1>5. World' = w
  BY <1>3, <1>4 DEF World, WorldType
<1>6. TypeOK'
  <2>1. frames' \in Seq([commitId : CommitId, saved : WorldType])
    BY <1>4
  <2>2. QED
    BY <1>2, <1>3, <1>4, <1>5, <2>1 DEF TypeOK
<1>7. Sound(World)'
  BY <1>3, <1>4, <1>5
  DEF Sound, RecordsSound, Covered, DisputedCommits, EscrowClosed
<1>8. QED
  BY <1>4, <1>6, <1>7 DEF IInv

(* Finalizing touches one pending commit whose window is over; it can      *)
(* happen while the verifier of another commit runs.                       *)
LEMMA FinalizeIInv ==
    ASSUME IInv, NEW sender \in User \cup {Verifier}, NEW c \in CommitId,
           Finalize(sender, c)
    PROVE  IInv'
<1>1. TypeOK /\ Sound(World) /\ Len(frames) <= 1
  BY DEF IInv
<1>2. /\ commits \in [CommitId -> Commit]
      /\ sequencers \in [CommitId -> Address \cup {NoOne}]
      /\ challengers \in [CommitId -> Address \cup {NoOne}]
      /\ commitCount \in Nat /\ staked \in [CommitId -> Nat]
      /\ TokenType /\ block \in Height
      /\ frames \in Seq([commitId : CommitId, saved : WorldType])
  BY <1>1, Types
<1>3. /\ Exists(c) /\ ~commits[c].finalized /\ ~commits[c].disputed
      /\ commits[c].disputeEnd <= block
      /\ commits' = [commits EXCEPT ![c].finalized = TRUE]
      /\ UNCHANGED <<tokenVars, sequencers, challengers, commitCount, staked,
                     block, frames>>
  BY DEF Finalize
<1>4. TypeOK'
  <2>1. commits' \in [CommitId -> Commit]
    BY <1>2, <1>3, FlagSet
  <2>2. QED
    BY <1>2, <1>3, <2>1 DEF TypeOK, World, WorldType, TokenType, tokenVars
<1>5. Sound(World)'
  <2>1. RecordsSound(World)'
    BY <1>1, <1>2, <1>3 DEF Sound, RecordsSound, World, Exists, Commit
  <2>2. Covered(World')
    <3>1. DisputedCommits(World') \subseteq DisputedCommits(World)
      BY <1>2, <1>3 DEF DisputedCommits, World, Commit
    <3>2. /\ World.balanceOf[Arbiter] \in Nat
          /\ World.balanceOf[Arbiter] = World'.balanceOf[Arbiter]
      BY <1>2, <1>3 DEF World, tokenVars, TokenType, Address
    <3>3. QED
      BY <1>1, <3>1, <3>2, CoveredKept DEF Sound
  <2>3. EscrowClosed(World)'
    BY <1>1, <1>3 DEF Sound, EscrowClosed, World, tokenVars
  <2>4. QED
    BY <2>1, <2>2, <2>3 DEF Sound, Covered, DisputedCommits
<1>6. frames' # << >> => FrameSound(frames[1])'
  <2> SUFFICES ASSUME frames # << >> PROVE FrameSound(frames[1])'
    BY <1>3
  <2>1. FrameSound(frames[1]) /\ frames[1].commitId \in CommitId
    <3>1. frames[1] \in [commitId : CommitId, saved : WorldType]
      BY <1>2, FrameType
    <3>2. QED
      BY <3>1 DEF IInv
  <2>2. Sound(frames[1].saved)'
    BY <1>3, <2>1 DEF FrameSound, Sound, RecordsSound, Covered,
                      DisputedCommits, EscrowClosed
  <2>3. commits'[frames[1].commitId].disputed
    BY <1>2, <1>3, <2>1 DEF FrameSound, Commit
  <2>4. \A d \in CommitId : Since(StatusOf(frames[1].saved.commits[d]),
                                  StatusOf(commits'[d]), d)
    <3> SUFFICES ASSUME NEW d \in CommitId
                 PROVE  Since(StatusOf(frames[1].saved.commits[d]),
                              StatusOf(commits'[d]), d)
      OBVIOUS
    <3>1. CASE d = c
      <4>1. StatusOf(commits[c]) = "pending"
        BY <1>2, <1>3 DEF StatusOf, Exists
      <4>2. commits[c].disputeEnd = c[2] + DISPUTE_WINDOW
        BY <1>1, <1>3 DEF Sound, RecordsSound, World, Exists
      <4>3. c[2] + DISPUTE_WINDOW <= block /\ c[2] \in Nat /\ block \in Nat
        BY <1>2, <1>3, <4>2 DEF CommitId, Height
      <4>4. StatusOf(frames[1].saved.commits[c]) = "pending"
        BY <2>1, <4>1, <4>3, ArbiterAssumption DEF FrameSound, Since
      <4>5. StatusOf(commits'[c]) = "finalized"
        BY <1>2, <1>3 DEF StatusOf, Exists, Commit
      <4>6. QED
        BY <3>1, <4>3, <4>4, <4>5 DEF Since
    <3>2. CASE d # c
      BY <1>2, <1>3, <2>1, <3>2 DEF FrameSound
    <3>3. QED
      BY <3>1, <3>2
  <2>5. QED
    BY <1>3, <2>1, <2>2, <2>3, <2>4 DEF FrameSound, Since
<1>7. QED
  BY <1>1, <1>3, <1>4, <1>5, <1>6 DEF IInv

(* Token calls cannot take from the escrow.                                *)
LEMMA TokenCallIInv ==
    ASSUME IInv, NEW sender \in User \cup {Verifier}, TokenCall(sender)
    PROVE  IInv'
<1>1. TypeOK /\ Sound(World) /\ Len(frames) <= 1
  BY DEF IInv
<1>2. /\ commits \in [CommitId -> Commit]
      /\ sequencers \in [CommitId -> Address \cup {NoOne}]
      /\ challengers \in [CommitId -> Address \cup {NoOne}]
      /\ commitCount \in Nat /\ staked \in [CommitId -> Nat]
      /\ TokenType /\ block \in Height
      /\ frames \in Seq([commitId : CommitId, saved : WorldType])
  BY <1>1, Types
<1>3. UNCHANGED <<arbiterVars, block, frames>>
  BY DEF TokenCall
<1>4. /\ TokenType' /\ EscrowClosed(World)'
      /\ balanceOf[Arbiter] <= balanceOf'[Arbiter]
  BY <1>1, <1>2, TokenCallSafe DEF TokenCall, Sound
<1>5. TypeOK'
  BY <1>2, <1>3, <1>4 DEF TypeOK, World, WorldType, TokenType, arbiterVars
<1>6. RecordsSound(World)'
  BY <1>1, <1>3 DEF Sound, RecordsSound, World, arbiterVars
<1>7. Covered(World')
  <2>1. DisputedCommits(World') \subseteq DisputedCommits(World)
    BY <1>3 DEF DisputedCommits, World, arbiterVars
  <2>2. /\ World.balanceOf[Arbiter] \in Nat /\ World'.balanceOf[Arbiter] \in Nat
        /\ World.balanceOf[Arbiter] <= World'.balanceOf[Arbiter]
    BY <1>2, <1>4 DEF World, TokenType, Address
  <2>3. QED
    BY <1>1, <2>1, <2>2, CoveredKept DEF Sound
<1>8. frames' # << >> => FrameSound(frames[1])'
  <2> SUFFICES ASSUME frames # << >> PROVE FrameSound(frames[1])'
    BY <1>3
  <2>1. FrameSound(frames[1])
    BY DEF IInv
  <2>2. Sound(frames[1].saved)'
    BY <1>3, <2>1, SoundKept DEF FrameSound
  <2>3. QED
    BY <1>3, <2>1, <2>2 DEF FrameSound, Since, arbiterVars
<1>9. QED
  BY <1>1, <1>3, <1>4, <1>5, <1>6, <1>7, <1>8
  DEF IInv, Sound, Covered, DisputedCommits

(* Time only makes deadlines pass.                                         *)
LEMMA NextBlockIInv ==
    ASSUME IInv, NextBlock
    PROVE  IInv'
<1>1. TypeOK /\ Sound(World) /\ Len(frames) <= 1
  BY DEF IInv
<1>2. /\ commits \in [CommitId -> Commit]
      /\ sequencers \in [CommitId -> Address \cup {NoOne}]
      /\ challengers \in [CommitId -> Address \cup {NoOne}]
      /\ commitCount \in Nat /\ staked \in [CommitId -> Nat]
      /\ TokenType /\ block \in Height
      /\ frames \in Seq([commitId : CommitId, saved : WorldType])
  BY <1>1, Types
<1>3. /\ frames = << >> /\ block < MaxBlock /\ block' = block + 1
      /\ UNCHANGED <<tokenVars, arbiterVars, frames>>
  BY DEF NextBlock, NotEntered
<1>4. World' = World
  BY <1>3 DEF World, tokenVars, arbiterVars
<1>5. block' \in Height
  BY <1>2, <1>3, ArbiterAssumption DEF Height
<1>6. TypeOK'
  BY <1>1, <1>3, <1>4, <1>5 DEF TypeOK
<1>7. RecordsSound(World)'
  <2>1. \A c \in CommitId : c[2] \in Nat
    BY DEF CommitId, Height
  <2>2. commits' = commits /\ sequencers' = sequencers
        /\ challengers' = challengers
    BY <1>3 DEF arbiterVars
  <2>3. block \in Nat /\ DISPUTE_WINDOW \in Nat
    BY <1>2, ArbiterAssumption DEF Height
  <2>4. \A c \in CommitId : commits[c].disputeEnd \in Nat
    BY <1>2 DEF Commit
  <2>5. QED
    BY <1>1, <1>3, <2>1, <2>2, <2>3, <2>4 DEF Sound, RecordsSound, World
<1>8. QED
  BY <1>1, <1>3, <1>4, <1>6, <1>7
  DEF IInv, Sound, Covered, DisputedCommits, EscrowClosed

(* Every step.                                                             *)
LEMMA NextIInv == IInv /\ [Next]_vars => IInv'
<1> SUFFICES ASSUME IInv, [Next]_vars PROVE IInv'
  OBVIOUS
<1>1. CASE UNCHANGED vars
  <2>1. World' = World /\ block' = block /\ frames' = frames
        /\ commits' = commits /\ sequencers' = sequencers
    BY <1>1 DEF vars, tokenVars, arbiterVars, World
  <2>2. ASSUME NEW w, Sound(w) PROVE Sound(w)'
    BY <2>1, <2>2 DEF Sound, RecordsSound, Covered, DisputedCommits, EscrowClosed
  <2>3. Sound(World)'
    BY <2>1 DEF IInv, Sound, RecordsSound, Covered, DisputedCommits, EscrowClosed
  <2>4. TypeOK' /\ Len(frames') <= 1
    BY <2>1 DEF IInv, TypeOK
  <2>5. frames' # << >> => FrameSound(frames[1])'
    BY <2>1, <2>2 DEF IInv, FrameSound, Since
  <2>6. QED
    BY <2>1, <2>3, <2>4, <2>5 DEF IInv
<1>2. CASE \E sender \in Sender :
              \/ SubmitStateRoot(sender)
              \/ BatchSubmit(sender)
              \/ TokenCall(sender)
              \/ \E c \in CommitId :
                    \/ \E stake \in Stakes : Dispute(sender, c, stake)
                    \/ ResolveDispute(sender, c)
                    \/ Finalize(sender, c)
  <2>1. PICK sender \in User \cup {Verifier} :
              \/ SubmitStateRoot(sender)
              \/ BatchSubmit(sender)
              \/ TokenCall(sender)
              \/ \E c \in CommitId :
                    \/ \E stake \in Stakes : Dispute(sender, c, stake)
                    \/ ResolveDispute(sender, c)
                    \/ Finalize(sender, c)
    BY <1>2 DEF Sender
  <2>2. CASE SubmitStateRoot(sender) \/ BatchSubmit(sender)
    <3>1. PICK payloads \in SUBSET Payload : SubmitAll(sender, payloads)
      BY <2>2 DEF SubmitStateRoot, BatchSubmit
    <3>2. QED
      BY <3>1, SubmitAllIInv
  <2>3. CASE TokenCall(sender)
    BY <2>3, TokenCallIInv
  <2>4. CASE \E c \in CommitId, stake \in Stakes : Dispute(sender, c, stake)
    BY <2>4, DisputeIInv
  <2>5. CASE \E c \in CommitId : ResolveDispute(sender, c)
    BY <2>5, ResolveDisputeIInv
  <2>6. CASE \E c \in CommitId : Finalize(sender, c)
    BY <2>6, FinalizeIInv
  <2>7. QED
    BY <2>1, <2>2, <2>3, <2>4, <2>5, <2>6
<1>3. CASE ResolveValid \/ ResolveInvalid \/ ResolveReverts \/ NextBlock
  BY <1>3, ResolveValidIInv, ResolveInvalidIInv, ResolveRevertsIInv,
     NextBlockIInv
<1>4. QED
  BY <1>1, <1>2, <1>3 DEF Next

----------------------------------------------------------------------------
(* The inductive invariant holds of every reachable state.                 *)
THEOREM Invariance == Spec => []IInv
BY InitIInv, NextIInv, PTL DEF Spec

(* Every variable of the arbiter and of its token keeps its type.          *)
THEOREM TypeCorrect == Spec => []TypeOK
<1>1. IInv => TypeOK
  BY DEF IInv
<1>2. QED
  BY <1>1, Invariance, PTL

(* Whatever the verifier does, the arbiter can pay for every open dispute, *)
(* in the running state and in the one a revert would restore.             *)
THEOREM Solvency == Spec => []Solvent
<1>1. IInv => Solvent
  <2> SUFFICES ASSUME IInv PROVE Covered(World) /\ Covered(Committed)
    BY DEF Solvent
  <2>1. CASE frames = << >>
    BY <2>1 DEF IInv, Sound, Committed, NotEntered
  <2>2. CASE frames # << >>
    BY <2>2 DEF IInv, FrameSound, Sound, Committed, NotEntered
  <2>3. QED
    BY <2>1, <2>2
<1>2. QED
  BY <1>1, Invariance, PTL

(* Finality comes after the dispute window and excludes an open dispute.   *)
THEOREM FinalityWaits == Spec => []FinalizedAfterWindow
<1>1. IInv => FinalizedAfterWindow
  BY DEF IInv, Sound, RecordsSound, World, FinalizedAfterWindow
<1>2. QED
  BY <1>1, Invariance, PTL

(* Commits, sequencers and challengers come and go together.               *)
THEOREM RecordsStayTogether == Spec => []RecordsAgree
<1>1. IInv => RecordsAgree
  BY DEF IInv, Sound, RecordsSound, World, RecordsAgree, Exists
<1>2. QED
  BY <1>1, Invariance, PTL

(* What a step leaves of a commit that exists before and after it: the     *)
(* action of CommitIsImmutable.                                            *)
CommitKept ==
    \A c \in CommitId :
       Exists(c) /\ Exists(c)' =>
           /\ sequencers'[c] = sequencers[c]
           /\ commits'[c].blockHeight = commits[c].blockHeight
           /\ commits'[c].disputeEnd = commits[c].disputeEnd
           /\ commits[c].disputed /\ ~commits'[c].disputed => ~NotEntered

(* An existing commit is never replaced: its height and deadline are those *)
(* of its identity, and its sequencer survives what a verifier does and    *)
(* what a revert undoes.                                                   *)
LEMMA StepKeepsCommits ==
    ASSUME IInv, IInv', [Next]_vars
    PROVE  CommitKept
<1>0. /\ TypeOK /\ Len(frames) <= 1 /\ commits \in [CommitId -> Commit]
      /\ sequencers \in [CommitId -> Address \cup {NoOne}]
  BY Types DEF IInv
<1> SUFFICES ASSUME NEW c \in CommitId, Exists(c), Exists(c)'
             PROVE  /\ sequencers'[c] = sequencers[c]
                    /\ commits'[c].blockHeight = commits[c].blockHeight
                    /\ commits'[c].disputeEnd = commits[c].disputeEnd
                    /\ commits[c].disputed /\ ~commits'[c].disputed =>
                          ~NotEntered
  BY DEF CommitKept
<1>1. /\ commits'[c].blockHeight = commits[c].blockHeight
      /\ commits'[c].disputeEnd = commits[c].disputeEnd
  BY DEF IInv, Sound, RecordsSound, World, Exists
<1>2. CASE frames # << >> /\ Return
  <2>1. FrameSound(Called) /\ Called.commitId \in CommitId
        /\ Called.saved \in WorldType
    BY <1>0, <1>2, ReturnEmpties DEF IInv
  <2>2. CASE UNCHANGED sequencers
    BY <1>1, <1>2, <2>2 DEF NotEntered
  <2>3. CASE /\ commits' = [Called.saved.commits EXCEPT
                                              ![Called.commitId] = NoCommit]
             /\ sequencers' = [Called.saved.sequencers EXCEPT
                                              ![Called.commitId] = NoOne]
    <3>1. /\ Called.saved.commits \in [CommitId -> Commit]
          /\ Called.saved.sequencers \in [CommitId -> Address \cup {NoOne}]
      BY <2>1 DEF WorldType
    <3>2. c # Called.commitId
      BY <2>1, <2>3, <3>1 DEF Exists, NoCommit
    <3>3. QED
      BY <1>1, <1>2, <2>1, <2>3, <3>1, <3>2 DEF FrameSound, Exists, NotEntered
  <2>4. CASE /\ commits' = Called.saved.commits
             /\ sequencers' = Called.saved.sequencers
    BY <1>1, <1>2, <2>1, <2>4 DEF FrameSound, Exists, NotEntered
  <2>5. ResolveValid \/ ResolveInvalid \/ ResolveReverts \/ frames' = frames
        \/ NotEntered
    BY DEF Next, vars, SubmitStateRoot, BatchSubmit, SubmitAll, TokenCall,
           Dispute, ResolveDispute, Finalize, NextBlock
  <2>6. frames' # frames /\ ~NotEntered
    BY <1>0, <1>2, ReturnEmpties DEF NotEntered
  <2>7. QED
    BY <2>2, <2>3, <2>4, <2>5, <2>6
    DEF ResolveValid, ResolveInvalid, ResolveReverts
<1>3. CASE ~(frames # << >> /\ Return)
  <2>1. ~ResolveValid /\ ~ResolveInvalid /\ ~ResolveReverts
    BY <1>3 DEF ResolveValid, ResolveInvalid, ResolveReverts, NotEntered
  <2>2. CASE \E sender \in Sender, payloads \in SUBSET Payload :
                SubmitAll(sender, payloads)
    BY <1>1, <2>2 DEF SubmitAll, Exists
  <2>3. CASE \E sender \in Sender : TokenCall(sender)
    BY <1>1, <2>3 DEF TokenCall, arbiterVars
  <2>4. CASE \E sender \in Sender, d \in CommitId, stake \in Stakes :
                Dispute(sender, d, stake)
    BY <1>0, <1>1, <2>4 DEF Dispute, Commit
  <2>5. CASE \E sender \in Sender, d \in CommitId : ResolveDispute(sender, d)
    BY <1>1, <2>5 DEF ResolveDispute, arbiterVars
  <2>6. CASE \E sender \in Sender, d \in CommitId : Finalize(sender, d)
    BY <1>0, <1>1, <2>6 DEF Finalize, Commit
  <2>7. CASE NextBlock \/ UNCHANGED vars
    BY <1>1, <2>7 DEF NextBlock, vars, arbiterVars
  <2>8. QED
    BY <2>1, <2>2, <2>3, <2>4, <2>5, <2>6, <2>7
    DEF Next, SubmitStateRoot, BatchSubmit
<1>4. QED
  BY <1>2, <1>3

(* No call replaces an existing commit or resets its open dispute.         *)
THEOREM CommitsAreImmutable == Spec => CommitIsImmutable
<1>1. IInv /\ IInv' /\ [Next]_vars => [CommitKept]_vars
  BY StepKeepsCommits
<1>2. CommitIsImmutable <=> [][CommitKept]_vars
  BY PTL DEF CommitIsImmutable, CommitKept
<1>3. QED
  BY <1>1, <1>2, Invariance, PTL DEF Spec

----------------------------------------------------------------------------
(* The contract implements Settlement.                                     *)

(* The committed state changes only when a transaction ends.               *)
LEMMA Committing ==
    ASSUME IInv, [Next]_vars
    PROVE  [Abstract!Next]_(Abstract!vars)
<1> DEFINE was(c) == StatusOf(Committed.commits[c])
           is(c) == StatusOf(Committed'.commits[c])
<1> USE DEF Abstract!vars
<1>0. /\ TypeOK /\ block \in Height /\ Len(frames) <= 1
      /\ DISPUTE_WINDOW \in Nat \ {0}
      /\ commits \in [CommitId -> Commit]
      /\ frames \in Seq([commitId : CommitId, saved : WorldType])
  BY Types, ArbiterAssumption DEF IInv
<1>1. ASSUME UNCHANGED block,
             \A c \in CommitId : is(c) # was(c) =>
                                    Abstract!Edge(c, was(c), is(c))
      PROVE  [Abstract!Next]_(Abstract!vars)
  <2>1. Abstract!CommitId = CommitId
    BY DEF Abstract!CommitId, CommitId, Height
  <2>2. \A c \in CommitId : is(c) \in Abstract!Status
    BY DEF StatusOf, Abstract!Status
  <2>3. Abstract!Transaction
    BY <1>1, <2>1, <2>2 DEF Abstract!Transaction
  <2>4. QED
    BY <2>3 DEF Abstract!Next
<1>2. ASSUME UNCHANGED block, Committed'.commits = Committed.commits
      PROVE  [Abstract!Next]_(Abstract!vars)
  BY <1>2
<1>3. CASE UNCHANGED vars
  <2>1. UNCHANGED block /\ Committed' = Committed
    BY <1>3 DEF vars, tokenVars, arbiterVars, Committed, NotEntered, World
  <2>2. QED
    BY <1>2, <2>1
<1>4. CASE NextBlock
  <2>1. /\ frames = << >> /\ frames' = << >> /\ commits' = commits
        /\ block < MaxBlock /\ block' = block + 1
    BY <1>4 DEF NextBlock, NotEntered, arbiterVars
  <2>2. Committed'.commits = Committed.commits
    BY <2>1 DEF Committed, NotEntered, World
  <2>3. QED
    BY <2>1, <2>2 DEF Abstract!Next, Abstract!NextBlock
<1>5. CASE \E sender \in User \cup {Verifier}, c \in CommitId :
              ResolveDispute(sender, c)
  <2>1. PICK sender \in User \cup {Verifier}, c \in CommitId :
           ResolveDispute(sender, c)
    BY <1>5
  <2>2. /\ frames = << >> /\ UNCHANGED block
        /\ frames' = Append(frames, [commitId |-> c, saved |-> World])
    BY <2>1 DEF ResolveDispute, NotEntered
  <2>3. frames' # << >> /\ frames'[1].saved = World
    BY <1>0, <2>2
  <2>4. Committed' = Committed
    BY <2>2, <2>3 DEF Committed, NotEntered
  <2>5. QED
    BY <1>2, <2>2, <2>4
(* Calls made while the verifier runs are part of its transaction.         *)
<1>6. ASSUME frames # << >>, UNCHANGED <<block, frames>>
      PROVE  [Abstract!Next]_(Abstract!vars)
  <2>1. Committed' = Committed
    BY <1>6 DEF Committed, NotEntered
  <2>2. QED
    BY <1>2, <1>6, <2>1
(* A call of its own is a transaction of its own.                          *)
<1>7. ASSUME frames = << >>, UNCHANGED <<block, frames>>,
             \A c \in CommitId : StatusOf(commits'[c]) # StatusOf(commits[c])
                => Abstract!Edge(c, StatusOf(commits[c]), StatusOf(commits'[c]))
      PROVE  [Abstract!Next]_(Abstract!vars)
  <2>1. Committed.commits = commits /\ Committed'.commits = commits'
    BY <1>7 DEF Committed, NotEntered, World
  <2>2. QED
    BY <1>1, <1>7, <2>1
<1>8. ASSUME NEW sender \in User \cup {Verifier}, NEW payloads \in SUBSET Payload,
             SubmitAll(sender, payloads)
      PROVE  [Abstract!Next]_(Abstract!vars)
  <2>1. UNCHANGED <<block, frames>>
    BY <1>8 DEF SubmitAll
  <2>2. ASSUME NEW c \in CommitId, StatusOf(commits'[c]) # StatusOf(commits[c])
        PROVE  Abstract!Edge(c, StatusOf(commits[c]), StatusOf(commits'[c]))
    <3>1. c[2] = block /\ ~Exists(c)
          /\ commits'[c].blockHeight = block /\ ~commits'[c].disputed
          /\ ~commits'[c].finalized
      BY <1>8, <2>2 DEF SubmitAll
    <3>2. QED
      BY <1>0, <3>1 DEF StatusOf, Exists, Abstract!Edge, Height
  <2>3. QED
    BY <1>6, <1>7, <2>1, <2>2
<1>9. ASSUME NEW sender \in User \cup {Verifier}, TokenCall(sender)
      PROVE  [Abstract!Next]_(Abstract!vars)
  BY <1>6, <1>7, <1>9 DEF TokenCall, arbiterVars
<1>10. ASSUME NEW sender \in User \cup {Verifier}, NEW c \in CommitId,
              NEW stake \in Stakes, Dispute(sender, c, stake)
       PROVE  [Abstract!Next]_(Abstract!vars)
  <2>1. /\ UNCHANGED <<block, frames>>
        /\ Exists(c) /\ ~commits[c].finalized /\ ~commits[c].disputed
        /\ commits' = [commits EXCEPT ![c].disputed = TRUE]
    BY <1>10 DEF Dispute
  <2>2. ASSUME NEW d \in CommitId, StatusOf(commits'[d]) # StatusOf(commits[d])
        PROVE  Abstract!Edge(d, StatusOf(commits[d]), StatusOf(commits'[d]))
    <3>1. d = c
      BY <1>0, <2>1, <2>2
    <3>2. StatusOf(commits[c]) = "pending" /\ StatusOf(commits'[c]) = "disputed"
      BY <1>0, <2>1 DEF StatusOf, Exists, Commit
    <3>3. QED
      BY <3>1, <3>2 DEF Abstract!Edge
  <2>3. QED
    BY <1>6, <1>7, <2>1, <2>2
<1>11. ASSUME NEW sender \in User \cup {Verifier}, NEW c \in CommitId,
              Finalize(sender, c)
       PROVE  [Abstract!Next]_(Abstract!vars)
  <2>1. /\ UNCHANGED <<block, frames>>
        /\ Exists(c) /\ ~commits[c].finalized /\ ~commits[c].disputed
        /\ commits[c].disputeEnd <= block
        /\ commits' = [commits EXCEPT ![c].finalized = TRUE]
    BY <1>11 DEF Finalize
  <2>2. ASSUME NEW d \in CommitId, StatusOf(commits'[d]) # StatusOf(commits[d])
        PROVE  Abstract!Edge(d, StatusOf(commits[d]), StatusOf(commits'[d]))
    <3>1. d = c
      BY <1>0, <2>1, <2>2
    <3>2. StatusOf(commits[c]) = "pending" /\ StatusOf(commits'[c]) = "finalized"
      BY <1>0, <2>1 DEF StatusOf, Exists, Commit
    <3>3. c[2] + DISPUTE_WINDOW <= block
      BY <2>1 DEF IInv, Sound, RecordsSound, World, Exists
    <3>4. QED
      BY <3>1, <3>2, <3>3 DEF Abstract!Edge
  <2>3. QED
    BY <1>6, <1>7, <2>1, <2>2
(* The end of a resolveDispute commits everything done during it.          *)
<1>12. ASSUME frames # << >>, Return
       PROVE  /\ Called = frames[1] /\ Called.commitId \in CommitId
              /\ Called.saved \in WorldType /\ frames' = << >>
              /\ FrameSound(Called)
              /\ Committed.commits = Called.saved.commits
              /\ Committed'.commits = commits'
  <2>1. /\ Called = frames[1] /\ Called.commitId \in CommitId
        /\ Called.saved \in WorldType /\ frames' = << >>
    BY <1>0, <1>12, ReturnEmpties
  <2>2. FrameSound(Called)
    BY <1>12, <2>1 DEF IInv
  <2>3. /\ Committed.commits = Called.saved.commits
        /\ Committed'.commits = commits'
    BY <1>12, <2>1 DEF Committed, NotEntered, World
  <2>4. QED
    BY <2>1, <2>2, <2>3
<1>13. CASE ResolveValid
  <2> DEFINE e == Called.commitId
  <2>1. /\ frames # << >> /\ Return /\ UNCHANGED block
        /\ commits' = [commits EXCEPT ![e].disputed = FALSE]
    BY <1>13 DEF ResolveValid, NotEntered
  <2>2. /\ e \in CommitId /\ FrameSound(Called)
        /\ Committed.commits = Called.saved.commits
        /\ Committed'.commits = commits'
    BY <1>12, <2>1
  <2>3. ASSUME NEW c \in CommitId, is(c) # was(c)
        PROVE  Abstract!Edge(c, was(c), is(c))
    <3>1. CASE c = e
      <4>1. /\ commits[e].disputed /\ commits[e].blockHeight # 0
            /\ ~commits[e].finalized
        BY <2>2 DEF FrameSound, IInv, Sound, RecordsSound, World
      <4>2. is(e) = "pending"
        BY <1>0, <2>1, <2>2, <4>1 DEF StatusOf, Commit
      <4>3. /\ Called.saved.commits[e].disputed
            /\ Called.saved.commits[e].blockHeight # 0
        BY <2>2 DEF FrameSound, Sound, RecordsSound
      <4>4. was(e) = "disputed"
        BY <2>2, <4>3 DEF StatusOf
      <4>5. QED
        BY <3>1, <4>2, <4>4 DEF Abstract!Edge
    <3>2. CASE c # e
      <4>1. is(c) = StatusOf(commits[c]) /\ was(c) = StatusOf(Called.saved.commits[c])
        BY <1>0, <2>1, <2>2, <3>2
      <4>2. Since(was(c), is(c), c)
        BY <2>2, <4>1 DEF FrameSound
      <4>3. QED
        BY <2>3, <4>2 DEF Since, Abstract!Edge
    <3>3. QED
      BY <3>1, <3>2
  <2>4. QED
    BY <1>1, <2>1, <2>3
<1>14. CASE ResolveInvalid
  <2> DEFINE e == Called.commitId
             w == Called.saved
  <2>1. /\ frames # << >> /\ Return /\ UNCHANGED block
        /\ commits' = [w.commits EXCEPT ![e] = NoCommit]
    BY <1>14 DEF ResolveInvalid, NotEntered
  <2>2. /\ e \in CommitId /\ FrameSound(Called) /\ w \in WorldType
        /\ Committed.commits = w.commits
        /\ Committed'.commits = commits'
    BY <1>12, <2>1
  <2>3. w.commits \in [CommitId -> Commit]
    BY <2>2 DEF WorldType
  <2>4. ASSUME NEW c \in CommitId, is(c) # was(c)
        PROVE  Abstract!Edge(c, was(c), is(c))
    <3>1. c = e
      BY <2>1, <2>2, <2>3, <2>4
    <3>2. is(e) = "absent"
      BY <2>1, <2>2, <2>3 DEF StatusOf, NoCommit
    <3>3. w.commits[e].disputed /\ w.commits[e].blockHeight # 0
      BY <2>2 DEF FrameSound, Sound, RecordsSound
    <3>4. was(e) = "disputed"
      BY <2>2, <3>3 DEF StatusOf
    <3>5. QED
      BY <3>1, <3>2, <3>4 DEF Abstract!Edge
  <2>5. QED
    BY <1>1, <2>1, <2>4
<1>15. CASE ResolveReverts
  <2>1. /\ frames # << >> /\ Return /\ UNCHANGED block
        /\ commits' = Called.saved.commits
    BY <1>15 DEF ResolveReverts, NotEntered
  <2>2. Committed'.commits = Committed.commits
    BY <1>12, <2>1
  <2>3. QED
    BY <1>2, <2>1, <2>2
<1>16. CASE \E sender \in Sender :
              \/ SubmitStateRoot(sender)
              \/ BatchSubmit(sender)
              \/ TokenCall(sender)
              \/ \E c \in CommitId :
                    \/ \E stake \in Stakes : Dispute(sender, c, stake)
                    \/ ResolveDispute(sender, c)
                    \/ Finalize(sender, c)
  BY <1>5, <1>8, <1>9, <1>10, <1>11, <1>16
  DEF Sender, SubmitStateRoot, BatchSubmit
<1>17. QED
  BY <1>3, <1>4, <1>13, <1>14, <1>15, <1>16 DEF Next

(* The contract, with its tokens, its stakes and its reentrant verifier,   *)
(* implements the life cycle of Settlement.                                *)
THEOREM Refinement == Spec => ImplementsSettlement
<1>1. Init => Abstract!Init
  BY DEF Init, Abstract!Init, Abstract!CommitId, CommitId, Height, Committed,
         NotEntered, World, StatusOf, NoCommit
<1>2. QED
  BY <1>1, Invariance, Committing, PTL DEF Spec, ImplementsSettlement,
     Abstract!Spec

----------------------------------------------------------------------------
(* The supply is capped now and in the state a revert goes back to.        *)
Capped ==
    /\ SupplyCapped
    /\ frames # << >> => frames[1].saved.totalSupply <= MAX_SUPPLY

(* No call of the token takes the supply above the cap.                    *)
LEMMA TokenCallCapped ==
    ASSUME TokenType, SupplyCapped, NEW sender, Token!Call(sender)
    PROVE  SupplyCapped'
<1> USE ArbiterAssumption DEF SupplyCapped, TokenType
<1>1. PICK amount \in Amounts :
        \/ \E to \in Address : Token!Transfer(sender, to, amount)
        \/ \E spender \in Spenders : Token!Approve(sender, spender, amount)
        \/ \E from, to \in Address :
              Token!TransferFrom(sender, from, to, amount)
        \/ Token!Burn(sender, amount)
        \/ \E holder \in Address : Token!BurnFrom(sender, holder, amount)
        \/ \E to \in Address : Token!Mint(sender, to, amount)
  BY DEF Token!Call
<1>2. amount \in Nat
  OBVIOUS
<1>3. CASE UNCHANGED totalSupply
  BY <1>3
<1>4. CASE totalSupply' = totalSupply - amount
  BY <1>2, <1>4
<1>5. CASE \E to \in Address : Token!Mint(sender, to, amount)
  BY <1>2, <1>5 DEF Token!Mint
<1>6. QED
  BY <1>1, <1>3, <1>4, <1>5
  DEF Token!Transfer, Token!Approve, Token!TransferFrom, Token!Burn,
      Token!BurnFrom, Token!Destroy

(* Every step; a revert goes back to a supply that was capped.             *)
LEMMA StepCapped ==
    ASSUME IInv, Capped, [Next]_vars
    PROVE  Capped'
<1>1. TypeOK /\ TokenType /\ Len(frames) <= 1
  BY Types DEF IInv
<1>2. CASE UNCHANGED <<totalSupply, frames>>
  BY <1>2 DEF Capped, SupplyCapped
<1>3. ASSUME NEW sender, TokenCall(sender) PROVE Capped'
  BY <1>1, <1>3, TokenCallCapped DEF TokenCall, Capped
<1>4. ASSUME NEW sender, NEW c \in CommitId, ResolveDispute(sender, c)
      PROVE  Capped'
  <2> DEFINE f == [commitId |-> c, saved |-> World]
  <2>1. /\ frames = << >> /\ frames' = Append(frames, f)
        /\ totalSupply' = totalSupply
    BY <1>4 DEF ResolveDispute, NotEntered, tokenVars
  <2>2. frames' = <<f>>
    BY <2>1
  <2>3. frames'[1].saved.totalSupply = totalSupply
    BY <2>2 DEF World
  <2>4. QED
    BY <2>1, <2>3 DEF Capped, SupplyCapped
<1>5. CASE ResolveValid
  <2>1. frames' = << >> /\ totalSupply' = totalSupply
    BY <1>1, <1>5, ReturnEmpties DEF ResolveValid, NotEntered, Token!Transfer
  <2>2. QED
    BY <2>1 DEF Capped, SupplyCapped
<1>6. CASE ResolveInvalid \/ ResolveReverts
  <2>1. /\ frames # << >> /\ Return
        /\ totalSupply' = Called.saved.totalSupply
    BY <1>6 DEF ResolveInvalid, ResolveReverts, NotEntered
  <2>2. frames' = << >> /\ Called = frames[1]
    BY <1>1, <2>1, ReturnEmpties
  <2>3. QED
    BY <2>1, <2>2 DEF Capped, SupplyCapped
<1>7. ASSUME NEW sender, NEW payloads, SubmitAll(sender, payloads)
      PROVE  UNCHANGED <<totalSupply, frames>>
  BY <1>7 DEF SubmitAll, tokenVars
<1>8. ASSUME NEW sender, NEW c \in CommitId, NEW stake,
             Dispute(sender, c, stake) \/ Finalize(sender, c)
      PROVE  UNCHANGED <<totalSupply, frames>>
  BY <1>8 DEF Dispute, Finalize, tokenVars, Token!TransferFrom
<1>9. CASE NextBlock \/ UNCHANGED vars
  BY <1>2, <1>9 DEF NextBlock, vars, tokenVars
<1>10. QED
  BY <1>2, <1>3, <1>4, <1>5, <1>6, <1>7, <1>8, <1>9
  DEF Next, SubmitStateRoot, BatchSubmit

(* mint() keeps the supply under its cap, whatever is rolled back.         *)
THEOREM SupplyStaysCapped == Spec => []SupplyCapped
<1>1. Init => Capped
  BY ArbiterAssumption DEF Init, Token!Init, Capped, SupplyCapped
<1>2. IInv /\ Capped /\ [Next]_vars => Capped'
  BY StepCapped
<1>3. Capped => SupplyCapped
  BY DEF Capped
<1>4. QED
  BY <1>1, <1>2, <1>3, Invariance, PTL DEF Spec

============================================================================
