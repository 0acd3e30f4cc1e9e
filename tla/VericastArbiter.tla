-------------------------- MODULE VericastArbiter --------------------------
(***************************************************************************)
(* The settlement contract (contracts/VericastArbiter.sol) together with   *)
(* the VERI token it escrows.                                              *)
(*                                                                         *)
(* Every action is one call that succeeds; a call that reverts leaves no   *)
(* trace and is a disabled action.  The one call that is not atomic is     *)
(* resolveDispute: it hands control to zkVerifier by a low-level call, and *)
(* whatever the verifier does to the arbiter or the token before it        *)
(* returns happens in the middle of resolveDispute.  `frames` is the stack *)
(* of resolveDispute calls under way, each with the state to return to if  *)
(* the verifier (or the whole transaction) reverts; the ReentrancyGuard    *)
(* is held exactly while it is not empty.                                  *)
(*                                                                         *)
(* A commitId is the hash of streamId, key, stateRoot and block.number; it *)
(* is modelled by the pair <<payload, height>>, one payload per (streamId, *)
(* key, stateRoot).  teeSeal, proofHash and stateRoot are stored and never *)
(* read by a decision, so they are left out.                               *)
(***************************************************************************)
EXTENDS Integers, Sequences, FiniteSets

CONSTANTS
    User,           \* accounts that call the contracts
    Arbiter,        \* the arbiter's own token account
    Dead,           \* 0x...dEaD
    Verifier,       \* zkVerifier
    NoOne,          \* address(0)
    Owner, Spenders, Amounts, MAX_SUPPLY, INITIAL_MINT, Unlimited,  \* of VERI
    Payload,        \* the (streamId, key, stateRoot) triples submitted
    Stakes,         \* bound: the stakes disputes are opened with
    DISPUTE_WINDOW,
    MIN_STAKE,
    UINT32,         \* 2^32: disputeEnd is cast to uint32
    MaxBlock,       \* bound: the last block modelled
    MaxCommits      \* bound: the submissions modelled

Address == User \cup {Arbiter, Dead, Verifier}
Height == 1 .. MaxBlock
CommitId == Payload \X Height

ASSUME ArbiterAssumption ==
    /\ Arbiter # Dead /\ {Arbiter, Dead} \cap (User \cup {Verifier}) = {}
    /\ NoOne \notin Address
    /\ Owner \in User /\ Spenders \subseteq Address
    /\ Amounts \subseteq Nat /\ Stakes \subseteq Nat
    /\ MAX_SUPPLY \in Nat /\ INITIAL_MINT \in 0 .. MAX_SUPPLY
    /\ Unlimited \in Nat /\ MAX_SUPPLY < Unlimited
    /\ DISPUTE_WINDOW \in Nat \ {0}
    /\ MIN_STAKE \in Nat \ {0}
    /\ MaxBlock \in Nat \ {0}
    /\ MaxCommits \in Nat
    /\ IsFiniteSet(Payload)

(* No block number modelled comes within DISPUTE_WINDOW of 2^32.           *)
ASSUME NoWrapAssumption == UINT32 \in Nat /\ MaxBlock + DISPUTE_WINDOW < UINT32

VARIABLES
    balanceOf, allowance, totalSupply,  \* the token
    commits,       \* _commits
    sequencers,
    challengers,
    commitCount,
    staked,        \* the stake in the last DisputeOpened event of a commit
    block,         \* block.number
    frames         \* the resolveDispute calls waiting for the verifier

arbiterVars == <<commits, sequencers, challengers, commitCount, staked>>
tokenVars == <<balanceOf, allowance, totalSupply>>
vars == <<tokenVars, arbiterVars, block, frames>>

Token == INSTANCE VERI

(* A commit is absent exactly when its blockHeight is 0.                   *)
NoCommit == [blockHeight |-> 0, disputeEnd |-> 0,
             disputed |-> FALSE, finalized |-> FALSE]

(* A commit was submitted at a block there has been, and its deadline is   *)
(* no more than DISPUTE_WINDOW blocks after the last one.                  *)
Commit == [blockHeight : 0 .. MaxBlock,
           disputeEnd : 0 .. MaxBlock + DISPUTE_WINDOW,
           disputed : BOOLEAN, finalized : BOOLEAN]

Exists(c) == commits[c].blockHeight # 0

(* Everything a revert restores.                                           *)
World == [commits |-> commits, sequencers |-> sequencers,
          challengers |-> challengers, commitCount |-> commitCount,
          staked |-> staked, balanceOf |-> balanceOf,
          allowance |-> allowance, totalSupply |-> totalSupply]

WorldType == [commits : [CommitId -> Commit],
              sequencers : [CommitId -> Address \cup {NoOne}],
              challengers : [CommitId -> Address \cup {NoOne}],
              commitCount : Nat,
              staked : [CommitId -> Nat],
              balanceOf : [Address -> Nat],
              allowance : [Address -> [Address -> Nat]],
              totalSupply : Int]

TypeOK ==
    /\ World \in WorldType
    /\ block \in Height
    /\ frames \in Seq([commitId : CommitId, saved : WorldType])

Init ==
    /\ Token!Init
    /\ commits = [c \in CommitId |-> NoCommit]
    /\ sequencers = [c \in CommitId |-> NoOne]
    /\ challengers = [c \in CommitId |-> NoOne]
    /\ commitCount = 0
    /\ staked = [c \in CommitId |-> 0]
    /\ block = 1
    /\ frames = << >>

(* nonReentrant: no guarded function is being executed.                    *)
NotEntered == frames = << >>

(* While the verifier runs, it is the only account that sends calls.       *)
Sender == IF NotEntered THEN User ELSE {Verifier}

----------------------------------------------------------------------------
(* submitStateRoot is SubmitAll of one payload, batchSubmit of several.    *)
(* The loop of batchSubmit reverts as a whole when one of its submissions  *)
(* exists already, so a batch that succeeds has no payload twice and its   *)
(* order leaves no trace: it is a set.                                     *)

(* Mutant: the CommitAlreadyExists check is dropped.                       *)
SubmitAll_Overwrites(sender, payloads) ==
    LET new == {<<p, block>> : p \in payloads}
    IN  /\ commits' = [c \in CommitId |->
                         IF c \in new
                         THEN [blockHeight |-> block,
                               disputeEnd |-> (block + DISPUTE_WINDOW) % UINT32,
                               disputed |-> FALSE, finalized |-> FALSE]
                         ELSE commits[c]]
        /\ sequencers' = [c \in CommitId |->
                            IF c \in new THEN sender ELSE sequencers[c]]
        /\ commitCount + Cardinality(payloads) <= MaxCommits
        /\ commitCount' = commitCount + Cardinality(payloads)
        /\ UNCHANGED <<tokenVars, challengers, staked, block, frames>>

(* Mutant: the deadline is set by STAKE_LOCK, twice DISPUTE_WINDOW, which  *)
(* is declared beside it.                                                  *)
SubmitAll_StakeLock(sender, payloads) ==
    LET new == {<<p, block>> : p \in payloads}
    IN  /\ \A c \in new : ~Exists(c)
        /\ commits' = [c \in CommitId |->
                         IF c \in new
                         THEN [blockHeight |-> block,
                               disputeEnd |-> (block + 2 * DISPUTE_WINDOW) % UINT32,
                               disputed |-> FALSE, finalized |-> FALSE]
                         ELSE commits[c]]
        /\ sequencers' = [c \in CommitId |->
                            IF c \in new THEN sender ELSE sequencers[c]]
        /\ commitCount + Cardinality(payloads) <= MaxCommits
        /\ commitCount' = commitCount + Cardinality(payloads)
        /\ UNCHANGED <<tokenVars, challengers, staked, block, frames>>

SubmitAll(sender, payloads) ==
    LET new == {<<p, block>> : p \in payloads}
    IN  /\ \A c \in new : ~Exists(c)
        /\ commits' = [c \in CommitId |->
                         IF c \in new
                         THEN [blockHeight |-> block,
                               disputeEnd |-> (block + DISPUTE_WINDOW) % UINT32,
                               disputed |-> FALSE, finalized |-> FALSE]
                         ELSE commits[c]]
        /\ sequencers' = [c \in CommitId |->
                            IF c \in new THEN sender ELSE sequencers[c]]
        /\ commitCount + Cardinality(payloads) <= MaxCommits
        /\ commitCount' = commitCount + Cardinality(payloads)
        /\ UNCHANGED <<tokenVars, challengers, staked, block, frames>>

SubmitStateRoot(sender) == \E p \in Payload : SubmitAll(sender, {p})

BatchSubmit(sender) == \E batch \in SUBSET Payload : SubmitAll(sender, batch)

----------------------------------------------------------------------------
(* Mutant: a finalized commit can be disputed.                             *)
Dispute_Finalized(sender, c, stake) ==
    /\ NotEntered
    /\ Exists(c) /\ ~commits[c].disputed
    /\ MIN_STAKE <= stake
    /\ Token!TransferFrom(Arbiter, sender, Arbiter, stake)
    /\ commits' = [commits EXCEPT ![c].disputed = TRUE]
    /\ challengers' = [challengers EXCEPT ![c] = sender]
    /\ staked' = [staked EXCEPT ![c] = stake]
    /\ UNCHANGED <<sequencers, commitCount, block, frames>>

(* dispute() does not look at disputeEnd: a commit whose window is over    *)
(* can be disputed until somebody finalizes it.                            *)
Dispute(sender, c, stake) ==
    /\ NotEntered
    /\ Exists(c) /\ ~commits[c].finalized /\ ~commits[c].disputed
    /\ MIN_STAKE <= stake
    /\ Token!TransferFrom(Arbiter, sender, Arbiter, stake)
    /\ commits' = [commits EXCEPT ![c].disputed = TRUE]
    /\ challengers' = [challengers EXCEPT ![c] = sender]
    /\ staked' = [staked EXCEPT ![c] = stake]
    /\ UNCHANGED <<sequencers, commitCount, block, frames>>

----------------------------------------------------------------------------
(* resolveDispute, up to the low-level call of the verifier.               *)

(* Mutant: the function is not nonReentrant.                               *)
ResolveDispute_Reentrant(sender, c) ==
    /\ Exists(c) /\ commits[c].disputed
    /\ frames' = Append(frames, [commitId |-> c, saved |-> World])
    /\ UNCHANGED <<tokenVars, arbiterVars, block>>

ResolveDispute(sender, c) ==
    /\ NotEntered
    /\ Exists(c) /\ commits[c].disputed
    /\ frames' = Append(frames, [commitId |-> c, saved |-> World])
    /\ UNCHANGED <<tokenVars, arbiterVars, block>>

Called == frames[Len(frames)]
Return == frames' = SubSeq(frames, 1, Len(frames) - 1)

(* The verifier returned: the submission was valid and MIN_STAKE of the    *)
(* challenger's stake goes to the dead address.  What the verifier did     *)
(* stands.  The challenger stays recorded.                                 *)
ResolveValid ==
    LET c == Called.commitId
    IN  /\ ~NotEntered
        /\ Token!Transfer(Arbiter, Dead, MIN_STAKE)
        /\ commits' = [commits EXCEPT ![c].disputed = FALSE]
        /\ Return
        /\ UNCHANGED <<sequencers, challengers, commitCount, staked, block>>

(* Mutant: the challenger is left recorded with the deleted commit.        *)
ResolveInvalid_KeepsChallenger ==
    LET c == Called.commitId
        w == Called.saved
    IN  /\ ~NotEntered
        /\ MIN_STAKE <= w.balanceOf[Arbiter]
        /\ balanceOf' = [w.balanceOf EXCEPT ![Arbiter] = @ - MIN_STAKE,
                                            ![w.challengers[c]] = @ + MIN_STAKE]
        /\ allowance' = w.allowance /\ totalSupply' = w.totalSupply
        /\ commits' = [w.commits EXCEPT ![c] = NoCommit]
        /\ sequencers' = [w.sequencers EXCEPT ![c] = NoOne]
        /\ challengers' = w.challengers
        /\ commitCount' = w.commitCount /\ staked' = w.staked
        /\ Return
        /\ UNCHANGED block

(* The verifier reverted: what it did is undone, MIN_STAKE goes back to    *)
(* the challenger and the commit is deleted.                               *)
ResolveInvalid ==
    LET c == Called.commitId
        w == Called.saved
    IN  /\ ~NotEntered
        /\ MIN_STAKE <= w.balanceOf[Arbiter]
        /\ balanceOf' = [w.balanceOf EXCEPT ![Arbiter] = @ - MIN_STAKE,
                                            ![w.challengers[c]] = @ + MIN_STAKE]
        /\ allowance' = w.allowance /\ totalSupply' = w.totalSupply
        /\ commits' = [w.commits EXCEPT ![c] = NoCommit]
        /\ sequencers' = [w.sequencers EXCEPT ![c] = NoOne]
        /\ challengers' = [w.challengers EXCEPT ![c] = NoOne]
        /\ commitCount' = w.commitCount /\ staked' = w.staked
        /\ Return
        /\ UNCHANGED block

(* The transaction itself fails after the verifier was called (gas, or a   *)
(* token transfer that reverts): the whole of resolveDispute is undone.    *)
ResolveReverts ==
    LET w == Called.saved
    IN  /\ ~NotEntered
        /\ balanceOf' = w.balanceOf /\ allowance' = w.allowance
        /\ totalSupply' = w.totalSupply
        /\ commits' = w.commits /\ sequencers' = w.sequencers
        /\ challengers' = w.challengers /\ commitCount' = w.commitCount
        /\ staked' = w.staked
        /\ Return
        /\ UNCHANGED block

----------------------------------------------------------------------------
(* Mutant: the window is not waited for.                                   *)
Finalize_Early(sender, c) ==
    /\ Exists(c) /\ ~commits[c].finalized /\ ~commits[c].disputed
    /\ commits' = [commits EXCEPT ![c].finalized = TRUE]
    /\ UNCHANGED <<tokenVars, sequencers, challengers, commitCount, staked,
                   block, frames>>

Finalize(sender, c) ==
    /\ Exists(c) /\ ~commits[c].finalized /\ ~commits[c].disputed
    /\ commits[c].disputeEnd <= block
    /\ commits' = [commits EXCEPT ![c].finalized = TRUE]
    /\ UNCHANGED <<tokenVars, sequencers, challengers, commitCount, staked,
                   block, frames>>

(* Token calls made directly.                                              *)
TokenCall(sender) ==
    /\ Token!Call(sender)
    /\ UNCHANGED <<arbiterVars, block, frames>>

NextBlock ==
    /\ NotEntered
    /\ block < MaxBlock
    /\ block' = block + 1
    /\ UNCHANGED <<tokenVars, arbiterVars, frames>>

Next ==
    \/ \E sender \in Sender :
          \/ SubmitStateRoot(sender)
          \/ BatchSubmit(sender)
          \/ TokenCall(sender)
          \/ \E c \in CommitId :
                \/ \E stake \in Stakes : Dispute(sender, c, stake)
                \/ ResolveDispute(sender, c)
                \/ Finalize(sender, c)
    \/ ResolveValid \/ ResolveInvalid \/ ResolveReverts
    \/ NextBlock

Spec == Init /\ [][Next]_vars

----------------------------------------------------------------------------
(* The state outside of any resolveDispute under way: what the chain shows *)
(* once the current transaction has ended, if it ends by reverting.        *)
Committed == IF NotEntered THEN World ELSE frames[1].saved

DisputedCommits(w) == {c \in CommitId : w.commits[c].disputed}

(* The arbiter holds MIN_STAKE for every open dispute, so that no          *)
(* resolveDispute fails for want of tokens: a dispute is paid out once,    *)
(* also when the verifier calls back into the arbiter while it is being    *)
(* resolved.                                                               *)
Covered(w) ==
    MIN_STAKE * Cardinality(DisputedCommits(w)) <= w.balanceOf[Arbiter]

Solvent == Covered(World) /\ Covered(Committed)

(* finalize() comes only after DISPUTE_WINDOW blocks and only for a commit *)
(* without an open dispute, and dispute() never opens one on a finalized   *)
(* commit.                                                                 *)
FinalizedAfterWindow ==
    \A c \in CommitId :
        commits[c].finalized =>
            /\ commits[c].blockHeight + DISPUTE_WINDOW <= block
            /\ ~commits[c].disputed

(* The three mappings tell one story: a commit has a sequencer exactly as  *)
(* long as it exists, an open dispute has a challenger to refund, and a    *)
(* deleted commit leaves no challenger behind to be refunded for another.  *)
RecordsAgree ==
    \A c \in CommitId :
        /\ Exists(c) <=> sequencers[c] # NoOne
        /\ commits[c].disputed => Exists(c) /\ challengers[c] # NoOne
        /\ challengers[c] # NoOne => Exists(c)

(* While a commit exists nobody replaces it: its sequencer, its height and *)
(* its deadline stay those of the first submission, and an open dispute is *)
(* not reset by another submission in the same block.                      *)
CommitIsImmutable ==
    [][\A c \in CommitId :
          Exists(c) /\ Exists(c)' =>
              /\ sequencers'[c] = sequencers[c]
              /\ commits'[c].blockHeight = commits[c].blockHeight
              /\ commits'[c].disputeEnd = commits[c].disputeEnd
              /\ commits[c].disputed /\ ~commits'[c].disputed =>
                    ~NotEntered]_vars

(* mint() never takes the supply above MAX_SUPPLY, in whatever order mints *)
(* and burns come, and whatever a verifier mints or burns before its call  *)
(* is undone.                                                              *)
SupplyCapped == totalSupply <= MAX_SUPPLY

----------------------------------------------------------------------------
(* The abstract life cycle, read off the committed state: a resolveDispute *)
(* is one transaction however much its verifier does in the middle of it.  *)
StatusOf(commit) ==
    CASE commit.blockHeight = 0 -> "absent"
      [] commit.blockHeight # 0 /\ commit.disputed -> "disputed"
      [] commit.blockHeight # 0 /\ ~commit.disputed /\ commit.finalized
            -> "finalized"
      [] OTHER -> "pending"

Abstract == INSTANCE Settlement
    WITH status <- [c \in CommitId |-> StatusOf(Committed.commits[c])],
         now <- block

(* The contract implements the life cycle of Settlement: whatever the      *)
(* verifier does, what the chain shows after a transaction is one edge     *)
(* further for the commits it touched and nothing else.                    *)
ImplementsSettlement == Abstract!Spec

----------------------------------------------------------------------------
Resolved(c) == frames # << >> /\ Called.commitId = c /\ NotEntered'
Upheld(c) == Resolved(c) /\ commits[c].disputed /\ ~Exists(c)'

(* What the comment in resolveDispute says of an upheld dispute ("refund   *)
(* challenger"): the challenger gets back the stake it put down.  The code *)
(* returns MIN_STAKE of it.                                                *)
ChallengerRefunded ==
    [][\A c \in CommitId :
          Upheld(c) =>
              LET w == Called.saved
                  who == w.challengers[c]
              IN  balanceOf'[who] = w.balanceOf[who] + w.staked[c]]_vars
============================================================================
