-------------------------- MODULE VericastAgentID --------------------------
(***************************************************************************)
(* The agent identities (contracts/VericastAgentID.sol), an ERC721 whose   *)
(* tokens carry a type, a memory root and usage authorizations.            *)
(*                                                                         *)
(* mintAgent and cloneAgent call _safeMint before they write the token's   *)
(* data, and _safeMint calls onERC721Received of a recipient that is a     *)
(* contract.  Between the two halves the recipient owns a token without    *)
(* data and can call every function of the contract, mintAgent and         *)
(* cloneAgent included.  `pending` is the stack of mints that have given   *)
(* out their token and not yet written its data.                           *)
(*                                                                         *)
(* A recipient that rejects its token undoes the whole mint, which leaves  *)
(* the state the mint began in: no action is needed for it.                *)
(* encryptedMetadata is written at the same places as memoryRoots with     *)
(* opaque bytes, and is left out.                                          *)
(***************************************************************************)
EXTENDS Naturals, Sequences

CONSTANTS
    User,          \* accounts without code
    Contract,      \* accounts whose onERC721Received can call back
    NoOne,         \* address(0)
    Root,          \* memory roots given to mintAgent and updateMemory
    NoRoot,        \* bytes32(0)
    MAX_SUPPLY,
    MaxDepth       \* bound: how deep mints are nested

Address == User \cup Contract
AgentType == 0 .. 2
TokenId == 1 .. MAX_SUPPLY

ASSUME AgentAssumption ==
    /\ NoOne \notin Address
    /\ NoRoot \notin Root
    /\ MAX_SUPPLY \in Nat
    /\ MaxDepth \in Nat \ {0}

VARIABLES
    nextTokenId,       \* _nextTokenId
    ownerOf,           \* ERC721's owner of each token, or NoOne
    memoryRoots,
    agentTypes,
    usageAuthorized,   \* the accounts authorized for each token
    pending,           \* mints that wait for onERC721Received to return
    source             \* the sourceId of each token's AgentCloned event, or 0

vars == <<nextTokenId, ownerOf, memoryRoots, agentTypes, usageAuthorized,
          pending, source>>

(* A mint in progress: a plain one has a type, a clone a source.           *)
Mint == [tokenId : TokenId, to : Address, root : Root,
         type : AgentType, source : TokenId \cup {0}]

TypeOK ==
    /\ nextTokenId \in 1 .. MAX_SUPPLY + 1
    /\ ownerOf \in [TokenId -> Address \cup {NoOne}]
    /\ memoryRoots \in [TokenId -> Root \cup {NoRoot}]
    /\ agentTypes \in [TokenId -> AgentType]
    /\ usageAuthorized \in [TokenId -> SUBSET Address]
    /\ pending \in Seq(Mint) /\ Len(pending) <= MaxDepth
    /\ source \in [TokenId -> TokenId \cup {0}]

Init ==
    /\ nextTokenId = 1
    /\ ownerOf = [t \in TokenId |-> NoOne]
    /\ memoryRoots = [t \in TokenId |-> NoRoot]
    /\ agentTypes = [t \in TokenId |-> 0]
    /\ usageAuthorized = [t \in TokenId |-> {}]
    /\ pending = << >>
    /\ source = [t \in TokenId |-> 0]

Exists(t) == ownerOf[t] # NoOne
Top == pending[Len(pending)]

(* Inside a callback only accounts with code can call, and only if the     *)
(* recipient of the innermost mint is one.                                 *)
Sender ==
    CASE pending = << >> -> Address
      [] pending # << >> /\ Top.to \in Contract -> Contract
      [] OTHER -> {}

----------------------------------------------------------------------------
(* The first half of mintAgent and cloneAgent: the token is numbered and   *)
(* given out.  A recipient without code is minted to without a callback,   *)
(* which is the same as one that makes no call.                            *)

(* Mutant: the supply is checked as if the counter started at 0.           *)
BeginMint_OffByOne(mint) ==
    /\ nextTokenId <= MAX_SUPPLY + 1
    /\ Len(pending) < MaxDepth
    /\ nextTokenId' = nextTokenId + 1
    /\ ownerOf' = [ownerOf EXCEPT ![mint.tokenId] = mint.to]
    /\ pending' = Append(pending, mint)
    /\ UNCHANGED <<memoryRoots, agentTypes, usageAuthorized, source>>

(* Mutant: the counter is advanced only when the data is written.          *)
BeginMint_LateCounter(mint) ==
    /\ nextTokenId <= MAX_SUPPLY
    /\ Len(pending) < MaxDepth
    /\ UNCHANGED nextTokenId
    /\ ownerOf' = [ownerOf EXCEPT ![mint.tokenId] = mint.to]
    /\ pending' = Append(pending, mint)
    /\ UNCHANGED <<memoryRoots, agentTypes, usageAuthorized, source>>

BeginMint(mint) ==
    /\ nextTokenId <= MAX_SUPPLY
    /\ Len(pending) < MaxDepth
    /\ nextTokenId' = nextTokenId + 1
    /\ ownerOf' = [ownerOf EXCEPT ![mint.tokenId] = mint.to]
    /\ pending' = Append(pending, mint)
    /\ UNCHANGED <<memoryRoots, agentTypes, usageAuthorized, source>>

MintAgent(sender, root, type) ==
    BeginMint([tokenId |-> nextTokenId, to |-> sender, root |-> root,
               type |-> type, source |-> 0])

CloneAgent(sender, t, root) ==
    /\ Exists(t)
    /\ BeginMint([tokenId |-> nextTokenId, to |-> sender, root |-> root,
                  type |-> 0, source |-> t])

(* The second half: the recipient has accepted the token and its data is   *)
(* written, whatever the recipient did with it meanwhile.  A clone takes   *)
(* the type its source has now.                                            *)

(* Mutant: the data goes to the token numbered last.                       *)
FinishMint_LastId ==
    LET m == Top
        t == nextTokenId - 1
    IN  /\ pending # << >>
        /\ pending' = SubSeq(pending, 1, Len(pending) - 1)
        /\ memoryRoots' = [memoryRoots EXCEPT ![t] = m.root]
        /\ agentTypes' = [agentTypes EXCEPT ![t] =
                             IF m.source = 0 THEN m.type ELSE agentTypes[m.source]]
        /\ source' = [source EXCEPT ![t] = m.source]
        /\ UNCHANGED <<nextTokenId, ownerOf, usageAuthorized>>

FinishMint ==
    LET m == Top
    IN  /\ pending # << >>
        /\ pending' = SubSeq(pending, 1, Len(pending) - 1)
        /\ memoryRoots' = [memoryRoots EXCEPT ![m.tokenId] = m.root]
        /\ agentTypes' = [agentTypes EXCEPT ![m.tokenId] =
                             IF m.source = 0 THEN m.type ELSE agentTypes[m.source]]
        /\ source' = [source EXCEPT ![m.tokenId] = m.source]
        /\ UNCHANGED <<nextTokenId, ownerOf, usageAuthorized>>

----------------------------------------------------------------------------
(* Mutant: the memory of a token that does not exist can be written.       *)
UpdateMemory_Unchecked(sender, t, root) ==
    /\ ownerOf[t] \in {sender, NoOne} \/ sender \in usageAuthorized[t]
    /\ memoryRoots' = [memoryRoots EXCEPT ![t] = root]
    /\ UNCHANGED <<nextTokenId, ownerOf, agentTypes, usageAuthorized, pending,
                   source>>

UpdateMemory(sender, t, root) ==
    /\ Exists(t)
    /\ ownerOf[t] = sender \/ sender \in usageAuthorized[t]
    /\ memoryRoots' = [memoryRoots EXCEPT ![t] = root]
    /\ UNCHANGED <<nextTokenId, ownerOf, agentTypes, usageAuthorized, pending,
                   source>>

(* authorizeUsage is a toggle: a second call takes the authorization back. *)
AuthorizeUsage(sender, t, user) ==
    /\ ownerOf[t] = sender
    /\ usageAuthorized' = [usageAuthorized EXCEPT ![t] =
                              IF user \in @ THEN @ \ {user} ELSE @ \cup {user}]
    /\ UNCHANGED <<nextTokenId, ownerOf, memoryRoots, agentTypes, pending,
                   source>>

(* ERC721's transferFrom by the owner.  The authorizations stay.           *)
TransferFrom(sender, t, to) ==
    /\ ownerOf[t] = sender
    /\ ownerOf' = [ownerOf EXCEPT ![t] = to]
    /\ UNCHANGED <<nextTokenId, memoryRoots, agentTypes, usageAuthorized,
                   pending, source>>

Next ==
    \/ \E sender \in Sender :
          \/ \E root \in Root, type \in AgentType : MintAgent(sender, root, type)
          \/ \E t \in TokenId, root \in Root :
                CloneAgent(sender, t, root) \/ UpdateMemory(sender, t, root)
          \/ \E t \in TokenId, a \in Address :
                AuthorizeUsage(sender, t, a) \/ TransferFrom(sender, t, a)
    \/ FinishMint

Spec == Init /\ [][Next]_vars

----------------------------------------------------------------------------
Unfinished == {pending[i].tokenId : i \in 1 .. Len(pending)}

(* Token ids are given out once: the tokens that exist are those below the *)
(* counter, however mints are nested, and each unfinished mint writes a    *)
(* token of its own.                                                       *)
IdsAreUnique ==
    /\ \A t \in TokenId : Exists(t) <=> t < nextTokenId
    /\ \A i, j \in 1 .. Len(pending) :
          i < j => pending[i].tokenId < pending[j].tokenId

(* Once its mint has returned, the type of an agent is settled: no other   *)
(* mint, clone or callback writes it.                                      *)
TypeIsSettled ==
    [][\A t \in TokenId :
          Exists(t) /\ t \notin Unfinished => agentTypes'[t] = agentTypes[t]]_vars

(* Every agent whose mint has returned has its data, however the mints of  *)
(* others are nested in its own, and no token has any before it is minted. *)
DataComplete ==
    \A t \in TokenId :
        /\ Exists(t) /\ t \notin Unfinished => memoryRoots[t] # NoRoot
        /\ ~Exists(t) => memoryRoots[t] = NoRoot
=============================================================================
