# Vericast: a verification project

Vericast takes inputs (sensor readings, game ticks, social feeds), anchors them in
0G storage, has a TEE infer on them, keeps the result in a key-value store and
settles a state root on a chain, where it can be disputed and becomes final after a
window. This directory holds TLA+ models of that system, read off its source; TLC
configurations that check them on small instances; and proofs that TLAPS checks, for every
value of the constants, of most of what these runs check.

`PROJECT.json` maps every definition to the lines it models, every property to the
run that checks it and to a mutant of the code that the property catches, and lists
the hazards of the code and which properties are for them.

## 1. The system

```
   main.py, daemons.py                         contracts/
   ┌────────────────────────────┐   submitStateRoot   ┌────────────────┐  resolve   ┌────────────┐
   │ streams: depin game social │────────────────────▶│ VericastArbiter│───────────▶│ zkVerifier │
   │ EventStreamer ──/stream──▶ useSSE (pages)        └───────┬────────┘◀╌callback╌╌└────────────┘
   └─┬────────┬────────┬────────┘                             │
     │DA      │TEE     │KV                          stake │ burn
     ▼        ▼        ▼                                  ▼
  Indexer  tee_client  kv_client                        VERI          VericastAgentID
     │      tee_broker (cache,
     ▼                  idempotency)
  Uploader ── node selector, file, merkle ──▶ Flow contract, storage nodes ◀── Downloader
```

| Part | State it keeps | Operations | Modelled by |
|---|---|---|---|
| `contracts/VericastArbiter.sol` | `_commits`, `sequencers`, `challengers`, the tokens it escrows | submit, batch submit, dispute, resolve, finalize | `VericastArbiter`, promise in `Settlement`, proofs in `VericastArbiterProofs` |
| `contracts/VERI.sol` | balances, allowances, supply | mint; OpenZeppelin's transfer, approve, transferFrom, burn, burnFrom | `VERI` |
| `contracts/VericastAgentID.sol` | owner, type, memory root, clone source, authorizations, next id | mint, clone, update, authorize, transfer, with the recipient's callback | `VericastAgentID`, proofs in `VericastAgentIDProofs` |
| `backend/streams/*`, `daemons.py`, `main.py` | one coroutine per endpoint or daemon, all on one event loop | `process_weather`, `process_tick`, `audit_feed` | `Pipelines`, proofs in `BackendProofs` |
| `da_client.py`, `tee_client.py`, `chain_client.py` | attempts, the account's nonce; the mempool and the chain | `upload_blob`, `infer`, `submit_state_root` | `Pipelines` |
| `kv_client.py` | `_cache`, `_idempotency_set`, both lost with the process | `put`, `get` | `KVClient`, inside `Pipelines` |
| `tee_broker.py` | the token, if it got one | `initialize` | `Tokens`, `hasToken` of `Pipelines` |
| `daemons.py` (`EventStreamer` and the loops), `/stream` | a queue for each connection | `broadcast`, `event_generator`, what the daemons broadcast | `EventStream`, with the pipelines in `Backend`, proofs in `EventStreamProofs` and `BackendProofs` |
| `frontend/hooks/useSSE.ts` | connection, retry timer, log lines, latest updates | connect, the listeners, `onerror`, leaving the page | `EventStream`, promise in `Feed` |
| storage SDK `file.py`, `merkle.py`, `file_utils.py` | a file's iterator, tree, submission | iterate, pad, `merkle_tree`, `create_submission`, `split`, proofs | `StorageFile`, `Merkle`, proofs in `FileProofs` |
| storage SDK `node_selector.py` | the segment tree and its lazy tags | `insert`, `select_nodes`, `check_replica` | `NodeSelector` |
| storage SDK `indexer.py`, `uploader.py`, `flow.py` | one upload's nodes, tasks and results; the nodes' segments | `upload`, `upload_file`, `splitable_upload` | `Uploader`, proofs in `UploaderProofs` |
| storage SDK `downloader.py` | output and temporary files | `download_file`, `download_fragments` | `Downloader`, proofs in `FileProofs` |
| storage SDK `core/kv/*`, `storage_kv.py` | a stream's writes, an iterator's pair, a value read so far | `set`, `exec`, `get_value`, seek, next, prev | `KvStream`, proofs in `KvStreamProofs` |
| pages and wallet of the frontend, scripts, deployment | presentation | | not modelled (section 7) |

How they meet: the pipelines call the clients and share the hot state, the event
loop and the account; `Indexer.upload` runs inside `upload_blob` and holds the loop
from beginning to end; the daemons broadcast what they begin and what came of it, and
the generators that send it to the pages need the same loop; the arbiter calls the token inside its own transactions and
hands control to the verifier in the middle of one; uploader and downloader meet
only in the storage nodes and the file format; the `Batcher` of a KV stream uploads
like any file, and its readers ask a KV node that replays what was uploaded. The
backend itself does not reach the KV streams (`kv_client.py` always falls back).

### What is hard in it

* **A call in the middle of a transaction.** `resolveDispute` calls `zkVerifier`
  before it clears the dispute (VericastArbiter.sol:131) and finds out by a boolean
  whether it worked; `_safeMint` calls the recipient before the agent's data is
  written (VericastAgentID.sol:68).
* **Coroutines on one loop** whose blocking calls let the chain go on but nobody
  else, and that send from one account with `get_transaction_count` as the nonce;
  a submission whose receipt does not come in time stays in the mempool and
  competes with the next one.
* **A stream over connections that break**, at each side's own time, with messages
  queued for a page that has gone and a page that has to come back by itself.
* **State that outlives or does not outlive a process**: the idempotency set and
  the cache go together, the chain and the storage network stay.
* **A network that is out of date**: shard configs read from the indexer, then from
  the nodes; answers that come after the write they report, or never.
* **Values read in pieces** while batches arrive that write them again.
* **Files shared by processes**: temporary files named after a root only, outputs
  left behind by calls that failed.
* **Arithmetic at boundaries**: chunk, segment, padding and submission node sizes,
  segment indices in the log against indices in the file, MAX_SUPPLY.

`PROJECT.json` has the full list, at the lines where they bite.

## 2. The modules and the code

Common to all of them: one action is one stretch of the program that nothing else
can interleave with (a transaction, a coroutine between two points where it gives up
the loop, a call between two answers of the network). What reverts or raises without
an effect is a disabled action or an action that only ends the call. History variables
(`puts`, `started`, `history`, `staked`, `source`, `overlapped`) record events the code logs or
emits and are read by no guard.

### `VERI`, `VericastArbiter`, `Settlement`

`VericastArbiter` is the arbiter and the token it escrows (`Token == INSTANCE VERI`);
`VERI` has the token's calls and no behaviour of its own.
A `commitId`, in the code the hash of the payload's fields and `block.number`, is the
pair of payload and height. `blockHeight # 0` is the code's existence test. The
actions are the external functions: `SubmitStateRoot` and `BatchSubmit` (a set:
a batch with a repetition reverts), `Dispute`, `ResolveDispute`, `Finalize`,
`TokenCall` (any call of the token), and `NextBlock`.

`resolveDispute` is the only call that is not atomic. `ResolveDispute` is its part up
to the low-level call and pushes a frame: the dispute being resolved and the state
before the call. While a frame is there only the verifier acts, and may call whatever
is not `nonReentrant`: submit, finalize, the token. Then one of

* `ResolveValid`: the verifier returned; what it did stands, `MIN_STAKE` is burnt;
* `ResolveInvalid`: it reverted; what *it* did is undone, the commit deleted, and
  `MIN_STAKE` returned;
* `ResolveReverts`: the whole transaction reverts.

`Settlement` is the abstract specification: a commit is absent, pending, disputed or
finalized, and one transaction takes each commit along at most one edge. The refinement
mapping reads the *committed* state (`Committed`: the saved state of the first frame if
there is one), so that a `resolveDispute` with everything its verifier does is one step.

### `VericastAgentID`

`_safeMint` calls the recipient after it has numbered and given out the token and
before the contract writes type and memory. `BeginMint` is the half before, `FinishMint`
the half after; `pending` is the stack of mints in between, in which contracts may mint,
clone, transfer and update again.

### `KVClient`, `Pipelines`

A task is an endpoint or a daemon; `co[t]` is its coroutine: the stage it is at and its
locals. `loop` is the task that holds the event loop. The stages named `Blocking` keep
it; `Await` gives it up, which the code does only in `asyncio.sleep` and in the HTTP
calls of `fetch_weather` (if there is a key: `WeatherKey`) and of `infer`. One action per
network call: `Fetched` (the weather or the mock data), `Upload`, `FlowSend`, `FlowReceipt`,
`LogEntry`, `Segments` (upload_blob through the indexer), `Inferred`, `Put`, `Settle`,
`CommitSend`, `CommitReceipt`. Every attempt that fails goes through `AttemptFails`,
with the code's tiers and backoff: `TurboAttempts` of the first tier, `StandardAttempts`
of the second, 0 when it is skipped. `Tokens` is what `TEEBroker.initialize` may come to
at each start (`EnvToken`: the token is in the environment). `Mine`, `Drop`, `Sync` are the chain and the storage
nodes, `Crash` the process's end and restart. Transactions of one account compete for
one nonce: mining one empties `pending`.

`KVClient` is `put` with its idempotency set and `get`. Only the in-memory tier is
there: `connect` passes keywords that `StorageKv` does not take and always falls back.

### `EventStream`, `Feed`, `Backend`

`EventStream` is the server's `EventStreamer` and the pages' `useSSE`. A connection is a
page and a number; the server knows it by its queue (`queues`), the page by its source
(`page[p].sources`), and either may have it without the other: `asked` are requests that
were not answered, `broken` connections that are no longer whole. `Broadcast`, `Subscribe`,
`Deliver`, `Unsubscribe` are the streamer and its generators, `ServerEnds` the process's
end; `Connect`, `Open`, `OnError`, `Unmount` are the hook, `Handle` its listeners; `Break`
is the network. A message leaves the queue when the page gets it, so that what is on the
wire counts as queued: both are lost with the connection. `history` and `next` record what
was broadcast and where each connection is.

`Feed` is what a page is promised: attached somewhere in what is published, it shows one
message after the other from there. The refinement mapping takes `history` for what is
published and the connection's position for the page's; a connection that ends detaches
the page.

`Backend` composes them with the pipelines. It adds the daemons' own steps: a run of a
daemon broadcasts a line when it begins (`Opening`) and an update and a line when it ends
(`Closing`), in the step that begins or ends it, since `broadcast` does not give up the
loop. `ServerServes` lets a generator run only when no task holds the loop, and a `Crash`
of the process is the end of its connections. Endpoints broadcast nothing.

### `Merkle`, `StorageFile`

Hashes are sequences of what they are hashes of, which makes hashing injective; a chunk
is its place in the file. `Merkle` has the tree built level by level with its odd
leftover, `ProofAt` with its loop `Climb`, and `Validate` with the loops `Join` (the root
from the siblings) and `Descend` (the position from the path). `StorageFile` reads a file
twice through `FileIterator`, at `offset`: `MerkleTree` adds to `leaves` the root of a
segment, `CreateNode` to `inner` the root of a segment of the node being made and, at its
end, to `submission` the node. `SplitNodes` are the nodes' sizes. From the file are cut
the segments of the upload (`GetSegment`) and the fragments of a large file (`Split`).

### `NodeSelector`, `Uploader`

`NodeSelector` is the segment tree over the residue classes of shard configs, with lazy
tags, insertion and the early return of a class that has its replicas.
`Uploader` is one upload. `Select` is `Indexer.upload`'s choice of nodes, and for the file,
or for each fragment of it in turn (`NextFragment`, the loop of `splitable_upload`), come
the steps of `upload_file`: `FindExisting`, `SubmitTransaction`,
`WaitForLogEntry`, `SplitTasks` and `MakeTasks` (the two halves of `split_tasks`, which
ask the nodes at two times), one of `TaskAccepted`, `TaskAlreadyUploaded`, `TaskRetried`,
`TaskRejected` (sent again without the field `root`), `TaskFails` per answer, `Report`,
`WaitForFinality`. `logged` are the nodes that know the file, perhaps from an earlier
transaction; `synced` those that have read this one's, which is what the call waits for.
Meanwhile nodes read the chain (`Sync`) and other uploaders of the same file complete
nodes (`OtherUploader`). With one fragment this is `Indexer.upload`, the backend's way;
`splitable_upload` is for users of the SDK and has no caller in the repository.
`indexed` is the indexer's picture of the nodes, `config` what they are.

### `Downloader`

A call's program counter, the root and segment it is at, and how many nodes it has
passed over for the segment. Paths are outputs or temporary files named by a root.
`Download`, `QueryFile`, `SegmentArrives`, `NextNode`, `SegmentFails`, `FileEnds`,
`CopyFragment`, `UnlinkFragment`, `Cleanup` are the code's steps; `Crash` ends a process
within a call, `RemoveOutput` is a caller that removes what a failed call left.

### `KvStream`

`Set` keeps Python's order of dicts: an item set again stays where it is. `Exec` is
build, encode and upload; the builder is never emptied, so that the next batch has the
earlier writes again. The KV node is external: it replays batches (`Replayed`), and
each of its answers is a step. `GetValue` begins the loop of `get_value`, `Piece` is
one more answer, `Collected` what the loop has after it; `ReadReturns` and
`MoveReturns` end it, and `CallFails` is a missing value or a request that raises. The
moves of an iterator are one query (`Move`), followed by the same loop at the version
of the pair found.

## 3. The runs

| Run | Properties | Bounds |
|---|---|---|
| `arbiter` | `TypeOK`, `Solvent`, `FinalizedAfterWindow`, `RecordsAgree`, `SupplyCapped`, `CommitIsImmutable`, `ImplementsSettlement` | 2 users, one of them the verifier; 2 payloads, 2 blocks, window 1, 2 submissions; approvals of the arbiter and of the verifier; all of the supply minted |
| `refund` (violated) | `ChallengerRefunded` | a stake of twice `MIN_STAKE`; approvals of the arbiter only |
| `agent` | `TypeOK`, `IdsAreUnique`, `DataComplete`, `TypeIsSettled` | a user and a contract, 3 tokens, mints nested 2 deep |
| `pipelines` | `TypeOK`, `CommitsFollowPuts`, `DepinIsLogged`, `NothingSkippedIntoVoid` | a sensor run and two audits, tiers of 2 and 1 attempts, 2 inferences, 1 restart |
| `pipelines_ends` (module `Backend`) | `NothingSkipped`, `SuccessIsTrue`, `ImplementsFeed`, `EveryRunEnds`, `PageCatchesUp` | a game daemon and an audit endpoint, 1 attempt each, 1 restart; a page with 2 connections and a log of 1 line |
| `pipelines_succeeded` (violated) | `ReportedSucceeded` | a sensor run and an audit |
| `pipelines_latest` (violated) | `LastPutIsRead` | three audits in a row |
| `file` | `FileTypeOK`, `SubmissionHasFileRoot`, `SegmentsHoldFile`, `ProofsLocateSegments`, `FragmentsHoldFile` | chunks of 2 bytes, segments of 4 chunks, 43 sizes up to 145 bytes |
| `upload` | `TypeOK`, `SentOnlyIfCovered`, `OwnSegmentsOnly`, `OkTaskIsStored`, `EvenUploadIsComplete`, `EveryUploadEnds` | 3 nodes with 1 or 2 shards, 2 replicas, tasks of 2 segments, fragments of 4 segments and of 1, from the indices 1 and 5 |
| `upload_split` (violated) | `CleanUploadIsComplete` | 2 nodes, 1 replica, tasks of 1 segment (the backend's defaults), 3 segments from index 1 |
| `download` | `TypeOK`, `SuccessIsWhole`, `NoTemporaryLeft`, `GivenUpIsMissing`, `EveryDownloadEnds` | 2 processes (2 calls and 1), 2 roots in common, 2 nodes, 1 process that ends |
| `kv` | `TypeOK`, `ReadIsWhole`, `ScanIsSnapshot`, `BatchIsAsked` | 2 keys, 2 spellings of the stream's id, values of 1 and of 3 bytes in pieces of 2, batches of at most 2 writes, 3 calls of `set`, 2 batches in the log |

What they show, and why the bounds are enough:

**`arbiter`.** Two payloads give a dispute being resolved and another commit that the
verifier can submit, finalize, or find disputed meanwhile; two blocks and a window of
one give commits that can and cannot be finalized yet. The verifier is also a plain
user, so that it can be sequencer and challenger. Whatever it does in the middle, the
arbiter has `MIN_STAKE` for each open dispute, also in the state a revert goes back to;
without `nonReentrant` the first nested `resolveDispute` breaks that. The supply
starts at its cap, so that a mint must wait for a burn: a holder's, or the arbiter's of
a stake. `TypeOK` bounds the heights and the deadlines: none is more than `DISPUTE_WINDOW`
blocks after the last one, as it would be if it were set by `STAKE_LOCK`, which is twice
as long and used nowhere. Section 4 proves all of these for every value of the constants.

**`agent`.** Three tokens are enough for a mint, a clone of it taken in its callback and
a clone of that; two nested mints are enough for one mint's data to be written on
another's. A clone taken in the callback of its source's mint gets type 0, because the
source's type is not yet written; `TypeIsSettled` holds all the same.

**`pipelines`.** A sensor run and two audits compete for the loop, for the nonce and for
the key of the audits; a settlement that times out stays in the mempool when the next
takes the same nonce, and either may be mined; a restart comes at any point. State
roots are on the chain in the order in which their states were written: what makes this
true is that `put` and `submit_state_root` do not give up the loop between them and
that a later submission competes for the *same* nonce instead of queueing behind.
Tiers of two attempts and of one have the sleep within a tier, the switch without one
and the error after the last. There is a game run only in `pipelines_ends`: it has neither
a settlement nor a key in common with another run.

**`pipelines_ends`.** A game daemon, whose upload waits for the storage nodes with the loop
in its hands, an audit that settles on the chain with the loop in its hands, a process that
ends once, and a page that is connected twice: once before and once after a connection
breaks at either side, or the server's end. `wait_for_log_entry` has no end of its own, and
every run ends all the same, when the storage nodes keep reading the chain. A page that
stays comes back by itself and again and again has everything that was broadcast since
(`PageCatchesUp`); it never shows a message out of order or twice (`ImplementsFeed`), a
connection loses nothing while others come and go (`NothingSkipped`), and what it shows as
a success is one, also when the server has since been restarted (`SuccessIsTrue`). One log
line is enough for a line to be pushed out by the next; one page, because what another
page does reaches it only through the list of queues, and a connection of its own that is
lost and still in that list is such another.

**`file`.** The sizes are those around every boundary of a chunk (2), a segment (8),
the full submission node, and the padding to sixteenths of a power of two (from 32
chunks on), and the empty file, whose tree has no leaves and which is refused. The
root that is uploaded and settled is the root the Flow contract gets from the
submission's nodes, a different cut of the padded file.

**`upload`.** Three nodes of up to two shards with two replicas need the lazy tags and
may have a replica too many; index 1 as the file's first makes indices in the file
and in the log differ in parity; one node's config differs from what the indexer has,
and may be none at all (`<<3, 1>>`). The second fragment is of one segment: a node may keep
nothing of it, and nodes may have it already. `EvenUploadIsComplete` is what is true of a clean
report: when the nodes have equally many tasks, every one of them is complete. It excepts a
node that keeps nothing of the file: when the transaction is skipped because another node
has the file, nobody waits for this one to have read the log.

**`download`.** The first process asks for two fragments or for the one that the second
process's file consists of, and again after failures and after its end. A successful
download is the whole file whatever was left on the disk before. The one exception,
excluded by `overlapped`, is real: see section 6. A segment is given up only when none of the
downloader's nodes has it (`GivenUpIsMissing`).

**`kv`.** Two batches are enough for a value to be written again between its two pieces
and for a key to come between two moves of a scan; two spellings of the stream's id can
make a batch too large and put one key into it twice. A batch has every key at the value
it was set to last, in whatever order keys and values came. What is pinned to a version
is read as it was at that version.

Deadlock is not checked where the models stop: after the bounded number of runs or
calls (`pipelines*`, `download`) or at the end of the one call or file (`upload*`,
`file`). `arbiter`, `agent` and `kv` check it.

### Fairness

* `Pipelines`: strong fairness of each task's `Progress`: asyncio runs what is ready in
  order, so that a coroutine that waits for the loop while others take it in turns gets
  it, and each client call returns or raises. Weak fairness of `Sync` per log entry: the
  storage nodes go on reading the chain. Nothing is assumed of mining, of the mempool, or
  of a node that fails (`LogEntryFails` is not part of `Progress`); the waits for
  receipts end by their own timeouts, which are in the code.
* `Backend`: the same of `TaskProgress` and `Sync`. Strong fairness of the generators
  together (`ServerServes`): they are tasks of the same loop, which takes what is ready in
  order, but only when no pipeline holds it. Weak fairness of each page's `Reacts`: the
  browser opens the connection, reports its loss to `onerror`, and lets the timer run out.
  Nothing is assumed of `Break` or `Crash`, of which there are as many as the bounds allow.
* `Uploader`: weak fairness of the call's own steps and of every node's `Sync`. That an
  `RPC error` ends a wait (`WaitRaises`) is possible and not assumed. `EveryUploadEnds`
  does not promise an end to a wait for finality on nodes that are never complete.
* `Downloader`: weak fairness of each caller's steps. A crash ends a call as well.

### Mutants

Each property of each passing run has a mutant in `PROJECT.json`: the mapped definition
and a variant of it with a likely mistake (a dropped guard, an off-by-one, a lost reset,
a swapped order), under which TLC finds the property violated. The variants stand in
front of the definitions they vary, under the comment "Mutant".

## 4. What is proved

Seven proof modules and `SequenceLemmas`, with what several of them share. `BackendProofs`
is about the pipelines and their composition with the stream, `FileProofs` about files that
are cut and files that are downloaded, each other one about one component. Every theorem is
for every value of the constants; each inductive invariant was checked by TLC on the run's
instance before it was proved.

| Component | Theorem | Statement |
|---|---|---|
| `VericastArbiter` | `Invariance` | `Spec => []IInv` |
| | `TypeCorrect` | `Spec => []TypeOK` |
| | `Solvency` | `Spec => []Solvent` |
| | `FinalityWaits` | `Spec => []FinalizedAfterWindow` |
| | `RecordsStayTogether` | `Spec => []RecordsAgree` |
| | `SupplyStaysCapped` | `Spec => []SupplyCapped` |
| | `CommitsAreImmutable` | `Spec => CommitIsImmutable` |
| | `Refinement` | `Spec => ImplementsSettlement` |
| `VericastAgentID` | `Invariance`, `TypeCorrect` | `Spec => []IInv`, `Spec => []TypeOK` |
| | `IdsStayUnique` | `Spec => []IdsAreUnique` |
| | `DataStaysComplete` | `Spec => []DataComplete` |
| | `TypesAreSettled` | `Spec => TypeIsSettled` |
| `Pipelines` | `Invariance`, `TypeCorrect` | `Spec => []IInv`, `Spec => []TypeOK` |
| | `DepinSettlesLogged` | `Spec => []DepinIsLogged` |
| | `CommitsInOrder` | `Spec => []CommitsFollowPuts` |
| | `SkippedPutsAreThere` | `Spec => []NothingSkippedIntoVoid` |
| `EventStream` | `Invariance`, `TypeCorrect` | `Spec => []IInv`, `Spec => []TypeOK` |
| | `NothingIsSkipped` | `Spec => []NothingSkipped` |
| | `Refinement` | `Spec => ImplementsFeed` |
| `Backend` | `RunsPipelines` | `BackendSpec => Spec`, of `Pipelines` |
| | `NothingIsSkipped` | `BackendSpec => []NothingSkipped` |
| | `FeedIsImplemented` | `BackendSpec => ImplementsFeed` |
| | `SuccessesAreTrue` | `BackendSpec => []SuccessIsTrue` |
| `Downloader` | `Invariance`, `TypeCorrect` | `Spec => []IInv`, `Spec => []TypeOK` |
| | `SuccessLeavesWholeFiles` | `Spec => []SuccessIsWhole` |
| | `TemporariesAreCleanedUp` | `Spec => []NoTemporaryLeft` |
| | `GivenUpOnlyIfNoneHasIt` | `Spec => []GivenUpIsMissing` |
| `StorageFile` | `FileTypeCorrect` | `FileSpec => []FileTypeOK` |
| | `SegmentsCorrect` | `FileSpec => []SegmentsHoldFile` |
| | `ProofsCorrect` | `FileSpec => []ProofsLocateSegments` |
| | `SubmissionCorrect` | `FileSpec => []SubmissionHasFileRoot` |
| | `FragmentsCorrect` | `FileSpec => []FragmentsHoldFile` |
| `Uploader` | `TypeCorrect` | `Spec => []TypeOK` |
| | `Covered` | `Spec => []SentOnlyIfCovered` |
| | `OnlyOwn` | `Spec => []OwnSegmentsOnly` |
| | `OkStored` | `Spec => []OkTaskIsStored` |
| | `EvenComplete` | `Spec => []EvenUploadIsComplete` |
| `KvStream` | `Invariance`, `TypeCorrect` | `Spec => []IInv`, `Spec => []TypeOK` |
| | `ReadsAreWhole` | `Spec => []ReadIsWhole` |
| | `ScansAreSnapshots` | `Spec => []ScanIsSnapshot` |
| | `BatchesAreAsked` | `Spec => BatchIsAsked` |

TLC evaluates every assumption below on the runs. `EventStreamAssumption` is a definition
and a hypothesis of the theorems about `EventStream`, since the stream is run and proved
about as a part of `Backend`, with the daemons' messages; `BackendAssumption` states it of
these.

### `VericastArbiterProofs`

*Assumptions.* `ArbiterAssumption`: the arbiter and the dead address are accounts of
their own, `address(0)` is none, stakes and amounts are naturals, `MIN_STAKE` and
`DISPUTE_WINDOW` are positive, and the unlimited approval is more than the supply can
be. `NoWrapAssumption`: no block modelled comes within `DISPUTE_WINDOW` of 2^32, where
the cast of `disputeEnd` to `uint32` would wrap: at two seconds a block, centuries away.

*The inductive invariant.* `Solvent` alone is not inductive. `IInv` says

* of the present state and of the state saved by the `resolveDispute` under way
  (`Sound`): a commit's records, height and deadline fit together; the arbiter holds
  `MIN_STAKE` for every open dispute; and nobody has an allowance on the arbiter's
  account (`EscrowClosed`), without which a `transferFrom` could take the escrow;
* that at most one `resolveDispute` is under way: this is the reentrancy guard;
* of that one (`FrameSound`): its dispute is open in both states; each commit is where
  it was or one edge on (`Since`: submitted in this block, or finalized after its
  window), since the verifier cannot dispute or resolve; and sequencers are kept.

The saved state has to be sound because `ResolveInvalid` and `ResolveReverts` go back
to it. `Since` is what makes the refinement go through: when the outermost call
returns, the abstract step is from the saved state to the present one, and the edges
of Settlement allow exactly that.

*The argument.* `DisputesFinite`, `TimesMonotonic` and `CoveredKept`, `CoveredOpened`,
`CoveredClosed` count the open disputes: opening one adds `MIN_STAKE` to what is needed
and at least that to what is held, closing one takes away both. `TokenCallSafe` says
what any call of the token by an account other than the arbiter leaves alone. Then one
lemma per action (`SubmitAllIInv` ... `NextBlockIInv`), `NextIInv`, and the theorems.
`SupplyStaysCapped` has an invariant of its own (`Capped`): the supply is within the cap
in the present and in the saved state, since a rollback may bring back a larger one.
`Committing` maps every step to a step of `Settlement` or to a stutter; a frame is
pushed and filled by stutters.

### `VericastAgentIDProofs`

*Assumption.* `AgentAssumption`: `address(0)` is no account, the empty root no root.

*The inductive invariant* is the three invariants of the run and `MintedExist`: every mint
on the stack has given out its token. Without it a nested mint could be numbered like an
outer one, whose `FinishMint` would then write over it. `Pushed` and `Popped` say what a
mint that begins or ends leaves of the stack. `TypesAreSettled` follows from it step by
step: only the end of the mint on top writes a type, of a token whose mint has not returned.

### `EventStreamProofs`

*Assumption.* `EventStreamAssumption`: messages are log lines or updates of a kind, a page
keeps at least one line and may connect at least once.

*The inductive invariant.* `OneSource` (a page has at most its last connection open, and
none while its timer runs), `RequestsFresh` (what is asked and not answered belongs to a
page that has got nothing from it, and connections to come are unknown to both sides),
`PositionsSound` (a connection with a queue is within what was broadcast), and
`NothingSkipped`: the queue *is* the rest of the history from the connection's position.

*The argument.* `RestGrows` and `RestShrinks` say how the rest of a sequence changes when
something is appended at its end or taken from its front; one lemma per action follows. For
`Refinement` a broadcast is the abstract `Publish`, the server's answer is `Attach`, a
delivery is `Show` (`WindowMoves`: dropping the first line before the next comes keeps the
last ones), whatever ends a connection is `Detach`, and all else stutters. `Broadcast` takes any sequence, so that the theorems hold
of the stream in any environment.

### `BackendProofs`: the pipelines

*Assumption.* `PipelinesAssumption`: the three kinds of task are disjoint, the first tier
has an attempt, and so has the TEE; the second may have none.

*The inductive invariant.* `CommitsFollowPuts` speaks of the chain only. `IInv` adds what
leads there:

* `HoldsLoop`: from its write to the end of its settlement a run holds the loop, and its
  write is the last one;
* `WritesOnce`, `SubmitsOnce`: a run has at most one write and one submission, in this order;
* `SubmissionsOrdered`: of two mined submissions the later one was written later, and one
  still pending later than all that are mined. A second pending one makes this no weaker:
  they compete for one nonce, and when one is mined the others are gone;
* `UploadIsLogged` and `Counted`: who is past the upload is in the log, and no attempt is
  made beyond the last;
* `Remembered`: what the idempotency set has, this process has written, so that the key has
  a value; both go with a crash.

### `BackendProofs`: the composition

The composition is proved from its parts, not anew. `StepOfPipelines` says that each of its
steps is one of `Pipelines` or leaves that alone; `RunsPipelines` then gives it every
theorem about the pipelines. For the stream, `EventStreamProofs` is instantiated with the
daemons' messages, and each step is one of the stream's (`SameBroadcast` ...
`SameBrowse`), so that its theorems apply. `SuccessesAreTrue` is about both at once: the
invariant `AllTrue` says that every line in the history or on a page that claims a success
is of a run that wrote and, if it anchors, uploaded. It is preserved
because a run that returns without an error has done so (`ReturnsTrue`, from the invariant
of the pipelines) and because writes and logs are never undone, not by a crash.

### `FileProofs`: files as they are cut

*Assumptions.* `StorageFileAssumption`: chunks and segments have a positive size, and a file
has at most 2^30 chunks. The bound is that of `Powers`; the code has Python's integers and no
such bound, but 2^30 chunks are 256 GiB. `SegmentAssumption`: a segment's number of chunks is
a power of two, 1024 in the code. Only `SubmissionCorrect` uses it, and it needs it: with
segments of 3 chunks the last batch of a node would read into the next one.

*The inductive invariant.* `FileIInv` has the shape of the state and where the iterator may
stand: at a whole chunk, at least one for each leaf. `LeavesIInv` is needed for the proofs of
the tree: each leaf is the root of the segment at its place, and the tree is not built before
the iterator is at the end of the padded file. `NodesIInv` is needed for the submission: from
some list `o` of offsets on, each of its nodes has the root over the chunks at its place, the
roots of the node in the making are those of its full batches, and the iterator stands after
them. TLC checked all three on the run's 622 states, with `o` computed from the nodes' sizes.

*Cutting* (`SplitsAre` ... `FragmentsHold`). `PaddedUpTo` is the padding: for every number of
chunks the padded one is a multiple of its unit, at least as large and at most the next power
of two. `ReadIs` says what the iterator reads at a chunk, `HeldIs` what `get_segment` leaves
of it; `SegmentsHold` and `FragmentsHold` follow without an invariant, since both are
functions of the size.

*Proofs of segments* (`LeftSideIs` ... `ProofFits`). For every number of leaves from 1 to 2^30
and every leaf, its proof is accepted with the leaf's own position and with no other one. That
is a statement about three loops that meet: up the tree (`Climb`), up the proof (`Join`) and
down the path (`Descend`). `FoldStep`, `GoesExists` and `GoesSteps` turn a fold into a function
from the number of rounds to what there is after them, and `Steps` shows what holds of it,
by the least round at which it would fail. Then

* on level `k` the node above leaf `i` is number `(i - 1) \div 2^k + 1`, and the leaves
  before its subtree and within it are as many as `Rises` says (`Pairing`, `ClimbRises`): the
  subtree has `2^k` leaves unless it is the last one of its level;
* `Descend` goes the same way back (`DescendPasses`): the left side of a subtree, the largest
  power of two below its size, is the size of the left sibling's subtree. A level on which an
  odd last node has no sibling is no entry of the path and no step down;
* `Join` meets the climb at each level (`JoinMeets`): what it has is the node of the way
  there, so that the last one is the root (`WayEndsInRoot`).

`FitsIsJudged` puts that through the checks of `Validate`. The tree of one leaf, whose proof
has no path, is a case of its own (`OneFits`).

*The submission's root* (`UpFromZero` ... `RootsAgree`). The uploader cuts the padded file
into segments and builds a tree over their roots; the submission cuts it into powers of two,
each made of segments again, and the contract joins these from the smallest up. Both are shown
to be `Tree(Hashes, 0, p)`, the root of one tree over all `p` chunks:

* `TreeSplits`: a tree over more than one chunk is the tree over its left side, the largest
  power of two below its size, combined with the tree over the rest. The levels of the two
  stand side by side in the level of the whole until the left one is a single node
  (`BesideLevel`), and the rest is one node on the same level (`LevelsWide`);
* `BlocksTree`: the tree over the roots of blocks of `2^k` chunks, the last of them shorter,
  has the root over the chunks. By the least number of blocks for which it would fail: both
  trees split at the same place;
* `NodesStart`: each node is the largest power of two in what is left of the padded file, which
  is what makes the fold from the right (`JoinedRight`) the splits of `TreeSplits` (`NodesJoin`);
* `BatchDivides` and `FullBlocks`: a node is a whole number of batches, and its root over the
  batches' roots is the root over its chunks; `LeavesTree` says the same of the leaves.

### `FileProofs`: downloads

*Assumption.* `DownloaderAssumption`: files have a segment, the downloader has a node,
requests are for at least one root and for exactly one when it is not for fragments, and
shard configs are a residue of a positive number.

*The inductive invariant.* `Stages` (which call has its output and its temporary file at
which stage), `TemporariesTracked` (while no process has ended within a call, a temporary
file is in the `temp_files` of a running one), `AskedInVain` (the nodes passed over for a
segment do not have it), `SharingIsMarked`, and `WrittenSoFar`: a call that shares its
temporary files with none has written exactly the files and segments before the one it is
at. The last one says nothing of calls in `overlapped`, of which it would be false
(section 6).

*The argument.* `GivenUpIsMissing` needs that the rotation
`nodes[(taskInd + tried) % n]` reaches every node in `n` turns (`TurnsReachAll`, from a few
facts about remainders). `SuccessIsWhole` needs what `FlattenSeq` gives when one file more
is appended (`FlattenGrows`). That is a fold, and a rule of induction takes an operator,
which no prover here can instantiate: `SequenceLemmas` shows it first-order, from the least
length at which it would fail.

### `UploaderProofs`

*Assumption.* `UploaderAssumption`: there is a fragment and every fragment has a segment,
replicas, tasks and attempts are at least one, the indexer's shard configs are residues of a
power of two up to `MaxShards` (what a node itself answers need not be), nodes are finitely
many.

*The inductive invariant.* `Typed` and `Staged`; `Checked` (what the tasks are made for was
found to have the replicas), `TasksOwn` (a task sends segments of its node's shard only),
`StoredKnown` (who stores something of the file knows the file), `AllTasks` (when the nodes
have equally many tasks none of a node that still needs them is left out), and three of the
run's invariants. `OwnSegmentsOnly` alone says nothing of what is going to be sent, and
`EvenUploadIsComplete` speaks of a call that is over: it needs of each result that it is
stored, and of the tasks that they were all of them.

*The argument, for the selection.* `SentOnlyIfCovered` says that each segment is kept by
enough of the nodes selected. The tree is given a meaning first: it is sound when no tree
node's count, with what the lazy tags above it still owe, is more than how often every
segment of its class is kept; what its root says is then true (`RootPromises`). `PushdownSound`, `PullUpSound`, `DownSound` and `UpSound` show that each
part of an insertion keeps it so, lazy tags included, down to a config's own class and back
(`WayDown`, `WaySound`); `InsertSound` and `TrySound` are one insertion and one node tried,
`SelectSound` the whole choice. `Sortable` shows that the order in which the nodes are tried
exists. What the nodes answer later is looked at again by the code (`ReplicaChecked`).

*The argument, for the tasks.* `NextOwn` says that `next_segment_index` is the first
segment of the shard from an index on, `TasksAre` that the steps by shards and task size
give each segment of the shard once, `InRoundsIs`, `FromShortestIs` and `RoundsAre` what the
rounds over the nodes' lists take: all of them, when the lists are equally long. Then one
lemma per action.

### `KvStreamProofs`

*Assumption.* `StreamAssumption`: keys are naturals, values are sequences of bytes, a piece
has at least one byte.

*The inductive invariant.*

* `WritesAsked`: the dictionaries of the builder have no id twice; every write in them was
  asked for, is what was asked for last if its key was set under one id only, and none is
  missing. `AskedIsFinite`: the keys set so far are bounded, so that a first and a last key
  exist.
* `CallSound`: what a call has collected and not crossed is the beginning of the value at
  `seen`; a move stays at the version that was found.
* `ResultSound`, `PairSound`: `ReadIsWhole`, with the version it speaks of in the log.
* `MoveSound`: the key a forward move is going to is the least one after those the scan has
  had, among the keys the scan has to find, although it was chosen before the last batches.
  `ScanSound` is `ScanIsSnapshot` with the pair the iterator is at.

*The argument.* A log only grows, and what is said of its first `n` batches stays true
(`Kept`, `LogGrows`); this is all that `Set` and `Exec` need. `PieceIs` and `CollectedIs`
are the loop of `get_value`, for pieces of any size. `BatchesAreAsked` is about data as
well: `Offsets` and `PartIs` of `SequenceLemmas` say that the value between two ends in the
concatenated values is the one that was put there, so that encoding and replaying a batch
gives back the last write of each key (`ReplayedIs`); `SetWrites` is one call of `set` on
a dict of dicts.

### What is only model-checked

* *Liveness*, out of the prover's reach: `EveryRunEnds`, `PageCatchesUp`,
  `EveryUploadEnds`, `EveryDownloadEnds`.

## 5. Where the code disagrees with what it says

Each of these is a run that TLC ends with a counterexample.

* **An upheld dispute refunds `MIN_STAKE`, not the stake** (`refund`;
  VericastArbiter.sol:149). `dispute` takes any stake of at least `MIN_STAKE`; the rest
  stays in the arbiter, from where no function moves it.
* **A reverted settlement is reported as OK** (`pipelines_succeeded`;
  chain_client.py:162). The receipt's status is not looked at.
* **`put` skips a value the key had before, although it has another one now**
  (`pipelines_latest`; kv_client.py:62). Two audits without signature and answer write
  the same state; an audit between them makes the second one invisible.
* **Segments are never sent when shards are uneven** (`upload_split`; uploader.py:667).
  `split_tasks` goes on for as many rounds as the *shortest* list has tasks; the upload
  then says "All tasks processed successfully".

## 6. Observations that are not runs

Seen while modelling; they are in the models as the code has them, or outside them.

* The repository's `README.md:102` says that all raw inputs are anchored before
  processing, and its diagram (line 92) that all three streams anchor; `audit_feed`
  anchors nothing. Line 95 settles what DA, TEE and KV have; `process_tick` settles
  nothing.
* Its line 105 says that the TEE-sealed state root is committed. When the TEE cannot
  be reached, `infer` returns a simulated seal, and one without a header an empty one;
  both are settled like a seal.
* `upload_file` returns success with failed tasks, with the comment that the network
  propagates files (uploader.py:242), and `upload_blob` takes the root as anchored.
* By default both indexers are the same, so that `upload_blob` makes three attempts,
  where its error text counts six (da_client.py:82-89).
* `DAClient` passes `expected_replica`, where the uploader reads `expectedReplica`, so
  that every upload has the defaults: one replica, tasks of one segment, no finality.
* A clone minted in the callback of its source's mint gets type 0; `usageAuthorized`
  is a toggle and survives transfers, so that whom the last owner authorized can write
  the new owner's memory.
* `disputeEnd` is cast to `uint32`.
* A proof of one leaf is accepted without a comparison with the root (merkle.py:200).
* Two processes that download files with a fragment in common use one temporary file;
  what one of them then reports as a success may not be the file. A call that failed
  leaves its output behind, and each retry is refused because of it. The `proof`
  argument of a download is used nowhere. A node whose call raises ends the download,
  a node that answers null does not (downloader.py:279-288).
* A node that refuses the field `root` and then, asked without it, answers that it has the
  segments already is counted as failed: only the first answer is looked at for that
  (uploader.py:829-856). The same holds for a null answer to the repetition, which is not
  tried again.
* The game daemon logs a success as `0G_CHAIN`, "verified" (daemons.py:60); its pipeline
  settles nothing on the chain. `SuccessIsTrue` holds of what it does: the write and the
  upload. The branches of the daemons for exceptions are not reached, since the pipelines
  catch theirs.
* The queue of a client that does not read grows until its connection is found broken
  (daemons.py:23). A generator has no end of its own, so that a shutdown that waits for
  connections to finish waits for the pages.
* A small file that begins inside a segment and reaches over its end has two segments
  in the log and one in the file; the models have files that begin at a segment.

* `get_value` promises the "complete value" (client.py:75-79). Without a version, when
  the value is written again between two pieces, it drops what it has and keeps the piece
  it has just fetched at the old offset (client.py:113-121): the result has the right
  length and its bytes in the wrong places. `ReadIsWhole` excepts this case.
* A `Batcher` keeps its writes after `exec`: a second `exec` writes all of them again,
  with a new version, over what others have written since. Two spellings of one stream
  id are two streams to the builder, and the order in which their writes come in the
  batch is not the order of the calls of `set`.

## 7. What is not modelled

* *Data*: seals, proofs, state roots, prompts, readings and texts; keys and payloads are
  model values. Gas prices and fees, except that a transaction may fail.
* *HTTP*: `HttpProvider` repeats a POST up to five times; a call of a model that fails
  is one whose last attempt failed, and an upload whose answer was lost is
  `TaskRetried` or `TaskFails` after the node has written.
* *Proxies and deployment*: an upgrade replaces the modelled code itself; the scripts
  are linear.
* *The pages and the wallet* of the frontend, the scripts, the agent manifest:
  presentation and configuration. Of `useSSE`, how long a page waits before it connects
  again; that it waits is its timer.
* *Where an earlier upload of a file begins in the log*: the models take it to begin where
  this one does.
* *The SDK's gas adjustment and error handler*: `tx_with_gas_adjustment` has no caller,
  and `error_handler` imports a module that does not exist. Of its KV client, the queries
  of access rights, each a single request without state.

## 8. Plan

The order in which the rest is worth adding:

1. **A composition** of `Pipelines` and `VericastArbiter`. It comes late because the backend
   sends `submitStateRoot` and never looks at the arbiter again: to it the contract is a
   transaction that succeeds or reverts (a commit of the same content in the same block),
   which `Mine` has; disputes and finality are the contract's alone.
2. Gas adjustment and resubmission (`utils/transfer.py`) as a transaction that replaces
   itself in the mempool.
