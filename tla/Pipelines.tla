----------------------------- MODULE Pipelines -----------------------------
(***************************************************************************)
(* The backend's three pipelines (backend/streams) and the clients they    *)
(* drive (da_client.py, tee_client.py, kv_client.py, chain_client.py), as  *)
(* coroutines of one event loop that share the hot state of KVClient:      *)
(*                                                                         *)
(*   depin    weather -> DA upload -> TEE -> KV -> chain                   *)
(*   game                DA upload -> TEE -> KV                            *)
(*   social                           TEE -> KV -> chain                   *)
(*                                                                         *)
(* A task is a daemon or an endpoint of main.py; each of its runs handles  *)
(* one input.  The loop runs one task at a time and a task gives it up     *)
(* only in asyncio.sleep and in the HTTP calls for the weather and of the  *)
(* TEE client.  The DA upload and the settlement call the network          *)
(* synchronously and hold the loop from beginning to end; meanwhile the    *)
(* chain and the storage nodes go on.  Both send transactions from the     *)
(* same account.                                                           *)
(*                                                                         *)
(* The inputs of two runs differ (timestamps, ticks), so a run stands for  *)
(* its input, its blob, its state root and the state it writes.  Only      *)
(* audits have no input of their own: two that get no signature and no     *)
(* answer from the TEE write the same state.                               *)
(***************************************************************************)
EXTENDS Naturals, Sequences, FiniteSets

CONSTANTS
    Depin, Game, Social,   \* the tasks of each pipeline
    Nobody,                \* no task
    TurboAttempts,         \* upload attempts of each tier: the length of its
    StandardAttempts,      \* `backoff`; 0 for a tier that is skipped
    InferAttempts,         \* attempts of the TEE client
    WeatherKey,            \* OPENWEATHER_API_KEY is set
    EnvToken,              \* TEE_AUTH_TOKEN is set
    MaxRuns,               \* bound: runs of each task
    MaxCrashes             \* bound: how often the process ends

Task == Depin \cup Game \cup Social
Anchoring == Depin \cup Game   \* the pipelines that upload to the DA
Settling == Depin \cup Social  \* the pipelines that submit a state root

ASSUME PipelinesAssumption ==
    /\ Nobody \notin Task
    /\ Depin \cap Game = {} /\ Depin \cap Social = {} /\ Game \cap Social = {}
    /\ TurboAttempts \in Nat \ {0} /\ StandardAttempts \in Nat
    /\ InferAttempts \in Nat \ {0}
    /\ WeatherKey \in BOOLEAN /\ EnvToken \in BOOLEAN
    /\ MaxRuns \in Nat /\ MaxCrashes \in Nat

Run == Task \X (1 .. MaxRuns)

(* A transaction of the backend's account: the Flow contract's submit or   *)
(* the arbiter's submitStateRoot.                                          *)
Tx == [kind : {"flow", "commit"}, run : Run]

(* Where a task stands.  In the blocking stages it holds the loop.         *)
Blocking == {"flowSend", "flowReceipt", "logEntry", "segments", "put",
             "settle", "commitSend", "commitReceipt"}
Suspended == {"idle", "fetch", "upload", "infer"}

(* What a run ended in: an error, or a result without or with a tx_hash.   *)
Outcome == {"running", "error", "unsettled", "settled"}

VARIABLES
    co,            \* each task's coroutine: its stage and locals
    loop,          \* the task that holds the event loop, or Nobody
    outcome,       \* what each run has returned
    puts,          \* history: the runs that wrote the KV store, in order
    mined,         \* the account's transactions on the chain, by nonce
    pending,       \* its transactions in the mempool, all with the next nonce
    logged,        \* runs whose log entry the storage nodes have
    cache, idempotency,  \* the hot state
    started,       \* history: how many puts an earlier process made
    hasToken,      \* the TEE broker got its token when the process started
    crashes

taskVars == <<co, loop, outcome, puts>>
chainVars == <<mined, pending>>
kvVars == <<cache, idempotency>>
processVars == <<started, hasToken, crashes>>
vars == <<taskVars, chainVars, logged, kvVars, processVars>>

(* The state a run writes and the key it writes it under.                  *)
Blank == <<Nobody, 0>>
Weather == <<Nobody, 1>>
Audit == <<Nobody, 2>>

KV == INSTANCE KVClient WITH Key <- {Weather, Audit} \cup Run,
                             Value <- {Blank} \cup Run, NoValue <- <<Nobody, 3>>

UploadAttempts == TurboAttempts + StandardAttempts

MaxAttempts ==
    IF UploadAttempts > InferAttempts THEN UploadAttempts ELSE InferAttempts

Coroutine == [stage : Blocking \cup Suspended, run : 0 .. MaxRuns,
              attempt : 0 .. MaxAttempts,
              seal : {"none", "tee", "simulated"}, nonce : Nat]

(* The shape of the state; no coroutine makes more attempts than its step  *)
(* has.                                                                    *)
TypeOK ==
    /\ co \in [Task -> Coroutine]
    /\ \A t \in Task : co[t].stage = "infer" => co[t].attempt < InferAttempts
    /\ loop \in Task \cup {Nobody}
    /\ outcome \in [Run -> Outcome]
    /\ puts \in Seq([run : Run, key : {Weather, Audit} \cup Run,
                     value : {Blank} \cup Run])
    /\ mined \in Seq([tx : Tx, ok : BOOLEAN])
    /\ pending \subseteq Tx
    /\ logged \subseteq Run
    /\ KV!TypeOK
    /\ started \in 0 .. Len(puts)
    /\ hasToken \in BOOLEAN
    /\ crashes \in 0 .. MaxCrashes

Idle(n) == [stage |-> "idle", run |-> n, attempt |-> 0, seal |-> "none",
            nonce |-> 0]

(* TEEBroker.initialize, before the first coroutine: without a token in    *)
(* the environment it asks a command-line tool, which may be missing, fail,*)
(* time out or print something else.                                       *)
Tokens == IF EnvToken THEN {TRUE} ELSE BOOLEAN

Init ==
    /\ co = [t \in Task |-> Idle(0)]
    /\ loop = Nobody
    /\ outcome = [r \in Run |-> "running"]
    /\ puts = << >>
    /\ mined = << >> /\ pending = {}
    /\ logged = {}
    /\ KV!Init
    /\ started = 0
    /\ hasToken \in Tokens
    /\ crashes = 0

This(t) == <<t, co[t].run>>
TxOf(kind, t) == [kind |-> kind, run |-> This(t)]

----------------------------------------------------------------------------
(* Moves of a coroutine c, which is the one of t with other locals: Go     *)
(* keeps or takes the loop, Await gives it up, Return ends the run.        *)
Go(t, c, stage) ==
    /\ co' = [co EXCEPT ![t] = [c EXCEPT !.stage = stage]]
    /\ loop' = t
    /\ UNCHANGED outcome

Await(t, c, stage) ==
    /\ co' = [co EXCEPT ![t] = [c EXCEPT !.stage = stage]]
    /\ loop' = Nobody
    /\ UNCHANGED outcome

Return(t, result) ==
    /\ co' = [co EXCEPT ![t] = Idle(@.run)]
    /\ loop' = Nobody
    /\ outcome' = [outcome EXCEPT ![This(t)] = result]

At(t, stage) == co[t].stage = stage /\ loop \in {Nobody, t}

(* infer() with a token awaits the HTTP call; without one it returns a     *)
(* simulated seal at once, and the coroutine goes on.                      *)
Infer(t, c) ==
    \/ hasToken /\ Await(t, [c EXCEPT !.attempt = 0], "infer")
    \/ ~hasToken /\ Go(t, [c EXCEPT !.attempt = 0, !.seal = "simulated"], "put")

(* A new input: an endpoint is called or a daemon's sleep is over.         *)
Begin(t) ==
    LET c == Idle(co[t].run + 1)
        fetches == t \in Depin /\ WeatherKey
    IN  /\ At(t, "idle") /\ co[t].run < MaxRuns
        /\ \/ fetches /\ Await(t, c, "fetch")
           \/ t \in Anchoring /\ ~fetches /\ Go(t, c, "upload")
           \/ t \in Social /\ Infer(t, c)
        /\ UNCHANGED <<puts, chainVars, logged, kvVars, processVars>>

(* fetch_weather returns: the weather or, after any failure, the mock data *)
(* that it also returns at once without a key.                             *)
Fetched(t) ==
    /\ At(t, "fetch")
    /\ Go(t, co[t], "upload")
    /\ UNCHANGED <<puts, chainVars, logged, kvVars, processVars>>

----------------------------------------------------------------------------
(* Transactions.  The nonce is the number of mined transactions, so what   *)
(* is sent before an earlier transaction is mined competes with it.        *)
Numbered(t) == [co[t] EXCEPT !.nonce = Len(mined)]

Send(t, tx) ==
    /\ co[t].nonce = Len(mined)       \* otherwise "nonce too low"
    /\ pending' = pending \cup {tx}

HasReceipt(t, tx) ==
    Len(mined) > co[t].nonce /\ mined[co[t].nonce + 1].tx = tx

Succeeded(t) == mined[co[t].nonce + 1].ok

----------------------------------------------------------------------------
(* upload_blob.  An attempt that fails is followed by a sleep, except the  *)
(* last of each tier: the first tier's last attempt goes straight on to    *)
(* the second tier, unless INDEXER_RPC is the second tier's address, as it *)
(* is by default; the last tier's raises DAUploadError.                    *)

(* Mutant: the attempts are not counted.                                   *)
AttemptFails_Uncounted(t) == Await(t, co[t], "upload")

(* Mutant: a pipeline whose upload failed goes on with the other steps.    *)
AttemptFails_GoesOn(t) ==
    LET c == [co[t] EXCEPT !.attempt = @ + 1]
    IN  \/ c.attempt = UploadAttempts /\ Infer(t, c)
        \/ c.attempt = TurboAttempts /\ StandardAttempts > 0 /\ Go(t, c, "upload")
        \/ c.attempt \notin {TurboAttempts, UploadAttempts}
              /\ Await(t, c, "upload")

AttemptFails(t) ==
    LET c == [co[t] EXCEPT !.attempt = @ + 1]
    IN  \/ c.attempt = UploadAttempts /\ Return(t, "error")
        \/ c.attempt = TurboAttempts /\ StandardAttempts > 0 /\ Go(t, c, "upload")
        \/ c.attempt \notin {TurboAttempts, UploadAttempts}
              /\ Await(t, c, "upload")

(* Indexer.upload: nodes are selected and asked for their status, then the *)
(* file is submitted to the Flow contract.                                 *)
Upload(t) ==
    /\ At(t, "upload")
    /\ Go(t, Numbered(t), "flowSend") \/ AttemptFails(t)
    /\ UNCHANGED <<puts, chainVars, logged, kvVars, processVars>>

FlowSend(t) ==
    /\ At(t, "flowSend")
    /\ \/ Send(t, TxOf("flow", t)) /\ Go(t, co[t], "flowReceipt")
       \/ AttemptFails(t) /\ UNCHANGED pending
    /\ UNCHANGED <<puts, mined, logged, kvVars, processVars>>

(* The receipt arrives, with a status that is checked, or its wait ends.   *)
FlowReceipt(t) ==
    /\ At(t, "flowReceipt")
    /\ \/ /\ HasReceipt(t, TxOf("flow", t)) /\ Succeeded(t)
          /\ Go(t, co[t], "logEntry")
       \/ AttemptFails(t)
    /\ UNCHANGED <<puts, chainVars, logged, kvVars, processVars>>

(* wait_for_log_entry polls without end until every node has the entry; a  *)
(* node that does not answer ends the attempt.                             *)
LogEntry(t) ==
    /\ At(t, "logEntry")
    /\ This(t) \in logged
    /\ Go(t, co[t], "segments")
    /\ UNCHANGED <<puts, chainVars, logged, kvVars, processVars>>

LogEntryFails(t) ==
    /\ At(t, "logEntry")
    /\ AttemptFails(t)
    /\ UNCHANGED <<puts, chainVars, logged, kvVars, processVars>>

(* upload_file fails when the shards of the nodes are not known, and       *)
(* succeeds otherwise, whether a node takes the segments or not.  With the *)
(* root the coroutine goes on to infer().                                  *)
Segments(t) ==
    /\ At(t, "segments")
    /\ Infer(t, co[t]) \/ AttemptFails(t)
    /\ UNCHANGED <<puts, chainVars, logged, kvVars, processVars>>

----------------------------------------------------------------------------
(* Mutant: one attempt more than there are waits.                          *)
Inferred_OneMore(t) ==
    LET c == [co[t] EXCEPT !.attempt = @ + 1]
    IN  /\ At(t, "infer")
        /\ \/ \E seal \in {"tee", "none"} : Go(t, [c EXCEPT !.seal = seal], "put")
           \/ c.attempt <= InferAttempts /\ Await(t, c, "infer")
           \/ /\ c.attempt > InferAttempts
              /\ Go(t, [c EXCEPT !.seal = "simulated"], "put")
        /\ UNCHANGED <<puts, chainVars, logged, kvVars, processVars>>

(* infer: the TEE's signature, which is empty when the answer lacks its     *)
(* header, another attempt after a sleep, or a simulated seal.             *)
Inferred(t) ==
    LET c == [co[t] EXCEPT !.attempt = @ + 1]
    IN  /\ At(t, "infer")
        /\ \/ \E seal \in {"tee", "none"} : Go(t, [c EXCEPT !.seal = seal], "put")
           \/ c.attempt < InferAttempts /\ Await(t, c, "infer")
           \/ /\ c.attempt = InferAttempts
              /\ Go(t, [c EXCEPT !.seal = "simulated"], "put")
        /\ UNCHANGED <<puts, chainVars, logged, kvVars, processVars>>

Write(t) ==
    LET key == IF t \in Depin THEN Weather
               ELSE IF t \in Social THEN Audit ELSE This(t)
        value == IF t \in Social /\ co[t].seal = "none" THEN Blank ELSE This(t)
    IN  /\ KV!Put(key, value)
        /\ puts' = Append(puts, [run |-> This(t), key |-> key, value |-> value])

(* Mutant: put gives up the loop before the settlement.                    *)
Put_Yields(t) ==
    /\ At(t, "put")
    /\ Write(t)
    /\ \/ t \in Settling /\ Await(t, co[t], "settle")
       \/ t \in Game /\ Return(t, "unsettled")
    /\ UNCHANGED <<chainVars, logged, processVars>>

(* KVClient.put, and the end of the game pipeline.                         *)
Put(t) ==
    /\ At(t, "put")
    /\ Write(t)
    /\ \/ t \in Settling /\ Go(t, co[t], "settle")
       \/ t \in Game /\ Return(t, "unsettled")
    /\ UNCHANGED <<chainVars, logged, processVars>>

----------------------------------------------------------------------------
(* submit_state_root: every failure is caught and reported as no tx_hash,  *)
(* a client that is not connected like a nonce that cannot be read.        *)

Settle(t) ==
    /\ At(t, "settle")
    /\ \/ Go(t, Numbered(t), "commitSend")
       \/ Return(t, "unsettled")
    /\ UNCHANGED <<puts, chainVars, logged, kvVars, processVars>>

CommitSend(t) ==
    /\ At(t, "commitSend")
    /\ \/ Send(t, TxOf("commit", t)) /\ Go(t, co[t], "commitReceipt")
       \/ Return(t, "unsettled") /\ UNCHANGED pending
    /\ UNCHANGED <<puts, mined, logged, kvVars, processVars>>

(* The status of the receipt is not looked at; after 30 s the wait ends    *)
(* and the transaction is left in the mempool.                             *)
CommitReceipt(t) ==
    /\ At(t, "commitReceipt")
    /\ \/ HasReceipt(t, TxOf("commit", t)) /\ Return(t, "settled")
       \/ Return(t, "unsettled")
    /\ UNCHANGED <<puts, chainVars, logged, kvVars, processVars>>

----------------------------------------------------------------------------
(* The chain mines one of the competing transactions, which may revert,    *)
(* or the mempool drops one; the storage nodes see what the Flow contract  *)
(* has logged.                                                             *)
Mine(tx, ok) ==
    /\ tx \in pending
    /\ mined' = Append(mined, [tx |-> tx, ok |-> ok])
    /\ pending' = {}
    /\ UNCHANGED <<taskVars, logged, kvVars, processVars>>

Drop(tx) ==
    /\ tx \in pending
    /\ pending' = pending \ {tx}
    /\ UNCHANGED <<taskVars, mined, logged, kvVars, processVars>>

Sync(i) ==
    /\ mined[i].ok /\ mined[i].tx.kind = "flow"
    /\ logged' = logged \cup {mined[i].tx.run}
    /\ UNCHANGED <<taskVars, chainVars, kvVars, processVars>>

SyncRun(r) == \E i \in 1 .. Len(mined) : mined[i].tx.run = r /\ Sync(i)

(* The process ends, by shutdown or crash, and starts again: coroutines    *)
(* and hot state are lost, chain and storage go on.                        *)
Crash ==
    /\ crashes < MaxCrashes
    /\ crashes' = crashes + 1
    /\ co' = [t \in Task |-> Idle(co[t].run)]
    /\ loop' = Nobody
    /\ KV!Restart
    /\ started' = Len(puts)
    /\ hasToken' \in Tokens
    /\ UNCHANGED <<outcome, puts, chainVars, logged>>

(* What a coroutine that holds or gets the loop goes on with.              *)
Progress(t) ==
    \/ Fetched(t) \/ Upload(t) \/ FlowSend(t) \/ FlowReceipt(t)
    \/ LogEntry(t) \/ Segments(t) \/ Inferred(t) \/ Put(t)
    \/ Settle(t) \/ CommitSend(t) \/ CommitReceipt(t)

World ==
    \/ \E tx \in pending : Drop(tx) \/ \E ok \in BOOLEAN : Mine(tx, ok)
    \/ \E i \in 1 .. Len(mined) : Sync(i)

Step(t) == Begin(t) \/ Progress(t) \/ LogEntryFails(t)

Next == (\E t \in Task : Step(t)) \/ World \/ Crash

(* asyncio runs what is ready in order, so that a ready coroutine gets the *)
(* loop again and again and goes on; every call of the network returns or  *)
(* fails; the storage nodes keep reading the chain.                        *)
Fairness ==
    /\ \A t \in Task : SF_vars(Progress(t))
    /\ \A r \in Run : r[1] \in Anchoring => WF_vars(SyncRun(r))

Spec == Init /\ [][Next]_vars
FairSpec == Spec /\ Fairness

----------------------------------------------------------------------------
Position(r) == CHOOSE i \in 1 .. Len(puts) : puts[i].run = r
Commits == {i \in 1 .. Len(mined) : mined[i].tx.kind = "commit"}

(* State roots reach the chain in the order in which their states were     *)
(* written to the KV store, and none twice, although submissions that time *)
(* out stay in the mempool, compete with later ones and may win.           *)
CommitsFollowPuts ==
    \A i, j \in Commits :
        i < j => Position(mined[i].tx.run) < Position(mined[j].tx.run)

(* What the depin pipeline settles has been logged by the Flow contract    *)
(* and seen by the storage nodes: no failed upload is settled.             *)
DepinIsLogged ==
    \A i \in Commits : mined[i].tx.run[1] \in Depin => mined[i].tx.run \in logged

(* What this process has written under a key.                              *)
WrittenUnder(k) == {i \in started + 1 .. Len(puts) : puts[i].key = k}

(* A put that is skipped as a repetition leaves its key with a value:      *)
(* nothing is skipped because of a write that is no longer there, as after *)
(* a restart.                                                              *)
NothingSkippedIntoVoid ==
    \A k \in {Weather, Audit} \cup Run :
        WrittenUnder(k) # {} => \E i \in WrittenUnder(k) : cache[k] = puts[i].value

(* Every run ends, with a result or with an error, whatever the network    *)
(* loses, as long as the storage nodes read the chain.                     *)
EveryRunEnds == \A t \in Task : co[t].stage # "idle" ~> co[t].stage = "idle"

----------------------------------------------------------------------------
(* chain_client.py logs "On-chain settlement OK" for every tx_hash it      *)
(* returns.                                                                *)
ReportedSucceeded ==
    \A r \in Run :
        outcome[r] = "settled" =>
            \E i \in Commits : mined[i].tx.run = r /\ mined[i].ok

(* kv_client.py: the set prevents a "double-write"; get returns what the   *)
(* last put of the key wrote.                                              *)
LastPutIsRead ==
    \A k \in {Weather, Audit} : \A i \in WrittenUnder(k) :
        (\A j \in WrittenUnder(k) : j <= i) => cache[k] = puts[i].value

============================================================================
