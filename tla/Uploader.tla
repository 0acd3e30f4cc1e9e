------------------------------ MODULE Uploader ------------------------------
(***************************************************************************)
(* One upload (zg_storage_sdk/core/indexer.py, core/uploader.py): nodes    *)
(* are selected from the indexer's picture of them; then for the file, or  *)
(* for each fragment of a file that is too large, the submission goes to   *)
(* the Flow contract unless the nodes know the file, every selected node   *)
(* reads it from the chain, the segments are split into tasks by the shard *)
(* configs the nodes give now, and the tasks are sent one after the other. *)
(* Meanwhile the nodes read the chain, and another uploader of the same    *)
(* file may bring a node its segments.                                     *)
(*                                                                         *)
(* "The file" is the fragment being uploaded, and the state of the network *)
(* is what the nodes have of it.  Segments have their index in the whole   *)
(* log; tasks count from the file's first segment, which it begins with.   *)
(***************************************************************************)
EXTENDS NodeSelector

CONSTANTS
    Node,            \* the storage nodes of the network
    Indexed,         \* the shard configs the indexer has of nodes
    Live,            \* the shard configs that nodes answer with
    Fragments,       \* the fragments in order: the first segment in the log
                     \* and the number of segments of each
    ExpectedReplica, \* opts.expectedReplica
    TaskSize,        \* opts.taskSize, segments in a task
    TooManyDataRetries, \* retry_opts.TooManyDataRetries
    Options          \* opts.skipTx and opts.finalityRequired

ASSUME UploaderAssumption ==
    /\ Fragments \in Seq(Nat \X (Nat \ {0})) \ {<< >>}
    /\ {ExpectedReplica, TaskSize, TooManyDataRetries} \subseteq Nat \ {0}
    /\ Options \subseteq [skipTx : BOOLEAN, finality : BOOLEAN]
    /\ Indexed \cup Live \subseteq Nat \X Nat
    /\ \A c \in Indexed : ValidConfig(c)
    /\ IsFiniteSet(Node)

VARIABLES
    indexed,         \* the indexer's picture: node -> config
    config,          \* the configs themselves
    opts,            \* this call's options
    at,              \* the fragment being uploaded
    phase,
    selected,        \* Uploader.nodes, in their order
    tasks,
    results,         \* of the tasks sent so far
    attempt,         \* of the task being sent
    rootless,        \* it is being sent again without the field `root`
    report,          \* what the call has to say of the file's upload
    submitted,       \* whether this call's transaction is on the chain
    synced,          \* the nodes that have read it
    logged,          \* the nodes that know the file, from it or an earlier one
    stored           \* node -> the file's segments that it keeps

given == <<indexed, config, opts, at, selected>>
answers == <<results, attempt, rootless>>
call == <<phase, tasks, answers, report>>
network == <<submitted, synced, logged, stored>>
vars == <<given, call, network>>

----------------------------------------------------------------------------
StartSegment == Fragments[at][1]
NumSegments == Fragments[at][2]
EndSegment == StartSegment + NumSegments - 1
Segments == StartSegment .. EndSegment

Own(n) == {s \in Segments : s % config[n][1] = config[n][2]}

(* get_file_info(root, True): the node has the file and has finalized it.  *)
Complete(n) == n \in logged /\ Own(n) \subseteq stored[n]

Selected == {selected[i] : i \in DOMAIN selected}

(* Mutant: every node starts with the file's first segment.                *)
NextSegmentIndex_First(c, start) == start

(* next_segment_index: the first segment from start on that a node keeps.  *)
NextSegmentIndex(c, start) ==
    IF c[1] < 2 THEN start
    ELSE ((start + c[1] - 1 - c[2]) \div c[1]) * c[1] + c[2]

(* The tasks for one node, TaskSize of its segments in each.               *)
TasksFor(n) ==
    LET first == NextSegmentIndex(config[n], StartSegment)
        step == config[n][1] * TaskSize
        count == IF first > EndSegment THEN 0 ELSE (EndSegment - first) \div step + 1
    IN  [k \in 1 .. count |->
            [node |-> n, segIndex |-> first + (k - 1) * step - StartSegment]]

(* The segments that upload_task sends for a task.                         *)
Sent(task) ==
    {StartSegment + task.segIndex + j * config[task.node][1] : j \in 0 .. TaskSize - 1}
        \cap Segments

(* The lists with tasks from the shortest on, one task of each in a round, *)
(* for as many rounds as the shortest list has tasks.                      *)
InRounds(lists) ==
    LET shorter(i, j) == \/ Len(lists[i]) < Len(lists[j])
                         \/ Len(lists[i]) = Len(lists[j]) /\ i < j
        order == Sorted({i \in DOMAIN lists : lists[i] # << >>}, shorter)
    IN  IF order = << >> THEN << >>
        ELSE FlattenSeq([r \in 1 .. Len(lists[order[1]]) |->
                            [i \in DOMAIN order |-> lists[order[i]][r]]])

(* Mutant: the nodes' own configs are taken as they come.                  *)
CheckReplica_Any == TRUE

(* check_replica, of the configs that the selected nodes answer with.      *)
CheckReplica == SelectNodes(Selected, config, ExpectedReplica).ok

----------------------------------------------------------------------------
(* The shape of the state; every task's result is recorded in its order.   *)
TypeOK ==
    /\ at \in DOMAIN Fragments
    /\ phase \in {"select", "find", "submit", "wait", "split", "tasks",
                  "upload", "finality", "next", "done"}
    /\ Selected \subseteq Node /\ Cardinality(Selected) = Len(selected)
    /\ Len(results) <= Len(tasks)
    /\ \A i \in DOMAIN results : results[i] \in {"ok", "failed"}
    /\ attempt \in 0 .. TooManyDataRetries - 1 /\ rootless \in BOOLEAN
    /\ report \in {"none", "error", "empty", "clean", "partial"}
    /\ synced \subseteq logged /\ logged \subseteq Node
    /\ \A n \in Node : stored[n] \subseteq Segments

(* The indexer's picture of at most one node is out of date; nodes may     *)
(* have the file from an earlier upload.                                   *)
Init ==
    /\ indexed \in [Node -> Indexed]
    /\ \E n \in Node, c \in Live : config = [indexed EXCEPT ![n] = c]
    /\ opts \in Options
    /\ at = 1 /\ phase = "select"
    /\ selected = << >> /\ tasks = << >>
    /\ results = << >> /\ attempt = 0 /\ rootless = FALSE
    /\ report = "none"
    /\ submitted = FALSE /\ synced = {}
    /\ logged \in SUBSET Node
    /\ stored = [n \in Node |-> IF n \in logged THEN Own(n) ELSE {}]

(* upload_file returns: after an error the upload ends with it, otherwise  *)
(* the next fragment follows, if there is one.                             *)
After(with) == IF with = "error" \/ at = Len(Fragments) THEN "done" ELSE "next"

Ends(with) == phase' = After(with) /\ report' = with

----------------------------------------------------------------------------
(* Indexer.select_nodes, of the nodes that the indexer knows.              *)
Select ==
    /\ phase = "select"
    /\ LET s == SelectNodes(Node, indexed, ExpectedReplica)
       IN  IF s.ok THEN selected' = s.selected /\ phase' = "find" /\ UNCHANGED report
                   ELSE Ends("error") /\ UNCHANGED selected
    /\ UNCHANGED <<indexed, config, opts, at, tasks, answers, network>>

(* find_existing_file_info, any node that answers: the transaction is      *)
(* skipped only if the caller wants so and the file is known.              *)
FindExisting ==
    /\ phase = "find"
    /\ \E answer \in SUBSET (Selected \cap logged) :
           phase' = IF opts.skipTx /\ answer # {} THEN "split" ELSE "submit"
    /\ UNCHANGED <<given, tasks, answers, report, network>>

(* submit_transaction: the submission is on the chain, or the call ends.   *)
SubmitTransaction ==
    /\ phase = "submit"
    /\ \/ submitted' = TRUE /\ phase' = "wait" /\ UNCHANGED report
       \/ submitted' \in BOOLEAN /\ Ends("error")
    /\ UNCHANGED <<given, tasks, answers, synced, logged, stored>>

(* Mutant: the wait is for nodes that have finalized the file.             *)
WaitForLogEntry_Finalized ==
    /\ phase = "wait" /\ \A n \in Selected : Complete(n)
    /\ phase' = "split"
    /\ UNCHANGED <<given, tasks, answers, report, network>>

(* wait_for_log_entry, asked again each second until all nodes have it.    *)
WaitForLogEntry ==
    /\ phase = "wait" /\ Selected \subseteq synced
    /\ phase' = "split"
    /\ UNCHANGED <<given, tasks, answers, report, network>>

(* Mutant: one node that has the file is enough to send nothing.           *)
SplitTasks_AnyComplete ==
    /\ phase = "split"
    /\ IF \/ \E n \in Selected : ~ValidConfig(config[n])
          \/ ~CheckReplica
       THEN Ends("error")
       ELSE IF \E n \in Selected : Complete(n) THEN Ends("empty")
       ELSE phase' = "tasks" /\ UNCHANGED report
    /\ UNCHANGED <<given, tasks, answers, network>>

(* split_tasks, first half: what the nodes keep must still do, and if they *)
(* all have the file nothing is sent.  A node that has the file keeps it,  *)
(* so that asking them one after the other is like asking them at once.    *)
SplitTasks ==
    /\ phase = "split"
    /\ IF \/ \E n \in Selected : ~ValidConfig(config[n])
          \/ ~CheckReplica
       THEN Ends("error")
       ELSE IF \A n \in Selected : Complete(n) THEN Ends("empty")
       ELSE phase' = "tasks" /\ UNCHANGED report
    /\ UNCHANGED <<given, tasks, answers, network>>

(* split_tasks, second half: the nodes are asked again, and those that     *)
(* have as many segments as the whole file get no tasks.                   *)
MakeTasks ==
    /\ phase = "tasks"
    /\ LET skipped(n) == Complete(n) /\ Cardinality(stored[n]) >= NumSegments
           lists == [i \in DOMAIN selected |->
                        IF skipped(selected[i]) THEN << >> ELSE TasksFor(selected[i])]
           made == InRounds(lists)
       IN  /\ tasks' = made
           /\ IF made = << >> THEN Ends("empty")
              ELSE phase' = "upload" /\ UNCHANGED report
    /\ UNCHANGED <<given, answers, network>>

(* A node's answer does not come, in a stage that does not catch that.     *)
CallRaises ==
    /\ phase \in {"select", "split", "tasks"}
    /\ Ends("error")
    /\ UNCHANGED <<given, tasks, answers, network>>

(* The same for the answers that are waited for.                           *)
WaitRaises ==
    /\ phase \in {"wait", "finality"}
    /\ Ends("error")
    /\ UNCHANGED <<given, tasks, answers, network>>

----------------------------------------------------------------------------
Task == tasks[Len(results) + 1]

Sending == phase = "upload" /\ Len(results) < Len(tasks)

Store(n, segments) == stored' = [stored EXCEPT ![n] = @ \cup segments]

TaskEnds(result) ==
    results' = Append(results, result) /\ attempt' = 0 /\ rootless' = FALSE

(* The node writes the task's segments, and says so.                       *)
TaskAccepted ==
    /\ Sending /\ Task.node \in logged
    /\ Store(Task.node, Sent(Task))
    /\ TaskEnds("ok")
    /\ UNCHANGED <<given, phase, tasks, report, submitted, synced, logged>>

(* The node has finalized the file, and refuses to write.  Said in answer  *)
(* to a repetition without the root this is an error like any other.       *)
TaskAlreadyUploaded ==
    /\ Sending /\ ~rootless /\ Complete(Task.node)
    /\ TaskEnds("ok")
    /\ UNCHANGED <<given, phase, tasks, report, network>>

(* Mutant: the last attempt of a busy node passes.                         *)
TaskRetried_Passes ==
    /\ Sending /\ ~rootless
    /\ \/ Task.node \in logged /\ Store(Task.node, Sent(Task))
       \/ UNCHANGED stored
    /\ IF attempt < TooManyDataRetries - 1
       THEN attempt' = attempt + 1 /\ UNCHANGED <<results, rootless>>
       ELSE TaskEnds("ok")
    /\ UNCHANGED <<given, phase, tasks, report, submitted, synced, logged>>

(* Mutant: one attempt more.                                               *)
TaskRetried_OneMore ==
    /\ Sending /\ ~rootless
    /\ \/ Task.node \in logged /\ Store(Task.node, Sent(Task))
       \/ UNCHANGED stored
    /\ IF attempt < TooManyDataRetries
       THEN attempt' = attempt + 1 /\ UNCHANGED <<results, rootless>>
       ELSE TaskEnds("failed")
    /\ UNCHANGED <<given, phase, tasks, report, submitted, synced, logged>>

(* The node is writing too many data, or its answer is null although it    *)
(* may have written: the task is sent again, so many times in all.         *)
TaskRetried ==
    /\ Sending /\ ~rootless
    /\ \/ Task.node \in logged /\ Store(Task.node, Sent(Task))
       \/ UNCHANGED stored
    /\ IF attempt < TooManyDataRetries - 1
       THEN attempt' = attempt + 1 /\ UNCHANGED <<results, rootless>>
       ELSE TaskEnds("failed")
    /\ UNCHANGED <<given, phase, tasks, report, submitted, synced, logged>>

(* The node takes no field `root`: the same segments are sent without it,  *)
(* within the same attempt.                                                *)
TaskRejected ==
    /\ Sending /\ ~rootless
    /\ rootless' = TRUE
    /\ UNCHANGED <<given, phase, tasks, results, attempt, report, network>>

(* Any other error, or any at all without the root, after which the node   *)
(* may have written.                                                       *)
TaskFails ==
    /\ Sending
    /\ \/ Task.node \in logged /\ Store(Task.node, Sent(Task))
       \/ UNCHANGED stored
    /\ TaskEnds("failed")
    /\ UNCHANGED <<given, phase, tasks, report, submitted, synced, logged>>

(* The end of upload_file: failed tasks are reported and nothing more.     *)
Report ==
    /\ phase = "upload" /\ Len(results) = Len(tasks)
    /\ report' = IF \E i \in DOMAIN results : results[i] = "failed"
                 THEN "partial" ELSE "clean"
    /\ phase' = IF opts.finality THEN "finality" ELSE After(report')
    /\ UNCHANGED <<given, tasks, answers, network>>

(* wait_for_log_entry with finality, asked again for as long as it takes.  *)
WaitForFinality ==
    /\ phase = "finality" /\ \A n \in Selected : Complete(n)
    /\ phase' = After(report)
    /\ UNCHANGED <<given, tasks, answers, report, network>>

(* splitable_upload: upload_file again, with the next fragment, which the  *)
(* nodes may have as well.                                                 *)
NextFragment ==
    /\ phase = "next"
    /\ at' = at + 1 /\ phase' = "find"
    /\ UNCHANGED <<indexed, config, opts, selected, attempt, rootless>>
    /\ tasks' = << >> /\ results' = << >> /\ report' = "none"
    /\ submitted' = FALSE /\ synced' = {}
    /\ logged' \in SUBSET Node
    /\ stored' = [n \in Node |-> IF n \in logged' THEN Own(n)' ELSE {}]

----------------------------------------------------------------------------
(* A node reads the transaction's log entry from the chain.                *)
Sync(n) ==
    /\ submitted /\ n \notin synced
    /\ synced' = synced \cup {n} /\ logged' = logged \cup {n}
    /\ UNCHANGED <<given, call, submitted, stored>>

(* Another uploader of the file, or the network, completes a node.         *)
OtherUploader(n) ==
    /\ n \in logged /\ ~Complete(n)
    /\ Store(n, Own(n))
    /\ UNCHANGED <<given, call, submitted, synced, logged>>

Call ==
    \/ CallRaises \/ Select \/ FindExisting \/ SubmitTransaction
    \/ WaitForLogEntry \/ SplitTasks \/ MakeTasks
    \/ TaskAccepted \/ TaskAlreadyUploaded \/ TaskRetried \/ TaskRejected
    \/ TaskFails \/ Report \/ WaitForFinality \/ NextFragment

Next == Call \/ WaitRaises \/ \E n \in Node : Sync(n) \/ OtherUploader(n)

Spec == Init /\ [][Next]_vars

(* The call's own calls return, and the nodes keep up with the chain.      *)
FairSpec == Spec /\ WF_vars(Call) /\ \A n \in Node : WF_vars(Sync(n))

----------------------------------------------------------------------------
(* However out of date the indexer is, segments are sent only while the    *)
(* selected nodes, as configured now, keep every segment of the file often *)
(* enough between them.                                                    *)
SentOnlyIfCovered ==
    tasks # << >> =>
        \A s \in Segments :
            Cardinality({n \in Selected : s \in Own(n)}) >= ExpectedReplica

(* No node is sent a segment that is another shard's: it would be paid     *)
(* for, written and never served.                                          *)
OwnSegmentsOnly == \A n \in Node : stored[n] \subseteq Own(n)

(* A task that counts as uploaded is stored, whatever answers its attempts *)
(* had before and whoever else wrote meanwhile.                            *)
OkTaskIsStored ==
    \A i \in DOMAIN results :
        results[i] = "ok" => Sent(tasks[i]) \subseteq stored[tasks[i].node]

(* The tasks of each selected node, or rather their numbers, agree.        *)
SameLengths ==
    \A m, n \in Selected : Len(TasksFor(m)) = Len(TasksFor(n))

(* When the nodes have equally many tasks, an upload without a failed task *)
(* or without any task leaves every selected node complete, unless nothing *)
(* of the file is its to keep: then it may not even know the file.         *)
EvenUploadIsComplete ==
    report = "empty" \/ (report = "clean" /\ SameLengths)
        => \A n \in Selected : Complete(n) \/ Own(n) = {}

(* "All tasks processed successfully" is said of a file that is stored.    *)
CleanUploadIsComplete ==
    report = "clean" => \A n \in Selected : Complete(n)

(* A call returns in the end, unless it waits for nodes that are never     *)
(* completed to finalize the file.                                         *)
EveryUploadEnds ==
    <>[](phase = "done" \/ (phase = "finality" /\ \E n \in Selected : ~Complete(n)))
=============================================================================
