----------------------------- MODULE Downloader -----------------------------
(***************************************************************************)
(* Downloads of files from the storage nodes (zg_storage_sdk/core/         *)
(* downloader.py).  A call for one root writes the file's segments to its  *)
(* output path; a call for the roots of a file's fragments goes through a  *)
(* temporary file per root, beside the output.  Several processes download *)
(* into the same directory; each of them may fail, end in the middle of a  *)
(* call, and call again with the same path.                                *)
(*                                                                         *)
(* A segment's bytes are the record of where they come from, and of        *)
(* whether the padding of the file's last chunk has been cut off.          *)
(***************************************************************************)
EXTENDS Integers, Sequences, SequencesExt, FiniteSets

CONSTANTS
    Caller, Root, Node,
    nodes,           \* Downloader.nodes, in the order of the locations
    Requests,        \* caller -> the lists of roots that it may ask for
    Segments,        \* root -> the number of the file's segments
    StartSegment,    \* root -> where the file begins in the log
    Configs,         \* the shard configs a node may have
    MaxCalls,        \* bound: caller -> its calls
    MaxCrashes       \* bound: the callers that end within a call

ASSUME DownloaderAssumption ==
    /\ Segments \in [Root -> Nat \ {0}]
    /\ StartSegment \in [Root -> Nat]
    /\ nodes \in Seq(Node) /\ nodes # << >>
    /\ Requests \in [Caller -> SUBSET [roots : Seq(Root) \ {<< >>}, fragments : BOOLEAN]]
    /\ \A c \in Caller : \A q \in Requests[c] : ~q.fragments => Len(q.roots) = 1
    /\ \A c \in Configs : c[1] \in Nat \ {0} /\ c[2] \in 0 .. c[1] - 1
    /\ MaxCalls \in [Caller -> Nat] /\ MaxCrashes \in Nat

VARIABLES
    request,         \* caller -> what it asks for, each time
    config,          \* node -> its shard config
    holds,           \* node -> the roots whose segments it keeps, finalized
    exists,          \* the paths of the directory that exist
    data,            \* path -> its contents
    pc,              \* caller -> where it is
    at,              \* caller -> the root it is at
    taskInd,         \* caller -> the segments of that root written
    tried,           \* caller -> the nodes passed over for the next segment
    tempFiles,       \* caller -> temp_files, the files to clean up
    result,          \* caller -> what its last call returned
    calls, crashes,
    overlapped       \* the callers that shared a temporary file with another

network == <<request, config, holds>>
disk == <<exists, data>>
count == <<calls, crashes, overlapped>>
vars == <<network, disk, pc, at, taskInd, tried, tempFiles, result, count>>

----------------------------------------------------------------------------
Out(c) == <<"out", c>>
Temp(r) == <<"temp", r>>
Paths == {Out(c) : c \in Caller} \cup {Temp(r) : r \in Root}

Roots(c) == request[c].roots
Current(c) == Roots(c)[at[c]]

(* Where download_file writes.                                             *)
Target(c) == IF request[c].fragments THEN Temp(Current(c)) ELSE Out(c)

Running(c) == pc[c] \notin {"idle", "returned"}

(* A file as it was uploaded: its last segment is the one that is cut.     *)
Whole(r) ==
    [k \in 1 .. Segments[r] |-> [root |-> r, segment |-> k, cut |-> k = Segments[r]]]

(* The callers whose temporary files have one of c's paths.                *)
Sharing(c) ==
    {d \in Caller \ {c} :
        /\ request[c].fragments /\ request[d].fragments
        /\ Running(d) /\ Range(Roots(c)) \cap Range(Roots(d)) # {}}

----------------------------------------------------------------------------
(* The shape of the state; a call is never beyond its roots and segments.  *)
TypeOK ==
    /\ exists \subseteq Paths
    /\ \A p \in Paths \ exists : data[p] = << >>
    /\ \A c \in Caller :
        /\ pc[c] \in {"idle", "query", "segments", "copy", "unlink", "cleanup", "returned"}
        /\ at[c] \in 1 .. Len(Roots(c))
        /\ taskInd[c] \in 0 .. Segments[Current(c)]
        /\ tried[c] \in 0 .. Len(nodes)
        /\ tempFiles[c] \subseteq {Temp(r) : r \in Range(Roots(c))}
        /\ result[c] \in {"none", "ok", "error"}
        /\ calls[c] \in 0 .. MaxCalls[c]
    /\ crashes \in 0 .. MaxCrashes
    /\ overlapped \subseteq Caller

(* Nothing is downloaded yet; every node keeps what it keeps.              *)
Init ==
    /\ request \in [Caller -> UNION {Requests[c] : c \in Caller}]
    /\ \A c \in Caller : request[c] \in Requests[c]
    /\ config \in [Node -> Configs]
    /\ holds \in [Node -> {{}, Root}]
    /\ exists = {} /\ data = [p \in Paths |-> << >>]
    /\ pc = [c \in Caller |-> "idle"]
    /\ at = [c \in Caller |-> 1]
    /\ taskInd = [c \in Caller |-> 0]
    /\ tried = [c \in Caller |-> 0]
    /\ tempFiles = [c \in Caller |-> {}]
    /\ result = [c \in Caller |-> "none"]
    /\ calls = [c \in Caller |-> 0] /\ crashes = 0
    /\ overlapped = {}

Goto(c, where) == pc' = [pc EXCEPT ![c] = where]

(* A call returns, after the clean-up if it has one.                       *)
Return(c, r) ==
    /\ result' = [result EXCEPT ![c] = r]
    /\ Goto(c, IF request[c].fragments THEN "cleanup" ELSE "returned")

----------------------------------------------------------------------------
(* download: the call for fragments refuses an output file that exists,    *)
(* and opens a new one; the call for one root leaves that to download_file. *)
Download(c) ==
    /\ ~Running(c) /\ calls[c] < MaxCalls[c]
    /\ calls' = [calls EXCEPT ![c] = @ + 1]
    /\ at' = [at EXCEPT ![c] = 1] /\ taskInd' = [taskInd EXCEPT ![c] = 0]
    /\ IF request[c].fragments /\ Out(c) \in exists
       THEN /\ pc' = [pc EXCEPT ![c] = "returned"]
            /\ result' = [result EXCEPT ![c] = "error"]
            /\ UNCHANGED <<exists, overlapped>>
       ELSE /\ Goto(c, "query")
            /\ result' = [result EXCEPT ![c] = "none"]
            /\ exists' = IF request[c].fragments THEN exists \cup {Out(c)} ELSE exists
            /\ overlapped' = IF Sharing(c) = {} THEN overlapped \ {c}
                             ELSE overlapped \cup {c} \cup Sharing(c)
    /\ UNCHANGED <<network, data, tried, tempFiles, crashes>>

(* Mutant: the path is not looked at.                                      *)
QueryFile_NoCheck(c) ==
    /\ pc[c] = "query"
    /\ tempFiles' = IF request[c].fragments
                    THEN [tempFiles EXCEPT ![c] = @ \cup {Target(c)}] ELSE tempFiles
    /\ \/ /\ \E n \in Node : Current(c) \in holds[n]
          /\ Goto(c, "segments")
          /\ taskInd' = [taskInd EXCEPT ![c] = 0] /\ tried' = [tried EXCEPT ![c] = 0]
          /\ UNCHANGED result
       \/ Return(c, "error") /\ UNCHANGED <<taskInd, tried>>
    /\ UNCHANGED <<network, disk, at, count>>

(* download_file until its first segment: the file is finalized at a node  *)
(* that answers, its path is free and all nodes tell their shards.         *)
QueryFile(c) ==
    /\ pc[c] = "query"
    /\ tempFiles' = IF request[c].fragments
                    THEN [tempFiles EXCEPT ![c] = @ \cup {Target(c)}] ELSE tempFiles
    /\ \/ /\ \E n \in Node : Current(c) \in holds[n]
          /\ Target(c) \notin exists
          /\ Goto(c, "segments")
          /\ taskInd' = [taskInd EXCEPT ![c] = 0] /\ tried' = [tried EXCEPT ![c] = 0]
          /\ UNCHANGED result
       \/ Return(c, "error") /\ UNCHANGED <<taskInd, tried>>
    /\ UNCHANGED <<network, disk, at, count>>

----------------------------------------------------------------------------
Asking(c) == pc[c] = "segments" /\ taskInd[c] < Segments[Current(c)]

(* The nodes take turns at being the first to be asked.                    *)
AskedNode(c) == nodes[1 + ((taskInd[c] + tried[c]) % Len(nodes))]

(* Mutant: the index in the file decides which node keeps the segment.     *)
Keeps_InFile(n, c) == taskInd[c] % config[n][1] = config[n][2]

(* Whether the segment with this index in the log is the node's.           *)
Keeps(n, c) ==
    (StartSegment[Current(c)] + taskInd[c]) % config[n][1] = config[n][2]

(* The segments that the nodes have, whoever asks for them.                *)
Has(n, c) ==
    /\ Current(c) \in holds[n]
    /\ (StartSegment[Current(c)] + taskInd[c]) % config[n][1] = config[n][2]

(* What download_task makes of a node's answer.                            *)
Fetched(c) ==
    [root |-> Current(c), segment |-> taskInd[c] + 1,
     cut |-> taskInd[c] + 1 = Segments[Current(c)]]

(* The node has the segment, which is appended to the file.                *)
SegmentArrives(c) ==
    /\ Asking(c) /\ tried[c] < Len(nodes)
    /\ Keeps(AskedNode(c), c) /\ Has(AskedNode(c), c)
    /\ data' = [data EXCEPT ![Target(c)] = Append(@, Fetched(c))]
    /\ exists' = exists \cup {Target(c)}
    /\ taskInd' = [taskInd EXCEPT ![c] = @ + 1] /\ tried' = [tried EXCEPT ![c] = 0]
    /\ UNCHANGED <<network, pc, at, tempFiles, result, count>>

Passes(n, c) == ~Keeps(n, c) \/ ~Has(n, c)

(* Mutant: after the last node the first is asked again.                   *)
NextNode_Again(c) ==
    /\ Asking(c) /\ Passes(AskedNode(c), c)
    /\ tried' = [tried EXCEPT ![c] = (@ + 1) % Len(nodes)]
    /\ UNCHANGED <<network, disk, pc, at, taskInd, tempFiles, result, count>>

(* Mutant: one node is asked twice.                                        *)
NextNode_OneMore(c) ==
    /\ Asking(c) /\ tried[c] <= Len(nodes) /\ Passes(AskedNode(c), c)
    /\ tried' = [tried EXCEPT ![c] = @ + 1]
    /\ UNCHANGED <<network, disk, pc, at, taskInd, tempFiles, result, count>>

(* The segment is another shard's, or the node answers that it has none.   *)
NextNode(c) ==
    /\ Asking(c) /\ tried[c] < Len(nodes) /\ Passes(AskedNode(c), c)
    /\ tried' = [tried EXCEPT ![c] = @ + 1]
    /\ UNCHANGED <<network, disk, pc, at, taskInd, tempFiles, result, count>>

(* No node has the segment, or the one that is asked does not answer: that *)
(* ends the call even if another node has it.                              *)
SegmentFails(c) ==
    /\ Asking(c) /\ (tried[c] = Len(nodes) \/ Keeps(AskedNode(c), c))
    /\ Return(c, "error")
    /\ UNCHANGED <<network, disk, at, taskInd, tried, tempFiles, count>>

FileEnds(c) ==
    /\ pc[c] = "segments" /\ taskInd[c] = Segments[Current(c)]
    /\ IF request[c].fragments THEN Goto(c, "copy") /\ UNCHANGED result
                               ELSE Return(c, "ok")
    /\ UNCHANGED <<network, disk, at, taskInd, tried, tempFiles, count>>

----------------------------------------------------------------------------
(* The temporary file is read and written to the output.                   *)
CopyFragment(c) ==
    /\ pc[c] = "copy"
    /\ IF Target(c) \in exists
       THEN /\ data' = [data EXCEPT ![Out(c)] = @ \o data[Target(c)]]
            /\ Goto(c, "unlink") /\ UNCHANGED result
       ELSE Return(c, "error") /\ UNCHANGED data
    /\ UNCHANGED <<network, exists, at, taskInd, tried, tempFiles, count>>

Delete(paths) ==
    /\ exists' = exists \ paths
    /\ data' = [p \in Paths |-> IF p \in paths THEN << >> ELSE data[p]]

(* It is deleted if it is still there; the next root is next.              *)
UnlinkFragment(c) ==
    /\ pc[c] = "unlink"
    /\ Delete({Target(c)})
    /\ tempFiles' = IF Target(c) \in exists
                    THEN [tempFiles EXCEPT ![c] = @ \ {Target(c)}] ELSE tempFiles
    /\ IF at[c] = Len(Roots(c)) THEN Return(c, "ok") /\ UNCHANGED <<at, taskInd>>
       ELSE /\ at' = [at EXCEPT ![c] = @ + 1] /\ taskInd' = [taskInd EXCEPT ![c] = 0]
            /\ Goto(c, "query") /\ UNCHANGED result
    /\ UNCHANGED <<network, tried, count>>

(* Mutant: the clean-up is left out.                                       *)
Cleanup_Nothing(c) ==
    /\ pc[c] = "cleanup" /\ Goto(c, "returned")
    /\ tempFiles' = [tempFiles EXCEPT ![c] = {}]
    /\ UNCHANGED <<network, disk, at, taskInd, tried, result, count>>

(* The finally clause of download_fragments.                               *)
Cleanup(c) ==
    /\ pc[c] = "cleanup" /\ Goto(c, "returned")
    /\ Delete(tempFiles[c])
    /\ tempFiles' = [tempFiles EXCEPT ![c] = {}]
    /\ UNCHANGED <<network, at, taskInd, tried, result, count>>

----------------------------------------------------------------------------
(* The caller's process ends; what it had written stays.                   *)
Crash(c) ==
    /\ Running(c) /\ crashes < MaxCrashes
    /\ crashes' = crashes + 1
    /\ pc' = [pc EXCEPT ![c] = "idle"]
    /\ result' = [result EXCEPT ![c] = "none"]
    /\ tempFiles' = [tempFiles EXCEPT ![c] = {}]
    /\ UNCHANGED <<network, disk, at, taskInd, tried, calls, overlapped>>

(* The caller removes what a call that did not succeed has left.           *)
RemoveOutput(c) ==
    /\ ~Running(c) /\ result[c] # "ok" /\ Out(c) \in exists
    /\ Delete({Out(c)})
    /\ UNCHANGED <<network, pc, at, taskInd, tried, tempFiles, result, count>>

Step(c) ==
    \/ QueryFile(c) \/ SegmentArrives(c) \/ NextNode(c) \/ SegmentFails(c)
    \/ FileEnds(c) \/ CopyFragment(c) \/ UnlinkFragment(c) \/ Cleanup(c)

Next == \E c \in Caller : Download(c) \/ Step(c) \/ Crash(c) \/ RemoveOutput(c)

Spec == Init /\ [][Next]_vars

(* A call that has been made goes on: the nodes' answers or errors come.   *)
FairSpec == Spec /\ \A c \in Caller : WF_vars(Step(c))

----------------------------------------------------------------------------
(* A call that returns without an error leaves the files of its roots,     *)
(* every byte of them once and in order, whatever earlier calls left on    *)
(* the path and beside it; unless another process used its temporary files *)
(* at the same time.                                                       *)
SuccessIsWhole ==
    \A c \in Caller :
        pc[c] = "returned" /\ result[c] = "ok" /\ c \notin overlapped =>
            /\ Out(c) \in exists
            /\ data[Out(c)] =
                   FlattenSeq([k \in DOMAIN Roots(c) |-> Whole(Roots(c)[k])])

(* Temporary files are gone when no call runs, unless a process has ended  *)
(* within one.                                                             *)
NoTemporaryLeft ==
    crashes = 0 /\ (\A c \in Caller : ~Running(c)) =>
        \A r \in Root : Temp(r) \notin exists

(* A segment is given up only when none of the downloader's nodes has it:  *)
(* between them their order and the filter by shards pass over none that   *)
(* does.                                                                   *)
GivenUpIsMissing ==
    \A c \in Caller :
        Asking(c) /\ tried[c] = Len(nodes) =>
            \A n \in Range(nodes) : ~Has(n, c)

(* Every call returns, unless its process ends.                            *)
EveryDownloadEnds ==
    \A c \in Caller : pc[c] = "query" ~> ~Running(c)
=============================================================================
