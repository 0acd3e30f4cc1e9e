------------------------------ MODULE Backend ------------------------------
(***************************************************************************)
(* The pipelines and the event stream together: the daemons' loops         *)
(* (backend/daemons.py) broadcast when a run begins and when it ends, and  *)
(* the streamer's generators need the event loop that a blocking call of a *)
(* pipeline holds.  The endpoints run the same pipelines and broadcast     *)
(* nothing.                                                                *)
(***************************************************************************)
EXTENDS Pipelines

CONSTANTS
    Daemon,        \* the tasks that are daemons; the others are endpoints
    Page, NoMessage, LogLines, MaxConnects

VARIABLES asked, queues, broken, page, history, next

(* A line for the log, and the result of a run.                            *)
Level == {"INFO", "SUCCESS", "WARNING", "ERROR"}
Line == [event : {"log"}, run : Run, level : Level]
Update == [event : {"game_update", "social_update", "depin_update"},
           run : Run, result : Outcome \ {"running"}]

Messages == Line \cup Update

Stream == INSTANCE EventStream WITH Message <- Messages

streamVars == <<asked, queues, broken, page, history, next>>
backendVars == <<vars, streamVars>>

ASSUME BackendAssumption ==
    Daemon \subseteq Task /\ Stream!EventStreamAssumption

BackendInit == Init /\ Stream!Init

LineOf(r, level) == [event |-> "log", run |-> r, level |-> level]

UpdateOf(r, result) ==
    [event |-> IF r[1] \in Game THEN "game_update"
               ELSE IF r[1] \in Social THEN "social_update" ELSE "depin_update",
     run |-> r, result |-> result]

(* What a daemon says when a run begins, and when it ended with a result,  *)
(* an error among them.  (An exception of a pipeline would be a line       *)
(* alone; every call in them catches its own.)  An audit may have flagged  *)
(* somebody.                                                               *)
Opening(t) == <<LineOf(<<t, co'[t].run>>, "INFO")>>

Levels(r) ==
    IF outcome'[r] = "error"
    THEN {IF r[1] \in Depin THEN "WARNING" ELSE "ERROR"}
    ELSE {"SUCCESS"} \cup {l \in {"WARNING"} : r[1] \in Social}

Closing(r, level) == <<UpdateOf(r, outcome'[r]), LineOf(r, level)>>

Says(t, ms) ==
    IF t \in Daemon THEN Stream!Broadcast(ms) ELSE UNCHANGED streamVars

Closes(t) == \E level \in Levels(This(t)) : Says(t, Closing(This(t), level))

TaskBegins(t) == Begin(t) /\ Says(t, Opening(t))

Tells(t) ==
    IF outcome' # outcome THEN Closes(t) ELSE UNCHANGED streamVars

TaskProgress(t) == Progress(t) /\ Tells(t)

TaskFails(t) == LogEntryFails(t) /\ Tells(t)

(* The generators are coroutines of the same loop.                         *)
ServerServes(c) == loop = Nobody /\ Stream!Serve(c) /\ UNCHANGED vars

BackendNext ==
    \/ \E t \in Task : TaskBegins(t) \/ TaskProgress(t) \/ TaskFails(t)
    \/ World /\ UNCHANGED streamVars
    \/ Crash /\ Stream!ServerEnds
    \/ \E c \in Stream!Connection : ServerServes(c)
    \/ Stream!Browse /\ UNCHANGED vars

BackendSpec == BackendInit /\ [][BackendNext]_backendVars

(* As in Pipelines; the loop runs the generators in their turn too, and    *)
(* the browser handles its events and lets the timer run out.              *)
BackendFairness ==
    /\ \A t \in Task : SF_backendVars(TaskProgress(t))
    /\ \A r \in Run : r[1] \in Anchoring =>
          WF_backendVars(SyncRun(r) /\ UNCHANGED streamVars)
    /\ SF_backendVars(\E c \in Stream!Connection : ServerServes(c))
    /\ \A p \in Page : WF_backendVars(Stream!Reacts(p) /\ UNCHANGED vars)

FairBackendSpec == BackendSpec /\ BackendFairness

----------------------------------------------------------------------------
NothingSkipped == Stream!NothingSkipped
ImplementsFeed == Stream!ImplementsFeed

(* A page that shows a run as a success shows the truth: the run wrote the *)
(* hot state, and a run that uploads has its blob in the storage nodes'    *)
(* log, whatever was lost or restarted since.                              *)
SuccessIsTrue ==
    \A p \in Page : \A i \in DOMAIN page[p].view.logs :
        LET line == page[p].view.logs[i]
        IN  line.level = "SUCCESS" =>
                /\ \E j \in DOMAIN puts : puts[j].run = line.run
                /\ line.run[1] \in Anchoring => line.run \in logged

(* Again and again a page is connected and shows everything that was       *)
(* broadcast since, or is left: connections that break, pipelines that     *)
(* hold the loop for as long as the storage nodes take to read the chain,  *)
(* and the queues of connections that are gone do not keep it behind.      *)
PageCatchesUp ==
    \A p \in Page :
        []<>(\/ ~page[p].mounted
            \/ /\ page[p].connected
               /\ \A c \in page[p].sources :
                     c \notin broken /\ queues[c] = << >>)
=============================================================================
