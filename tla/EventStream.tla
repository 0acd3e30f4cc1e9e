---------------------------- MODULE EventStream ----------------------------
(***************************************************************************)
(* The event stream: EventStreamer (backend/daemons.py) behind /stream     *)
(* (backend/main.py) and the hook of the frontend that reads it            *)
(* (frontend/hooks/useSSE.ts).  Every connection has an unbounded queue of *)
(* its own, so that broadcast never waits and is one step for all of them. *)
(*                                                                         *)
(* A page numbers its connections.  Either side learns of a broken         *)
(* connection on its own and at a time of its own.  What is on the wire is *)
(* counted with the queue: a message leaves it when the page gets it.  The *)
(* pages' waits before they connect again are not timed.                   *)
(***************************************************************************)
EXTENDS Naturals, Sequences

CONSTANTS
    Page,          \* dashboards
    Message,       \* what is broadcast: records with a field `event`
    NoMessage,     \* the state of a page before the first update: null
    LogLines,      \* log lines a page keeps: 150
    MaxConnects    \* bound: connections a page makes

Kind == {"game_update", "social_update", "depin_update"}

(* What is required of the constants.                                      *)
EventStreamAssumption ==
    /\ \A m \in Message : m.event \in Kind \cup {"log"}
    /\ NoMessage \notin Message
    /\ LogLines \in Nat \ {0}
    /\ MaxConnects \in Nat \ {0}

Connection == Page \X (1 .. MaxConnects)

VARIABLES
    asked,         \* connections whose request the server has not answered
    queues,        \* the queue of each connection that the streamer knows
    broken,        \* connections that are no longer whole
    page,          \* the hook's state on each page
    history,       \* history: everything broadcast
    next           \* history: the position of each connection's next message,
                   \* 0 when its generator has not started

streamVars == <<asked, queues, broken, page, history, next>>

View == [logs : Seq(Message), latest : [Kind -> Message \cup {NoMessage}]]

(* The shape of the state; a page keeps at most LogLines lines, and every  *)
(* queue belongs to a connection that was made.                            *)
TypeOK ==
    /\ asked \subseteq Connection /\ broken \subseteq Connection
    /\ DOMAIN queues \subseteq Connection
    /\ queues \in [DOMAIN queues -> Seq(Message)]
    /\ page \in [Page -> [mounted : BOOLEAN, timer : BOOLEAN,
                          connected : BOOLEAN, sources : SUBSET Connection,
                          made : 0 .. MaxConnects, view : View]]
    /\ \A p \in Page : Len(page[p].view.logs) <= LogLines
    /\ history \in Seq(Message)
    /\ next \in [Connection -> Nat]

Fresh == [mounted |-> TRUE, timer |-> TRUE, connected |-> FALSE, sources |-> {},
          made |-> 0,
          view |-> [logs |-> << >>, latest |-> [k \in Kind |-> NoMessage]]]

Init ==
    /\ asked = {} /\ broken = {}
    /\ queues = << >>
    /\ page = [p \in Page |-> Fresh]
    /\ history = << >>
    /\ next = [c \in Connection |-> 0]

----------------------------------------------------------------------------
(* The server.                                                             *)

(* Mutant: a client that has not read yet is passed over.                  *)
Broadcast_Bounded(ms) ==
    /\ queues' = [c \in DOMAIN queues |->
                    IF queues[c] # << >> THEN queues[c] ELSE queues[c] \o ms]
    /\ history' = history \o ms
    /\ UNCHANGED <<asked, broken, page, next>>

(* broadcast, called for several messages in a row without an await that   *)
(* gives up the loop.                                                      *)
Broadcast(ms) ==
    /\ queues' = [c \in DOMAIN queues |-> queues[c] \o ms]
    /\ history' = history \o ms
    /\ UNCHANGED <<asked, broken, page, next>>

(* A request for /stream: its generator adds a queue before it waits.      *)
Subscribe(c) ==
    /\ c \in asked
    /\ asked' = asked \ {c}
    /\ queues' = [d \in DOMAIN queues \cup {c} |->
                    IF d = c THEN << >> ELSE queues[d]]
    /\ next' = [next EXCEPT ![c] = Len(history) + 1]
    /\ UNCHANGED <<broken, page, history>>

(* The server notices that the page has left and ends the generator, whose *)
(* finally removes the queue.                                              *)
Unsubscribe(c) ==
    /\ c \in DOMAIN queues \cap broken
    /\ queues' = [d \in DOMAIN queues \ {c} |-> queues[d]]
    /\ UNCHANGED <<asked, broken, page, history, next>>

(* The process ends; its connections and queues are gone, requests it has  *)
(* not answered among them.  Bound: it ends while the pages may connect    *)
(* once more.                                                              *)
ServerEnds ==
    /\ \A p \in Page : page[p].made < MaxConnects
    /\ asked' = {}
    /\ queues' = << >>
    /\ broken' = {c \in Connection : c[2] <= page[c[1]].made}
    /\ UNCHANGED <<page, history, next>>

----------------------------------------------------------------------------
(* The page.                                                               *)

(* connect(), when the page is mounted and when the timer has run out.     *)
Connect(p) ==
    LET c == <<p, page[p].made + 1>>
    IN  /\ page[p].timer
        /\ page' = [page EXCEPT ![p].timer = FALSE, ![p].made = @ + 1,
                                ![p].sources = @ \cup {c}]
        /\ asked' = asked \cup {c}
        /\ UNCHANGED <<queues, broken, history, next>>

Open(p) ==
    /\ ~page[p].connected
    /\ \E c \in page[p].sources : next[c] # 0
    /\ page' = [page EXCEPT ![p].connected = TRUE]
    /\ UNCHANGED <<asked, queues, broken, history, next>>

(* Mutant: slice(-LogLines) keeps one line too many.                       *)
Handle_OneMore(v, m) ==
    IF m.event = "log"
    THEN [v EXCEPT !.logs =
            Append(IF Len(@) > LogLines THEN Tail(@) ELSE @, m)]
    ELSE [v EXCEPT !.latest[m.event] = m]

(* The listeners: [...prev.slice(-149), line], and the state of an update. *)
Handle(v, m) ==
    IF m.event = "log"
    THEN [v EXCEPT !.logs =
            Append(IF Len(@) > LogLines - 1 THEN Tail(@) ELSE @, m)]
    ELSE [v EXCEPT !.latest[m.event] = m]

(* The generator yields the next message of its queue, and the page's      *)
(* source dispatches it.                                                   *)
Deliver(c) ==
    LET p == c[1]
    IN  /\ c \in DOMAIN queues /\ queues[c] # << >>
        /\ c \in page[p].sources /\ page[p].connected
        /\ queues' = [queues EXCEPT ![c] = Tail(@)]
        /\ page' = [page EXCEPT ![p].view = Handle(@, Head(queues[c]))]
        /\ next' = [next EXCEPT ![c] = @ + 1]
        /\ UNCHANGED <<asked, broken, history>>

(* Mutant: onerror closes the source and sets no timer.                    *)
OnError_NoTimer(c) ==
    LET p == c[1]
    IN  /\ c \in page[p].sources \cap broken
        /\ page' = [page EXCEPT ![p].connected = FALSE,
                                ![p].sources = @ \ {c}]
        /\ next' = [next EXCEPT ![c] = 0]
        /\ UNCHANGED <<asked, queues, broken, history>>

(* onerror closes the source, so that the browser does not connect it      *)
(* again, and sets the timer.  What was still in the queue is lost.        *)
OnError(c) ==
    LET p == c[1]
    IN  /\ c \in page[p].sources \cap broken
        /\ page' = [page EXCEPT ![p].connected = FALSE, ![p].timer = TRUE,
                                ![p].sources = @ \ {c}]
        /\ next' = [next EXCEPT ![c] = 0]
        /\ UNCHANGED <<asked, queues, broken, history>>

(* The effect's cleanup when the page is left.                             *)
Unmount(p) ==
    /\ page[p].mounted
    /\ page' = [page EXCEPT ![p].mounted = FALSE, ![p].timer = FALSE,
                            ![p].sources = {}]
    /\ broken' = broken \cup page[p].sources
    /\ asked' = asked \ page[p].sources
    /\ next' = [c \in Connection |->
                  IF c \in page[p].sources THEN 0 ELSE next[c]]
    /\ UNCHANGED <<queues, history>>

(* The network loses a connection, or a request that the server has not    *)
(* answered.  Bound: as long as the page may connect once more.            *)
Break(c) ==
    /\ c \in page[c[1]].sources \ broken
    /\ page[c[1]].made < MaxConnects
    /\ broken' = broken \cup {c}
    /\ asked' = asked \ {c}
    /\ UNCHANGED <<queues, page, history, next>>

Serve(c) == Subscribe(c) \/ Deliver(c) \/ Unsubscribe(c)

(* What the browser does by itself: its timers and events.                 *)
Reacts(p) ==
    \/ Connect(p) \/ Open(p)
    \/ \E c \in page[p].sources : OnError(c)

Browse ==
    \/ \E p \in Page : Reacts(p) \/ Unmount(p)
    \/ \E c \in Connection : Break(c)

Next ==
    \/ \E ms \in Seq(Message) : Broadcast(ms)
    \/ \E c \in Connection : Serve(c)
    \/ Browse
    \/ ServerEnds

Spec == Init /\ [][Next]_streamVars

----------------------------------------------------------------------------
(* While the streamer knows a connection that its page reads, its queue is *)
(* exactly what was broadcast and is not yet shown, whoever subscribes,    *)
(* leaves or reads in between.                                             *)
NothingSkipped ==
    \A p \in Page : \A c \in page[p].sources \cap DOMAIN queues :
        queues[c] = SubSeq(history, next[c], Len(history))

(* The position a page reads at.                                           *)
Reading(p) ==
    IF \E c \in page[p].sources : next[c] # 0
    THEN next[CHOOSE c \in page[p].sources : next[c] # 0]
    ELSE 0

Promise == INSTANCE Feed WITH published <- history,
                              reading <- [p \in Page |-> Reading(p)],
                              view <- [p \in Page |-> page[p].view]

(* The pages implement Feed: across lost connections and restarts of the   *)
(* server they show stretches of what was broadcast, in order, no message  *)
(* twice, and of the log the last LogLines lines they got.                 *)
ImplementsFeed == Promise!Spec
=============================================================================
