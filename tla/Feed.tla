-------------------------------- MODULE Feed --------------------------------
(***************************************************************************)
(* What the event stream promises a page of the frontend: while it is      *)
(* attached it shows what is published one message after the other, none   *)
(* left out and none twice; what is published while it is detached it does *)
(* not get.  It shows the last LogLines log lines and, of each kind of     *)
(* update, the latest.                                                     *)
(***************************************************************************)
EXTENDS Naturals, Sequences

CONSTANTS
    Page,
    Message,       \* records with a field `event`
    Kind,          \* the events that are updates; the others are log lines
    NoMessage,
    LogLines

VARIABLES
    published,     \* all messages, in order
    reading,       \* the position of each page's next message, 0 when detached
    view           \* what each page shows

vars == <<published, reading, view>>

Blank == [logs |-> << >>, latest |-> [k \in Kind |-> NoMessage]]

Init ==
    /\ published = << >>
    /\ reading = [p \in Page |-> 0]
    /\ view = [p \in Page |-> Blank]

LastOf(s, n) == IF Len(s) <= n THEN s ELSE SubSeq(s, Len(s) - n + 1, Len(s))

Shows(v, m) ==
    IF m.event \in Kind THEN [v EXCEPT !.latest[m.event] = m]
                        ELSE [v EXCEPT !.logs = LastOf(Append(@, m), LogLines)]

Publish ==
    /\ published' \in Seq(Message)
    /\ Len(published') >= Len(published)
    /\ SubSeq(published', 1, Len(published)) = published
    /\ UNCHANGED <<reading, view>>

Attach(p) ==
    /\ reading[p] = 0
    /\ reading' = [reading EXCEPT ![p] = Len(published) + 1]
    /\ UNCHANGED <<published, view>>

Detach(p) ==
    /\ reading' = [reading EXCEPT ![p] = 0]
    /\ UNCHANGED <<published, view>>

Show(p) ==
    /\ reading[p] \in 1 .. Len(published)
    /\ view' = [view EXCEPT ![p] = Shows(@, published[reading[p]])]
    /\ reading' = [reading EXCEPT ![p] = @ + 1]
    /\ UNCHANGED published

Next == Publish \/ \E p \in Page : Attach(p) \/ Detach(p) \/ Show(p)

Spec == Init /\ [][Next]_vars
=============================================================================
