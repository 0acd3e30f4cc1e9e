------------------------- MODULE EventStreamProofs -------------------------
(***************************************************************************)
(* The event stream, for every number of pages, messages and connections:  *)
(* a connection loses nothing, and the pages implement Feed.               *)
(***************************************************************************)
EXTENDS EventStream, SequenceTheorems, TLAPS

PageState == [mounted : BOOLEAN, timer : BOOLEAN, connected : BOOLEAN,
              sources : SUBSET Connection, made : 0 .. MaxConnects, view : View]

(* A page has one source at most, its last connection, and none while its  *)
(* timer runs; when it has to connect again it may.                        *)
OneSource ==
    \A p \in Page :
        /\ \A c \in page[p].sources : c = <<p, page[p].made>>
        /\ page[p].timer => page[p].sources = {}
        /\ page[p].timer \/ page[p].sources \cap broken # {} =>
              page[p].made < MaxConnects

(* What is asked for and not answered is a whole connection of a page that *)
(* has got nothing from it; nothing is known of connections to come.       *)
RequestsFresh ==
    /\ \A c \in asked : c \in page[c[1]].sources /\ c \notin broken /\ next[c] = 0
    /\ \A c \in Connection :
          c[2] > page[c[1]].made => /\ c \notin broken /\ c \notin DOMAIN queues
                                    /\ next[c] = 0

(* A connection that the streamer knows is somewhere in what was broadcast.*)
PositionsSound ==
    \A p \in Page : \A c \in page[p].sources \cap DOMAIN queues :
        next[c] \in 1 .. Len(history) + 1

IInv == TypeOK /\ OneSource /\ RequestsFresh /\ PositionsSound /\ NothingSkipped

----------------------------------------------------------------------------
(* Stretches of a sequence.                                                *)

(* What is appended is appended to what is left from a position on.        *)
LEMMA RestGrows ==
    ASSUME NEW S, NEW h \in Seq(S), NEW m \in Seq(S), NEW n \in 1 .. Len(h) + 1
    PROVE  SubSeq(h \o m, n, Len(h \o m)) = SubSeq(h, n, Len(h)) \o m
<1>1. Len(h) \in Nat /\ Len(m) \in Nat /\ n \in Nat
  BY LenProperties
<1>2. /\ h \o m \in Seq(S) /\ Len(h \o m) = Len(h) + Len(m)
      /\ \A i \in 1 .. Len(h) + Len(m) :
            (h \o m)[i] = IF i <= Len(h) THEN h[i] ELSE m[i - Len(h)]
  BY ConcatProperties
<1>3. /\ \A i \in 1 .. Len(h) : h[i] \in S
      /\ \A i \in 1 .. Len(h \o m) : (h \o m)[i] \in S
  BY <1>2, ElementOfSeq
<1> DEFINE rest == SubSeq(h, n, Len(h))
           grown == SubSeq(h \o m, n, Len(h) + Len(m))
<1>4. /\ rest \in Seq(S) /\ Len(rest) = Len(h) - n + 1
      /\ \A i \in 1 .. Len(h) - n + 1 : rest[i] = h[n + i - 1]
  <2>1. \A i \in n .. Len(h) : h[i] \in S
    BY <1>1, <1>3
  <2>2. /\ rest \in Seq(S)
        /\ Len(rest) = IF n <= Len(h) THEN Len(h) - n + 1 ELSE 0
        /\ \A i \in 1 .. Len(h) - n + 1 : rest[i] = h[n + i - 1]
    BY <1>1, <2>1, SubSeqProperties
  <2>3. QED
    BY <1>1, <2>2
<1>5. /\ grown \in Seq(S) /\ Len(grown) = Len(h) + Len(m) - n + 1
      /\ \A i \in 1 .. Len(h) + Len(m) - n + 1 : grown[i] = (h \o m)[n + i - 1]
  <2>1. \A i \in n .. Len(h) + Len(m) : (h \o m)[i] \in S
    BY <1>1, <1>2, <1>3
  <2>2. Len(h) + Len(m) \in Int /\ n \in Int
    BY <1>1
  <2>3. /\ grown \in Seq(S)
        /\ Len(grown) = IF n <= Len(h) + Len(m) THEN Len(h) + Len(m) - n + 1 ELSE 0
        /\ \A i \in 1 .. Len(h) + Len(m) - n + 1 : grown[i] = (h \o m)[n + i - 1]
    BY <2>1, <2>2, SubSeqProperties
  <2>4. QED
    BY <1>1, <2>3
<1> HIDE DEF rest, grown
<1>6. /\ rest \o m \in Seq(S) /\ Len(rest \o m) = Len(rest) + Len(m)
      /\ \A i \in 1 .. Len(rest) + Len(m) :
            (rest \o m)[i] = IF i <= Len(rest) THEN rest[i] ELSE m[i - Len(rest)]
  BY <1>4, ConcatProperties
<1>7. Len(grown) = Len(rest \o m)
  BY <1>1, <1>4, <1>5, <1>6
<1>8. ASSUME NEW i \in 1 .. Len(grown) PROVE grown[i] = (rest \o m)[i]
  <2>1. /\ i \in Nat /\ 1 <= i /\ i <= Len(h) + Len(m) - n + 1
        /\ n + i - 1 \in 1 .. Len(h) + Len(m)
    BY <1>1, <1>5
  <2>2. grown[i] = IF n + i - 1 <= Len(h) THEN h[n + i - 1] ELSE m[n + i - 1 - Len(h)]
    BY <1>2, <1>5, <2>1
  <2>3. (rest \o m)[i] = IF i <= Len(rest) THEN rest[i] ELSE m[i - Len(rest)]
    BY <1>1, <1>4, <1>6, <2>1
  <2>4. CASE n + i - 1 <= Len(h)
    BY <1>1, <1>4, <2>1, <2>2, <2>3, <2>4
  <2>5. CASE ~(n + i - 1 <= Len(h))
    <3>1. ~(i <= Len(rest)) /\ i - Len(rest) = n + i - 1 - Len(h)
      BY <1>1, <1>4, <2>1, <2>5
    <3>2. QED
      BY <2>2, <2>3, <2>5, <3>1
  <2>6. QED
    BY <2>4, <2>5
<1>9. grown = rest \o m
  BY <1>5, <1>6, <1>7, <1>8, SeqEqual
<1>10. QED
  BY <1>2, <1>9 DEF grown, rest

(* The first of what is left is the message at the position.               *)
LEMMA RestShrinks ==
    ASSUME NEW S, NEW h \in Seq(S), NEW n \in 1 .. Len(h) + 1,
           SubSeq(h, n, Len(h)) # << >>
    PROVE  /\ n \in 1 .. Len(h)
           /\ Head(SubSeq(h, n, Len(h))) = h[n]
           /\ Tail(SubSeq(h, n, Len(h))) = SubSeq(h, n + 1, Len(h))
<1>1. Len(h) \in Nat /\ n \in Nat
  BY LenProperties
<1>2. n \in 1 .. Len(h)
  BY <1>1, SubSeqEmpty
<1>3. Len(h) \in n .. Len(h)
  BY <1>1, <1>2
<1>4. QED
  BY <1>2, <1>3, HeadTailOfSubSeq

(* Dropping the first of n lines before the next comes keeps the last n.   *)
LEMMA WindowMoves ==
    ASSUME NEW S, NEW s \in Seq(S), NEW m \in S, NEW n \in Nat \ {0}, Len(s) <= n
    PROVE  /\ Promise!LastOf(Append(s, m), n) =
                 Append(IF Len(s) > n - 1 THEN Tail(s) ELSE s, m)
           /\ Promise!LastOf(Append(s, m), n) \in Seq(S)
           /\ Len(Promise!LastOf(Append(s, m), n)) <= n
<1> DEFINE a == Append(s, m)
<1>1. /\ Len(s) \in Nat
      /\ a \in Seq(S) /\ a # << >> /\ Len(a) = Len(s) + 1
  BY LenProperties, AppendProperties
<1>2. CASE Len(s) < n
  <2>1. Promise!LastOf(a, n) = a
    BY <1>1, <1>2 DEF Promise!LastOf
  <2>2. QED
    BY <1>1, <1>2, <2>1
<1>3. CASE Len(s) = n
  <2>1. s # << >>
    BY <1>3, EmptySeq
  <2>2. Len(a) - n + 1 = 2 /\ ~(Len(a) <= n)
    BY <1>1, <1>3
  <2>3. Promise!LastOf(a, n) = SubSeq(a, 2, Len(a))
    BY <2>2 DEF Promise!LastOf
  <2>4. Tail(a) = SubSeq(a, 2, Len(a))
    BY <1>1, TailIsSubSeq
  <2>5. Tail(a) = Append(Tail(s), m)
    BY <2>1, HeadTailAppend
  <2>6. Tail(a) \in Seq(S) /\ Len(Tail(a)) = Len(a) - 1
    BY <1>1, HeadTailProperties
  <2>7. Len(s) > n - 1
    BY <1>1, <1>3
  <2>8. QED
    BY <1>1, <1>3, <2>3, <2>4, <2>5, <2>6, <2>7
<1>4. QED
  BY <1>1, <1>2, <1>3

----------------------------------------------------------------------------
(* The invariant holds at first and every step preserves it.               *)

(* The types of the variables, and the invariant's other parts.            *)
LEMMA Parts ==
    ASSUME EventStreamAssumption, IInv
    PROVE  /\ asked \subseteq Connection /\ broken \subseteq Connection
           /\ DOMAIN queues \subseteq Connection
           /\ queues \in [DOMAIN queues -> Seq(Message)]
           /\ page \in [Page -> PageState]
           /\ \A p \in Page : Len(page[p].view.logs) <= LogLines
           /\ history \in Seq(Message) /\ Len(history) \in Nat
           /\ next \in [Connection -> Nat]
           /\ OneSource /\ RequestsFresh /\ PositionsSound /\ NothingSkipped
           /\ MaxConnects \in Nat \ {0} /\ LogLines \in Nat \ {0}
<1>1. history \in Seq(Message)
  BY DEF IInv, TypeOK
<1>2. Len(history) \in Nat
  BY <1>1, LenProperties
<1>3. QED
  BY <1>1, <1>2 DEF IInv, TypeOK, PageState, EventStreamAssumption

(* A connection of a page is its page's own.                               *)
LEMMA OwnSource ==
    ASSUME OneSource, NEW p \in Page, NEW c \in page[p].sources
    PROVE  c[1] = p /\ c[2] = page[p].made
BY DEF OneSource

(* No page has made a connection.                                          *)
LEMMA InitIInv == ASSUME EventStreamAssumption, Init PROVE IInv
<1> USE EventStreamAssumption DEF EventStreamAssumption
<1>1. /\ Fresh \in PageState /\ Fresh.view.logs = << >>
      /\ Fresh.sources = {} /\ 0 < MaxConnects /\ Fresh.made = 0
  <2>1. [k \in Kind |-> NoMessage] \in [Kind -> Message \cup {NoMessage}]
    OBVIOUS
  <2>2. Fresh.view \in View /\ Fresh.view.logs = << >>
    BY <2>1 DEF Fresh, View
  <2>3. QED
    BY <2>2 DEF Fresh, PageState
<1>2. page \in [Page -> PageState] /\ \A p \in Page : page[p] = Fresh
  <2>1. page = [p \in Page |-> Fresh]
    BY DEF Init
  <2>2. QED
    BY <1>1, <2>1
<1> USE DEF Init
<1>3. queues = << >> /\ DOMAIN queues = {}
  OBVIOUS
<1>4. queues \in [DOMAIN queues -> Seq(Message)]
  BY <1>3
<1>5. TypeOK
  <2>1. \A p \in Page : Len(page[p].view.logs) <= LogLines
    <3>1. Len(<< >>) = 0 /\ 0 <= LogLines
      OBVIOUS
    <3>2. QED
      BY ONLY <1>1, <1>2, <3>1
  <2>2. history \in Seq(Message) /\ next \in [Connection -> Nat]
    OBVIOUS
  <2>3. QED
    BY <1>2, <1>3, <1>4, <2>1, <2>2 DEF TypeOK, PageState
<1>6. OneSource
  BY <1>1, <1>2 DEF OneSource
<1>7. RequestsFresh
  BY <1>3 DEF RequestsFresh
<1>8. PositionsSound /\ NothingSkipped
  BY <1>3 DEF PositionsSound, NothingSkipped
<1>9. QED
  BY <1>5, <1>6, <1>7, <1>8 DEF IInv

(* A message reaches every queue, and the history.                         *)
LEMMA BroadcastIInv ==
    ASSUME EventStreamAssumption, IInv, NEW ms \in Seq(Message), Broadcast(ms)
    PROVE  IInv'
<1>1. /\ queues' = [c \in DOMAIN queues |-> queues[c] \o ms]
      /\ history' = history \o ms
      /\ UNCHANGED <<asked, broken, page, next>>
  BY DEF Broadcast
<1>2. /\ DOMAIN queues' = DOMAIN queues
      /\ \A c \in DOMAIN queues : queues'[c] = queues[c] \o ms
  BY <1>1
<1>3. queues' \in [DOMAIN queues' -> Seq(Message)]
  <2>1. \A c \in DOMAIN queues : queues[c] \o ms \in Seq(Message)
    BY Parts, ConcatProperties
  <2>2. QED
    BY <1>1, <2>1
<1>4. /\ history' \in Seq(Message) /\ Len(history') \in Nat
      /\ Len(history) <= Len(history')
  <2>1. Len(ms) \in Nat
    BY LenProperties
  <2>2. history' \in Seq(Message) /\ Len(history') = Len(history) + Len(ms)
    BY <1>1, Parts, ConcatProperties
  <2>3. QED
    BY <2>1, <2>2, Parts
<1>5. TypeOK'
  BY <1>1, <1>2, <1>3, <1>4, Parts DEF TypeOK, PageState
<1>6. OneSource' /\ RequestsFresh'
  BY <1>1, <1>2, Parts DEF OneSource, RequestsFresh
<1>7. PositionsSound'
  BY <1>1, <1>2, <1>4, Parts DEF PositionsSound
<1>8. NothingSkipped'
  <2> SUFFICES ASSUME NEW p \in Page, NEW c \in page[p].sources \cap DOMAIN queues
               PROVE  queues'[c] = SubSeq(history', next[c], Len(history'))
    BY <1>1, <1>2 DEF NothingSkipped
  <2>1. next[c] \in 1 .. Len(history) + 1
    BY Parts DEF PositionsSound
  <2>2. queues[c] = SubSeq(history, next[c], Len(history))
    BY Parts DEF NothingSkipped
  <2>3. SubSeq(history \o ms, next[c], Len(history \o ms))
           = SubSeq(history, next[c], Len(history)) \o ms
    BY <2>1, Parts, RestGrows
  <2>4. QED
    BY <1>1, <1>2, <2>2, <2>3
<1>9. QED
  BY <1>5, <1>6, <1>7, <1>8 DEF IInv

(* A new connection begins after what has been broadcast.                  *)
LEMMA SubscribeIInv ==
    ASSUME EventStreamAssumption, IInv, NEW c \in Connection, Subscribe(c)
    PROVE  IInv'
<1>1. /\ c \in asked /\ asked' = asked \ {c}
      /\ queues' = [d \in DOMAIN queues \cup {c} |->
                       IF d = c THEN << >> ELSE queues[d]]
      /\ next' = [next EXCEPT ![c] = Len(history) + 1]
      /\ UNCHANGED <<broken, page, history>>
  BY DEF Subscribe
<1>2. /\ DOMAIN queues' = DOMAIN queues \cup {c}
      /\ queues'[c] = << >>
      /\ \A d \in DOMAIN queues \ {c} : queues'[d] = queues[d]
      /\ queues' \in [DOMAIN queues' -> Seq(Message)]
  BY <1>1, Parts
<1>3. /\ next' \in [Connection -> Nat]
      /\ next'[c] = Len(history) + 1
      /\ \A d \in Connection \ {c} : next'[d] = next[d]
  BY <1>1, Parts
<1>4. TypeOK'
  BY <1>1, <1>2, <1>3, Parts DEF TypeOK, PageState
<1>5. OneSource'
  BY <1>1, Parts DEF OneSource
<1>6. c \in page[c[1]].sources /\ c[1] \in Page /\ c[2] = page[c[1]].made
  BY <1>1, Parts, OwnSource DEF RequestsFresh, Connection
<1>7. RequestsFresh'
  <2>1. ASSUME NEW d \in asked'
        PROVE  d \in page[d[1]].sources /\ d \notin broken /\ next'[d] = 0
    BY <1>1, <1>3, <2>1, Parts DEF RequestsFresh
  <2>2. ASSUME NEW d \in Connection, d[2] > page[d[1]].made
        PROVE  d \notin broken /\ d \notin DOMAIN queues' /\ next'[d] = 0
    <3>1. page[c[1]].made \in Nat
      BY <1>6, Parts DEF PageState
    <3>2. d # c
      BY <1>6, <2>2, <3>1
    <3>3. QED
      BY <1>2, <1>3, <2>2, <3>2, Parts DEF RequestsFresh
  <2>3. QED
    BY <1>1, <2>1, <2>2 DEF RequestsFresh
<1>8. PositionsSound' /\ NothingSkipped'
  <2> SUFFICES ASSUME NEW p \in Page,
                      NEW d \in page[p].sources \cap DOMAIN queues'
               PROVE  /\ next'[d] \in 1 .. Len(history) + 1
                      /\ queues'[d] = SubSeq(history, next'[d], Len(history))
    BY <1>1 DEF PositionsSound, NothingSkipped
  <2>1. CASE d = c
    BY <1>2, <1>3, <2>1, Parts, SubSeqEmpty
  <2>2. CASE d # c
    <3>1. d \in DOMAIN queues /\ queues'[d] = queues[d]
      BY <1>2, <2>2
    <3>2. next'[d] = next[d]
      BY <1>3, <2>2, <3>1, Parts
    <3>3. QED
      BY <3>1, <3>2, Parts DEF PositionsSound, NothingSkipped
  <2>3. QED
    BY <2>1, <2>2
<1>9. QED
  BY <1>4, <1>5, <1>7, <1>8 DEF IInv

(* What the streamer forgets, nobody reads from it.                        *)
LEMMA UnsubscribeIInv ==
    ASSUME EventStreamAssumption, IInv, NEW c \in Connection, Unsubscribe(c)
    PROVE  IInv'
<1>1. /\ queues' = [d \in DOMAIN queues \ {c} |-> queues[d]]
      /\ UNCHANGED <<asked, broken, page, history, next>>
  BY DEF Unsubscribe
<1>2. /\ DOMAIN queues' = DOMAIN queues \ {c}
      /\ \A d \in DOMAIN queues' : queues'[d] = queues[d]
      /\ queues' \in [DOMAIN queues' -> Seq(Message)]
  BY <1>1, Parts
<1>3. TypeOK'
  BY <1>1, <1>2, Parts DEF TypeOK, PageState
<1>4. OneSource' /\ RequestsFresh'
  BY <1>1, <1>2, Parts DEF OneSource, RequestsFresh
<1>5. PositionsSound' /\ NothingSkipped'
  BY <1>1, <1>2, Parts DEF PositionsSound, NothingSkipped
<1>6. QED
  BY <1>3, <1>4, <1>5 DEF IInv

(* No connection survives the process.                                     *)
LEMMA ServerEndsIInv ==
    ASSUME EventStreamAssumption, IInv, ServerEnds
    PROVE  IInv'
<1>1. /\ \A p \in Page : page[p].made < MaxConnects
      /\ asked' = {} /\ queues' = << >>
      /\ broken' = {c \in Connection : c[2] <= page[c[1]].made}
      /\ UNCHANGED <<page, history, next>>
  BY DEF ServerEnds
<1>2. DOMAIN queues' = {} /\ queues' \in [DOMAIN queues' -> Seq(Message)]
  BY <1>1
<1>3. TypeOK'
  BY <1>1, <1>2, Parts DEF TypeOK, PageState
<1>4. OneSource'
  BY <1>1, Parts DEF OneSource
<1>5. RequestsFresh'
  <2> SUFFICES ASSUME NEW c \in Connection, c[2] > page[c[1]].made
               PROVE  c \notin broken' /\ next[c] = 0
    BY <1>1, <1>2 DEF RequestsFresh
  <2>1. page[c[1]].made \in Nat /\ c[2] \in Nat
    BY Parts DEF PageState, Connection
  <2>2. QED
    BY <1>1, <2>1, Parts DEF RequestsFresh
<1>6. PositionsSound' /\ NothingSkipped'
  BY <1>1, <1>2 DEF PositionsSound, NothingSkipped
<1>7. QED
  BY <1>3, <1>4, <1>5, <1>6 DEF IInv

(* A page connects when it reads nothing, with a connection nobody knows.  *)
LEMMA ConnectIInv ==
    ASSUME EventStreamAssumption, IInv, NEW p \in Page, Connect(p)
    PROVE  IInv'
<1> DEFINE c == <<p, page[p].made + 1>>
<1>1. /\ page[p].timer /\ page[p].made < MaxConnects /\ page[p].made \in Nat
      /\ page[p].sources = {} /\ c \in Connection
  <2>1. page[p].timer /\ page[p] \in PageState
    BY Parts DEF Connect
  <2>2. page[p].made < MaxConnects /\ page[p].sources = {}
    BY <2>1, Parts DEF OneSource
  <2>3. QED
    BY <2>1, <2>2, Parts DEF PageState, Connection
<1>2. /\ page' = [page EXCEPT ![p].timer = FALSE, ![p].made = @ + 1,
                              ![p].sources = @ \cup {c}]
      /\ asked' = asked \cup {c}
      /\ UNCHANGED <<queues, broken, history, next>>
  BY DEF Connect
<1>3. /\ page'[p].timer = FALSE /\ page'[p].made = page[p].made + 1
      /\ page'[p].sources = {c} /\ page'[p].view = page[p].view
      /\ \A q \in Page \ {p} : page'[q] = page[q]
      /\ page' \in [Page -> PageState]
  <2>1. page[p] \in PageState
    BY Parts
  <2>2. page'[p] = [page[p] EXCEPT !.timer = FALSE, !.made = @ + 1,
                                   !.sources = {c}]
    BY <1>1, <1>2, Parts DEF PageState
  <2>3. page'[p] \in PageState
    <3>1. page[p].made + 1 \in 0 .. MaxConnects
      BY <1>1, Parts
    <3>2. {c} \in SUBSET Connection
      BY <1>1
    <3>3. QED
      BY <2>1, <2>2, <3>1, <3>2 DEF PageState
  <2>4. QED
    BY <1>2, <2>1, <2>2, <2>3, Parts DEF PageState
<1>4. c[1] = p /\ c[2] > page[p].made /\ c[2] = page[p].made + 1
  BY <1>1
<1> HIDE DEF c
<1>5. TypeOK'
  <2>1. \A q \in Page : Len(page'[q].view.logs) <= LogLines
    BY <1>3, Parts
  <2>2. QED
    BY <1>1, <1>2, <1>3, <2>1, Parts DEF TypeOK, PageState
<1>6. c \notin broken /\ c \notin DOMAIN queues /\ next[c] = 0
  BY <1>1, <1>4, Parts DEF RequestsFresh
<1>7. OneSource'
  <2>1. c = <<p, page'[p].made>>
    BY <1>3 DEF c
  <2>2. page'[p].sources \cap broken' = {}
    BY <1>2, <1>3, <1>6
  <2>3. ASSUME NEW q \in Page
        PROVE  /\ \A d \in page'[q].sources : d = <<q, page'[q].made>>
               /\ page'[q].timer => page'[q].sources = {}
               /\ page'[q].timer \/ page'[q].sources \cap broken' # {} =>
                     page'[q].made < MaxConnects
    <3>1. CASE q = p
      BY <1>3, <2>1, <2>2, <3>1
    <3>2. CASE q # p
      BY <1>2, <1>3, <3>2, Parts DEF OneSource
    <3>3. QED
      BY <3>1, <3>2
  <2>4. QED
    BY <2>3 DEF OneSource
<1>8. RequestsFresh'
  <2>1. ASSUME NEW d \in asked'
        PROVE  d \in page'[d[1]].sources /\ d \notin broken /\ next[d] = 0
    <3>1. CASE d = c
      BY <1>3, <1>4, <1>6, <3>1
    <3>2. CASE d # c
      <4>1. d \in asked /\ d \in page[d[1]].sources /\ d[1] \in Page
        BY <1>2, <3>2, Parts DEF RequestsFresh, Connection
      <4>2. QED
        BY <1>1, <1>3, <4>1, Parts DEF RequestsFresh
    <3>3. QED
      BY <3>1, <3>2
  <2>2. ASSUME NEW d \in Connection, d[2] > page'[d[1]].made
        PROVE  d \notin broken /\ d \notin DOMAIN queues /\ next[d] = 0
    <3>1. d[1] \in Page /\ d[2] \in Nat
      BY DEF Connection
    <3>2. d[2] > page[d[1]].made
      BY <1>1, <1>3, <2>2, <3>1
    <3>3. QED
      BY <3>2, Parts DEF RequestsFresh
  <2>3. QED
    BY <1>2, <2>1, <2>2 DEF RequestsFresh
<1>9. PositionsSound' /\ NothingSkipped'
  BY <1>2, <1>3, <1>6, Parts DEF PositionsSound, NothingSkipped
<1>10. QED
  BY <1>5, <1>7, <1>8, <1>9 DEF IInv

(* A step of page p that leaves what the invariant speaks of as it is.     *)
LEMMA ViewChangesIInv ==
    ASSUME EventStreamAssumption, IInv, NEW p \in Page,
           page' \in [Page -> PageState], Len(page'[p].view.logs) <= LogLines,
           \A q \in Page \ {p} : page'[q] = page[q],
           page'[p].sources = page[p].sources, page'[p].made = page[p].made,
           page'[p].timer = page[p].timer,
           UNCHANGED <<asked, broken, history>>
    PROVE  /\ \A q \in Page : /\ page'[q].sources = page[q].sources
                              /\ page'[q].made = page[q].made
           /\ OneSource'
           /\ queues' \in [DOMAIN queues' -> Seq(Message)]
                 /\ DOMAIN queues' \subseteq Connection
                 /\ next' \in [Connection -> Nat] => TypeOK'
<1>1. \A q \in Page : /\ page'[q].sources = page[q].sources
                      /\ page'[q].made = page[q].made
                      /\ page'[q].timer = page[q].timer
                      /\ Len(page'[q].view.logs) <= LogLines
  BY Parts
<1>2. OneSource'
  BY <1>1, Parts DEF OneSource
<1>3. ASSUME queues' \in [DOMAIN queues' -> Seq(Message)],
             DOMAIN queues' \subseteq Connection,
             next' \in [Connection -> Nat]
      PROVE  TypeOK'
  BY <1>1, <1>3, Parts DEF TypeOK, PageState
<1>4. QED
  BY <1>1, <1>2, <1>3

(* The browser reports that a connection is open.                          *)
LEMMA OpenIInv ==
    ASSUME EventStreamAssumption, IInv, NEW p \in Page, Open(p)
    PROVE  IInv'
<1>1. /\ page' = [page EXCEPT ![p].connected = TRUE]
      /\ UNCHANGED <<asked, queues, broken, history, next>>
  BY DEF Open
<1>2. /\ page' \in [Page -> PageState]
      /\ page'[p] = [page[p] EXCEPT !.connected = TRUE]
      /\ \A q \in Page \ {p} : page'[q] = page[q]
  BY <1>1, Parts DEF PageState
<1>3. /\ page'[p].sources = page[p].sources /\ page'[p].made = page[p].made
      /\ page'[p].timer = page[p].timer /\ page'[p].view = page[p].view
  BY <1>2, Parts DEF PageState
<1>4. /\ \A q \in Page : /\ page'[q].sources = page[q].sources
                         /\ page'[q].made = page[q].made
      /\ OneSource' /\ TypeOK'
  BY <1>1, <1>2, <1>3, Parts, ViewChangesIInv
<1>5. RequestsFresh'
  BY <1>1, <1>4, Parts DEF RequestsFresh, Connection
<1>6. PositionsSound' /\ NothingSkipped'
  BY <1>1, <1>4, Parts DEF PositionsSound, NothingSkipped
<1>7. QED
  BY <1>4, <1>5, <1>6 DEF IInv

(* What a page shows when it has handled a message.                        *)
LEMMA HandleType ==
    ASSUME EventStreamAssumption, NEW v \in View, NEW m \in Message,
           Len(v.logs) <= LogLines
    PROVE  /\ Handle(v, m) \in View /\ Len(Handle(v, m).logs) <= LogLines
           /\ Handle(v, m) = Promise!Shows(v, m)
<1>1. /\ v.logs \in Seq(Message) /\ v.latest \in [Kind -> Message \cup {NoMessage}]
      /\ v = [logs |-> v.logs, latest |-> v.latest]
  BY DEF View
<1>2. m.event \in Kind \cup {"log"} /\ "log" \notin Kind /\ LogLines \in Nat \ {0}
  BY DEF EventStreamAssumption, Kind
<1>3. CASE m.event = "log"
  <2> DEFINE l == Append(IF Len(v.logs) > LogLines - 1 THEN Tail(v.logs) ELSE v.logs, m)
  <2>1. /\ l = Promise!LastOf(Append(v.logs, m), LogLines)
        /\ l \in Seq(Message) /\ Len(l) <= LogLines
    <3>1. v.logs \in Seq(Message) /\ LogLines \in Nat \ {0}
      BY <1>1, <1>2
    <3> DEFINE k == LogLines
               s == v.logs
    <3>2. s \in Seq(Message) /\ k \in Nat \ {0} /\ Len(s) <= k
      BY <3>1
    <3> HIDE DEF k, s
    <3>3. /\ Promise!LastOf(Append(s, m), k) =
                 Append(IF Len(s) > k - 1 THEN Tail(s) ELSE s, m)
          /\ Promise!LastOf(Append(s, m), k) \in Seq(Message)
          /\ Len(Promise!LastOf(Append(s, m), k)) <= k
      BY <3>2, WindowMoves
    <3>4. QED
      BY <3>3 DEF k, s
  <2>2. Handle(v, m) = [v EXCEPT !.logs = l]
    BY <1>3 DEF Handle
  <2>3. Promise!Shows(v, m) = [v EXCEPT !.logs = l]
    BY <1>2, <1>3, <2>1 DEF Promise!Shows
  <2> HIDE DEF l
  <2>4. QED
    BY <1>1, <2>1, <2>2, <2>3 DEF View
<1>4. CASE m.event # "log"
  <2>1. m.event \in Kind
    BY <1>2, <1>4
  <2>2. Handle(v, m) = [v EXCEPT !.latest[m.event] = m]
    BY <1>4 DEF Handle
  <2>3. Promise!Shows(v, m) = [v EXCEPT !.latest[m.event] = m]
    BY <2>1 DEF Promise!Shows
  <2>4. /\ [v.latest EXCEPT ![m.event] = m] \in [Kind -> Message \cup {NoMessage}]
        /\ Handle(v, m) = [logs |-> v.logs, latest |-> [v.latest EXCEPT ![m.event] = m]]
    BY <1>1, <2>1, <2>2
  <2>5. QED
    BY <1>1, <2>2, <2>3, <2>4 DEF View
<1>5. QED
  BY <1>3, <1>4

(* What a page gets is the message at its position.                        *)
LEMMA DeliverFacts ==
    ASSUME EventStreamAssumption, IInv, NEW c \in Connection, Deliver(c)
    PROVE  /\ c[1] \in Page /\ c \in page[c[1]].sources
           /\ c \in DOMAIN queues
           /\ next[c] \in 1 .. Len(history)
           /\ Head(queues[c]) = history[next[c]]
           /\ Head(queues[c]) \in Message
           /\ Tail(queues[c]) = SubSeq(history, next[c] + 1, Len(history))
           /\ page[c[1]].view \in View
           /\ Len(page[c[1]].view.logs) <= LogLines
<1>1. /\ c[1] \in Page /\ c \in page[c[1]].sources
      /\ c \in DOMAIN queues /\ queues[c] # << >>
  BY DEF Deliver, Connection
<1>2. /\ queues[c] = SubSeq(history, next[c], Len(history))
      /\ next[c] \in 1 .. Len(history) + 1
  BY <1>1, Parts DEF NothingSkipped, PositionsSound
<1>3. queues[c] \in Seq(Message) /\ Head(queues[c]) \in Message
  <2>1. queues[c] \in Seq(Message)
    BY <1>1, Parts
  <2>2. QED
    BY <1>1, <2>1, HeadTailProperties
<1>4. /\ next[c] \in 1 .. Len(history)
      /\ Head(queues[c]) = history[next[c]]
      /\ Tail(queues[c]) = SubSeq(history, next[c] + 1, Len(history))
  BY <1>1, <1>2, Parts, RestShrinks
<1>5. page[c[1]] \in PageState
  BY <1>1, Parts
<1>6. QED
  BY <1>1, <1>3, <1>4, <1>5, Parts DEF PageState

(* A page gets the next message of a connection and handles it.            *)
LEMMA DeliverIInv ==
    ASSUME EventStreamAssumption, IInv, NEW c \in Connection, Deliver(c)
    PROVE  IInv'
<1> DEFINE p == c[1]
<1>1. /\ queues' = [queues EXCEPT ![c] = Tail(@)]
      /\ page' = [page EXCEPT ![p].view = Handle(@, Head(queues[c]))]
      /\ next' = [next EXCEPT ![c] = @ + 1]
      /\ UNCHANGED <<asked, broken, history>>
  BY DEF Deliver
<1>2. p \in Page /\ c \in page[p].sources
  BY DeliverFacts
<1>3. /\ Handle(page[p].view, Head(queues[c])) \in View
      /\ Len(Handle(page[p].view, Head(queues[c])).logs) <= LogLines
  BY DeliverFacts, HandleType
<1>4. /\ page'[p] = [page[p] EXCEPT !.view = Handle(page[p].view, Head(queues[c]))]
      /\ page[p] \in PageState
      /\ \A q \in Page \ {p} : page'[q] = page[q]
  BY <1>1, <1>2, Parts
<1>5. /\ page'[p] \in PageState
      /\ page'[p].view = Handle(page[p].view, Head(queues[c]))
      /\ page'[p].sources = page[p].sources /\ page'[p].made = page[p].made
      /\ page'[p].timer = page[p].timer
  BY <1>3, <1>4 DEF PageState
<1>6. page' \in [Page -> PageState]
  BY <1>1, <1>4, <1>5, Parts
<1>7. /\ DOMAIN queues' = DOMAIN queues
      /\ queues'[c] = SubSeq(history, next[c] + 1, Len(history))
      /\ \A d \in DOMAIN queues \ {c} : queues'[d] = queues[d]
      /\ queues' \in [DOMAIN queues' -> Seq(Message)]
  <2>1. Tail(queues[c]) \in Seq(Message)
    <3>1. queues[c] \in Seq(Message) /\ queues[c] # << >>
      BY DeliverFacts, Parts DEF Deliver
    <3>2. QED
      BY <3>1, HeadTailProperties
  <2>2. QED
    BY <1>1, <2>1, DeliverFacts, Parts
<1>8. /\ next' \in [Connection -> Nat] /\ next'[c] = next[c] + 1
      /\ \A d \in Connection \ {c} : next'[d] = next[d]
  BY <1>1, Parts
<1>9. /\ \A q \in Page : /\ page'[q].sources = page[q].sources
                         /\ page'[q].made = page[q].made
      /\ OneSource' /\ TypeOK'
  BY <1>1, <1>2, <1>3, <1>4, <1>5, <1>6, <1>7, <1>8, Parts, ViewChangesIInv
<1>10. c \notin asked /\ c[2] = page[p].made
  <2>1. next[c] # 0
    BY DeliverFacts, Parts
  <2>2. QED
    BY <1>2, <2>1, Parts, OwnSource DEF RequestsFresh
<1>11. RequestsFresh'
  <2>1. ASSUME NEW d \in asked
        PROVE  d \in page'[d[1]].sources /\ d \notin broken /\ next'[d] = 0
    BY <1>8, <1>9, <1>10, Parts DEF RequestsFresh, Connection
  <2>2. ASSUME NEW d \in Connection, d[2] > page'[d[1]].made
        PROVE  d \notin broken /\ d \notin DOMAIN queues' /\ next'[d] = 0
    <3>1. d[2] > page[d[1]].made /\ page[p].made \in Nat
      BY <1>2, <1>9, <2>2, Parts DEF Connection, PageState
    <3>2. d # c
      BY <1>10, <3>1
    <3>3. QED
      BY <1>7, <1>8, <3>1, <3>2, Parts DEF RequestsFresh
  <2>3. QED
    BY <1>1, <2>1, <2>2 DEF RequestsFresh
<1>12. PositionsSound' /\ NothingSkipped'
  <2> SUFFICES ASSUME NEW q \in Page,
                      NEW d \in page[q].sources \cap DOMAIN queues
               PROVE  /\ next'[d] \in 1 .. Len(history) + 1
                      /\ queues'[d] = SubSeq(history, next'[d], Len(history))
    BY <1>1, <1>7, <1>9 DEF PositionsSound, NothingSkipped
  <2>1. CASE d = c
    BY <1>7, <1>8, <2>1, DeliverFacts, Parts
  <2>2. CASE d # c
    <3>1. d \in Connection /\ d \in DOMAIN queues
      BY Parts
    <3>2. next'[d] = next[d] /\ queues'[d] = queues[d]
      BY <1>7, <1>8, <2>2, <3>1
    <3>3. next[d] \in 1 .. Len(history) + 1
      BY Parts DEF PositionsSound
    <3>4. queues[d] = SubSeq(history, next[d], Len(history))
      BY Parts DEF NothingSkipped
    <3>5. QED
      BY <3>2, <3>3, <3>4
  <2>3. QED
    BY <2>1, <2>2
<1>13. QED
  BY <1>9, <1>11, <1>12 DEF IInv

(* A page that leaves a connection reads nothing.                          *)
LEMMA OnErrorIInv ==
    ASSUME EventStreamAssumption, IInv, NEW p \in Page,
           NEW c \in page[p].sources, OnError(c)
    PROVE  IInv'
<1>1. c[1] = p /\ c[2] = page[p].made /\ page[p] \in PageState
  BY Parts, OwnSource
<1>2. /\ c \in page[p].sources \cap broken
      /\ page' = [page EXCEPT ![p].connected = FALSE, ![p].timer = TRUE,
                              ![p].sources = @ \ {c}]
      /\ next' = [next EXCEPT ![c] = 0]
      /\ UNCHANGED <<asked, queues, broken, history>>
  BY <1>1 DEF OnError
<1>3. page[p].made < MaxConnects /\ page[p].sources = {c}
  BY <1>2, Parts DEF OneSource
<1>4. page'[p] = [page[p] EXCEPT !.connected = FALSE, !.timer = TRUE, !.sources = {}]
  BY <1>1, <1>2, <1>3, Parts DEF PageState
<1>5. /\ page'[p].timer = TRUE /\ page'[p].made = page[p].made
      /\ page'[p].sources = {} /\ page'[p].view = page[p].view
      /\ page'[p] \in PageState
      /\ \A q \in Page \ {p} : page'[q] = page[q]
      /\ page' \in [Page -> PageState]
  <2>1. page'[p] \in PageState /\ page'[p].sources = {}
    BY <1>1, <1>4 DEF PageState
  <2>2. QED
    BY <1>1, <1>2, <1>4, <2>1, Parts DEF PageState
<1>6. /\ next' \in [Connection -> Nat]
      /\ \A d \in Connection : next'[d] = next[d] \/ next'[d] = 0
      /\ \A d \in Connection \ {c} : next'[d] = next[d]
  BY <1>2, Parts
<1>7. TypeOK'
  <2>1. \A q \in Page : Len(page'[q].view.logs) <= LogLines
    BY <1>5, Parts
  <2>2. QED
    BY <1>2, <1>5, <1>6, <2>1, Parts DEF TypeOK, PageState
<1>8. OneSource'
  <2>1. ASSUME NEW q \in Page
        PROVE  /\ \A d \in page'[q].sources : d = <<q, page'[q].made>>
               /\ page'[q].timer => page'[q].sources = {}
               /\ page'[q].timer \/ page'[q].sources \cap broken # {} =>
                     page'[q].made < MaxConnects
    BY <1>3, <1>5, Parts DEF OneSource
  <2>2. QED
    BY <1>2, <2>1 DEF OneSource
<1>9. RequestsFresh'
  <2>1. ASSUME NEW d \in asked
        PROVE  d \in page'[d[1]].sources /\ d \notin broken /\ next'[d] = 0
    <3>1. /\ d \in page[d[1]].sources /\ d \notin broken /\ next[d] = 0
          /\ d[1] \in Page /\ d \in Connection
      BY Parts DEF RequestsFresh, Connection
    <3>2. d[1] # p
      BY <1>2, <1>3, <3>1
    <3>3. QED
      BY <1>5, <1>6, <3>1, <3>2
  <2>2. ASSUME NEW d \in Connection, d[2] > page'[d[1]].made
        PROVE  d \notin broken /\ d \notin DOMAIN queues /\ next'[d] = 0
    <3>1. d[1] \in Page /\ d[2] > page[d[1]].made
      BY <1>5, <2>2 DEF Connection
    <3>2. QED
      BY <1>6, <3>1, Parts DEF RequestsFresh
  <2>3. QED
    BY <1>2, <2>1, <2>2 DEF RequestsFresh
<1>10. PositionsSound' /\ NothingSkipped'
  <2> SUFFICES ASSUME NEW q \in Page,
                      NEW d \in page'[q].sources \cap DOMAIN queues
               PROVE  /\ next'[d] \in 1 .. Len(history) + 1
                      /\ queues[d] = SubSeq(history, next'[d], Len(history))
    BY <1>2 DEF PositionsSound, NothingSkipped
  <2>1. q # p /\ d \in page[q].sources
    BY <1>5
  <2>2. d # c /\ d \in Connection
    BY <1>1, <2>1, Parts, OwnSource
  <2>3. QED
    BY <1>6, <2>1, <2>2, Parts DEF PositionsSound, NothingSkipped
<1>11. QED
  BY <1>7, <1>8, <1>9, <1>10 DEF IInv

(* A page is left, with its sources.                                       *)
LEMMA UnmountIInv ==
    ASSUME EventStreamAssumption, IInv, NEW p \in Page, Unmount(p)
    PROVE  IInv'
<1>1. /\ page' = [page EXCEPT ![p].mounted = FALSE, ![p].timer = FALSE,
                              ![p].sources = {}]
      /\ broken' = broken \cup page[p].sources
      /\ asked' = asked \ page[p].sources
      /\ next' = [c \in Connection |->
                    IF c \in page[p].sources THEN 0 ELSE next[c]]
      /\ UNCHANGED <<queues, history>>
  BY DEF Unmount
<1>2. page[p] \in PageState /\ page[p].sources \subseteq Connection
  BY Parts DEF PageState
<1>3. page'[p] = [page[p] EXCEPT !.mounted = FALSE, !.timer = FALSE, !.sources = {}]
  BY <1>1, <1>2, Parts DEF PageState
<1>4. /\ page'[p].timer = FALSE /\ page'[p].made = page[p].made
      /\ page'[p].sources = {} /\ page'[p].view = page[p].view
      /\ page'[p] \in PageState
      /\ \A q \in Page \ {p} : page'[q] = page[q]
      /\ page' \in [Page -> PageState]
  <2>1. page'[p] \in PageState /\ page'[p].sources = {}
    BY <1>2, <1>3 DEF PageState
  <2>2. QED
    BY <1>1, <1>2, <1>3, <2>1, Parts DEF PageState
<1>5. /\ next' \in [Connection -> Nat]
      /\ \A d \in Connection : next'[d] = next[d] \/ next'[d] = 0
      /\ \A d \in Connection \ page[p].sources : next'[d] = next[d]
  BY <1>1, Parts
<1>6. TypeOK'
  <2>1. \A q \in Page : Len(page'[q].view.logs) <= LogLines
    BY <1>4, Parts
  <2>2. QED
    BY <1>1, <1>2, <1>4, <1>5, <2>1, Parts DEF TypeOK, PageState
<1>7. \A q \in Page \ {p} : page[q].sources \cap page[p].sources = {}
  BY Parts, OwnSource
<1>8. OneSource'
  <2>1. ASSUME NEW q \in Page
        PROVE  /\ \A d \in page'[q].sources : d = <<q, page'[q].made>>
               /\ page'[q].timer => page'[q].sources = {}
               /\ page'[q].timer \/ page'[q].sources \cap broken' # {} =>
                     page'[q].made < MaxConnects
    <3>1. CASE q = p
      BY <1>4, <3>1
    <3>2. CASE q # p
      <4>1. page'[q].sources \cap broken' = page[q].sources \cap broken
        BY <1>1, <1>4, <1>7, <3>2
      <4>2. QED
        BY <1>4, <3>2, <4>1, Parts DEF OneSource
    <3>3. QED
      BY <3>1, <3>2
  <2>2. QED
    BY <2>1 DEF OneSource
<1>9. RequestsFresh'
  <2>1. ASSUME NEW d \in asked'
        PROVE  d \in page'[d[1]].sources /\ d \notin broken' /\ next'[d] = 0
    <3>1. /\ d \in page[d[1]].sources /\ d \notin broken /\ next[d] = 0
          /\ d \notin page[p].sources /\ d[1] \in Page /\ d \in Connection
      BY <1>1, Parts DEF RequestsFresh, Connection
    <3>2. QED
      BY <1>1, <1>4, <1>5, <3>1
  <2>2. ASSUME NEW d \in Connection, d[2] > page'[d[1]].made
        PROVE  d \notin broken' /\ d \notin DOMAIN queues /\ next'[d] = 0
    <3>1. d[1] \in Page /\ d[2] > page[d[1]].made
      BY <1>4, <2>2 DEF Connection
    <3>2. d \notin page[p].sources
      <4>1. page[d[1]].made \in Nat
        BY <3>1, Parts DEF PageState
      <4>2. QED
        BY <3>1, <4>1, Parts, OwnSource
    <3>3. QED
      BY <1>1, <1>5, <3>1, <3>2, Parts DEF RequestsFresh
  <2>3. QED
    BY <1>1, <2>1, <2>2 DEF RequestsFresh
<1>10. PositionsSound' /\ NothingSkipped'
  <2> SUFFICES ASSUME NEW q \in Page,
                      NEW d \in page'[q].sources \cap DOMAIN queues
               PROVE  /\ next'[d] \in 1 .. Len(history) + 1
                      /\ queues[d] = SubSeq(history, next'[d], Len(history))
    BY <1>1 DEF PositionsSound, NothingSkipped
  <2>1. q # p /\ d \in page[q].sources /\ d \in Connection
    BY <1>4, Parts
  <2>2. d \notin page[p].sources
    BY <1>7, <2>1
  <2>3. QED
    BY <1>5, <2>1, <2>2, Parts DEF PositionsSound, NothingSkipped
<1>11. QED
  BY <1>6, <1>8, <1>9, <1>10 DEF IInv

(* The network breaks a connection.                                        *)
LEMMA BreakIInv ==
    ASSUME EventStreamAssumption, IInv, NEW c \in Connection, Break(c)
    PROVE  IInv'
<1>1. /\ c \in page[c[1]].sources /\ page[c[1]].made < MaxConnects
      /\ broken' = broken \cup {c} /\ asked' = asked \ {c}
      /\ UNCHANGED <<queues, page, history, next>>
      /\ c[1] \in Page
  BY DEF Break, Connection
<1>2. TypeOK'
  BY <1>1, Parts DEF TypeOK, PageState
<1>3. OneSource'
  BY <1>1, Parts, OwnSource DEF OneSource
<1>4. RequestsFresh'
  <2>1. c[2] = page[c[1]].made /\ page[c[1]].made \in Nat
    BY <1>1, Parts, OwnSource DEF PageState
  <2>2. QED
    BY <1>1, <2>1, Parts DEF RequestsFresh
<1>5. PositionsSound' /\ NothingSkipped'
  BY <1>1, Parts DEF PositionsSound, NothingSkipped
<1>6. QED
  BY <1>2, <1>3, <1>4, <1>5 DEF IInv

(* Every step preserves the invariant.                                     *)
LEMMA StepIInv ==
    ASSUME EventStreamAssumption, IInv, [Next]_streamVars PROVE IInv'
<1>1. ASSUME NEW ms \in Seq(Message), Broadcast(ms) PROVE IInv'
  BY <1>1, BroadcastIInv
<1>2. ASSUME NEW c \in Connection, Serve(c) PROVE IInv'
  BY <1>2, SubscribeIInv, DeliverIInv, UnsubscribeIInv DEF Serve
<1>3. ASSUME NEW p \in Page, Reacts(p) PROVE IInv'
  BY <1>3, ConnectIInv, OpenIInv, OnErrorIInv DEF Reacts
<1>4. ASSUME NEW p \in Page, Unmount(p) PROVE IInv'
  BY <1>4, UnmountIInv
<1>5. ASSUME NEW c \in Connection, Break(c) PROVE IInv'
  BY <1>5, BreakIInv
<1>6. CASE ServerEnds
  BY <1>6, ServerEndsIInv
<1>7. CASE UNCHANGED streamVars
  BY <1>7 DEF streamVars, IInv, TypeOK, OneSource, RequestsFresh,
              PositionsSound, NothingSkipped
<1>8. QED
  BY <1>1, <1>2, <1>3, <1>4, <1>5, <1>6, <1>7 DEF Next, Browse

(* The invariant holds in every reachable state.                           *)
THEOREM Invariance == ASSUME EventStreamAssumption PROVE Spec => []IInv
<1>1. Init => IInv
  BY InitIInv
<1>2. IInv /\ [Next]_streamVars => IInv'
  BY StepIInv
<1>3. QED
  BY <1>1, <1>2, PTL DEF Spec

(* The variables have their types and a page keeps at most LogLines lines. *)
THEOREM TypeCorrect == ASSUME EventStreamAssumption PROVE Spec => []TypeOK
<1>1. IInv => TypeOK
  BY DEF IInv
<1>2. QED
  BY <1>1, Invariance, PTL

(* A connection that page and streamer both know loses nothing that was    *)
(* broadcast since it was answered.                                        *)
THEOREM NothingIsSkipped ==
    ASSUME EventStreamAssumption PROVE Spec => []NothingSkipped
<1>1. IInv => NothingSkipped
  BY DEF IInv
<1>2. QED
  BY <1>1, Invariance, PTL

----------------------------------------------------------------------------
(* The pages implement Feed.                                               *)

(* A page reads at the position of its source, and nowhere without one.    *)
ReadingSound ==
    \A p \in Page : /\ page[p].sources = {} => Reading(p) = 0
                    /\ \A c \in page[p].sources : Reading(p) = next[c]

(* A page reads where the connection of its source is.                     *)
LEMMA ReadsAtSource == IInv => ReadingSound
<1> SUFFICES ASSUME IInv, NEW p \in Page
             PROVE  /\ page[p].sources = {} => Reading(p) = 0
                    /\ \A c \in page[p].sources : Reading(p) = next[c]
  BY DEF ReadingSound
<1>1. CASE page[p].sources = {}
  BY <1>1 DEF Reading
<1>2. ASSUME NEW c \in page[p].sources PROVE Reading(p) = next[c]
  <2>1. \A d \in page[p].sources : d = c
    BY DEF IInv, OneSource
  <2>2. CASE next[c] = 0
    BY <2>1, <2>2 DEF Reading
  <2>3. CASE next[c] # 0
    <3>1. \E d \in page[p].sources : next[d] # 0
      BY <2>3
    <3>2. (CHOOSE d \in page[p].sources : next[d] # 0) = c
      BY <2>1, <3>1
    <3>3. QED
      BY <3>1, <3>2 DEF Reading
  <2>4. QED
    BY <2>2, <2>3
<1>3. QED
  BY <1>1, <1>2

(* Where every page reads, and what it shows.                              *)
Reads == [p \in Page |-> Reading(p)]
Views == [p \in Page |-> page[p].view]

(* Pages whose sources and whose positions stay read where they read.      *)
LEMMA ReadingKept ==
    ASSUME IInv, ReadingSound, ReadingSound', NEW q \in Page,
           page'[q].sources = page[q].sources,
           \A c \in page[q].sources : next'[c] = next[c]
    PROVE  Reading(q)' = Reading(q)
BY DEF ReadingSound

(* What page p does changes where it reads, and nothing of the others.     *)
LEMMA ReadsChange ==
    ASSUME IInv, ReadingSound, ReadingSound', NEW p \in Page, NEW n,
           Reading(p)' = n,
           \A q \in Page \ {p} : page'[q].sources = page[q].sources,
           \A q \in Page \ {p} : \A c \in page[q].sources : next'[c] = next[c]
    PROVE  Reads' = [Reads EXCEPT ![p] = n]
<1>1. \A q \in Page \ {p} : Reading(q)' = Reading(q)
  BY ReadingKept
<1>2. QED
  BY <1>1 DEF Reads

(* A broadcast publishes.                                                  *)
LEMMA BroadcastPublishes ==
    ASSUME EventStreamAssumption, IInv, NEW ms \in Seq(Message), Broadcast(ms)
    PROVE  Promise!Publish
<1>1. history' = history \o ms /\ UNCHANGED <<page, next>>
  BY DEF Broadcast
<1>2. /\ history' \in Seq(Message) /\ Len(history') = Len(history) + Len(ms)
      /\ Len(ms) \in Nat
      /\ \A i \in 1 .. Len(history) : history'[i] = history[i]
  <2>1. /\ Len(ms) \in Nat /\ Len(history) \in Nat /\ history \in Seq(Message)
    BY Parts, LenProperties
  <2>2. QED
    BY <1>1, <2>1, ConcatProperties
<1>3. SubSeq(history', 1, Len(history)) = history
  <2> DEFINE first == SubSeq(history', 1, Len(history))
  <2>1. /\ Len(history) \in Int /\ Len(history) \in Nat
        /\ \A i \in 1 .. Len(history) : history'[i] \in Message
    BY <1>2, Parts, ElementOfSeq
  <2>2. /\ first \in Seq(Message)
        /\ Len(first) = IF 1 <= Len(history) THEN Len(history) - 1 + 1 ELSE 0
        /\ \A i \in 1 .. Len(history) - 1 + 1 : first[i] = history'[1 + i - 1]
    BY <2>1, SubSeqProperties
  <2> HIDE DEF first
  <2>3. Len(first) = Len(history) /\ \A i \in 1 .. Len(history) : first[i] = history[i]
    BY <1>2, <2>1, <2>2
  <2>4. first = history
    BY <2>2, <2>3, Parts, SeqEqual
  <2>5. QED
    BY <2>4 DEF first
<1>4. UNCHANGED <<Reads, Views>>
  BY <1>1 DEF Reads, Views, Reading
<1>5. QED
  BY <1>2, <1>3, <1>4, Parts DEF Promise!Publish, Reads, Views

(* The server's answer attaches the page at the end of what is published.  *)
LEMMA SubscribeAttaches ==
    ASSUME EventStreamAssumption, IInv, ReadingSound, ReadingSound',
           NEW c \in Connection, Subscribe(c)
    PROVE  Promise!Attach(c[1])
<1>1. /\ c[1] \in Page /\ c \in page[c[1]].sources /\ next[c] = 0
      /\ next' = [next EXCEPT ![c] = Len(history) + 1]
      /\ UNCHANGED <<page, history>>
  BY Parts DEF Subscribe, RequestsFresh, Connection
<1>2. next'[c] = Len(history) + 1
  BY <1>1, Parts
<1>3. Reading(c[1]) = 0 /\ Reading(c[1])' = Len(history) + 1
  BY <1>1, <1>2 DEF ReadingSound
<1>4. \A q \in Page \ {c[1]} : \A d \in page[q].sources : next'[d] = next[d]
  BY <1>1, Parts, OwnSource
<1>5. Reads' = [Reads EXCEPT ![c[1]] = Len(history) + 1]
  BY <1>1, <1>3, <1>4, ReadsChange
<1>6. QED
  BY <1>1, <1>3, <1>5 DEF Promise!Attach, Reads, Views

(* A delivery shows the message at which the page is.                      *)
LEMMA DeliverShows ==
    ASSUME EventStreamAssumption, IInv, ReadingSound, ReadingSound',
           NEW c \in Connection, Deliver(c)
    PROVE  Promise!Show(c[1])
<1> DEFINE p == c[1]
           m == history[next[c]]
<1>1. /\ p \in Page /\ c \in page[p].sources /\ next[c] \in 1 .. Len(history)
      /\ m \in Message /\ page[p].view \in View
      /\ Len(page[p].view.logs) <= LogLines
  BY DeliverFacts
<1>2. /\ page' = [page EXCEPT ![p].view = Handle(@, m)]
      /\ next' = [next EXCEPT ![c] = @ + 1]
      /\ UNCHANGED history
  BY DeliverFacts DEF Deliver
<1>3. Handle(page[p].view, m) = Promise!Shows(page[p].view, m)
  BY <1>1, HandleType
<1> HIDE DEF m
<1>4. /\ page[p] \in PageState
      /\ page'[p] = [page[p] EXCEPT !.view = Promise!Shows(page[p].view, m)]
      /\ \A q \in Page \ {p} : page'[q] = page[q]
  BY <1>1, <1>2, <1>3, Parts
<1>5. /\ page'[p].view = Promise!Shows(page[p].view, m)
      /\ page'[p].sources = page[p].sources
  BY <1>4 DEF PageState
<1>6. next'[c] = next[c] + 1
  BY <1>2, Parts
<1>7. Reading(p) = next[c] /\ Reading(p)' = next[c] + 1
  BY <1>1, <1>5, <1>6 DEF ReadingSound
<1>8. \A q \in Page \ {p} : \A d \in page[q].sources : next'[d] = next[d]
  BY <1>1, <1>2, Parts, OwnSource
<1>9. Reads' = [Reads EXCEPT ![p] = next[c] + 1]
  BY <1>1, <1>4, <1>7, <1>8, ReadsChange
<1>10. Views' = [Views EXCEPT ![p] = Promise!Shows(page[p].view, m)]
  BY <1>1, <1>4, <1>5 DEF Views
<1>11. Reads[p] = next[c] /\ Views[p] = page[p].view
  BY <1>1, <1>7 DEF Reads, Views
<1>12. /\ Reads[p] \in 1 .. Len(history)
       /\ Views' = [Views EXCEPT ![p] = Promise!Shows(@, history[Reads[p]])]
       /\ Reads' = [Reads EXCEPT ![p] = @ + 1]
       /\ UNCHANGED history
  BY <1>1, <1>2, <1>9, <1>10, <1>11 DEF m
<1>13. QED
  BY <1>12 DEF Promise!Show, Reads, Views

(* Whatever takes a connection from a page detaches it.                    *)
LEMMA LeavingDetaches ==
    ASSUME EventStreamAssumption, IInv, ReadingSound, ReadingSound',
           NEW p \in Page,
           Unmount(p) \/ \E c \in page[p].sources : OnError(c)
    PROVE  Promise!Detach(p)
<1>1. /\ page'[p].sources = {} /\ page'[p].view = page[p].view
      /\ \A q \in Page \ {p} : page'[q] = page[q]
      /\ UNCHANGED history
      /\ \A d \in Connection \ page[p].sources : next'[d] = next[d]
  <2>1. page[p] \in PageState
    BY Parts
  <2>2. CASE Unmount(p)
    <3>1. page'[p] = [page[p] EXCEPT !.mounted = FALSE, !.timer = FALSE, !.sources = {}]
      BY <2>1, <2>2, Parts DEF Unmount, PageState
    <3>2. QED
      BY <2>1, <2>2, <3>1, Parts DEF Unmount, PageState
  <2>3. ASSUME NEW c \in page[p].sources, OnError(c)
        PROVE  <1>1
    <3>1. c[1] = p /\ page[p].sources = {c} /\ c \in Connection
      <4>1. c[1] = p /\ c \in Connection
        BY <2>1, Parts, OwnSource DEF PageState
      <4>2. \A d \in page[p].sources : d = c
        BY Parts DEF OneSource
      <4>3. QED
        BY <4>1, <4>2
    <3>2. page'[p] = [page[p] EXCEPT !.connected = FALSE, !.timer = TRUE, !.sources = {}]
      <4>1. page'[p] = [page[p] EXCEPT !.connected = FALSE, !.timer = TRUE,
                                       !.sources = @ \ {c}]
        BY <2>3, <3>1, Parts DEF OnError
      <4>2. page[p].sources \ {c} = {}
        BY <3>1
      <4>3. QED
        BY <4>1, <4>2
    <3>3. /\ next' = [next EXCEPT ![c] = 0] /\ UNCHANGED history
          /\ \A q \in Page \ {p} : page'[q] = page[q]
      BY <2>3, <3>1, Parts DEF OnError
    <3>4. page'[p].sources = {} /\ page'[p].view = page[p].view
      BY <2>1, <3>2 DEF PageState
    <3>5. \A d \in Connection \ page[p].sources : next'[d] = next[d]
      BY <3>1, <3>3, Parts
    <3>6. QED
      BY <3>3, <3>4, <3>5
  <2>4. QED
    BY <2>2, <2>3
<1>2. Reading(p)' = 0
  BY <1>1 DEF ReadingSound
<1>3. \A q \in Page \ {p} : \A d \in page[q].sources : next'[d] = next[d]
  <2> SUFFICES ASSUME NEW q \in Page \ {p}, NEW d \in page[q].sources
               PROVE  d \in Connection \ page[p].sources
    BY <1>1
  <2>1. d[1] = q /\ d \in Connection
    BY Parts, OwnSource DEF PageState
  <2>2. \A e \in page[p].sources : e[1] = p
    BY Parts, OwnSource
  <2>3. QED
    BY <2>1, <2>2
<1>4. Reads' = [Reads EXCEPT ![p] = 0]
  BY <1>1, <1>2, <1>3, ReadsChange
<1>5. Views' = Views
  BY <1>1 DEF Views
<1>6. QED
  BY <1>1, <1>4, <1>5 DEF Promise!Detach, Reads, Views

(* What the pages do without getting or losing a connection.               *)
LEMMA OthersStutter ==
    ASSUME EventStreamAssumption, IInv, ReadingSound, ReadingSound',
           NEW p \in Page, Connect(p) \/ Open(p)
    PROVE  UNCHANGED <<history, Reads, Views>>
<1>1. page[p] \in PageState /\ UNCHANGED <<history, next>>
  BY Parts DEF Connect, Open
<1>2. /\ page'[p].view = page[p].view
      /\ \A q \in Page \ {p} : page'[q] = page[q]
  <2>1. CASE Connect(p)
    BY <1>1, <2>1, Parts DEF Connect, PageState
  <2>2. CASE Open(p)
    BY <1>1, <2>2, Parts DEF Open, PageState
  <2>3. QED
    BY <2>1, <2>2
<1>3. Reading(p)' = Reading(p)
  <2>1. CASE Connect(p)
    <3> DEFINE c == <<p, page[p].made + 1>>
    <3>1. /\ page[p].sources = {} /\ page[p].made < MaxConnects
          /\ page[p].made \in Nat /\ c \in Connection
      BY <1>1, <2>1, Parts DEF Connect, OneSource, PageState, Connection
    <3>2. c \in page'[p].sources
      BY <1>1, <2>1, Parts DEF Connect, PageState
    <3>3. next[c] = 0
      BY <3>1, Parts DEF RequestsFresh
    <3>4. QED
      BY <1>1, <3>1, <3>2, <3>3 DEF ReadingSound
  <2>2. CASE Open(p)
    <3>1. page'[p].sources = page[p].sources
      BY <1>1, <2>2, Parts DEF Open, PageState
    <3>2. QED
      BY <1>1, <3>1, ReadingKept
  <2>3. QED
    BY <2>1, <2>2
<1>4. \A q \in Page : Reading(q)' = Reading(q) /\ page'[q].view = page[q].view
  BY <1>1, <1>2, <1>3, ReadingKept
<1>5. QED
  BY <1>1, <1>4 DEF Reads, Views

(* Every step of the stream is one of Feed, or none.                       *)
LEMMA StepsImplement ==
    ASSUME EventStreamAssumption, IInv, ReadingSound, ReadingSound',
           [Next]_streamVars
    PROVE  Promise!Next \/ UNCHANGED <<history, Reads, Views>>
<1>1. ASSUME NEW ms \in Seq(Message), Broadcast(ms) PROVE Promise!Next
  BY <1>1, BroadcastPublishes DEF Promise!Next
<1>2. ASSUME NEW c \in Connection, Subscribe(c) \/ Deliver(c)
      PROVE  Promise!Next
  BY <1>2, SubscribeAttaches, DeliverShows DEF Promise!Next, Connection
<1>3. ASSUME NEW p \in Page,
             Unmount(p) \/ \E c \in page[p].sources : OnError(c)
      PROVE  Promise!Next
  BY <1>3, LeavingDetaches DEF Promise!Next
<1>4. ASSUME NEW p \in Page, Connect(p) \/ Open(p)
      PROVE  UNCHANGED <<history, Reads, Views>>
  BY <1>4, OthersStutter
<1>5. ASSUME UNCHANGED <<page, history, next>>
      PROVE  UNCHANGED <<history, Reads, Views>>
  BY <1>5 DEF Reads, Views, Reading
<1>6. QED
  BY <1>1, <1>2, <1>3, <1>4, <1>5
  DEF Next, Serve, Browse, Reacts, Unsubscribe, Break, ServerEnds, streamVars

(* The lines a page shows are lines it showed, and lines that were         *)
(* broadcast.                                                              *)
LEMMA LinesWereBroadcast ==
    ASSUME EventStreamAssumption, IInv, [Next]_streamVars, NEW q \in Page,
           NEW i \in 1 .. Len(page'[q].view.logs)
    PROVE  \/ \E j \in 1 .. Len(page[q].view.logs) :
                 page'[q].view.logs[i] = page[q].view.logs[j]
           \/ \E j \in 1 .. Len(history) :
                 /\ page'[q].view.logs[i] = history[j]
                 /\ history[j].event = "log"
<1>1. ASSUME NEW c \in Connection, Deliver(c), c[1] = q
      PROVE  \/ \E j \in 1 .. Len(page[q].view.logs) :
                   page'[q].view.logs[i] = page[q].view.logs[j]
             \/ \E j \in 1 .. Len(history) :
                   /\ page'[q].view.logs[i] = history[j]
                   /\ history[j].event = "log"
  <2> DEFINE m == history[next[c]]
             v == page[q].view
  <2>1. /\ next[c] \in 1 .. Len(history) /\ m = Head(queues[c]) /\ m \in Message
        /\ v \in View /\ page[q] \in PageState
    BY <1>1, DeliverFacts, Parts
  <2>2. page'[q].view = Handle(v, m)
    BY <1>1, <2>1, Parts DEF Deliver, PageState
  <2> HIDE DEF m, v
  <2>3. v.logs \in Seq(Message) /\ v = [logs |-> v.logs, latest |-> v.latest]
    BY <2>1 DEF View
  <2>4. CASE m.event = "log"
    <3> DEFINE kept == IF Len(v.logs) > LogLines - 1 THEN Tail(v.logs) ELSE v.logs
    <3>1. page'[q].view.logs = Append(kept, m)
      BY <2>2, <2>3, <2>4 DEF Handle
    <3>2. /\ kept \in Seq(Message) /\ Len(kept) \in Nat
          /\ \A k \in 1 .. Len(kept) : \E j \in 1 .. Len(v.logs) : kept[k] = v.logs[j]
      <4>1. CASE kept = v.logs
        BY <2>3, <4>1, LenProperties
      <4>2. CASE kept # v.logs
        <5>1. kept = Tail(v.logs) /\ Len(v.logs) > LogLines - 1
          BY <4>2
        <5>2. LogLines - 1 >= 0 /\ Len(v.logs) \in Nat /\ v.logs # << >>
          BY <2>3, <5>1, Parts, LenProperties, EmptySeq
        <5>3. /\ Tail(v.logs) \in Seq(Message)
              /\ Len(Tail(v.logs)) = Len(v.logs) - 1
              /\ \A k \in 1 .. Len(v.logs) - 1 : Tail(v.logs)[k] = v.logs[k + 1]
          BY <2>3, <5>2, HeadTailProperties
        <5>4. \A k \in 1 .. Len(v.logs) - 1 : k + 1 \in 1 .. Len(v.logs)
          BY <5>2
        <5>5. QED
          BY <5>1, <5>2, <5>3, <5>4
      <4>3. QED
        BY <4>1, <4>2
    <3> HIDE DEF kept
    <3>3. /\ Len(Append(kept, m)) = Len(kept) + 1
          /\ Append(kept, m)[Len(kept) + 1] = m
          /\ \A k \in 1 .. Len(kept) : Append(kept, m)[k] = kept[k]
      BY <2>1, <3>2, AppendProperties
    <3>4. i = Len(kept) + 1 \/ i \in 1 .. Len(kept)
      BY <3>1, <3>2, <3>3
    <3>5. CASE i = Len(kept) + 1
      BY <2>1, <2>4, <3>1, <3>3, <3>5 DEF m
    <3>6. CASE i \in 1 .. Len(kept)
      BY <3>1, <3>2, <3>3, <3>6 DEF v
    <3>7. QED
      BY <3>4, <3>5, <3>6
  <2>5. CASE m.event # "log"
    <3>1. page'[q].view.logs = v.logs
      BY <2>2, <2>3, <2>5 DEF Handle
    <3>2. QED
      BY <3>1 DEF v
  <2>6. QED
    BY <2>4, <2>5
<1>2. CASE page'[q].view = page[q].view
  BY <1>2
<1>3. page'[q].view = page[q].view \/ \E c \in Connection : Deliver(c) /\ c[1] = q
  <2>1. page[q] \in PageState
    BY Parts
  <2>2. ASSUME NEW p \in Page,
               Unmount(p) \/ Connect(p) \/ Open(p) \/ \E c \in page[p].sources : OnError(c)
        PROVE  page'[q].view = page[q].view
    <3>1. \A c \in page[p].sources : c[1] = p
      BY Parts, OwnSource
    <3>2. CASE Unmount(p)
      BY <2>1, <3>2, Parts DEF Unmount, PageState
    <3>3. CASE Connect(p)
      BY <2>1, <3>3, Parts DEF Connect, PageState
    <3>4. CASE Open(p)
      BY <2>1, <3>4, Parts DEF Open, PageState
    <3>5. CASE \E c \in page[p].sources : OnError(c)
      BY <2>1, <3>1, <3>5, Parts DEF OnError, PageState
    <3>6. QED
      BY <2>2, <3>2, <3>3, <3>4, <3>5
  <2>3. ASSUME NEW c \in Connection, Deliver(c), c[1] # q
        PROVE  page'[q].view = page[q].view
    BY <2>3, DeliverFacts, Parts DEF Deliver
  <2>4. UNCHANGED page => page'[q].view = page[q].view
    OBVIOUS
  <2>5. QED
    BY <2>2, <2>3, <2>4
    DEF Next, Broadcast, Serve, Subscribe, Unsubscribe, Browse, Reacts, Break,
        ServerEnds, streamVars
<1>4. QED
  BY <1>1, <1>2, <1>3

(* Across lost connections and restarts of the server the pages implement  *)
(* Feed: they show stretches of what was broadcast, in order, no message   *)
(* twice and the last LogLines log lines.                                  *)
THEOREM Refinement ==
    ASSUME EventStreamAssumption PROVE Spec => ImplementsFeed
<1>1. Init => Promise!Init
  <2> SUFFICES ASSUME Init PROVE Promise!Init
    OBVIOUS
  <2>1. \A p \in Page : page[p] = Fresh
    BY DEF Init
  <2>2. \A p \in Page : page[p].view = Promise!Blank /\ page[p].sources = {}
    <3>1. Fresh.view = Promise!Blank /\ Fresh.sources = {}
      BY DEF Fresh, Promise!Blank
    <3>2. QED
      BY <2>1, <3>1
  <2>3. \A p \in Page : Reading(p) = 0
    BY <2>2 DEF Reading
  <2>4. QED
    BY <2>2, <2>3 DEF Init, Promise!Init
<1>2. IInv => ReadingSound
  BY ReadsAtSource
<1>3. IInv /\ ReadingSound /\ ReadingSound' /\ [Next]_streamVars
         => [Promise!Next]_(Promise!vars)
  BY StepsImplement DEF Promise!vars, Reads, Views
<1>4. QED
  BY <1>1, <1>2, <1>3, Invariance, PTL DEF Spec, ImplementsFeed, Promise!Spec
=============================================================================
