--------------------------- MODULE BackendProofs ---------------------------
(***************************************************************************)
(* The backend, for every number of tasks, runs, attempts, pages,          *)
(* connections and crashes.  First the pipelines: what is settled was      *)
(* logged, what is settled later was written later, and nothing is skipped *)
(* because of a write that is gone.  Then the pipelines and the event      *)
(* stream together: the composition takes no step that its parts do not    *)
(* take, so that what is proved of each holds of both, and a page that     *)
(* shows a success shows the truth.                                        *)
(***************************************************************************)
EXTENDS Backend, SequenceTheorems, TLAPS

----------------------------------------------------------------------------
(* Where a run has not written the hot state, where it is before the TEE,  *)
(* where its upload is complete, and where it has written.                 *)
Uploading == {"fetch", "upload", "flowSend", "flowReceipt", "logEntry", "segments"}
Unwritten == Uploading \cup {"infer", "put"}
Finishing == {"settle", "commitSend", "commitReceipt"}
Uploaded == {"segments", "infer", "put"} \cup Finishing

Sent == pending \cup {mined[i].tx : i \in 1 .. Len(mined)}

(* A coroutine under way has a run, and attempts left while it uploads.    *)
Counted ==
    \A t \in Task :
        /\ co[t].stage # "idle" => co[t].run \in 1 .. MaxRuns
        /\ co[t].stage \in Uploading => co[t].attempt < UploadAttempts

(* What leaves the upload is in the log of the storage nodes.              *)
UploadIsLogged ==
    \A t \in Anchoring : co[t].stage \in Uploaded => This(t) \in logged

(* From its write to the end of its settlement a run holds the loop, so    *)
(* that nobody writes after it.                                            *)
HoldsLoop ==
    \A t \in Task :
        co[t].stage \in Finishing =>
            loop = t /\ Len(puts) > 0 /\ puts[Len(puts)].run = This(t)

(* A run writes once, and not before it gets there.                        *)
WritesOnce ==
    /\ \A i \in 1 .. Len(puts) :
          LET r == puts[i].run
          IN  /\ r[2] <= co[r[1]].run
              /\ r[2] = co[r[1]].run => co[r[1]].stage \notin Unwritten
    /\ \A i, j \in 1 .. Len(puts) : puts[i].run = puts[j].run => i = j

(* A run submits once, and after its write.                                *)
SubmitsOnce ==
    \A tx \in Sent : tx.kind = "commit" =>
        /\ \E i \in 1 .. Len(puts) : puts[i].run = tx.run
        /\ tx.run = This(tx.run[1]) =>
              co[tx.run[1]].stage \notin {"settle", "commitSend"}
        /\ tx.run[1] \in Depin => tx.run \in logged

(* Of two submissions the one mined later, or not yet, was written later.  *)
InOrder(tx, later) ==
    \A a, b \in 1 .. Len(puts) :
        puts[a].run = tx.run /\ puts[b].run = later.run => a < b

SubmissionsOrdered ==
    \A i \in Commits :
        /\ \A j \in Commits : i < j => InOrder(mined[i].tx, mined[j].tx)
        /\ \A tx \in pending : tx.kind = "commit" => InOrder(mined[i].tx, tx)

(* What the set of written pairs remembers, this process has written.      *)
Remembered ==
    \A pair \in idempotency :
        \E i \in WrittenUnder(pair[1]) : puts[i].value = pair[2]

IInv ==
    /\ TypeOK /\ Counted /\ UploadIsLogged /\ HoldsLoop
    /\ WritesOnce /\ SubmitsOnce /\ SubmissionsOrdered
    /\ Remembered /\ NothingSkippedIntoVoid

----------------------------------------------------------------------------
(* A run is a task and a number.                                           *)
LEMMA RunParts ==
    ASSUME NEW r \in Run
    PROVE  r[1] \in Task /\ r[2] \in Nat
BY DEF Run

(* The types of the variables, and what they give of a run.                *)
LEMMA Parts ==
    ASSUME IInv
    PROVE  /\ co \in [Task -> Coroutine] /\ loop \in Task \cup {Nobody}
           /\ outcome \in [Run -> Outcome]
           /\ puts \in Seq([run : Run, key : {Weather, Audit} \cup Run,
                            value : {Blank} \cup Run])
           /\ Len(puts) \in Nat
           /\ \A i \in 1 .. Len(puts) :
                 puts[i] \in [run : Run, key : {Weather, Audit} \cup Run,
                             value : {Blank} \cup Run]
           /\ mined \in Seq([tx : Tx, ok : BOOLEAN]) /\ Len(mined) \in Nat
           /\ \A i \in 1 .. Len(mined) : mined[i] \in [tx : Tx, ok : BOOLEAN]
           /\ pending \subseteq Tx /\ logged \subseteq Run
           /\ Nobody \notin Task
<1>1. /\ co \in [Task -> Coroutine] /\ loop \in Task \cup {Nobody}
      /\ outcome \in [Run -> Outcome]
      /\ puts \in Seq([run : Run, key : {Weather, Audit} \cup Run,
                       value : {Blank} \cup Run])
      /\ mined \in Seq([tx : Tx, ok : BOOLEAN])
      /\ pending \subseteq Tx /\ logged \subseteq Run
  BY DEF IInv, TypeOK
<1>2. /\ Len(puts) \in Nat
      /\ \A i \in 1 .. Len(puts) :
            puts[i] \in [run : Run, key : {Weather, Audit} \cup Run,
                        value : {Blank} \cup Run]
  BY <1>1, LenProperties, ElementOfSeq
<1>3. /\ Len(mined) \in Nat
      /\ \A i \in 1 .. Len(mined) : mined[i] \in [tx : Tx, ok : BOOLEAN]
  BY <1>1, LenProperties, ElementOfSeq
<1>4. QED
  BY <1>1, <1>2, <1>3, PipelinesAssumption

(* The parts of the invariant.                                             *)
LEMMA Invariants ==
    ASSUME IInv
    PROVE  /\ TypeOK /\ Counted /\ UploadIsLogged /\ HoldsLoop
           /\ WritesOnce /\ SubmitsOnce /\ SubmissionsOrdered
           /\ Remembered /\ NothingSkippedIntoVoid
BY DEF IInv

(* What is sent is a transaction of a task's run.                          *)
LEMMA SentType ==
    ASSUME IInv, NEW tx \in Sent
    PROVE  /\ tx \in Tx /\ tx.run \in Run /\ tx.run[1] \in Task
           /\ tx.run[2] \in 1 .. MaxRuns /\ tx.run = <<tx.run[1], tx.run[2]>>
<1>1. tx \in Tx
  BY Parts DEF Sent
<1>2. QED
  BY <1>1 DEF Tx, Run

(* The coroutine of a run under way.                                       *)
LEMMA ThisType ==
    ASSUME IInv, NEW t \in Task
    PROVE  /\ co[t] \in Coroutine
           /\ co[t].stage # "idle" => This(t) \in Run
           /\ This(t)[1] = t /\ This(t)[2] = co[t].run
<1>1. co[t] \in Coroutine
  BY Parts
<1>2. QED
  BY <1>1, Invariants DEF Counted, This, Run

----------------------------------------------------------------------------
(* Steps of a coroutine that leave the hot state, its history and the chain*)
(* as they are.                                                            *)

(* The coroutine of t becomes c: it goes on, gives the loop up or ends, or *)
(* begins its next run.                                                    *)
Moved(t, c) ==
    /\ c \in Coroutine /\ co' = [co EXCEPT ![t] = c]
    /\ loop' \in {Nobody, t} /\ outcome' \in [Run -> Outcome]
    /\ c.stage # "idle" => c.run \in 1 .. MaxRuns
    /\ c.stage \in Uploading => c.attempt < UploadAttempts
    /\ c.stage = "infer" => c.attempt < InferAttempts
    /\ \/ /\ c.run = co[t].run
          /\ c.stage \in Unwritten => co[t].stage \in Unwritten
       \/ c.run = co[t].run + 1 /\ c.stage \in Unwritten
    /\ t \in Anchoring /\ c.stage \in Uploaded => <<t, c.run>> \in logged
    /\ c.stage \in Finishing => loop' = t /\ co[t].stage \in Finishing
    /\ c.stage \in {"settle", "commitSend"} =>
          co[t].stage \in {"settle", "commitSend"}

(* Such a step preserves the invariant, whatever it sends to the Flow      *)
(* contract.                                                               *)
LEMMA MovedIInv ==
    ASSUME IInv, NEW t \in Task, NEW c, Moved(t, c), loop \in {Nobody, t},
           pending' \subseteq Tx,
           \A tx \in pending' : tx.kind = "commit" => tx \in pending,
           UNCHANGED <<puts, mined, logged, kvVars, processVars>>
    PROVE  IInv'
<1>1. /\ co'[t] = c /\ \A u \in Task \ {t} : co'[u] = co[u]
      /\ co' \in [Task -> Coroutine] /\ c \in Coroutine /\ co[t] \in Coroutine
  BY Parts DEF Moved
<1>2. /\ c.run \in Nat /\ co[t].run \in Nat /\ co[t].run <= c.run
  BY <1>1 DEF Moved, Coroutine
<1>3. /\ This(t)' = <<t, c.run>>
      /\ \A u \in Task \ {t} : This(u)' = This(u)
  BY <1>1 DEF This
<1>4. UNCHANGED <<puts, mined, logged, cache, idempotency, started, hasToken, crashes>>
  BY DEF kvVars, processVars
<1>5. \A u \in Task \ {t} : co[u].stage \notin Finishing
  BY Invariants, Parts DEF HoldsLoop
<1>6. TypeOK'
  <2>1. \A u \in Task : co'[u].stage = "infer" => co'[u].attempt < InferAttempts
    BY <1>1, Invariants DEF Moved, TypeOK
  <2>2. loop' \in Task \cup {Nobody}
    BY DEF Moved
  <2>3. KV!TypeOK'
    BY <1>4, Invariants DEF TypeOK, KV!TypeOK
  <2>4. QED
    BY <1>1, <1>4, <2>1, <2>2, <2>3, Invariants DEF Moved, TypeOK
<1>7. Counted'
  BY <1>1, Invariants DEF Moved, Counted
<1>8. UploadIsLogged'
  <2>1. Anchoring \subseteq Task
    BY DEF Anchoring, Task
  <2>2. QED
    BY <1>1, <1>3, <1>4, <2>1, Invariants DEF Moved, UploadIsLogged
<1>9. HoldsLoop'
  <2>1. ASSUME NEW u \in Task, co'[u].stage \in Finishing
        PROVE  loop' = u /\ Len(puts) > 0 /\ puts[Len(puts)].run = This(u)'
    <3>1. u = t
      BY <1>1, <1>5, <2>1
    <3>2. c.run = co[t].run
      BY <1>1, <2>1, <3>1 DEF Moved, Finishing, Unwritten, Uploading
    <3>3. This(t)' = This(t) /\ loop' = t /\ co[t].stage \in Finishing
      BY <1>1, <1>3, <2>1, <3>1, <3>2 DEF This, Moved
    <3>4. QED
      BY <3>1, <3>3, Invariants DEF HoldsLoop
  <2>2. QED
    BY <1>4, <2>1 DEF HoldsLoop
<1>10. WritesOnce'
  <2>1. ASSUME NEW i \in 1 .. Len(puts), NEW r, r = puts[i].run
        PROVE  /\ r[2] <= co'[r[1]].run
               /\ r[2] = co'[r[1]].run => co'[r[1]].stage \notin Unwritten
    <3>1. r \in Run /\ r[1] \in Task /\ r[2] \in Nat
      <4>1. puts[i] \in [run : Run, key : {Weather, Audit} \cup Run,
                         value : {Blank} \cup Run]
        BY Parts
      <4>2. r \in Run
        BY <2>1, <4>1
      <4>3. QED
        BY <4>2, RunParts
    <3>2. /\ r[2] <= co[r[1]].run
          /\ r[2] = co[r[1]].run => co[r[1]].stage \notin Unwritten
      BY <2>1, Invariants DEF WritesOnce
    <3>3. CASE r[1] # t
      BY <1>1, <3>1, <3>2, <3>3
    <3>4. CASE r[1] = t
      BY <1>1, <1>2, <3>1, <3>2, <3>4 DEF Moved
    <3>5. QED
      BY <3>3, <3>4
  <2>2. QED
    BY <1>4, <2>1, Invariants DEF WritesOnce
<1>11. \A tx \in Sent' : tx.kind = "commit" => tx \in Sent
  BY <1>4 DEF Sent
<1>12. SubmitsOnce'
  <2>1. ASSUME NEW tx \in Sent', tx.kind = "commit", tx.run = This(tx.run[1])'
        PROVE  co'[tx.run[1]].stage \notin {"settle", "commitSend"}
    <3>1. tx \in Sent /\ tx.run[1] \in Task
      BY <1>11, <2>1, SentType
    <3>2. CASE tx.run[1] # t
      BY <1>1, <1>3, <2>1, <3>1, <3>2, Invariants DEF SubmitsOnce
    <3>3. CASE tx.run[1] = t /\ c.run = co[t].run
      <4>1. tx.run = This(t)
        BY <1>3, <2>1, <3>3 DEF This
      <4>2. co[t].stage \notin {"settle", "commitSend"}
        BY <2>1, <3>1, <3>3, <4>1, Invariants DEF SubmitsOnce
      <4>3. QED
        BY <1>1, <3>3, <4>2 DEF Moved
    <3>4. CASE tx.run[1] = t /\ c.run # co[t].run
      BY <1>1, <3>4 DEF Moved, Unwritten, Uploading
    <3>5. QED
      BY <3>2, <3>3, <3>4
  <2>2. QED
    BY <1>4, <1>11, <2>1, Invariants DEF SubmitsOnce
<1>13. SubmissionsOrdered'
  BY <1>4, Invariants DEF SubmissionsOrdered, InOrder, Commits
<1>14. Remembered' /\ NothingSkippedIntoVoid'
  BY <1>4, Invariants DEF Remembered, NothingSkippedIntoVoid, WrittenUnder
<1>15. QED
  BY <1>6, <1>7, <1>8, <1>9, <1>10, <1>12, <1>13, <1>14 DEF IInv

(* A step that touches nothing but the coroutine.                          *)
LEMMA LocalIInv ==
    ASSUME IInv, NEW t \in Task, \E c : Moved(t, c), loop \in {Nobody, t},
           UNCHANGED <<puts, chainVars, logged, kvVars, processVars>>
    PROVE  IInv'
<1>1. PICK c : Moved(t, c)
  OBVIOUS
<1>2. UNCHANGED <<puts, mined, pending, logged, kvVars, processVars>>
  BY DEF chainVars
<1>3. pending' \subseteq Tx
  BY <1>2, Parts
<1>4. QED
  BY <1>1, <1>2, <1>3, MovedIInv

(* A run that ends.                                                        *)
LEMMA ReturnMoves ==
    ASSUME IInv, NEW t \in Task, co[t].stage # "idle",
           NEW result \in Outcome, Return(t, result)
    PROVE  \E c : Moved(t, c)
<1> DEFINE c == Idle(co[t].run)
<1>1. co[t] \in Coroutine /\ This(t) \in Run
  BY ThisType
<1>2. MaxAttempts \in Nat
  BY PipelinesAssumption DEF UploadAttempts, MaxAttempts
<1>3. c \in Coroutine /\ c.stage = "idle" /\ c.run = co[t].run
  BY <1>1, <1>2 DEF Idle, Coroutine, Suspended
<1>4. outcome' \in [Run -> Outcome]
  BY <1>1, Parts DEF Return
<1>5. Moved(t, c)
  BY <1>3, <1>4 DEF Return, Moved, Unwritten, Uploading, Uploaded, Finishing
<1>6. QED
  BY <1>5

(* A run that goes on with the locals of d at stage s.                     *)
LEMMA StageMoves ==
    ASSUME IInv, NEW t \in Task, NEW d \in Coroutine,
           NEW s \in (Blocking \cup Suspended) \ {"idle"},
           Go(t, d, s) \/ (Await(t, d, s) /\ s \notin Finishing),
           d.run \in 1 .. MaxRuns,
           s \in Uploading => d.attempt < UploadAttempts,
           s = "infer" => d.attempt < InferAttempts,
           \/ d.run = co[t].run /\ (s \in Unwritten => co[t].stage \in Unwritten)
           \/ d.run = co[t].run + 1 /\ s \in Unwritten,
           t \in Anchoring /\ s \in Uploaded => <<t, d.run>> \in logged,
           s \in Finishing => co[t].stage \in Finishing,
           s \in {"settle", "commitSend"} =>
               co[t].stage \in {"settle", "commitSend"}
    PROVE  \E c : Moved(t, c)
<1> DEFINE c == [d EXCEPT !.stage = s]
<1>1. /\ c \in Coroutine /\ c.stage = s /\ c.run = d.run /\ c.attempt = d.attempt
  BY DEF Coroutine
<1>2. /\ co' = [co EXCEPT ![t] = c] /\ loop' \in {Nobody, t}
      /\ s \in Finishing => loop' = t
      /\ outcome' \in [Run -> Outcome]
  BY Parts DEF Go, Await
<1> HIDE DEF c
<1>3. Moved(t, c)
  BY <1>1, <1>2 DEF Moved
<1>4. QED
  BY <1>3

(* How an attempt of the upload fails, and how a run comes to the TEE.     *)
LEMMA AttemptFailsMoves ==
    ASSUME IInv, NEW t \in Task, co[t].stage \in Uploading \ {"fetch"},
           AttemptFails(t)
    PROVE  \E c : Moved(t, c)
<1> DEFINE n == co[t].attempt + 1
           d == [co[t] EXCEPT !.attempt = n]
<1>1. /\ co[t] \in Coroutine /\ co[t].attempt < UploadAttempts
      /\ co[t].run \in 1 .. MaxRuns /\ co[t].stage # "idle"
  BY ThisType, Invariants DEF Counted, Uploading
<1>2. /\ UploadAttempts \in Nat /\ UploadAttempts <= MaxAttempts
      /\ StandardAttempts > 0 => TurboAttempts < UploadAttempts
      /\ InferAttempts \in Nat /\ MaxAttempts \in Nat
  BY PipelinesAssumption DEF UploadAttempts, MaxAttempts
<1>3. n \in 0 .. MaxAttempts /\ n <= UploadAttempts
  BY <1>1, <1>2 DEF Coroutine
<1>4. d \in Coroutine /\ d.run = co[t].run /\ d.attempt = n
  BY <1>1, <1>3 DEF Coroutine
<1>5. \/ Return(t, "error")
      \/ n < UploadAttempts /\ (Go(t, d, "upload") \/ Await(t, d, "upload"))
  BY <1>2, <1>3 DEF AttemptFails
<1> HIDE DEF n, d
<1>6. CASE Return(t, "error")
  BY <1>1, <1>6, ReturnMoves DEF Outcome
<1>7. CASE n < UploadAttempts /\ (Go(t, d, "upload") \/ Await(t, d, "upload"))
  <2>1. /\ "upload" \in (Blocking \cup Suspended) \ {"idle"}
        /\ "upload" \in Uploading /\ "upload" \in Unwritten
        /\ "upload" \notin Uploaded /\ "upload" \notin Finishing
        /\ co[t].stage \in Unwritten
    BY DEF Suspended, Uploading, Unwritten, Uploaded, Finishing
  <2>2. QED
    BY <1>1, <1>4, <1>7, <2>1, StageMoves
<1>8. QED
  BY <1>5, <1>6, <1>7

(* A run that goes on to the TEE goes on within its stages.                *)
LEMMA InferMoves ==
    ASSUME IInv, NEW t \in Task, NEW d \in Coroutine, d.run \in 1 .. MaxRuns,
           \/ d.run = co[t].run /\ co[t].stage \in Unwritten
           \/ d.run = co[t].run + 1,
           t \in Anchoring => <<t, d.run>> \in logged,
           Infer(t, d)
    PROVE  \E c : Moved(t, c)
<1> DEFINE a == [d EXCEPT !.attempt = 0]
           b == [d EXCEPT !.attempt = 0, !.seal = "simulated"]
<1>1. MaxAttempts \in Nat /\ 0 < InferAttempts /\ 0 \in 0 .. MaxAttempts
  BY PipelinesAssumption DEF UploadAttempts, MaxAttempts
<1>2. /\ a \in Coroutine /\ a.run = d.run /\ a.attempt = 0
      /\ b \in Coroutine /\ b.run = d.run /\ b.attempt = 0
  BY <1>1 DEF Coroutine
<1>3. Await(t, a, "infer") \/ Go(t, b, "put")
  BY DEF Infer
<1> HIDE DEF a, b
<1>4. \A s \in {"infer", "put"} :
         /\ s \in (Blocking \cup Suspended) \ {"idle"}
         /\ s \notin Uploading /\ s \in Unwritten /\ s \notin Finishing
  BY DEF Blocking, Suspended, Uploading, Unwritten, Finishing
<1>5. CASE Await(t, a, "infer")
  BY <1>1, <1>2, <1>4, <1>5, StageMoves
<1>6. CASE Go(t, b, "put")
  BY <1>1, <1>2, <1>4, <1>6, StageMoves
<1>7. QED
  BY <1>3, <1>5, <1>6

----------------------------------------------------------------------------
(* The steps of a coroutine.                                               *)

(* A run begins.                                                           *)
LEMMA BeginIInv == ASSUME IInv, NEW t \in Task, Begin(t) PROVE IInv'
<1> DEFINE c == Idle(co[t].run + 1)
<1>1. /\ co[t] \in Coroutine /\ co[t].run < MaxRuns /\ loop \in {Nobody, t}
      /\ \/ Await(t, c, "fetch")
         \/ Go(t, c, "upload")
         \/ t \in Social /\ Infer(t, c)
      /\ UNCHANGED <<puts, chainVars, logged, kvVars, processVars>>
  BY ThisType DEF Begin, At
<1>2. /\ MaxAttempts \in Nat /\ 0 < UploadAttempts /\ MaxRuns \in Nat
      /\ 0 \in 0 .. MaxAttempts
  BY PipelinesAssumption DEF UploadAttempts, MaxAttempts
<1>3. co[t].run + 1 \in 1 .. MaxRuns /\ co[t].run + 1 \in 0 .. MaxRuns
  BY <1>1, <1>2 DEF Coroutine
<1>4. c \in Coroutine /\ c.run = co[t].run + 1 /\ c.attempt = 0
  BY <1>2, <1>3 DEF Idle, Coroutine, Suspended
<1> HIDE DEF c
<1>5. CASE Await(t, c, "fetch") \/ Go(t, c, "upload")
  <2>1. \A s \in {"fetch", "upload"} :
           /\ s \in (Blocking \cup Suspended) \ {"idle"}
           /\ s \in Uploading /\ s \in Unwritten /\ s \notin Uploaded
           /\ s \notin Finishing
    BY DEF Suspended, Uploading, Unwritten, Uploaded, Finishing
  <2>2. \E d : Moved(t, d)
    BY <1>2, <1>3, <1>4, <1>5, <2>1, StageMoves
  <2>3. QED
    BY <1>1, <2>2, LocalIInv
<1>6. CASE t \in Social /\ Infer(t, c)
  <2>1. t \notin Anchoring
    BY <1>6, PipelinesAssumption DEF Anchoring
  <2>2. \E d : Moved(t, d)
    BY <1>3, <1>4, <1>6, <2>1, InferMoves
  <2>3. QED
    BY <1>1, <2>2, LocalIInv
<1>7. QED
  BY <1>1, <1>5, <1>6

(* The coroutine of t at a stage of its upload, and the next one.          *)
LEMMA UploadGoesOn ==
    ASSUME IInv, NEW t \in Task, co[t].stage \in Uploading,
           NEW d \in Coroutine, d.run = co[t].run, d.attempt = co[t].attempt,
           NEW s \in Uploading, s = "segments" => This(t) \in logged,
           Go(t, d, s)
    PROVE  \E c : Moved(t, c)
<1>1. co[t].attempt < UploadAttempts /\ co[t].run \in 1 .. MaxRuns
  BY Invariants DEF Counted, Uploading
<1>2. /\ s \in (Blocking \cup Suspended) \ {"idle"} /\ s # "infer"
      /\ s \in Unwritten /\ s \notin Finishing /\ s \notin {"settle", "commitSend"}
      /\ s \in Uploaded => s = "segments"
      /\ co[t].stage \in Unwritten
  BY DEF Blocking, Suspended, Uploading, Unwritten, Uploaded, Finishing
<1>3. s \in Uploaded => <<t, d.run>> \in logged
  BY <1>2 DEF This
<1>4. d.run \in 1 .. MaxRuns /\ d.attempt < UploadAttempts
  BY <1>1
<1>5. QED
  BY <1>2, <1>3, <1>4, StageMoves

(* Taking the account's nonce changes neither run nor attempts.            *)
LEMMA NumberedType ==
    ASSUME IInv, NEW t \in Task
    PROVE  /\ Numbered(t) \in Coroutine /\ Numbered(t).run = co[t].run
           /\ Numbered(t).attempt = co[t].attempt
<1>1. co[t] \in Coroutine /\ Len(mined) \in Nat
  BY Parts
<1>2. QED
  BY <1>1 DEF Numbered, Coroutine

(* The steps of an upload.                                                 *)
LEMMA UploadStepsIInv ==
    ASSUME IInv, NEW t \in Task,
           \/ Fetched(t) \/ Upload(t) \/ FlowReceipt(t) \/ LogEntry(t)
           \/ LogEntryFails(t) \/ Segments(t)
    PROVE  IInv'
<1>1. /\ loop \in {Nobody, t} /\ co[t] \in Coroutine
      /\ UNCHANGED <<puts, chainVars, logged, kvVars, processVars>>
  BY ThisType DEF Fetched, Upload, FlowReceipt, LogEntry, LogEntryFails, Segments, At
<1>2. \E c : Moved(t, c)
  <2>1. CASE Fetched(t)
    BY <1>1, <2>1, UploadGoesOn DEF Fetched, At, Uploading
  <2>2. CASE Upload(t)
    <3>1. co[t].stage \in Uploading \ {"fetch"}
      BY <2>2 DEF Upload, At, Uploading
    <3>2. CASE Go(t, Numbered(t), "flowSend")
      BY <3>1, <3>2, NumberedType, UploadGoesOn DEF Uploading
    <3>3. QED
      BY <2>2, <3>1, <3>2, AttemptFailsMoves DEF Upload
  <2>3. CASE FlowReceipt(t)
    <3>1. co[t].stage \in Uploading \ {"fetch"}
      BY <2>3 DEF FlowReceipt, At, Uploading
    <3>2. CASE Go(t, co[t], "logEntry")
      BY <1>1, <3>1, <3>2, UploadGoesOn DEF Uploading
    <3>3. QED
      BY <2>3, <3>1, <3>2, AttemptFailsMoves DEF FlowReceipt
  <2>4. CASE LogEntry(t)
    BY <1>1, <2>4, UploadGoesOn DEF LogEntry, At, Uploading
  <2>5. CASE LogEntryFails(t)
    BY <2>5, AttemptFailsMoves DEF LogEntryFails, At, Uploading
  <2>6. CASE Segments(t)
    <3>1. co[t].stage = "segments" /\ co[t].stage \in Uploading \ {"fetch"}
      BY <2>6 DEF Segments, At, Uploading
    <3>2. CASE Infer(t, co[t])
      <4>1. co[t].run \in 1 .. MaxRuns /\ co[t].stage \in Unwritten
        BY <3>1, Invariants DEF Counted, Unwritten
      <4>2. t \in Anchoring => <<t, co[t].run>> \in logged
        BY <3>1, Invariants DEF UploadIsLogged, Uploaded, This
      <4>3. QED
        BY <1>1, <3>2, <4>1, <4>2, InferMoves
    <3>3. QED
      BY <2>6, <3>1, <3>2, AttemptFailsMoves DEF Segments
  <2>7. QED
    BY <2>1, <2>2, <2>3, <2>4, <2>5, <2>6
<1>3. QED
  BY <1>1, <1>2, LocalIInv

(* What is sent to the Flow contract commits nothing.                      *)
LEMMA FlowSendIInv == ASSUME IInv, NEW t \in Task, FlowSend(t) PROVE IInv'
<1>1. /\ loop \in {Nobody, t} /\ co[t] \in Coroutine
      /\ co[t].stage \in Uploading \ {"fetch"} /\ This(t) \in Run
      /\ UNCHANGED <<puts, mined, logged, kvVars, processVars>>
  BY ThisType DEF FlowSend, At, Uploading
<1>2. TxOf("flow", t) \in Tx /\ TxOf("flow", t).kind = "flow"
  BY <1>1 DEF TxOf, Tx
<1>3. /\ pending' \subseteq Tx
      /\ \A tx \in pending' : tx.kind = "commit" => tx \in pending
  BY <1>2, Parts DEF FlowSend, Send
<1>4. CASE Go(t, co[t], "flowReceipt")
  <2>1. PICK c : Moved(t, c)
    BY <1>1, <1>4, UploadGoesOn DEF Uploading
  <2>2. QED
    BY <1>1, <1>3, <2>1, MovedIInv
<1>5. CASE AttemptFails(t)
  <2>1. PICK c : Moved(t, c)
    BY <1>1, <1>5, AttemptFailsMoves
  <2>2. QED
    BY <1>1, <1>3, <2>1, MovedIInv
<1>6. QED
  BY <1>4, <1>5 DEF FlowSend

(* The TEE has answered, or each attempt has failed.                       *)
LEMMA InferredIInv == ASSUME IInv, NEW t \in Task, Inferred(t) PROVE IInv'
<1> DEFINE d == [co[t] EXCEPT !.attempt = @ + 1]
           b(seal) == [d EXCEPT !.seal = seal]
<1>1. /\ loop \in {Nobody, t} /\ co[t] \in Coroutine
      /\ co[t].stage = "infer" /\ co[t].attempt < InferAttempts
      /\ co[t].run \in 1 .. MaxRuns
      /\ t \in Anchoring => <<t, co[t].run>> \in logged
      /\ UNCHANGED <<puts, chainVars, logged, kvVars, processVars>>
  BY ThisType, Invariants
  DEF Inferred, At, TypeOK, Counted, UploadIsLogged, Uploaded, This
<1>2. /\ UploadAttempts \in Nat /\ InferAttempts \in Nat
      /\ MaxAttempts \in Nat /\ InferAttempts <= MaxAttempts
  BY PipelinesAssumption DEF UploadAttempts, MaxAttempts
<1>3. /\ d \in Coroutine /\ d.run = co[t].run /\ d.attempt = co[t].attempt + 1
      /\ \A seal \in {"tee", "none", "simulated"} :
            b(seal) \in Coroutine /\ b(seal).run = co[t].run
  <2>1. co[t].attempt + 1 \in 0 .. MaxAttempts
    BY <1>1, <1>2 DEF Coroutine
  <2>2. QED
    BY <1>1, <2>1 DEF Coroutine
<1>4. \/ \E seal \in {"tee", "none", "simulated"} : Go(t, b(seal), "put")
      \/ d.attempt < InferAttempts /\ Await(t, d, "infer")
  BY DEF Inferred
<1> HIDE DEF d, b
<1>5. /\ \A s \in {"infer", "put"} :
            /\ s \in (Blocking \cup Suspended) \ {"idle"}
            /\ s \notin Uploading /\ s \in Unwritten /\ s \notin Finishing
      /\ co[t].stage \in Unwritten
  BY <1>1 DEF Blocking, Suspended, Uploading, Unwritten, Finishing
<1>6. \E c : Moved(t, c)
  <2>1. ASSUME NEW seal \in {"tee", "none", "simulated"}, Go(t, b(seal), "put")
        PROVE  \E c : Moved(t, c)
    BY <1>1, <1>3, <1>5, <2>1, StageMoves
  <2>2. CASE d.attempt < InferAttempts /\ Await(t, d, "infer")
    BY <1>1, <1>3, <1>5, <2>2, StageMoves
  <2>3. QED
    BY <1>4, <2>1, <2>2
<1>7. QED
  BY <1>1, <1>6, LocalIInv

(* The steps of a settlement before and after its sending.                 *)
LEMMA SettlingStepsIInv ==
    ASSUME IInv, NEW t \in Task, Settle(t) \/ CommitReceipt(t)
    PROVE  IInv'
<1>1. /\ loop \in {Nobody, t} /\ co[t] \in Coroutine /\ co[t].stage # "idle"
      /\ co[t].run \in 1 .. MaxRuns
      /\ UNCHANGED <<puts, chainVars, logged, kvVars, processVars>>
  BY ThisType, Invariants DEF Settle, CommitReceipt, At, Counted
<1>2. \E c : Moved(t, c)
  <2>1. CASE \E result \in {"settled", "unsettled"} : Return(t, result)
    BY <1>1, <2>1, ReturnMoves DEF Outcome
  <2>2. CASE Settle(t) /\ Go(t, Numbered(t), "commitSend")
    <3>1. /\ "commitSend" \in (Blocking \cup Suspended) \ {"idle"}
          /\ "commitSend" \notin Uploading /\ "commitSend" \notin Unwritten
          /\ co[t].stage = "settle" /\ co[t].stage \in Finishing
          /\ co[t].stage \in Uploaded
      BY <2>2 DEF Settle, At, Blocking, Uploading, Unwritten, Uploaded, Finishing
    <3>2. t \in Anchoring => <<t, co[t].run>> \in logged
      BY <3>1, Invariants DEF UploadIsLogged, This
    <3>3. QED
      BY <1>1, <2>2, <3>1, <3>2, NumberedType, StageMoves
  <2>3. QED
    BY <2>1, <2>2 DEF Settle, CommitReceipt
<1>3. QED
  BY <1>1, <1>2, LocalIInv

(* A submission is the last write's, so that it comes after all others.    *)
LEMMA CommitSendIInv == ASSUME IInv, NEW t \in Task, CommitSend(t) PROVE IInv'
<1>1. /\ loop \in {Nobody, t} /\ co[t] \in Coroutine
      /\ co[t].stage = "commitSend" /\ This(t) \in Run
      /\ co[t].run \in 1 .. MaxRuns
      /\ UNCHANGED <<puts, mined, logged, kvVars, processVars>>
  BY ThisType, Invariants DEF CommitSend, At, Counted
<1>2. CASE Return(t, "unsettled") /\ UNCHANGED pending
  <2>1. PICK c : Moved(t, c)
    BY <1>1, <1>2, ReturnMoves DEF Outcome
  <2>2. pending' \subseteq Tx
    BY <1>2, Parts
  <2>3. QED
    BY <1>1, <1>2, <2>1, <2>2, MovedIInv
<1>3. CASE Send(t, TxOf("commit", t)) /\ Go(t, co[t], "commitReceipt")
  <2> DEFINE new == TxOf("commit", t)
             c == [co[t] EXCEPT !.stage = "commitReceipt"]
  <2>1. /\ new \in Tx /\ new.kind = "commit" /\ new.run = This(t)
        /\ pending' = pending \cup {new} /\ loop' = t
        /\ co' = [co EXCEPT ![t] = c] /\ UNCHANGED outcome
    BY <1>1, <1>3 DEF TxOf, Tx, Send, Go
  <2>2. /\ c \in Coroutine /\ c.stage = "commitReceipt" /\ c.run = co[t].run
        /\ c.attempt = co[t].attempt
    BY <1>1 DEF Coroutine, Blocking
  <2> HIDE DEF c, new
  <2>3. /\ co'[t] = c /\ \A u \in Task \ {t} : co'[u] = co[u]
        /\ co' \in [Task -> Coroutine]
    BY <2>1, <2>2, Parts
  <2>4. \A u \in Task : This(u)' = This(u) /\ co'[u].run = co[u].run
    BY <2>2, <2>3 DEF This
  <2>5. UNCHANGED <<puts, mined, logged, cache, idempotency, started, hasToken, crashes>>
    BY <1>1 DEF kvVars, processVars
  <2>6. /\ co[t].stage \in Finishing /\ co[t].stage \in Uploaded
        /\ c.stage \in Finishing /\ c.stage \notin Unwritten
        /\ c.stage \notin Uploading
    BY <1>1, <2>2 DEF Finishing, Uploaded, Unwritten, Uploading
  <2>7. loop = t /\ Len(puts) > 0 /\ puts[Len(puts)].run = This(t)
    BY <2>6, Invariants DEF HoldsLoop
  <2>8. TypeOK'
    <3>1. \A u \in Task : co'[u].stage = "infer" => co'[u].attempt < InferAttempts
      BY <2>2, <2>3, Invariants DEF TypeOK
    <3>2. KV!TypeOK'
      BY <2>5, Invariants DEF TypeOK, KV!TypeOK
    <3>3. QED
      BY <2>1, <2>3, <2>5, <3>1, <3>2, Invariants DEF TypeOK
  <2>9. Counted'
    BY <1>1, <2>2, <2>3, <2>6, Invariants DEF Counted
  <2>10. UploadIsLogged'
    <3>1. Anchoring \subseteq Task
      BY DEF Anchoring, Task
    <3>2. QED
      BY <2>3, <2>4, <2>5, <2>6, <3>1, Invariants DEF UploadIsLogged
  <2>11. HoldsLoop'
    BY <2>1, <2>3, <2>4, <2>5, <2>7, Invariants DEF HoldsLoop
  <2>12. WritesOnce'
    <3>1. \A i \in 1 .. Len(puts) : puts[i].run[1] \in Task
      BY Parts DEF Run
    <3>2. QED
      BY <2>3, <2>4, <2>5, <2>6, <3>1, Invariants DEF WritesOnce
  <2>13. Sent' = Sent \cup {new}
    BY <2>1, <2>5 DEF Sent
  <2>14. /\ new.run[1] = t /\ new.run \in Run
         /\ \E i \in 1 .. Len(puts) : puts[i].run = new.run
         /\ t \in Depin => new.run \in logged
    <3>1. new.run[1] = t /\ new.run \in Run
      BY <1>1, <2>1, ThisType
    <3>2. \E i \in 1 .. Len(puts) : puts[i].run = new.run
      BY <2>1, <2>7, Parts
    <3>3. t \in Depin => new.run \in logged
      BY <2>1, <2>6, Invariants DEF UploadIsLogged, Anchoring
    <3>4. QED
      BY <3>1, <3>2, <3>3
  <2>15. SubmitsOnce'
    <3>1. ASSUME NEW tx \in Sent', tx.kind = "commit"
          PROVE  /\ \E i \in 1 .. Len(puts) : puts[i].run = tx.run
                 /\ tx.run = This(tx.run[1])' =>
                       co'[tx.run[1]].stage \notin {"settle", "commitSend"}
                 /\ tx.run[1] \in Depin => tx.run \in logged
      <4>1. CASE tx = new
        BY <2>2, <2>3, <2>14, <4>1
      <4>2. CASE tx # new
        <5>1. tx \in Sent /\ tx.run[1] \in Task
          BY <2>13, <4>2, SentType
        <5>2. CASE tx.run[1] = t
          BY <2>2, <2>3, <3>1, <5>1, <5>2, Invariants DEF SubmitsOnce
        <5>3. CASE tx.run[1] # t
          BY <2>3, <2>4, <3>1, <5>1, <5>3, Invariants DEF SubmitsOnce
        <5>4. QED
          BY <5>2, <5>3
      <4>3. QED
        BY <4>1, <4>2
    <3>2. QED
      BY <2>5, <3>1 DEF SubmitsOnce
  <2>16. \A i \in Commits : InOrder(mined[i].tx, new)
    <3> SUFFICES ASSUME NEW i \in Commits, NEW a \in 1 .. Len(puts),
                        NEW b \in 1 .. Len(puts),
                        puts[a].run = mined[i].tx.run, puts[b].run = new.run
                 PROVE  a < b
      BY DEF InOrder
    <3>1. b = Len(puts) /\ Len(puts) \in Nat
      BY <2>1, <2>7, Parts, Invariants DEF WritesOnce
    <3>2. mined[i].tx \in Sent /\ mined[i].tx.kind = "commit"
      BY DEF Sent, Commits
    <3>3. mined[i].tx.run # This(t)
      <4>1. This(t)[1] = t
        BY ThisType
      <4>2. QED
        BY <1>1, <3>2, <4>1, Invariants DEF SubmitsOnce
    <3>4. a # b
      BY <2>1, <3>3
    <3>5. QED
      BY <3>1, <3>4
  <2>17. SubmissionsOrdered'
    BY <2>1, <2>5, <2>16, Invariants, SMTT(30) DEF SubmissionsOrdered, InOrder, Commits
  <2>18. Remembered' /\ NothingSkippedIntoVoid'
    BY <2>5, Invariants DEF Remembered, NothingSkippedIntoVoid, WrittenUnder
  <2>19. QED
    BY <2>8, <2>9, <2>10, <2>11, <2>12, <2>15, <2>17, <2>18 DEF IInv
<1>4. QED
  BY <1>2, <1>3 DEF CommitSend

(* A run that writes has not written before; what it writes is there, or   *)
(* was written by this process already.                                    *)
LEMMA PutIInv == ASSUME IInv, NEW t \in Task, Put(t) PROVE IInv'
<1> DEFINE n == Len(puts) + 1
           key == IF t \in Depin THEN Weather
                  ELSE IF t \in Social THEN Audit ELSE This(t)
           value == IF t \in Social /\ co[t].seal = "none" THEN Blank ELSE This(t)
           new == [run |-> This(t), key |-> key, value |-> value]
<1>1. /\ loop \in {Nobody, t} /\ co[t] \in Coroutine /\ co[t].stage = "put"
      /\ This(t) \in Run /\ This(t)[1] = t /\ This(t)[2] = co[t].run
      /\ co[t].run \in 1 .. MaxRuns
  BY ThisType, Invariants DEF Put, At, Counted
<1>2. /\ KV!Put(key, value) /\ puts' = Append(puts, new)
      /\ UNCHANGED <<chainVars, logged, processVars>>
  BY DEF Put, Write
<1>3. /\ key \in {Weather, Audit} \cup Run /\ value \in {Blank} \cup Run
      /\ new.run = This(t) /\ new.key = key /\ new.value = value
      /\ new \in [run : Run, key : {Weather, Audit} \cup Run,
                  value : {Blank} \cup Run]
  BY <1>1
<1> HIDE DEF key, value, new
<1>4. UNCHANGED <<mined, pending, logged, started, hasToken, crashes>>
  BY <1>2 DEF chainVars, processVars
<1>5. /\ Len(puts') = n /\ puts'[n] = new /\ n \in Nat /\ Len(puts) \in Nat
      /\ \A i \in 1 .. Len(puts) : puts'[i] = puts[i]
      /\ puts' \in Seq([run : Run, key : {Weather, Audit} \cup Run,
                        value : {Blank} \cup Run])
  <2> DEFINE S == [run : Run, key : {Weather, Audit} \cup Run,
                   value : {Blank} \cup Run]
  <2>1. puts \in Seq(S) /\ new \in S /\ Len(puts) \in Nat
    BY <1>3, Parts
  <2> HIDE DEF S
  <2>2. /\ puts' \in Seq(S) /\ Len(puts') = Len(puts) + 1
        /\ puts'[Len(puts) + 1] = new
        /\ \A i \in 1 .. Len(puts) : puts'[i] = puts[i]
    BY <1>2, <2>1, AppendProperties
  <2>3. QED
    BY <2>1, <2>2 DEF S
<1> HIDE DEF n
<1>6. n = Len(puts) + 1
  BY DEF n
<1>7. PICK c \in Coroutine :
         /\ co' = [co EXCEPT ![t] = c] /\ c.run = co[t].run
         /\ \/ c.stage = "settle" /\ loop' = t /\ UNCHANGED outcome
            \/ c.stage = "idle" /\ loop' = Nobody
         /\ loop' \in {Nobody, t} /\ outcome' \in [Run -> Outcome]
  <2>1. CASE Go(t, co[t], "settle")
    <3> DEFINE c == [co[t] EXCEPT !.stage = "settle"]
    <3>1. c \in Coroutine /\ c.run = co[t].run /\ c.stage = "settle"
      BY <1>1 DEF Coroutine, Blocking
    <3>2. QED
      BY <2>1, <3>1, Parts DEF Go
  <2>2. CASE Return(t, "unsettled")
    <3> DEFINE c == Idle(co[t].run)
    <3>1. MaxAttempts \in Nat
      BY PipelinesAssumption DEF UploadAttempts, MaxAttempts
    <3>2. c \in Coroutine /\ c.run = co[t].run /\ c.stage = "idle"
      BY <1>1, <3>1 DEF Idle, Coroutine, Suspended
    <3>3. outcome' \in [Run -> Outcome]
      BY <1>1, <2>2, Parts DEF Return, Outcome
    <3>4. QED
      BY <2>2, <3>2, <3>3 DEF Return
  <2>3. QED
    BY <2>1, <2>2 DEF Put
<1>8. /\ co'[t] = c /\ \A u \in Task \ {t} : co'[u] = co[u]
      /\ co' \in [Task -> Coroutine]
  BY <1>7, Parts
<1>9. \A u \in Task : This(u)' = This(u) /\ co'[u].run = co[u].run
  BY <1>7, <1>8 DEF This
<1>10. /\ c.stage \in {"settle", "idle"} /\ c.stage \notin Unwritten
       /\ c.stage \notin Uploading /\ c.stage # "infer"
       /\ co[t].stage \in Unwritten /\ co[t].stage \in Uploaded
       /\ \A u \in Task \ {t} : co[u].stage \notin Finishing
  <2>1. \A u \in Task \ {t} : co[u].stage \notin Finishing
    BY <1>1, Parts, Invariants DEF HoldsLoop
  <2>2. QED
    BY <1>1, <1>7, <2>1 DEF Unwritten, Uploading, Uploaded
<1>11. \A i \in 1 .. Len(puts) : puts[i].run # This(t)
  BY <1>1, <1>10, Invariants DEF WritesOnce
<1>12. /\ cache' \in [{Weather, Audit} \cup Run -> {Blank} \cup Run \cup {<<Nobody, 3>>}]
       /\ idempotency' \subseteq ({Weather, Audit} \cup Run) \X ({Blank} \cup Run)
       /\ idempotency' \subseteq idempotency \cup {<<key, value>>}
       /\ \A k \in ({Weather, Audit} \cup Run) \ {key} : cache'[k] = cache[k]
       /\ \/ <<key, value>> \in idempotency /\ cache' = cache
          \/ cache'[key] = value
  <2> DEFINE K == {Weather, Audit} \cup Run
             V == {Blank} \cup Run
  <2>1. /\ cache \in [K -> V \cup {<<Nobody, 3>>}] /\ idempotency \subseteq K \X V
        /\ key \in K /\ value \in V
    BY <1>3, Invariants DEF TypeOK, KV!TypeOK
  <2>2. \/ <<key, value>> \in idempotency /\ UNCHANGED <<cache, idempotency>>
        \/ /\ cache' = [cache EXCEPT ![key] = value]
           /\ idempotency' = idempotency \cup {<<key, value>>}
    BY <1>2 DEF KV!Put
  <2> HIDE DEF K, V
  <2>3. /\ cache' \in [K -> V \cup {<<Nobody, 3>>}]
        /\ \A k \in K \ {key} : cache'[k] = cache[k]
    BY <2>1, <2>2
  <2>4. idempotency' \subseteq K \X V /\ idempotency' \subseteq idempotency \cup {<<key, value>>}
    BY <2>1, <2>2
  <2>5. \/ <<key, value>> \in idempotency /\ cache' = cache
        \/ cache'[key] = value
    BY <2>1, <2>2
  <2>6. QED
    BY <2>3, <2>4, <2>5 DEF K, V
<1>13. TypeOK'
  <2>1. \A u \in Task : co'[u].stage = "infer" => co'[u].attempt < InferAttempts
    BY <1>8, <1>10, Invariants DEF TypeOK
  <2>2. started' \in 0 .. Len(puts')
    BY <1>4, <1>5, <1>6, Invariants DEF TypeOK
  <2>3. KV!TypeOK'
    BY <1>12 DEF KV!TypeOK
  <2>4. loop' \in Task \cup {Nobody}
    BY <1>7
  <2>5. QED
    BY <1>4, <1>5, <1>7, <1>8, <2>1, <2>2, <2>3, <2>4, Invariants DEF TypeOK
<1>14. Counted'
  BY <1>1, <1>7, <1>8, <1>10, Invariants DEF Counted
<1>15. UploadIsLogged'
  <2>1. Anchoring \subseteq Task
    BY DEF Anchoring, Task
  <2>2. QED
    BY <1>4, <1>8, <1>9, <1>10, <2>1, Invariants DEF UploadIsLogged
<1>16. HoldsLoop'
  <2>1. \A u \in Task : co'[u].stage \in Finishing => u = t /\ c.stage = "settle"
    BY <1>8, <1>10 DEF Finishing
  <2>2. QED
    BY <1>3, <1>5, <1>6, <1>7, <1>9, <2>1 DEF HoldsLoop
<1>17. WritesOnce'
  <2>1. ASSUME NEW i \in 1 .. n
        PROVE  /\ puts'[i].run[2] <= co'[puts'[i].run[1]].run
               /\ puts'[i].run[2] = co'[puts'[i].run[1]].run =>
                     co'[puts'[i].run[1]].stage \notin Unwritten
    <3>1. CASE i = n
      BY <1>1, <1>3, <1>5, <1>8, <1>9, <1>10, <3>1
    <3>2. CASE i # n
      <4>1. i \in 1 .. Len(puts) /\ puts'[i] = puts[i] /\ puts[i].run[1] \in Task
        BY <1>5, <1>6, <3>2, Parts DEF Run
      <4>2. QED
        BY <1>8, <1>9, <1>10, <4>1, Invariants DEF WritesOnce
    <3>3. QED
      BY <3>1, <3>2
  <2>2. ASSUME NEW i \in 1 .. n, NEW j \in 1 .. n, puts'[i].run = puts'[j].run
        PROVE  i = j
    BY <1>3, <1>5, <1>6, <1>11, <2>2, Invariants DEF WritesOnce
  <2>3. QED
    BY <1>5, <2>1, <2>2 DEF WritesOnce
<1>18. Sent' = Sent
  BY <1>4 DEF Sent
<1>19. \A tx \in Sent : tx.kind = "commit" => tx.run # This(t)
  BY <1>11, Invariants DEF SubmitsOnce
<1>20. SubmitsOnce'
  <2>1. ASSUME NEW tx \in Sent, tx.kind = "commit"
        PROVE  /\ \E i \in 1 .. n : puts'[i].run = tx.run
               /\ tx.run = This(tx.run[1])' =>
                     co'[tx.run[1]].stage \notin {"settle", "commitSend"}
               /\ tx.run[1] \in Depin => tx.run \in logged
    <3>1. tx.run[1] \in Task
      BY SentType
    <3>2. PICK i \in 1 .. Len(puts) : puts[i].run = tx.run
      BY <2>1, Invariants DEF SubmitsOnce
    <3>3. i \in 1 .. n /\ puts'[i].run = tx.run
      BY <1>5, <1>6, <3>2
    <3>4. QED
      BY <1>8, <1>9, <1>19, <2>1, <3>1, <3>3, Invariants DEF SubmitsOnce
  <2>2. QED
    BY <1>4, <1>5, <1>18, <2>1 DEF SubmitsOnce
<1>21. SubmissionsOrdered'
  <2>1. ASSUME NEW tx \in Sent, tx.kind = "commit", NEW i \in 1 .. n,
               puts'[i].run = tx.run
        PROVE  i \in 1 .. Len(puts) /\ puts[i].run = tx.run
    BY <1>3, <1>5, <1>6, <1>19, <2>1
  <2> DEFINE After(tx, later) ==
                \A a, b \in 1 .. n :
                    puts'[a].run = tx.run /\ puts'[b].run = later.run => a < b
  <2>2. ASSUME NEW tx \in Sent, tx.kind = "commit",
               NEW later \in Sent, later.kind = "commit", InOrder(tx, later)
        PROVE  After(tx, later)
    BY <2>1, <2>2 DEF InOrder
  <2>3. /\ \A i \in Commits : mined[i].tx \in Sent /\ mined[i].tx.kind = "commit"
        /\ pending \subseteq Sent
    BY DEF Sent, Commits
  <2>4. \A i \in Commits :
           /\ \A j \in Commits : i < j => After(mined[i].tx, mined[j].tx)
           /\ \A tx \in pending : tx.kind = "commit" => After(mined[i].tx, tx)
    <3> HIDE DEF After
    <3>1. QED
      BY <2>2, <2>3, Invariants DEF SubmissionsOrdered
  <2>5. QED
    BY <1>4, <1>5, <2>4 DEF SubmissionsOrdered, InOrder, Commits
<1> DEFINE W(k) == {i \in started + 1 .. n : puts'[i].key = k}
<1>22. /\ \A k : WrittenUnder(k) \subseteq W(k)
       /\ \A k : k # key => W(k) = WrittenUnder(k)
       /\ n \in W(key)
       /\ \A k : \A i \in WrittenUnder(k) : puts'[i] = puts[i]
  <2>1. started \in Nat /\ started <= Len(puts)
    BY <1>5, Invariants DEF TypeOK
  <2>2. \A k : WrittenUnder(k) \subseteq W(k)
    BY <1>5, <1>6, <2>1 DEF WrittenUnder
  <2>3. ASSUME NEW k, k # key PROVE W(k) = WrittenUnder(k)
    <3>1. puts'[n].key # k
      BY <1>3, <1>5, <2>3
    <3>2. \A i \in W(k) : i \in 1 .. Len(puts)
      BY <1>5, <1>6, <2>1, <3>1
    <3>3. QED
      BY <1>5, <1>6, <2>1, <2>2, <3>2 DEF WrittenUnder
  <2>4. n \in W(key)
    BY <1>3, <1>5, <1>6, <2>1
  <2>5. \A k : \A i \in WrittenUnder(k) : puts'[i] = puts[i]
    BY <1>5, <2>1 DEF WrittenUnder
  <2>6. QED
    BY <2>2, <2>3, <2>4, <2>5
<1>23. Remembered'
  <2>1. ASSUME NEW pair \in idempotency'
        PROVE  \E i \in W(pair[1]) : puts'[i].value = pair[2]
    <3> HIDE DEF W
    <3>1. CASE pair \in idempotency
      BY <1>22, <3>1, Invariants DEF Remembered
    <3>2. CASE pair = <<key, value>>
      <4>1. pair[1] = key /\ pair[2] = value /\ puts'[n].value = value
        BY <1>3, <1>5, <3>2
      <4>2. QED
        BY <1>22, <4>1
    <3>3. QED
      BY <1>12, <3>1, <3>2
  <2>2. QED
    BY <1>4, <1>5, <2>1 DEF Remembered, WrittenUnder
<1>24. NothingSkippedIntoVoid'
  <2>1. ASSUME NEW k \in {Weather, Audit} \cup Run, W(k) # {}
        PROVE  \E i \in W(k) : cache'[k] = puts'[i].value
    <3> HIDE DEF W
    <3>1. CASE k # key
      BY <1>12, <1>22, <2>1, <3>1, Invariants DEF NothingSkippedIntoVoid
    <3>2. CASE k = key /\ cache'[key] = value
      <4>1. puts'[n].value = value
        BY <1>3, <1>5
      <4>2. QED
        BY <1>22, <3>2, <4>1
    <3>3. CASE k = key /\ <<key, value>> \in idempotency /\ cache' = cache
      <4>1. WrittenUnder(key) # {}
        BY <3>3, Invariants DEF Remembered
      <4>2. PICK i \in WrittenUnder(key) : cache[key] = puts[i].value
        BY <1>3, <4>1, Invariants DEF NothingSkippedIntoVoid
      <4>3. QED
        BY <1>22, <3>3, <4>2
    <3>4. QED
      BY <1>12, <3>1, <3>2, <3>3
  <2>2. QED
    BY <1>4, <1>5, <2>1 DEF NothingSkippedIntoVoid, WrittenUnder
<1>25. QED
  BY <1>13, <1>14, <1>15, <1>16, <1>17, <1>20, <1>21, <1>23, <1>24 DEF IInv

----------------------------------------------------------------------------
(* The chain, the storage nodes and the process.                           *)

(* A step of the chain: what is sent does not grow.                        *)
LEMMA ChainIInv ==
    ASSUME IInv, mined' \in Seq([tx : Tx, ok : BOOLEAN]), pending' \subseteq Tx,
           Sent' \subseteq Sent, SubmissionsOrdered',
           UNCHANGED <<taskVars, logged, kvVars, processVars>>
    PROVE  IInv'
<1>1. UNCHANGED <<co, loop, outcome, puts, logged, cache, idempotency, started,
                  hasToken, crashes>>
  BY DEF taskVars, kvVars, processVars
<1>2. TypeOK'
  <2>1. KV!TypeOK'
    BY <1>1, Invariants DEF TypeOK, KV!TypeOK
  <2>2. QED
    BY <1>1, <2>1, Invariants DEF TypeOK
<1>3. Counted' /\ UploadIsLogged' /\ HoldsLoop' /\ WritesOnce'
  BY <1>1, Invariants
  DEF Counted, UploadIsLogged, HoldsLoop, WritesOnce, This
<1>4. SubmitsOnce'
  BY <1>1, Invariants DEF SubmitsOnce, This
<1>5. Remembered' /\ NothingSkippedIntoVoid'
  BY <1>1, Invariants DEF Remembered, NothingSkippedIntoVoid, WrittenUnder
<1>6. QED
  BY <1>2, <1>3, <1>4, <1>5 DEF IInv

(* The transaction that is mined takes the place of those it competes with.*)
LEMMA MineIInv ==
    ASSUME IInv, NEW tx \in pending, NEW ok \in BOOLEAN, Mine(tx, ok)
    PROVE  IInv'
<1> DEFINE n == Len(mined) + 1
<1>1. /\ pending' = {}
      /\ UNCHANGED <<taskVars, logged, kvVars, processVars>> /\ UNCHANGED puts
      /\ tx \in Tx
  BY Parts DEF Mine, taskVars
<1>2. /\ mined' \in Seq([tx : Tx, ok : BOOLEAN]) /\ Len(mined') = n
      /\ mined'[n].tx = tx
      /\ \A i \in 1 .. Len(mined) : mined'[i] = mined[i]
      /\ Len(mined) \in Nat
  <2> DEFINE new == [tx |-> tx, ok |-> ok]
  <2>1. /\ mined \in Seq([tx : Tx, ok : BOOLEAN]) /\ Len(mined) \in Nat
        /\ new \in [tx : Tx, ok : BOOLEAN] /\ new.tx = tx
        /\ mined' = Append(mined, new)
    BY <1>1, Parts DEF Mine
  <2> HIDE DEF new
  <2>2. QED
    BY <2>1, AppendProperties
<1>3. \A i \in 1 .. n : i = n \/ i \in 1 .. Len(mined)
  BY <1>2
<1>4. Sent' \subseteq Sent
  <2> SUFFICES ASSUME NEW i \in 1 .. n PROVE mined'[i].tx \in Sent
    BY <1>1, <1>2 DEF Sent
  <2>1. QED
    BY <1>2, <1>3 DEF Sent
<1>5. SubmissionsOrdered'
  <2>1. ASSUME NEW i \in 1 .. n, NEW j \in 1 .. n, i < j,
               mined'[i].tx.kind = "commit", mined'[j].tx.kind = "commit"
        PROVE  InOrder(mined'[i].tx, mined'[j].tx)
    <3>1. i \in Commits /\ mined'[i] = mined[i]
      BY <1>2, <1>3, <2>1 DEF Commits
    <3>2. CASE j = n
      BY <1>2, <2>1, <3>1, <3>2, Invariants DEF SubmissionsOrdered
    <3>3. CASE j # n
      <4>1. j \in Commits /\ mined'[j] = mined[j]
        BY <1>2, <1>3, <2>1, <3>3 DEF Commits
      <4>2. QED
        BY <2>1, <3>1, <4>1, Invariants DEF SubmissionsOrdered
    <3>4. QED
      BY <3>2, <3>3
  <2>2. QED
    BY <1>1, <1>2, <2>1 DEF SubmissionsOrdered, InOrder, Commits
<1>6. QED
  BY <1>1, <1>2, <1>4, <1>5, ChainIInv

(* The mempool drops a transaction.                                        *)
LEMMA DropIInv == ASSUME IInv, NEW tx \in pending, Drop(tx) PROVE IInv'
<1>1. /\ pending' = pending \ {tx}
      /\ UNCHANGED <<taskVars, mined, logged, kvVars, processVars>>
      /\ UNCHANGED puts
  BY DEF Drop, taskVars
<1>2. Sent' \subseteq Sent
  BY <1>1 DEF Sent
<1>3. SubmissionsOrdered'
  BY <1>1, Invariants DEF SubmissionsOrdered, InOrder, Commits
<1>4. mined' \in Seq([tx : Tx, ok : BOOLEAN]) /\ pending' \subseteq Tx
  BY <1>1, Parts
<1>5. QED
  BY <1>1, <1>2, <1>3, <1>4, ChainIInv

(* The log of the storage nodes only grows.                                *)
LEMMA SyncIInv ==
    ASSUME IInv, NEW i \in 1 .. Len(mined), Sync(i) PROVE IInv'
<1>1. /\ logged \subseteq logged' /\ logged' \subseteq Run
      /\ UNCHANGED <<co, loop, outcome, puts, mined, pending, cache, idempotency,
                     started, hasToken, crashes>>
  <2>1. mined[i].tx.run \in Run
    BY Parts DEF Tx
  <2>2. QED
    BY <2>1, Parts DEF Sync, taskVars, chainVars, kvVars, processVars
<1>2. TypeOK'
  <2>1. KV!TypeOK'
    BY <1>1, Invariants DEF TypeOK, KV!TypeOK
  <2>2. QED
    BY <1>1, <2>1, Invariants DEF TypeOK
<1>3. Counted' /\ UploadIsLogged' /\ HoldsLoop' /\ WritesOnce'
  BY <1>1, Invariants
  DEF Counted, UploadIsLogged, HoldsLoop, WritesOnce, This
<1>4. SubmitsOnce' /\ SubmissionsOrdered'
  BY <1>1, Invariants
  DEF SubmitsOnce, SubmissionsOrdered, InOrder, Commits, Sent, This
<1>5. Remembered' /\ NothingSkippedIntoVoid'
  BY <1>1, Invariants DEF Remembered, NothingSkippedIntoVoid, WrittenUnder
<1>6. QED
  BY <1>2, <1>3, <1>4, <1>5 DEF IInv

(* A new process has written nothing, and remembers nothing.               *)
LEMMA CrashIInv == ASSUME IInv, Crash PROVE IInv'
<1>1. /\ co' = [t \in Task |-> Idle(co[t].run)] /\ loop' = Nobody
      /\ cache' = [k \in {Weather, Audit} \cup Run |-> <<Nobody, 3>>]
      /\ idempotency' = {} /\ started' = Len(puts)
      /\ crashes' = crashes + 1 /\ crashes < MaxCrashes /\ hasToken' \in Tokens
      /\ UNCHANGED <<outcome, puts, mined, pending, logged>>
  BY DEF Crash, KV!Restart, chainVars
<1>2. ASSUME NEW t \in Task
      PROVE  /\ co'[t] \in Coroutine /\ co'[t].stage = "idle"
             /\ co'[t].run = co[t].run /\ This(t)' = This(t)
  <2>1. MaxAttempts \in Nat /\ co[t] \in Coroutine
    BY Parts, PipelinesAssumption DEF UploadAttempts, MaxAttempts
  <2>2. Idle(co[t].run) \in Coroutine
    BY <2>1 DEF Idle, Coroutine, Suspended
  <2>3. co'[t] = Idle(co[t].run)
    BY <1>1
  <2>4. QED
    BY <2>2, <2>3 DEF Idle, This
<1>3. co' \in [Task -> Coroutine]
  BY <1>1, <1>2
<1>4. TypeOK'
  <2>1. KV!TypeOK'
    BY <1>1 DEF KV!TypeOK
  <2>2. hasToken' \in BOOLEAN
    BY <1>1, PipelinesAssumption DEF Tokens
  <2>3. started' \in 0 .. Len(puts') /\ crashes' \in 0 .. MaxCrashes
    BY <1>1, Parts, Invariants, PipelinesAssumption DEF TypeOK
  <2>4. \A t \in Task : co'[t].stage # "infer"
    BY <1>2
  <2>5. QED
    BY <1>1, <1>3, <2>1, <2>2, <2>3, <2>4, Invariants DEF TypeOK
<1>5. Counted' /\ UploadIsLogged' /\ HoldsLoop'
  <2>1. Anchoring \subseteq Task
    BY DEF Anchoring, Task
  <2>2. \A t \in Task : /\ co'[t].stage = "idle"
                        /\ co'[t].stage \notin Uploading /\ co'[t].stage \notin Finishing
                        /\ co'[t].stage \notin Uploaded
    BY <1>2 DEF Uploading, Uploaded, Finishing
  <2>3. QED
    BY <2>1, <2>2 DEF Counted, UploadIsLogged, HoldsLoop
<1>6. WritesOnce'
  <2>1. \A i \in 1 .. Len(puts) : puts[i].run[1] \in Task
    BY Parts DEF Run
  <2>2. \A t \in Task : /\ co'[t].run = co[t].run
                        /\ co'[t].stage \notin Unwritten
    BY <1>2 DEF Unwritten, Uploading
  <2>3. QED
    BY <1>1, <2>1, <2>2, Invariants DEF WritesOnce
<1>7. SubmitsOnce' /\ SubmissionsOrdered'
  <2>1. Sent' = Sent
    BY <1>1 DEF Sent
  <2>2. \A tx \in Sent : tx.run[1] \in Task
    BY SentType
  <2>3. SubmitsOnce'
    BY <1>1, <1>2, <2>1, <2>2, Invariants DEF SubmitsOnce
  <2>4. SubmissionsOrdered'
    <3>1. /\ mined' = mined /\ pending' = pending /\ Commits' = Commits
          /\ \A tx, later : InOrder(tx, later) <=> InOrder(tx, later)'
      BY <1>1 DEF Commits, InOrder
    <3>2. QED
      BY <3>1, Invariants DEF SubmissionsOrdered
  <2>5. QED
    BY <2>3, <2>4
<1>8. Remembered' /\ NothingSkippedIntoVoid'
  <2>1. Len(puts) \in Nat
    BY Parts
  <2>2. \A k : {i \in started' + 1 .. Len(puts') : puts'[i].key = k} = {}
    BY <1>1, <2>1
  <2>3. QED
    BY <1>1, <2>2 DEF Remembered, NothingSkippedIntoVoid, WrittenUnder
<1>9. QED
  BY <1>4, <1>5, <1>6, <1>7, <1>8 DEF IInv

----------------------------------------------------------------------------
(* The invariant holds at first.                                           *)
LEMMA InitIInv == Init => IInv
<1> SUFFICES ASSUME Init PROVE IInv
  OBVIOUS
<1>1. /\ co = [t \in Task |-> Idle(0)] /\ loop = Nobody
      /\ outcome = [r \in Run |-> "running"] /\ puts = << >>
      /\ mined = << >> /\ pending = {} /\ logged = {}
      /\ cache = [k \in {Weather, Audit} \cup Run |-> <<Nobody, 3>>]
      /\ idempotency = {} /\ started = 0 /\ hasToken \in Tokens /\ crashes = 0
  BY DEF Init, KV!Init
<1>2. Len(puts) = 0 /\ Len(mined) = 0
  BY <1>1
<1>3. ASSUME NEW t \in Task
      PROVE  co[t] \in Coroutine /\ co[t].stage = "idle"
  <2>1. MaxAttempts \in Nat /\ MaxRuns \in Nat
    BY PipelinesAssumption DEF UploadAttempts, MaxAttempts
  <2>2. Idle(0) \in Coroutine /\ Idle(0).stage = "idle"
    BY <2>1 DEF Idle, Coroutine, Suspended
  <2>3. co[t] = Idle(0)
    BY <1>1
  <2>4. QED
    BY <2>2, <2>3
<1>4. co \in [Task -> Coroutine]
  BY <1>1, <1>3
<1>5. TypeOK
  <2>1. KV!TypeOK
    BY <1>1 DEF KV!TypeOK
  <2>2. hasToken \in BOOLEAN
    BY <1>1, PipelinesAssumption DEF Tokens
  <2>3. started \in 0 .. Len(puts) /\ crashes \in 0 .. MaxCrashes
    BY <1>1, <1>2, PipelinesAssumption
  <2>4. outcome \in [Run -> Outcome]
    BY <1>1 DEF Outcome
  <2>5. \A t \in Task : co[t].stage # "infer"
    BY <1>3
  <2>6. QED
    BY <1>1, <1>4, <2>1, <2>2, <2>3, <2>4, <2>5 DEF TypeOK
<1>6. Counted /\ UploadIsLogged /\ HoldsLoop
  <2>1. Anchoring \subseteq Task
    BY DEF Anchoring, Task
  <2>2. QED
    BY <1>3, <2>1
    DEF Counted, UploadIsLogged, HoldsLoop, Uploading, Uploaded, Finishing
<1>7. WritesOnce
  BY <1>2 DEF WritesOnce
<1>8. SubmitsOnce /\ SubmissionsOrdered
  BY <1>1, <1>2 DEF SubmitsOnce, SubmissionsOrdered, Sent, Commits
<1>9. Remembered /\ NothingSkippedIntoVoid
  BY <1>1, <1>2 DEF Remembered, NothingSkippedIntoVoid, WrittenUnder
<1>10. QED
  BY <1>5, <1>6, <1>7, <1>8, <1>9 DEF IInv

(* Every step preserves the invariant.                                     *)
LEMMA StepIInv == ASSUME IInv, [Next]_vars PROVE IInv'
<1>1. ASSUME NEW t \in Task, Step(t) PROVE IInv'
  BY <1>1, BeginIInv, UploadStepsIInv, FlowSendIInv, InferredIInv, PutIInv,
     SettlingStepsIInv, CommitSendIInv
  DEF Step, Progress
<1>2. ASSUME World PROVE IInv'
  BY <1>2, MineIInv, DropIInv, SyncIInv DEF World
<1>3. CASE Crash
  BY <1>3, CrashIInv
<1>4. CASE UNCHANGED vars
  <2>1. /\ UNCHANGED <<taskVars, logged, kvVars, processVars>>
        /\ UNCHANGED <<mined, pending, puts>>
    BY <1>4 DEF vars, chainVars, taskVars
  <2>2. Sent' \subseteq Sent /\ SubmissionsOrdered'
    BY <2>1, Invariants DEF Sent, SubmissionsOrdered, InOrder, Commits
  <2>3. mined' \in Seq([tx : Tx, ok : BOOLEAN]) /\ pending' \subseteq Tx
    BY <2>1, Parts
  <2>4. QED
    BY <2>1, <2>2, <2>3, ChainIInv
<1>5. QED
  BY <1>1, <1>2, <1>3, <1>4 DEF Next

(* The invariant holds in every reachable state.                           *)
THEOREM Invariance == Spec => []IInv
<1>1. IInv /\ [Next]_vars => IInv'
  BY StepIInv
<1>2. QED
  BY <1>1, InitIInv, PTL DEF Spec

(* The variables have their types and no coroutine makes more attempts     *)
(* than its step has.                                                      *)
THEOREM TypeCorrect == Spec => []TypeOK
<1>1. IInv => TypeOK
  BY DEF IInv
<1>2. QED
  BY <1>1, Invariance, PTL

(* What the depin pipeline settles, the storage nodes have in their log.   *)
THEOREM DepinSettlesLogged == Spec => []DepinIsLogged
<1>1. IInv => DepinIsLogged
  BY DEF IInv, DepinIsLogged, SubmitsOnce, Sent, Commits
<1>2. QED
  BY <1>1, Invariance, PTL

(* State roots reach the chain in the order of their writes, and none      *)
(* twice.                                                                  *)
THEOREM CommitsInOrder == Spec => []CommitsFollowPuts
<1>1. IInv => CommitsFollowPuts
  <2> SUFFICES ASSUME IInv, NEW i \in Commits, NEW j \in Commits, i < j
               PROVE  Position(mined[i].tx.run) < Position(mined[j].tx.run)
    BY DEF CommitsFollowPuts
  <2>1. \A k \in {i, j} : Position(mined[k].tx.run) \in
           {a \in 1 .. Len(puts) : puts[a].run = mined[k].tx.run}
    <3> SUFFICES ASSUME NEW k \in {i, j}
                 PROVE  \E a \in 1 .. Len(puts) : puts[a].run = mined[k].tx.run
      BY DEF Position
    <3>1. mined[k].tx \in Sent /\ mined[k].tx.kind = "commit"
      BY DEF Sent, Commits
    <3>2. QED
      BY <3>1, Invariants DEF SubmitsOnce
  <2>2. InOrder(mined[i].tx, mined[j].tx)
    BY Invariants DEF SubmissionsOrdered
  <2>3. QED
    BY <2>1, <2>2 DEF InOrder
<1>2. QED
  BY <1>1, Invariance, PTL

(* A put that is skipped as a repetition leaves its key with a value.      *)
THEOREM SkippedPutsAreThere == Spec => []NothingSkippedIntoVoid
<1>1. IInv => NothingSkippedIntoVoid
  BY DEF IInv
<1>2. QED
  BY <1>1, Invariance, PTL

----------------------------------------------------------------------------
(* The stream's theorems, of the backend's messages.                       *)
P == INSTANCE EventStreamProofs WITH Message <- Messages

(* The stream of the backend is the one that the theorems are about.       *)
LEMMA StreamAssumed == P!EventStreamAssumption
BY BackendAssumption DEF Stream!EventStreamAssumption, P!EventStreamAssumption,
   Stream!Kind, P!Kind

(* At first.                                                               *)
LEMMA SameInit == Stream!Init => P!Init
BY DEF Stream!Init, P!Init, Stream!Fresh, P!Fresh, Stream!Connection,
   P!Connection, Stream!Kind, P!Kind

(* The daemons broadcast as the stream does.                               *)
LEMMA SameBroadcast ==
    ASSUME NEW ms, Stream!Broadcast(ms) PROVE P!Broadcast(ms)
BY DEF Stream!Broadcast, P!Broadcast

(* The generators run as those of the stream do.                           *)
LEMMA SameServe ==
    ASSUME NEW c, Stream!Serve(c) PROVE P!Serve(c)
BY DEF Stream!Serve, P!Serve, Stream!Subscribe, P!Subscribe, Stream!Deliver,
   P!Deliver, Stream!Unsubscribe, P!Unsubscribe, Stream!Handle, P!Handle

(* A process that ends is the end of its connections in both.              *)
LEMMA SameServerEnds == Stream!ServerEnds => P!ServerEnds
BY DEF Stream!ServerEnds, P!ServerEnds, Stream!Connection, P!Connection

(* The pages and the network do what those of the stream do.               *)
LEMMA SameBrowse == Stream!Browse => P!Browse
BY DEF Stream!Browse, P!Browse, Stream!Connection, P!Connection, Stream!Reacts,
   P!Reacts, Stream!Connect, P!Connect, Stream!Open, P!Open, Stream!OnError,
   P!OnError, Stream!Unmount, P!Unmount, Stream!Break, P!Break

(* What the stream promises its pages is the promise to these pages.       *)
LEMMA SameFeed == P!ImplementsFeed => Stream!ImplementsFeed
<1>1. P!Promise!Init => Stream!Promise!Init
  BY DEF P!Promise!Init, Stream!Promise!Init, P!Promise!Blank, Stream!Promise!Blank,
     P!Reading, Stream!Reading, P!Kind, Stream!Kind
<1>2. UNCHANGED P!Promise!vars => UNCHANGED Stream!Promise!vars
  BY DEF P!Promise!vars, Stream!Promise!vars, P!Reading, Stream!Reading
<1>3. P!Promise!Next => Stream!Promise!Next
  <2>1. P!Promise!Publish => Stream!Promise!Publish
    BY DEF P!Promise!Publish, Stream!Promise!Publish, P!Reading, Stream!Reading
  <2>2. ASSUME NEW p \in Page, P!Promise!Attach(p) PROVE Stream!Promise!Attach(p)
    BY <2>2 DEF P!Promise!Attach, Stream!Promise!Attach, P!Reading, Stream!Reading
  <2>3. ASSUME NEW p \in Page, P!Promise!Detach(p) PROVE Stream!Promise!Detach(p)
    BY <2>3 DEF P!Promise!Detach, Stream!Promise!Detach, P!Reading, Stream!Reading
  <2>4. ASSUME NEW p \in Page, P!Promise!Show(p) PROVE Stream!Promise!Show(p)
    BY <2>4 DEF P!Promise!Show, Stream!Promise!Show, P!Promise!Shows,
       Stream!Promise!Shows, P!Promise!LastOf, Stream!Promise!LastOf,
       P!Reading, Stream!Reading, P!Kind, Stream!Kind
  <2>5. QED
    BY <2>1, <2>2, <2>3, <2>4 DEF P!Promise!Next, Stream!Promise!Next
<1>4. QED
  BY <1>1, <1>2, <1>3, PTL DEF P!ImplementsFeed, Stream!ImplementsFeed,
     P!Promise!Spec, Stream!Promise!Spec

----------------------------------------------------------------------------
(* The backend does what the pipelines do.                                 *)
LEMMA StepOfPipelines == [BackendNext]_backendVars => [Next]_vars
<1> SUFFICES ASSUME [BackendNext]_backendVars PROVE Next \/ UNCHANGED vars
  OBVIOUS
<1>1. ASSUME NEW t \in Task, TaskBegins(t) \/ TaskProgress(t) \/ TaskFails(t)
      PROVE  Next
  BY <1>1 DEF TaskBegins, TaskProgress, TaskFails, Next, Step
<1>2. CASE World \/ Crash
  BY <1>2 DEF Next
<1>3. ASSUME NEW c, ServerServes(c) PROVE UNCHANGED vars
  BY <1>3 DEF ServerServes
<1>4. CASE UNCHANGED backendVars
  BY <1>4 DEF backendVars
<1>5. QED
  BY <1>1, <1>2, <1>3, <1>4 DEF BackendNext

(* The daemons and the stream add no behaviour to the pipelines: whatever  *)
(* Pipelines promises without fairness, the whole backend keeps.           *)
THEOREM RunsPipelines == BackendSpec => Spec
<1>1. BackendInit => Init
  BY DEF BackendInit
<1>2. QED
  BY <1>1, StepOfPipelines, PTL DEF BackendSpec, Spec

(* The invariant of the pipelines holds in the whole backend.              *)
LEMMA PipelinesInvariant == BackendSpec => []IInv
BY RunsPipelines, Invariance, PTL

(* What a run says is a sequence of messages, and what it says of a        *)
(* success is true.                                                        *)
Wrote(r, written) == \E j \in 1 .. Len(written) : written[j].run = r

True(m, written, uploaded) ==
    m.event = "log" /\ m.level = "SUCCESS" =>
        Wrote(m.run, written) /\ (m.run[1] \in Anchoring => m.run \in uploaded)

(* A run that returns has written and uploaded, or ends in an error.       *)
LEMMA ReturnsTrue ==
    ASSUME IInv, NEW t \in Task, Progress(t) \/ LogEntryFails(t),
           outcome' # outcome, NEW r, r = This(t)
    PROVE  /\ r \in Run /\ r[1] = t
           /\ outcome'[r] \in Outcome \ {"running"}
           /\ outcome'[r] # "error" =>
                 Wrote(r, puts') /\ (t \in Anchoring => r \in logged')
<1>1. co[t].stage # "idle" /\ r \in Run /\ r[1] = t
  BY ThisType DEF Progress, LogEntryFails, Fetched, Upload, FlowSend, FlowReceipt,
     LogEntry, Segments, Inferred, Put, Settle, CommitSend, CommitReceipt, At
<1>2. ASSUME NEW result, Return(t, result) PROVE outcome'[r] = result
  BY <1>1, <1>2, Parts DEF Return
<1>3. CASE Return(t, "error")
  <2>1. outcome'[r] = "error"
    BY <1>2, <1>3
  <2>2. QED
    BY <1>1, <2>1 DEF Outcome
<1>4. CASE /\ Settle(t) \/ CommitSend(t) \/ CommitReceipt(t)
           /\ \E result \in {"settled", "unsettled"} : Return(t, result)
  <2>1. PICK result \in {"settled", "unsettled"} : Return(t, result)
    BY <1>4
  <2>2. co[t].stage \in Finishing /\ co[t].stage \in Uploaded
    BY <1>4 DEF Settle, CommitSend, CommitReceipt, At, Finishing, Uploaded
  <2>3. UNCHANGED <<puts, logged>>
    BY <1>4 DEF Settle, CommitSend, CommitReceipt
  <2>4. Len(puts) \in 1 .. Len(puts) /\ puts[Len(puts)].run = r
    BY <2>2, Parts, Invariants DEF HoldsLoop
  <2>5. t \in Anchoring => r \in logged'
    BY <2>2, <2>3, Invariants DEF UploadIsLogged
  <2>6. Wrote(r, puts')
    BY <2>3, <2>4 DEF Wrote
  <2>7. QED
    BY <1>1, <1>2, <2>1, <2>5, <2>6 DEF Outcome
<1>5. CASE Put(t) /\ Return(t, "unsettled")
  <2>1. co[t].stage = "put" /\ UNCHANGED logged
    BY <1>5 DEF Put, At
  <2>2. t \in Anchoring => r \in logged'
    BY <2>1, Invariants DEF UploadIsLogged, Uploaded
  <2>3. Wrote(r, puts')
    <3>1. PICK w : puts' = Append(puts, w) /\ w.run = This(t)
      BY <1>5 DEF Put, Write
    <3>2. /\ Len(puts') = Len(puts) + 1 /\ Len(puts) \in Nat
          /\ puts'[Len(puts) + 1] = w
      BY <3>1, Parts
    <3>3. \E j \in 1 .. Len(puts') : puts'[j].run = r
      BY <3>1, <3>2
    <3>4. QED
      BY <3>3 DEF Wrote
  <2>4. QED
    BY <1>1, <1>2, <1>5, <2>2, <2>3 DEF Outcome
<1>6. \/ Return(t, "error")
      \/ /\ Settle(t) \/ CommitSend(t) \/ CommitReceipt(t)
         /\ \E result \in {"settled", "unsettled"} : Return(t, result)
      \/ Put(t) /\ Return(t, "unsettled")
  <2>1. AttemptFails(t) => Return(t, "error")
    BY DEF AttemptFails, Go, Await
  <2>2. \A c : ~Infer(t, c)
    BY DEF Infer, Go, Await
  <2>3. \A c, stage : ~Go(t, c, stage) /\ ~Await(t, c, stage)
    BY DEF Go, Await
  <2>4. QED
    BY <2>1, <2>2, <2>3
    DEF Progress, LogEntryFails, Fetched, Upload, FlowSend, FlowReceipt, LogEntry,
        Segments, Inferred, Put, Settle, CommitSend, CommitReceipt
<1>7. QED
  BY <1>3, <1>4, <1>5, <1>6

(* Steps of the pipelines keep what is true.                               *)
LEMMA TruthStays ==
    ASSUME IInv, [Next]_vars
    PROVE  \A r : Wrote(r, puts) => Wrote(r, puts')
<1> SUFFICES ASSUME NEW r, NEW j \in 1 .. Len(puts), puts[j].run = r
             PROVE  \E i \in 1 .. Len(puts') : puts'[i].run = r
  BY DEF Wrote
<1>1. UNCHANGED puts \/ \E w : puts' = Append(puts, w)
  BY DEF Next, Step, Begin, Progress, World, Crash, Mine, Drop, Sync, Fetched,
     Upload, FlowSend, FlowReceipt, LogEntry, LogEntryFails, Segments, Inferred,
     Put, Write, Settle, CommitSend, CommitReceipt, vars, taskVars
<1>2. CASE UNCHANGED puts
  BY <1>2
<1>3. ASSUME NEW w, puts' = Append(puts, w)
      PROVE  \E i \in 1 .. Len(puts') : puts'[i].run = r
  BY <1>3, Parts
<1>4. QED
  BY <1>1, <1>2, <1>3

(* What the storage nodes have logged stays logged.                        *)
LEMMA LogGrows == ASSUME IInv, [Next]_vars PROVE logged \subseteq logged'
BY DEF Next, Step, Begin, Progress, World, Crash, Mine, Drop, Sync, Fetched,
   Upload, FlowSend, FlowReceipt, LogEntry, LogEntryFails, Segments, Inferred,
   Put, Settle, CommitSend, CommitReceipt, vars

(* What a task says are messages, and when it says them they are true.     *)
LEMMA SaysTrue ==
    ASSUME IInv, IInv', NEW t \in Task,
           TaskBegins(t) \/ TaskProgress(t) \/ TaskFails(t)
    PROVE  \/ UNCHANGED streamVars
           \/ \E ms \in Seq(Messages) :
                 /\ Stream!Broadcast(ms)
                 /\ \A i \in 1 .. Len(ms) : True(ms[i], puts', logged')
<1>1. CASE TaskBegins(t)
  <2>1. PICK r : r = <<t, co'[t].run>>
    OBVIOUS
  <2>2. r \in Run
    <3> DEFINE c == Idle(co[t].run + 1)
    <3>1. co[t] \in Coroutine /\ co[t].run < MaxRuns
      BY <1>1, Parts DEF TaskBegins, Begin
    <3>2. PICK d \in {c, [c EXCEPT !.attempt = 0],
                      [c EXCEPT !.attempt = 0, !.seal = "simulated"]} :
             \E stage : co' = [co EXCEPT ![t] = [d EXCEPT !.stage = stage]]
      BY <1>1 DEF TaskBegins, Begin, Infer, Go, Await
    <3>3. co'[t].run = co[t].run + 1
      <4>1. d.run = co[t].run + 1 /\ "run" \in DOMAIN d
        <5>1. c.run = co[t].run + 1 /\ DOMAIN c = {"stage", "run", "attempt", "seal", "nonce"}
          BY DEF Idle
        <5> HIDE DEF c
        <5>2. /\ [c EXCEPT !.attempt = 0].run = c.run
              /\ [c EXCEPT !.attempt = 0, !.seal = "simulated"].run = c.run
              /\ DOMAIN [c EXCEPT !.attempt = 0] = DOMAIN c
              /\ DOMAIN [c EXCEPT !.attempt = 0, !.seal = "simulated"] = DOMAIN c
          BY <5>1
        <5>3. QED
          BY <3>2, <5>1, <5>2
      <4>2. \A stage : [d EXCEPT !.stage = stage].run = d.run
        BY <4>1
      <4>3. QED
        BY <3>2, <4>1, <4>2, Parts
    <3>4. QED
      BY <2>1, <3>1, <3>3, PipelinesAssumption DEF Run, Coroutine
  <2>3. PICK m : m = LineOf(r, "INFO")
    OBVIOUS
  <2>4. m \in Messages /\ m.level = "INFO"
    BY <2>2, <2>3 DEF LineOf, Messages, Line, Level
  <2>5. True(m, puts', logged')
    BY <2>4 DEF True
  <2>6. Stream!Broadcast(<<m>>) \/ UNCHANGED streamVars
    BY <1>1, <2>1, <2>3 DEF TaskBegins, Says, Opening
  <2>7. PICK ms : ms = <<m>>
    OBVIOUS
  <2>8. ms \in Seq(Messages) /\ Len(ms) = 1 /\ ms[1] = m
    BY <2>4, <2>7
  <2>9. \A i \in 1 .. Len(ms) : True(ms[i], puts', logged')
    BY <2>5, <2>8 DEF True
  <2>10. QED
    BY <2>6, <2>7, <2>8, <2>9
<1>2. CASE (TaskProgress(t) \/ TaskFails(t)) /\ outcome' = outcome
  BY <1>2 DEF TaskProgress, TaskFails, Tells
<1>3. CASE (TaskProgress(t) \/ TaskFails(t)) /\ outcome' # outcome
  <2>0. PICK r : r = This(t)
    OBVIOUS
  <2>1. /\ r \in Run /\ r[1] = t
        /\ outcome'[r] \in Outcome \ {"running"}
        /\ outcome'[r] # "error" =>
              Wrote(r, puts') /\ (t \in Anchoring => r \in logged')
    BY <1>3, <2>0, ReturnsTrue DEF TaskProgress, TaskFails
  <2>2. PICK level \in Levels(r) : Says(t, Closing(r, level))
    BY <1>3, <2>0 DEF TaskProgress, TaskFails, Tells, Closes
  <2>3. /\ level \in Level
        /\ level = "SUCCESS" => outcome'[r] # "error"
    BY DEF Levels, Level
  <2>4. PICK m : m = UpdateOf(r, outcome'[r])
    OBVIOUS
  <2>5. PICK l : l = LineOf(r, level)
    OBVIOUS
  <2>6. m \in Messages /\ m.event # "log"
    BY <2>1, <2>4 DEF UpdateOf, Messages, Update
  <2>7. l \in Messages /\ l.run = r /\ l.level = level
    BY <2>1, <2>3, <2>5 DEF LineOf, Messages, Line
  <2>8. True(m, puts', logged')
    BY <2>6 DEF True
  <2>9. True(l, puts', logged')
    BY <2>1, <2>3, <2>7 DEF True
  <2>10. PICK ms : ms = <<m, l>>
    OBVIOUS
  <2>11. ms \in Seq(Messages) /\ Len(ms) = 2 /\ ms[1] = m /\ ms[2] = l
    BY <2>6, <2>7, <2>10
  <2>12. \A i \in 1 .. Len(ms) : True(ms[i], puts', logged')
    <3>1. \A i \in 1 .. Len(ms) : i = 1 \/ i = 2
      BY <2>11
    <3>2. QED
      BY <2>8, <2>9, <2>11, <3>1 DEF True
  <2>13. Stream!Broadcast(ms) \/ UNCHANGED streamVars
    BY <2>2, <2>4, <2>5, <2>10 DEF Says, Closing
  <2>14. QED
    BY <2>11, <2>12, <2>13
<1>4. QED
  BY <1>1, <1>2, <1>3

(* The stream takes its own steps only.                                    *)
LEMMA StepOfStream ==
    ASSUME IInv, IInv', [BackendNext]_backendVars
    PROVE  [P!Next]_(P!streamVars)
<1>1. UNCHANGED streamVars => UNCHANGED P!streamVars
  BY DEF streamVars, P!streamVars
<1>2. ASSUME NEW t \in Task, TaskBegins(t) \/ TaskProgress(t) \/ TaskFails(t)
      PROVE  [P!Next]_(P!streamVars)
  BY <1>1, <1>2, SaysTrue, SameBroadcast DEF P!Next
<1>3. CASE World /\ UNCHANGED streamVars
  BY <1>1, <1>3
<1>4. CASE Crash /\ Stream!ServerEnds
  BY <1>4, SameServerEnds DEF P!Next
<1>5. ASSUME NEW c \in Stream!Connection, ServerServes(c)
      PROVE  [P!Next]_(P!streamVars)
  BY <1>5, SameServe DEF ServerServes, P!Next, Stream!Connection, P!Connection
<1>6. CASE Stream!Browse
  BY <1>6, SameBrowse DEF P!Next
<1>7. CASE UNCHANGED backendVars
  BY <1>1, <1>7 DEF backendVars
<1>8. QED
  BY <1>2, <1>3, <1>4, <1>5, <1>6, <1>7 DEF BackendNext

(* The backend, seen as its stream, is the stream of EventStream.          *)
LEMMA StreamOfBackend == BackendSpec => P!Spec
<1>1. BackendInit => P!Init
  BY SameInit DEF BackendInit
<1>2. IInv /\ IInv' /\ [BackendNext]_backendVars => [P!Next]_(P!streamVars)
  BY StepOfStream
<1>3. QED
  BY <1>1, <1>2, PipelinesInvariant, PTL DEF BackendSpec, P!Spec

(* No connection loses a message, whatever pipelines hold the loop.        *)
THEOREM NothingIsSkipped == BackendSpec => []NothingSkipped
<1>1. P!NothingSkipped => NothingSkipped
  BY DEF NothingSkipped, P!NothingSkipped, Stream!NothingSkipped
<1>2. QED
  BY <1>1, StreamAssumed, StreamOfBackend, P!NothingIsSkipped, PTL

(* The backend's pages implement Feed, with what its daemons broadcast.    *)
THEOREM FeedIsImplemented == BackendSpec => ImplementsFeed
BY StreamAssumed, StreamOfBackend, P!Refinement, SameFeed, PTL DEF ImplementsFeed

----------------------------------------------------------------------------
(* What is broadcast and what is shown is true.                            *)
AllTrue ==
    /\ \A i \in 1 .. Len(history) : True(history[i], puts, logged)
    /\ \A p \in Page : \A i \in 1 .. Len(page[p].view.logs) :
          LET line == page[p].view.logs[i]
          IN  line.event = "log" /\ True(line, puts, logged)

(* Each step of the backend says nothing but the truth, and keeps it true. *)
LEMMA AllTrueStep ==
    ASSUME IInv, IInv', P!IInv, AllTrue, [BackendNext]_backendVars
    PROVE  AllTrue'
<1>1. \A m : True(m, puts, logged) => True(m, puts', logged')
  BY StepOfPipelines, TruthStays, LogGrows DEF True
<1>2. ASSUME NEW i \in 1 .. Len(history') PROVE True(history'[i], puts', logged')
  <2>1. history \in Seq(Messages) /\ Len(history) \in Nat
    BY StreamAssumed, P!Parts
  <2>2. ASSUME NEW t \in Task, TaskBegins(t) \/ TaskProgress(t) \/ TaskFails(t)
        PROVE  \/ UNCHANGED history
               \/ \E ms \in Seq(Messages) :
                     /\ history' = history \o ms
                     /\ \A j \in 1 .. Len(ms) : True(ms[j], puts', logged')
    BY <2>2, SaysTrue DEF streamVars, Stream!Broadcast
  <2>3. CASE UNCHANGED history
    BY <1>1, <2>3 DEF AllTrue
  <2>4. ASSUME NEW ms \in Seq(Messages), history' = history \o ms,
               \A j \in 1 .. Len(ms) : True(ms[j], puts', logged')
        PROVE  True(history'[i], puts', logged')
    <3>1. /\ Len(ms) \in Nat /\ Len(history') = Len(history) + Len(ms)
          /\ \A j \in 1 .. Len(history) + Len(ms) :
                history'[j] = IF j <= Len(history) THEN history[j]
                                                   ELSE ms[j - Len(history)]
      BY <2>1, <2>4, ConcatProperties, LenProperties
    <3>2. CASE i <= Len(history)
      BY <1>1, <2>1, <3>1, <3>2 DEF AllTrue
    <3>3. CASE ~(i <= Len(history))
      <4>1. /\ i - Len(history) \in 1 .. Len(ms)
            /\ history'[i] = ms[i - Len(history)]
        BY <2>1, <3>1, <3>3
      <4>2. QED
        BY <2>4, <4>1
    <3>4. QED
      BY <3>2, <3>3
  <2>5. QED
    BY <2>2, <2>3, <2>4
    DEF BackendNext, ServerServes, backendVars, streamVars, Stream!ServerEnds,
        Stream!Browse, Stream!Reacts, Stream!Connect, Stream!Open, Stream!OnError,
        Stream!Unmount, Stream!Break, Stream!Serve, Stream!Subscribe,
        Stream!Deliver, Stream!Unsubscribe
<1>3. ASSUME NEW p \in Page, NEW i \in 1 .. Len(page'[p].view.logs)
      PROVE  page'[p].view.logs[i].event = "log" /\ True(page'[p].view.logs[i], puts', logged')
  <2>1. \/ \E j \in 1 .. Len(page[p].view.logs) :
              page'[p].view.logs[i] = page[p].view.logs[j]
        \/ \E j \in 1 .. Len(history) :
              /\ page'[p].view.logs[i] = history[j]
              /\ history[j].event = "log"
    BY StreamAssumed, StepOfStream, P!LinesWereBroadcast
  <2>2. QED
    BY <1>1, <2>1 DEF AllTrue
<1>4. QED
  BY <1>2, <1>3 DEF AllTrue

(* A page that shows a run as a success shows the truth.                   *)
THEOREM SuccessesAreTrue == BackendSpec => []SuccessIsTrue
<1>1. BackendInit => AllTrue
  <2> SUFFICES ASSUME BackendInit PROVE AllTrue
    OBVIOUS
  <2>1. history = << >> /\ \A p \in Page : page[p].view.logs = << >>
    BY DEF BackendInit, Stream!Init, Stream!Fresh
  <2>2. QED
    BY <2>1 DEF AllTrue
<1>2. IInv /\ IInv' /\ P!IInv /\ AllTrue /\ [BackendNext]_backendVars => AllTrue'
  BY AllTrueStep
<1>3. BackendSpec => []P!IInv
  BY StreamAssumed, StreamOfBackend, P!Invariance, PTL
<1>4. IInv /\ P!IInv /\ AllTrue => SuccessIsTrue
  <2> SUFFICES ASSUME IInv, P!IInv, AllTrue, NEW p \in Page,
                      NEW i \in DOMAIN page[p].view.logs,
                      page[p].view.logs[i].level = "SUCCESS"
               PROVE  LET line == page[p].view.logs[i]
                      IN  /\ \E j \in DOMAIN puts : puts[j].run = line.run
                          /\ line.run[1] \in Anchoring => line.run \in logged
    BY DEF SuccessIsTrue
  <2>1. history \in Seq(Messages) /\ page[p].view.logs \in Seq(Messages)
    BY StreamAssumed, P!Parts DEF P!PageState, P!View
  <2>2. /\ True(page[p].view.logs[i], puts, logged)
        /\ page[p].view.logs[i].event = "log"
    BY <2>1 DEF AllTrue
  <2>3. QED
    BY <2>2, Parts DEF True, Wrote
<1>5. QED
  BY <1>1, <1>2, <1>3, <1>4, PipelinesInvariant, PTL DEF BackendSpec
=============================================================================
