--------------------------- MODULE KvStreamProofs ---------------------------
(***************************************************************************)
(* The invariant of a key-value stream, for every set of keys and values,  *)
(* every size of a piece, and any number of batches and calls.             *)
(***************************************************************************)
EXTENDS KvStream, SequenceLemmas, FiniteSetTheorems

Entry == [key : Key, data : Data]
Dict == Seq(Entry)
Batch == UNION {[K -> Data] : K \in SUBSET Key}
Record == [kind : {"read", "first", "last", "after", "before", "next", "prev"},
           key : Key, version : Nat, found : Nat, seen : Nat,
           data : Seq(Byte), size : Nat, began : Nat, crossed : BOOLEAN]

(* The keys of the first n batches of a log l, the last of these batches   *)
(* that writes k, and the batches whose keys a scan has to find.           *)
Domains(l, n) == UNION {DOMAIN l[i] : i \in 1 .. n}
LastOf(l, k, n) == Max({i \in 1 .. n : k \in DOMAIN l[i]})
Start == IF it.version = Latest THEN scan.from ELSE it.version

Shape ==
    /\ writes \in Seq([key : StreamId, data : Dict])
    /\ asked \in [Key -> [data : Data \cup {<< >>}, ids : SUBSET StreamId]]
    /\ sets \in Nat
    /\ log \in Seq(Batch) /\ Len(log) <= MaxLog
    /\ it \in [version : 0 .. Len(log), pair : {None} \cup Pair]
    /\ call = Idle \/ call \in Record
    /\ scan \in [state : {"off", "on", "done"}, from : 0 .. Len(log), seen : Seq(Pair)]

(* The dictionaries and what was asked for.                                *)
WritesAsked ==
    /\ \A m, n \in 1 .. Len(writes) : writes[m].key = writes[n].key => m = n
    /\ \A m \in 1 .. Len(writes) : \A j \in 1 .. Len(writes[m].data) :
          LET k == writes[m].data[j].key
          IN  /\ writes[m].key \in asked[k].ids
              /\ \A id : asked[k].ids = {id} => writes[m].data[j].data = asked[k].data
    /\ \A k \in Key : \A id \in asked[k].ids :
          \E m \in 1 .. Len(writes) :
              writes[m].key = id /\ HasKey(writes[m].data, k)

(* There are finitely many keys and ids in them.                           *)
AskedIsFinite ==
    /\ \A k \in Key : IsFiniteSet(asked[k].ids)
    /\ \E b \in Nat : \A k \in Key : asked[k].ids # {} => k <= b
    /\ \A i \in 1 .. Len(log) : \A k \in DOMAIN log[i] : asked[k].ids # {}

(* What a call has collected is the beginning of the value it has seen; a  *)
(* move has seen the version it goes to.                                   *)
CallSound ==
    call # Idle =>
        /\ {call.version, call.found, call.seen, call.began} \subseteq 0 .. Len(log)
        /\ Len(call.data) <= call.size
        /\ Len(call.data) > 0 =>
              /\ call.seen # 0 /\ call.key \in DOMAIN log[call.seen]
              /\ call.size = Len(log[call.seen][call.key])
              /\ ~call.crossed =>
                    call.data = SubSeq(log[call.seen][call.key], 1, Len(call.data))
        /\ call.kind # "read" =>
              /\ call.found # 0 /\ call.version = call.found /\ call.seen = call.found
              /\ call.key \in DOMAIN log[call.found] /\ ~call.crossed

(* What the last read returned, and where the iterator is.                 *)
ResultSound ==
    result # None =>
        /\ result.key \in Key /\ result.version \in 1 .. Len(log)
        /\ result.data \in Seq(Byte)
        /\ result.began \in 0 .. Len(log)
        /\ result.key \in DOMAIN log[result.version]
        /\ ~result.crossed =>
              /\ result.data = log[result.version][result.key]
              /\ \A i \in (result.version + 1) .. result.began :
                    result.key \notin DOMAIN log[i]

PairSound ==
    it.pair # None =>
        /\ it.pair.version \in 1 .. Len(log)
        /\ it.pair.key \in DOMAIN log[it.pair.version]
        /\ it.pair.data = log[it.pair.version][it.pair.key]

(* A pair of a scan is of the iterator's version if it has one.            *)
AtVersion(k, version) ==
    it.version # Latest =>
        k \in Domains(log, it.version) /\ version = LastOf(log, k, it.version)

(* A move under way goes to the least key after those it had.              *)
MoveSound ==
    call # Idle =>
        /\ call.kind = "first" =>
              /\ \A k \in Domains(log, IF it.version = Latest THEN call.began
                                                            ELSE it.version) :
                     call.key <= k
              /\ AtVersion(call.key, call.found)
        /\ call.kind = "next" =>
              /\ it.pair # None
              /\ it.pair.key < call.key /\ AtVersion(call.key, call.found)
              /\ scan.state = "on" =>
                    \A k \in Domains(log, Start) : it.pair.key < k => call.key <= k

ScanSound ==
    /\ scan.state = "on" =>
          scan.seen # << >> /\ it.pair = scan.seen[Len(scan.seen)]
    /\ scan.state # "off" =>
          /\ \A i, j \in 1 .. Len(scan.seen) :
                i < j => scan.seen[i].key < scan.seen[j].key
          /\ \A i \in 1 .. Len(scan.seen) :
                AtVersion(scan.seen[i].key, scan.seen[i].version)
          /\ \A k \in Domains(log, Start) :
                scan.state = "done" \/ k <= scan.seen[Len(scan.seen)].key =>
                    \E i \in 1 .. Len(scan.seen) : scan.seen[i].key = k

IInv ==
    /\ Shape /\ WritesAsked /\ AskedIsFinite
    /\ CallSound /\ ResultSound /\ PairSound /\ MoveSound /\ ScanSound

----------------------------------------------------------------------------
(* Bounded sets of naturals have a greatest element, all of them a least.  *)
LEMMA MaxIs ==
    ASSUME NEW S \in SUBSET Nat, S # {}, NEW b \in Nat, \A x \in S : x <= b
    PROVE  Max(S) \in S /\ \A x \in S : x <= Max(S)
<1> DEFINE Gaps == {b - x : x \in S}
<1>1. Gaps \in SUBSET Nat /\ Gaps # {}
  <2>1. \A x \in S : x \in Nat /\ b - x \in Nat
    OBVIOUS
  <2>2. QED
    BY <2>1
<1>2. PICK g \in Gaps : \A h \in Gaps : g <= h
  BY <1>1, Least
<1>3. PICK m \in S : g = b - m
  BY <1>2
<1>4. ASSUME NEW x \in S PROVE m >= x
  <2>1. b - x \in Gaps
    OBVIOUS
  <2>2. b - m <= b - x
    BY <1>2, <1>3, <2>1
  <2>3. m \in Nat /\ x \in Nat
    BY <1>3
  <2>4. QED
    BY <2>2, <2>3
<1>5. \E y \in S : \A x \in S : y >= x
  BY <1>3, <1>4
<1>6. Max(S) \in S /\ \A x \in S : Max(S) >= x
  BY <1>5, Zenon DEF Max
<1>7. \A x \in S : x \in Nat
  OBVIOUS
<1>8. Max(S) \in Nat
  BY <1>6, <1>7
<1>9. QED
  BY <1>6, <1>7, <1>8

(* The least element of a set of naturals.                                 *)
LEMMA MinIs ==
    ASSUME NEW S \in SUBSET Nat, S # {}
    PROVE  Min(S) \in S /\ \A x \in S : Min(S) <= x
<1>1. \E y \in S : \A x \in S : y <= x
  BY Least
<1>2. QED
  BY <1>1, Zenon DEF Min

----------------------------------------------------------------------------
(* The ends of the values of n headers.                                    *)
EndsOf(e, h, n) == e = [i \in 0 .. n |-> IF i = 0 THEN 0 ELSE e[i - 1] + h[i].size]

(* There is a function that ends the values of n headers.                  *)
LEMMA EndsExist == ASSUME NEW h, NEW n \in Nat PROVE \E e : EndsOf(e, h, n)
<1> DEFINE Without == {m \in Nat : ~\E e : EndsOf(e, h, m)}
<1> SUFFICES ASSUME Without # {} PROVE FALSE
  OBVIOUS
<1>1. PICK m \in Without : \A k \in Without : m <= k
  BY Least
<1>2. CASE m = 0
  <2> DEFINE e == [i \in 0 .. 0 |-> 0]
  <2>1. EndsOf(e, h, 0)
    BY DEF EndsOf
  <2>2. QED
    BY <1>1, <1>2, <2>1
<1>3. CASE m # 0
  <2>1. m - 1 \in Nat /\ m - 1 \notin Without
    BY <1>1, <1>3
  <2>2. PICK e : EndsOf(e, h, m - 1)
    BY <2>1
  <2> DEFINE g == [i \in 0 .. m |-> IF i = m THEN e[m - 1] + h[m].size ELSE e[i]]
  <2>3. ASSUME NEW i \in 0 .. m
        PROVE  g[i] = IF i = 0 THEN 0 ELSE g[i - 1] + h[i].size
    <3>1. CASE i = m
      <4>1. m \in 0 .. m /\ m - 1 \in 0 .. m /\ m - 1 # m
        BY <2>1
      <4>2. g[m] = e[m - 1] + h[m].size
        BY <4>1
      <4>3. g[m - 1] = e[m - 1]
        BY <4>1
      <4> HIDE DEF g
      <4>4. QED
        BY <1>3, <3>1, <4>2, <4>3
    <3>2. CASE i # m
      <4>1. i \in 0 .. m - 1 /\ g[i] = e[i]
        BY <3>2, <2>1
      <4>2. e[i] = IF i = 0 THEN 0 ELSE e[i - 1] + h[i].size
        BY <2>2, <4>1 DEF EndsOf
      <4>3. i # 0 => g[i - 1] = e[i - 1]
        BY <2>1, <4>1
      <4>4. QED
        BY <4>1, <4>2, <4>3
    <3>3. QED
      BY <3>1, <3>2
  <2>4. g = [i \in 0 .. m |-> IF i = 0 THEN 0 ELSE g[i - 1] + h[i].size]
    <3>1. g = [i \in 0 .. m |-> g[i]]
      OBVIOUS
    <3> HIDE DEF g
    <3>2. QED
      BY <2>3, <3>1
  <2>5. QED
    BY <1>1, <2>4 DEF EndsOf
<1>4. QED
  BY <1>2, <1>3

(* Ends of headers are the offsets of their values.                       *)
LEMMA EndsAre ==
    ASSUME NEW S, NEW q \in Seq(Seq(S)), NEW h, Len(h) = Len(q),
           \A i \in 1 .. Len(q) : h[i].size = Len(q[i])
    PROVE  Offsets(Ends(h), q)
<1> DEFINE n == Len(q)
           e == Ends(h)
<1>1. n \in Nat /\ \A i \in 1 .. n : Len(q[i]) \in Nat
  BY LenProperties, ElementOfSeq
<1>2. EndsOf(e, h, n)
  <2>1. \E f : EndsOf(f, h, n)
    BY <1>1, EndsExist
  <2>2. e = CHOOSE f : EndsOf(f, h, n)
    BY DEF Ends, EndsOf
  <2> HIDE DEF e, n
  <2>3. QED
    BY <2>1, <2>2, Zenon
<1> HIDE DEF e, n
<1>3. e = [i \in 0 .. n |-> e[i]]
  BY <1>2 DEF EndsOf
<1>4. \A i \in 0 .. n : e[i] = IF i = 0 THEN 0 ELSE e[i - 1] + h[i].size
  BY <1>2, Zenon DEF EndsOf
<1>5. e[0] = 0 /\ \A i \in 1 .. n : e[i] = e[i - 1] + Len(q[i])
  <2>1. 0 \in 0 .. n /\ \A i \in 1 .. n : i \in 0 .. n /\ i # 0
    BY <1>1
  <2>2. \A i \in 1 .. n : h[i].size = Len(q[i])
    BY DEF n
  <2>3. QED
    BY <1>4, <2>1, <2>2
<1>6. \A i \in 0 .. n : e[i] \in Nat
  <2> DEFINE Odd == {i \in 0 .. n : e[i] \notin Nat}
  <2> SUFFICES ASSUME Odd # {} PROVE FALSE
    OBVIOUS
  <2>1. Odd \in SUBSET Nat
    BY <1>1
  <2>2. PICK i \in Odd : \A k \in Odd : i <= k
    BY <2>1, Least
  <2>3. i # 0
    BY <1>5, <2>2
  <2>4. i - 1 \in 0 .. n /\ i - 1 \notin Odd /\ i \in 1 .. n
    BY <1>1, <2>2, <2>3
  <2>5. e[i - 1] \in Nat /\ Len(q[i]) \in Nat /\ e[i] = e[i - 1] + Len(q[i])
    BY <1>1, <1>5, <2>4
  <2>6. e[i] \in Nat
    BY <2>5
  <2>7. QED
    BY <2>2, <2>6
<1>7. e \in [0 .. n -> Nat]
  BY <1>3, <1>6
<1>8. QED
  BY <1>5, <1>7 DEF Offsets, e, n

----------------------------------------------------------------------------
(* What the node reads from headers and values.                            *)
LEMMA ReplayedOf ==
    ASSUME NEW h, NEW v
    PROVE  Replayed([headers |-> h, values |-> v]) =
               [k \in {h[i].key : i \in DOMAIN h} |->
                   SubSeq(v, Ends(h)[Max({i \in DOMAIN h : h[i].key = k}) - 1] + 1,
                             Ends(h)[Max({i \in DOMAIN h : h[i].key = k})])]
BY DEF Replayed

(* What the node reads from a batch is what was put into it.               *)
LEMMA ReplayedIs ==
    ASSUME StreamAssumption, NEW batch \in Seq(Entry)
    PROVE  /\ Replayed(Encode(batch)) \in Batch
           /\ DOMAIN Replayed(Encode(batch)) = {batch[i].key : i \in 1 .. Len(batch)}
           /\ \A k \in DOMAIN Replayed(Encode(batch)) :
                 \E i \in 1 .. Len(batch) :
                     batch[i].key = k /\ Replayed(Encode(batch))[k] = batch[i].data
<1> DEFINE n == Len(batch)
           q == [i \in 1 .. n |-> batch[i].data]
           h == [i \in 1 .. n |-> [key |-> batch[i].key, size |-> Len(batch[i].data)]]
           v == FlattenSeq(q)
           e == Ends(h)
<1>1. /\ n \in Nat /\ DOMAIN batch = 1 .. n
      /\ \A i \in 1 .. n : batch[i] \in Entry
  BY LenProperties, ElementOfSeq
<1>2. \A i \in 1 .. n : /\ batch[i].key \in Nat /\ batch[i].key \in Key
                        /\ batch[i].data \in Seq(Byte)
  BY <1>1 DEF Entry, StreamAssumption
<1>3. q \in Seq(Seq(Byte)) /\ Len(q) = n /\ \A i \in 1 .. n : q[i] = batch[i].data
  BY <1>1, <1>2
<1>4. /\ Len(h) = n
      /\ \A i \in 1 .. n : h[i].size = Len(q[i]) /\ h[i].key = batch[i].key
  BY <1>1, <1>3
<1>a. Encode(batch) = [headers |-> h, values |-> v]
  BY <1>1, Zenon DEF Encode
<1> HIDE DEF q, h, n
<1>5. Offsets(e, q)
  BY <1>3, <1>4, EndsAre
<1>6. DOMAIN h = 1 .. n
  BY <1>1 DEF h
<1> DEFINE last(k) == Max({i \in DOMAIN h : h[i].key = k})
           R == [k \in {h[i].key : i \in DOMAIN h} |->
                    SubSeq(v, e[last(k) - 1] + 1, e[last(k)])]
           S(k) == {i \in 1 .. n : h[i].key = k}
<1>7. Replayed(Encode(batch)) = R
  <2>1. Replayed([headers |-> h, values |-> v]) = R
    <3> HIDE DEF v
    <3>1. QED
      BY ReplayedOf
  <2>2. QED
    BY <1>a, <2>1, Zenon
<1>b. \A k : last(k) = Max(S(k))
  BY <1>6
<1> HIDE DEF e, v
<1>8. {h[i].key : i \in DOMAIN h} = {batch[i].key : i \in 1 .. n}
  BY <1>4, <1>6
<1>9. ASSUME NEW k \in {h[i].key : i \in DOMAIN h}
      PROVE  \E i \in 1 .. n : batch[i].key = k /\ R[k] = batch[i].data
  <2>1. S(k) # {} /\ S(k) \in SUBSET Nat /\ \A i \in S(k) : i <= n
    BY <1>1, <1>6
  <2>2. last(k) \in S(k)
    BY <1>1, <1>b, <2>1, MaxIs
  <2>3. PICK i : i = last(k) /\ i \in 1 .. n /\ h[i].key = k
    BY <2>2
  <2>4. R[k] = SubSeq(v, e[i - 1] + 1, e[i])
    BY <2>3
  <2>5. SubSeq(v, e[i - 1] + 1, e[i]) = q[i]
    BY <1>3, <1>5, <2>3, PartIs DEF v
  <2>6. QED
    BY <1>3, <1>4, <2>3, <2>4, <2>5
<1>10. DOMAIN R = {h[i].key : i \in DOMAIN h} /\ R = [k \in DOMAIN R |-> R[k]]
  OBVIOUS
<1> HIDE DEF R
<1>11. /\ DOMAIN R = {batch[i].key : i \in 1 .. n}
       /\ \A k \in DOMAIN R : \E i \in 1 .. n : batch[i].key = k /\ R[k] = batch[i].data
  BY <1>8, <1>9, <1>10
<1>12. R \in Batch
  <2>1. \A i \in 1 .. n : batch[i].key \in Key /\ batch[i].data \in Data
    BY <1>1 DEF Entry
  <2>2. DOMAIN R \in SUBSET Key
    BY <1>11, <2>1
  <2>3. R \in [DOMAIN R -> Data]
    BY <1>10, <1>11, <2>1
  <2>4. QED
    BY <2>2, <2>3 DEF Batch
<1>13. QED
  BY <1>7, <1>11, <1>12 DEF n

----------------------------------------------------------------------------
(* An item that is put into a dictionary replaces those of its key, or     *)
(* comes last; the others stay where they are.                             *)
Put(p, dict, k, d) ==
    /\ Len(dict) <= Len(p)
    /\ \A i \in 1 .. Len(dict) :
          /\ p[i].key = dict[i].key
          /\ p[i].data = IF dict[i].key = k THEN d ELSE dict[i].data
    /\ \A i \in 1 .. Len(p) :
          i \in 1 .. Len(dict) \/ (i = Len(p) /\ ~HasKey(dict, k) /\ p[i].key = k /\ p[i].data = d)
    /\ \E i \in 1 .. Len(p) : p[i].key = k /\ p[i].data = d

(* A dictionary after one item is put into it.                             *)
LEMMA PutItemIs ==
    ASSUME NEW K, NEW D, NEW dict \in Seq([key : K, data : D]), NEW k \in K, NEW d \in D
    PROVE  /\ PutItem(dict, k, d) \in Seq([key : K, data : D])
           /\ Put(PutItem(dict, k, d), dict, k, d)
<1> DEFINE S == [key : K, data : D]
           p == PutItem(dict, k, d)
           n == Len(dict)
<1>1. n \in Nat /\ DOMAIN dict = 1 .. n /\ dict \in [1 .. n -> S]
  BY LenProperties
<1>2. Item(k, d) \in S /\ Item(k, d).key = k /\ Item(k, d).data = d
  BY DEF Item
<1>3. CASE HasKey(dict, k)
  <2>1. p = [i \in 1 .. n |-> IF dict[i].key = k THEN Item(k, d) ELSE dict[i]]
    BY <1>1, <1>3 DEF PutItem
  <2> HIDE DEF p, n
  <2>2. p \in [1 .. n -> S]
    BY <1>1, <1>2, <2>1
  <2>3. p \in Seq(S) /\ Len(p) = n
    BY <1>1, <2>2, SeqDef, LenProperties
  <2>4. PICK j \in 1 .. n : dict[j].key = k
    BY <1>1, <1>3 DEF HasKey
  <2>5. p[j].key = k /\ p[j].data = d
    BY <1>2, <2>1, <2>4
  <2>6. \A i \in 1 .. n : /\ p[i].key = dict[i].key
                          /\ p[i].data = IF dict[i].key = k THEN d ELSE dict[i].data
    BY <1>2, <2>1
  <2>7. n <= Len(p) /\ (\A i \in 1 .. Len(p) : i \in 1 .. n) /\ j \in 1 .. Len(p)
    BY <1>1, <2>3
  <2>8. QED
    BY <2>3, <2>5, <2>6, <2>7 DEF Put, p, n
<1>4. CASE ~HasKey(dict, k)
  <2>1. p = Append(dict, Item(k, d))
    BY <1>4 DEF PutItem
  <2>2. /\ p \in Seq(S) /\ Len(p) = n + 1 /\ p[n + 1] = Item(k, d)
        /\ \A i \in 1 .. n : p[i] = dict[i]
    BY <1>2, <2>1, AppendProperties
  <2>3. \A i \in 1 .. n : dict[i].key # k
    BY <1>1, <1>4 DEF HasKey
  <2> HIDE DEF p, n
  <2>4. n + 1 \in 1 .. Len(p) /\ \A i \in 1 .. Len(p) : i \in 1 .. n \/ i = n + 1
    BY <1>1, <2>2
  <2>5. Len(dict) <= Len(p)
    BY <1>1, <2>2 DEF n
  <2>6. QED
    BY <1>2, <1>4, <2>2, <2>3, <2>4, <2>5 DEF Put, p, n
<1>5. QED
  BY <1>3, <1>4

(* Keys that were apart stay apart.                                        *)
LEMMA PutKeepsApart ==
    ASSUME NEW S, NEW p \in Seq(S), NEW dict \in Seq(S), NEW k, NEW d, Put(p, dict, k, d),
           \A m, n \in 1 .. Len(dict) : dict[m].key = dict[n].key => m = n
    PROVE  \A m, n \in 1 .. Len(p) : p[m].key = p[n].key => m = n
<1> SUFFICES ASSUME NEW m \in 1 .. Len(p), NEW n \in 1 .. Len(p), p[m].key = p[n].key
             PROVE  m = n
  OBVIOUS
<1>1. DOMAIN dict = 1 .. Len(dict)
  BY LenProperties
<1>2. ~HasKey(dict, k) => \A i \in 1 .. Len(dict) : dict[i].key # k
  BY <1>1 DEF HasKey
<1>3. /\ \A i \in 1 .. Len(dict) : p[i].key = dict[i].key
      /\ \A i \in 1 .. Len(p) :
            i \in 1 .. Len(dict) \/ (i = Len(p) /\ ~HasKey(dict, k) /\ p[i].key = k)
  BY DEF Put
<1>4. QED
  BY <1>2, <1>3, Zenon

(* What a key set has, when there is only one.                             *)
LEMMA AtIs ==
    ASSUME NEW S, NEW dict \in Seq(S), NEW k, HasKey(dict, k)
    PROVE  \E i \in 1 .. Len(dict) : dict[i].key = k /\ At(dict, k) = dict[i].data
<1>1. DOMAIN dict = 1 .. Len(dict)
  BY LenProperties
<1>2. \E i \in DOMAIN dict : dict[i].key = k
  BY DEF HasKey
<1> DEFINE j == CHOOSE i \in DOMAIN dict : dict[i].key = k
<1>3. j \in DOMAIN dict /\ dict[j].key = k
  BY <1>2
<1>4. At(dict, k) = dict[j].data
  BY DEF At
<1> HIDE DEF j
<1>5. QED
  BY <1>1, <1>3, <1>4

----------------------------------------------------------------------------
(* The initial state.                                                      *)
LEMMA InitIInv == ASSUME StreamAssumption, Init PROVE IInv
<1> USE DEF Init
<1>1. /\ Len(writes) = 0 /\ Len(log) = 0
      /\ \A k \in Key : asked[k].ids = {} /\ asked[k].data = << >>
  BY EmptySeq
<1>2. Shape
  <2>1. /\ writes \in Seq([key : StreamId, data : Dict]) /\ log \in Seq(Batch)
        /\ << >> \in Seq(Pair)
    BY EmptySeq
  <2>2. asked \in [Key -> [data : Data \cup {<< >>}, ids : SUBSET StreamId]]
    OBVIOUS
  <2>3. Len(log) <= MaxLog
    BY <1>1 DEF StreamAssumption
  <2>4. it \in [version : 0 .. Len(log), pair : {None} \cup Pair]
    BY <1>1 DEF Latest
  <2>5. scan \in [state : {"off", "on", "done"}, from : 0 .. Len(log), seen : Seq(Pair)]
    BY <1>1, <2>1 DEF NoScan
  <2>6. QED
    BY <2>1, <2>2, <2>3, <2>4, <2>5 DEF Shape
<1>3. WritesAsked
  BY <1>1 DEF WritesAsked
<1>4. AskedIsFinite
  <2>1. \A k \in Key : IsFiniteSet(asked[k].ids) /\ asked[k].ids = {}
    BY <1>1, FS_EmptySet
  <2>2. \A i \in 1 .. Len(log) : FALSE
    BY <1>1
  <2>3. QED
    BY <2>1, <2>2 DEF AskedIsFinite
<1>5. CallSound /\ ResultSound /\ PairSound /\ MoveSound
  BY DEF CallSound, ResultSound, PairSound, MoveSound
<1>6. ScanSound
  BY DEF ScanSound, NoScan
<1>7. QED
  BY <1>2, <1>3, <1>4, <1>5, <1>6 DEF IInv

----------------------------------------------------------------------------
(* The keys and values of the batches.                                     *)
LEMMA LogIs ==
    ASSUME StreamAssumption, Shape
    PROVE  /\ Len(log) \in Nat /\ DOMAIN log = 1 .. Len(log)
           /\ \A i \in 1 .. Len(log) :
                 /\ DOMAIN log[i] \subseteq Key
                 /\ \A k \in DOMAIN log[i] : k \in Key /\ k \in Nat /\ log[i][k] \in Seq(Byte)
<1>1. log \in Seq(Batch)
  BY DEF Shape
<1>2. Len(log) \in Nat /\ DOMAIN log = 1 .. Len(log) /\ \A i \in 1 .. Len(log) : log[i] \in Batch
  BY <1>1, LenProperties, ElementOfSeq
<1>3. ASSUME NEW i \in 1 .. Len(log)
      PROVE  /\ DOMAIN log[i] \subseteq Key
             /\ \A k \in DOMAIN log[i] : k \in Key /\ k \in Nat /\ log[i][k] \in Seq(Byte)
  <2>1. PICK K \in SUBSET Key : log[i] \in [K -> Data]
    BY <1>2 DEF Batch
  <2>2. QED
    BY <2>1 DEF StreamAssumption
<1>4. QED
  BY <1>2, <1>3

(* Setting a key: what a dictionary has is what was asked for.             *)
LEMMA SetWrites ==
    ASSUME StreamAssumption, Shape, WritesAsked,
           NEW id \in StreamId, NEW k \in Key, NEW d \in Data, Set(id, k, d)
    PROVE  writes' \in Seq([key : StreamId, data : Dict]) /\ WritesAsked'
<1> DEFINE keys == IF HasKey(writes, id) THEN At(writes, id) ELSE << >>
           new == PutItem(keys, k, d)
<1>1. /\ writes \in Seq([key : StreamId, data : Dict])
      /\ asked \in [Key -> [data : Data \cup {<< >>}, ids : SUBSET StreamId]]
      /\ DOMAIN writes = 1 .. Len(writes) /\ Len(writes) \in Nat
  BY LenProperties DEF Shape
<1>2. \A m \in 1 .. Len(writes) : writes[m].key \in StreamId /\ writes[m].data \in Dict
  <2>1. \A m \in 1 .. Len(writes) : writes[m] \in [key : StreamId, data : Dict]
    BY <1>1, ElementOfSeq
  <2>2. QED
    BY <2>1
<1>3. keys \in Dict /\ \A m \in 1 .. Len(writes) : writes[m].key = id => keys = writes[m].data
  <2>1. CASE HasKey(writes, id)
    <3>1. \E m \in 1 .. Len(writes) : writes[m].key = id /\ keys = writes[m].data
      BY <1>1, <2>1, AtIs, SMTT(30)
    <3> HIDE DEF keys
    <3>2. QED
      BY <1>2, <3>1 DEF WritesAsked
  <2>2. CASE ~HasKey(writes, id)
    BY <1>1, <2>2, EmptySeq DEF HasKey, Dict
  <2>3. QED
    BY <2>1, <2>2
<1>4. /\ writes' = PutItem(writes, id, new)
      /\ asked' = [asked EXCEPT ![k] = [data |-> d, ids |-> @.ids \cup {id}]]
  BY DEF Set
<1> HIDE DEF keys
<1>5. new \in Dict /\ Put(new, keys, k, d)
  BY <1>3, PutItemIs DEF Dict, Entry
<1>6. Len(keys) \in Nat /\ DOMAIN keys = 1 .. Len(keys)
      /\ Len(new) \in Nat /\ DOMAIN new = 1 .. Len(new)
  BY <1>3, <1>5, LenProperties DEF Dict
<1> HIDE DEF new
<1>7. writes' \in Seq([key : StreamId, data : Dict]) /\ Put(writes', writes, id, new)
  BY <1>1, <1>4, <1>5, PutItemIs
<1>8. DOMAIN writes' = 1 .. Len(writes') /\ Len(writes') \in Nat
  BY <1>7, LenProperties
<1>9. \A m, n \in 1 .. Len(writes') : writes'[m].key = writes'[n].key => m = n
  BY <1>1, <1>7, PutKeepsApart DEF WritesAsked
<1>10. /\ asked'[k].data = d /\ asked'[k].ids = asked[k].ids \cup {id}
       /\ \A j \in Key \ {k} : asked'[j] = asked[j]
  BY <1>1, <1>4
(* An entry is new, or one that was there under the same id.               *)
<1>11. ASSUME NEW m \in 1 .. Len(writes'), NEW j \in 1 .. Len(writes'[m].data)
       PROVE  LET e == writes'[m].data[j]
              IN  \/ e.key = k /\ e.data = d /\ writes'[m].key = id
                  \/ /\ e.key = k => writes'[m].key # id
                     /\ \E n \in 1 .. Len(writes) : \E i \in 1 .. Len(writes[n].data) :
                         /\ writes[n].key = writes'[m].key
                         /\ writes[n].data[i].key = e.key /\ writes[n].data[i].data = e.data
  <2>1. CASE writes'[m].key = id
    <3>1. writes'[m].data = new
      BY <1>7, <2>1 DEF Put
    <3>2. /\ j \in 1 .. Len(new)
          /\ \/ new[j].key = k /\ new[j].data = d
             \/ j \in 1 .. Len(keys) /\ new[j].key = keys[j].key /\ new[j].key # k
                /\ new[j].data = keys[j].data
      BY <1>5, <3>1 DEF Put
    <3>3. CASE new[j].key = k /\ new[j].data = d
      BY <2>1, <3>1, <3>3
    <3>4. CASE j \in 1 .. Len(keys) /\ new[j].key = keys[j].key /\ new[j].key # k
               /\ new[j].data = keys[j].data
      <4>1. HasKey(writes, id)
        <5> SUFFICES ASSUME ~HasKey(writes, id) PROVE FALSE
          OBVIOUS
        <5>1. keys = << >>
          BY DEF keys
        <5>2. QED
          BY <3>4, <5>1, EmptySeq
      <4>2. PICK n \in 1 .. Len(writes) : writes[n].key = id
        BY <1>1, <4>1 DEF HasKey
      <4>3. keys = writes[n].data
        BY <1>3, <4>2
      <4>4. QED
        BY <2>1, <3>1, <3>4, <4>2, <4>3
    <3>5. QED
      BY <3>2, <3>3, <3>4
  <2>2. CASE writes'[m].key # id
    <3>1. m \in 1 .. Len(writes) /\ writes[m].key = writes'[m].key
          /\ writes[m].data = writes'[m].data
      BY <1>7, <2>2 DEF Put
    <3>2. QED
      BY <2>2, <3>1
  <2>3. QED
    BY <2>1, <2>2
<1>12. ASSUME NEW m \in 1 .. Len(writes'), NEW j \in 1 .. Len(writes'[m].data)
       PROVE  LET e == writes'[m].data[j]
              IN  /\ writes'[m].key \in asked'[e.key].ids
                  /\ \A x : asked'[e.key].ids = {x} => e.data = asked'[e.key].data
  <2> DEFINE e == writes'[m].data[j]
  <2>0. e.key \in Key
    <3>0. writes'[m] \in [key : StreamId, data : Dict]
      BY <1>7, ElementOfSeq
    <3>1. writes'[m].data \in Dict
      BY <3>0
    <3>2. e \in Entry
      BY <3>1, ElementOfSeq DEF Dict
    <3>3. QED
      BY <3>2 DEF Entry
  <2>1. CASE e.key = k /\ e.data = d /\ writes'[m].key = id
    BY <1>10, <2>1
  <2>2. CASE /\ e.key = k => writes'[m].key # id
             /\ \E n \in 1 .. Len(writes) : \E i \in 1 .. Len(writes[n].data) :
                    /\ writes[n].key = writes'[m].key
                    /\ writes[n].data[i].key = e.key /\ writes[n].data[i].data = e.data
    <3>0. PICK n \in 1 .. Len(writes) : \E i \in 1 .. Len(writes[n].data) :
              /\ writes[n].key = writes'[m].key
              /\ writes[n].data[i].key = e.key /\ writes[n].data[i].data = e.data
      BY <2>2
    <3>1. PICK i \in 1 .. Len(writes[n].data) :
              /\ writes[n].key = writes'[m].key
              /\ writes[n].data[i].key = e.key /\ writes[n].data[i].data = e.data
      BY <3>0
    <3>a. /\ writes[n].key \in asked[writes[n].data[i].key].ids
          /\ \A x : asked[writes[n].data[i].key].ids = {x} =>
                 writes[n].data[i].data = asked[writes[n].data[i].key].data
      BY DEF WritesAsked
    <3> HIDE DEF e
    <3>2. /\ writes'[m].key \in asked[e.key].ids
          /\ \A x : asked[e.key].ids = {x} => e.data = asked[e.key].data
      BY <3>1, <3>a
    <3>3. CASE e.key = k
      <4>1. /\ writes'[m].key \in asked'[k].ids /\ writes'[m].key # id
            /\ id \in asked'[k].ids
        BY <1>10, <2>2, <3>2, <3>3
      <4>2. QED
        BY <3>3, <4>1 DEF e
    <3>4. CASE e.key # k
      <4>1. asked'[e.key] = asked[e.key]
        BY <1>10, <2>0, <3>4
      <4>2. QED
        BY <3>2, <4>1 DEF e
    <3>5. QED
      BY <3>3, <3>4
  <2>3. QED
    BY <1>11, <2>1, <2>2
<1>13. ASSUME NEW j \in Key, NEW x \in asked'[j].ids
       PROVE  \E m \in 1 .. Len(writes') : writes'[m].key = x /\ HasKey(writes'[m].data, j)
  <2>1. CASE j = k /\ x = id
    <3>1. PICK m \in 1 .. Len(writes') : writes'[m].key = id /\ writes'[m].data = new
      BY <1>7 DEF Put
    <3>2. HasKey(new, k)
      BY <1>5, <1>6 DEF Put, HasKey
    <3>3. QED
      BY <2>1, <3>1, <3>2
  <2>2. CASE ~(j = k /\ x = id)
    <3>1. x \in asked[j].ids
      BY <1>10, <2>2
    <3>2. PICK m \in 1 .. Len(writes) : writes[m].key = x /\ HasKey(writes[m].data, j)
      BY <3>1 DEF WritesAsked
    <3>3. /\ m \in 1 .. Len(writes') /\ writes'[m].key = x
          /\ writes'[m].data = IF x = id THEN new ELSE writes[m].data
      BY <1>1, <1>7, <1>8, <3>2 DEF Put
    <3>4. x = id => HasKey(new, j)
      <4> SUFFICES ASSUME x = id PROVE HasKey(new, j)
        OBVIOUS
      <4>1. keys = writes[m].data
        BY <1>3, <3>2
      <4>2. PICK i \in 1 .. Len(keys) : keys[i].key = j
        BY <1>6, <3>2, <4>1 DEF HasKey
      <4>3. i \in 1 .. Len(new) /\ new[i].key = j
        <5>1. new[i].key = keys[i].key /\ Len(keys) <= Len(new)
          BY <1>5, <4>2 DEF Put
        <5>2. i \in 1 .. Len(new)
          BY <1>6, <4>2, <5>1
        <5>3. QED
          BY <4>2, <5>1, <5>2
      <4>4. QED
        BY <1>6, <4>3 DEF HasKey
    <3>5. QED
      BY <3>2, <3>3, <3>4
  <2>3. QED
    BY <2>1, <2>2
<1>14. QED
  BY <1>7, <1>9, <1>12, <1>13 DEF WritesAsked

(* A key that is set is one of finitely many.                              *)
LEMMA SetFinite ==
    ASSUME StreamAssumption, Shape, AskedIsFinite,
           NEW id \in StreamId, NEW k \in Key, NEW d \in Data, Set(id, k, d)
    PROVE  AskedIsFinite'
<1>1. /\ asked'[k].ids = asked[k].ids \cup {id} /\ log' = log
      /\ \A j \in Key \ {k} : asked'[j] = asked[j]
  BY DEF Set, Shape
<1>2. \A j \in Key : IsFiniteSet(asked'[j].ids)
  <2>1. IsFiniteSet(asked[k].ids \cup {id})
    BY FS_AddElement DEF AskedIsFinite
  <2>2. QED
    BY <1>1, <2>1 DEF AskedIsFinite
<1>3. \E b \in Nat : \A j \in Key : asked'[j].ids # {} => j <= b
  <2>1. PICK b \in Nat : \A j \in Key : asked[j].ids # {} => j <= b
    BY DEF AskedIsFinite
  <2>2. k \in Nat /\ b + k \in Nat /\ \A j \in Key : j \in Nat
    BY DEF StreamAssumption
  <2>3. ASSUME NEW j \in Key, asked'[j].ids # {} PROVE j <= b + k
    <3>1. CASE j = k
      BY <2>1, <2>2, <3>1
    <3>2. CASE j # k
      <4>1. j <= b
        BY <1>1, <2>1, <2>3, <3>2
      <4>2. QED
        BY <2>1, <2>2, <4>1
    <3>3. QED
      BY <3>1, <3>2
  <2>4. QED
    BY <2>2, <2>3
<1>4. \A i \in 1 .. Len(log') : \A j \in DOMAIN log'[i] : asked'[j].ids # {}
  <2>1. \A i \in 1 .. Len(log) : \A j \in DOMAIN log[i] : j \in Key
    BY LogIs
  <2>2. QED
    BY <1>1, <2>1 DEF AskedIsFinite
<1>5. QED
  BY <1>2, <1>3, <1>4 DEF AskedIsFinite

(* The parts of a sequence laid one after the other, wherever they are.    *)
LEMMA FlattenHas ==
    ASSUME NEW S, NEW q \in Seq(Seq(S))
    PROVE  /\ FlattenSeq(q) \in Seq(S)
           /\ \A j \in 1 .. Len(FlattenSeq(q)) :
                 \E i \in 1 .. Len(q) : \E k \in 1 .. Len(q[i]) : FlattenSeq(q)[j] = q[i][k]
           /\ \A i \in 1 .. Len(q) : \A k \in 1 .. Len(q[i]) :
                 \E j \in 1 .. Len(FlattenSeq(q)) : FlattenSeq(q)[j] = q[i][k]
<1> DEFINE n == Len(q)
           h == [i \in 1 .. n |-> [size |-> Len(q[i])]]
           e == Ends(h)
           v == FlattenSeq(q)
<1>1. n \in Nat /\ \A i \in 1 .. n : Len(q[i]) \in Nat
  BY LenProperties, ElementOfSeq
<1>2. Len(h) = n /\ \A i \in 1 .. n : h[i].size = Len(q[i])
  BY <1>1
<1> HIDE DEF h
<1>3. Offsets(e, q)
  BY <1>2, EndsAre
<1> HIDE DEF e
<1>4. /\ v \in Seq(S) /\ Len(v) = e[n] /\ \A i \in 1 .. n : e[i] <= e[n]
      /\ \A i \in 1 .. n : \A k \in 1 .. Len(q[i]) : v[e[i - 1] + k] = q[i][k]
      /\ \A j \in 1 .. Len(v) :
             \E i \in 1 .. n : \E k \in 1 .. Len(q[i]) : v[j] = q[i][k]
  BY <1>3, FlattenParts, SMTT(30)
<1>5. /\ e \in [0 .. n -> Nat] /\ \A i \in 1 .. n : e[i] = e[i - 1] + Len(q[i])
  BY <1>3 DEF Offsets
<1> HIDE DEF n, v
<1>6. ASSUME NEW i \in 1 .. n, NEW k \in 1 .. Len(q[i])
      PROVE  \E j \in 1 .. Len(v) : v[j] = q[i][k]
  <2>1. i \in 0 .. n /\ i - 1 \in 0 .. n /\ n \in 0 .. n
    BY <1>1
  <2>2. PICK x, y, l, m : /\ x = e[i - 1] /\ y = e[i] /\ l = Len(q[i]) /\ m = Len(v)
                          /\ x \in Nat /\ y \in Nat /\ l \in Nat /\ m \in Nat
                          /\ y = x + l /\ y <= m
    <3>1. e[i - 1] \in Nat /\ e[i] \in Nat /\ e[n] \in Nat /\ Len(q[i]) \in Nat
      BY <1>1, <1>5, <2>1
    <3>2. e[i] = e[i - 1] + Len(q[i]) /\ e[i] <= e[n] /\ Len(v) = e[n]
      BY <1>4, <1>5
    <3>3. QED
      BY <3>1, <3>2
  <2>3. x + k \in 1 .. m
    BY <2>2, Inside
  <2>4. v[x + k] = q[i][k]
    BY <1>4, <2>2
  <2>5. QED
    BY <2>2, <2>3, <2>4
<1>7. QED
  BY <1>4, <1>6 DEF n, v

(* The batch has the keys that were asked for, each with the data that was *)
(* set last if it was set under one id.                                    *)
LEMMA BatchHas ==
    ASSUME StreamAssumption, Shape, WritesAsked
    PROVE  /\ Replayed(Encode(Build)) \in Batch
           /\ DOMAIN Replayed(Encode(Build)) = {k \in Key : asked[k].ids # {}}
           /\ \A k \in DOMAIN Replayed(Encode(Build)) : \A id : asked[k].ids = {id} =>
                  Replayed(Encode(Build))[k] = asked[k].data
<1> DEFINE n == Len(writes)
           q == [i \in 1 .. n |-> writes[i].data]
           b == Build
           r == Replayed(Encode(b))
<1>1. /\ n \in Nat /\ DOMAIN writes = 1 .. n
      /\ \A i \in 1 .. n : writes[i] \in [key : StreamId, data : Dict]
  BY LenProperties, ElementOfSeq DEF Shape
<1>2. \A i \in 1 .. n : writes[i].data \in Seq(Entry)
  BY <1>1 DEF Dict
<1>3. q \in Seq(Seq(Entry)) /\ Len(q) = n /\ \A i \in 1 .. n : q[i] = writes[i].data
  BY <1>1, <1>2
<1>4. b = FlattenSeq(q)
  BY <1>1 DEF Build
<1> HIDE DEF q, b
<1>5. /\ b \in Seq(Entry)
      /\ \A j \in 1 .. Len(b) :
            \E i \in 1 .. n : \E k \in 1 .. Len(q[i]) : b[j] = q[i][k]
      /\ \A i \in 1 .. n : \A k \in 1 .. Len(q[i]) :
            \E j \in 1 .. Len(b) : b[j] = q[i][k]
  <2>1. /\ FlattenSeq(q) \in Seq(Entry)
        /\ \A j \in 1 .. Len(FlattenSeq(q)) :
              \E i \in 1 .. Len(q) : \E k \in 1 .. Len(q[i]) : FlattenSeq(q)[j] = q[i][k]
        /\ \A i \in 1 .. Len(q) : \A k \in 1 .. Len(q[i]) :
              \E j \in 1 .. Len(FlattenSeq(q)) : FlattenSeq(q)[j] = q[i][k]
    BY <1>3, FlattenHas, SMTT(30)
  <2>2. b \in Seq(Entry)
    BY <1>4, <2>1
  <2>3. ASSUME NEW j \in 1 .. Len(b)
        PROVE  \E i \in 1 .. n : \E k \in 1 .. Len(q[i]) : b[j] = q[i][k]
    <3>1. \E i \in 1 .. Len(q) : \E k \in 1 .. Len(q[i]) : FlattenSeq(q)[j] = q[i][k]
      BY <1>4, <2>1
    <3>2. QED
      BY <1>3, <1>4, <3>1
  <2>4. \A i \in 1 .. n : \A k \in 1 .. Len(q[i]) : \E j \in 1 .. Len(b) : b[j] = q[i][k]
    BY <1>3, <1>4, <2>1
  <2>5. QED
    BY <2>2, <2>3, <2>4
<1>6. /\ r \in Batch /\ DOMAIN r = {b[j].key : j \in 1 .. Len(b)}
      /\ \A k \in DOMAIN r : \E j \in 1 .. Len(b) : b[j].key = k /\ r[k] = b[j].data
  BY <1>5, ReplayedIs
<1> HIDE DEF r
<1>7. ASSUME NEW j \in 1 .. Len(b)
      PROVE  /\ b[j].key \in Key /\ asked[b[j].key].ids # {}
             /\ \A id : asked[b[j].key].ids = {id} => b[j].data = asked[b[j].key].data
  <2>1. PICK i \in 1 .. n : \E k \in 1 .. Len(q[i]) : b[j] = q[i][k]
    BY <1>5
  <2>2. PICK k \in 1 .. Len(writes[i].data) : b[j] = writes[i].data[k]
    BY <1>3, <2>1
  <2>3. b[j] \in Entry
    BY <1>5, ElementOfSeq
  <2>4. /\ writes[i].key \in asked[writes[i].data[k].key].ids
        /\ \A id : asked[writes[i].data[k].key].ids = {id} =>
               writes[i].data[k].data = asked[writes[i].data[k].key].data
    <3>1. \A m \in 1 .. Len(writes) : \A l \in 1 .. Len(writes[m].data) :
              /\ writes[m].key \in asked[writes[m].data[l].key].ids
              /\ \A id : asked[writes[m].data[l].key].ids = {id} =>
                     writes[m].data[l].data = asked[writes[m].data[l].key].data
      BY DEF WritesAsked
    <3>2. QED
      BY <3>1
  <2>5. QED
    BY <2>2, <2>3, <2>4 DEF Entry
<1>8. ASSUME NEW k \in Key, asked[k].ids # {} PROVE \E j \in 1 .. Len(b) : b[j].key = k
  <2>1. PICK i \in 1 .. n : HasKey(writes[i].data, k)
    BY <1>8 DEF WritesAsked
  <2>2. DOMAIN writes[i].data = 1 .. Len(writes[i].data)
    BY <1>2, LenProperties
  <2>3. PICK l \in 1 .. Len(q[i]) : q[i][l].key = k
    BY <1>3, <2>1, <2>2 DEF HasKey
  <2>4. QED
    BY <1>5, <2>3
<1>9. DOMAIN r = {k \in Key : asked[k].ids # {}}
  <2>1. \A k : k \in DOMAIN r <=> \E j \in 1 .. Len(b) : b[j].key = k
    BY <1>6
  <2>2. \A k : k \in DOMAIN r <=> k \in Key /\ asked[k].ids # {}
    <3>1. ASSUME NEW k, NEW j \in 1 .. Len(b), b[j].key = k
          PROVE  k \in Key /\ asked[k].ids # {}
      <4>1. b[j].key \in Key /\ asked[b[j].key].ids # {}
        BY <1>7
      <4>2. QED
        BY <3>1, <4>1
    <3>2. QED
      BY <1>8, <2>1, <3>1
  <2>3. QED
    BY <2>2
<1>10. \A k \in DOMAIN r : \A id : asked[k].ids = {id} => r[k] = asked[k].data
  <2> SUFFICES ASSUME NEW k \in DOMAIN r, NEW id, asked[k].ids = {id}
               PROVE  r[k] = asked[k].data
    OBVIOUS
  <2>1. PICK j \in 1 .. Len(b) : b[j].key = k /\ r[k] = b[j].data
    BY <1>6
  <2>2. asked[b[j].key].ids = {id} => b[j].data = asked[b[j].key].data
    BY <1>7
  <2>3. QED
    BY <2>1, <2>2
<1>11. QED
  BY <1>6, <1>9, <1>10 DEF r, b

----------------------------------------------------------------------------
(* The versions of a key.                                                  *)
LEMMA VersionIs ==
    ASSUME StreamAssumption, Shape, NEW version \in 0 .. Len(log), NEW k \in KeysAt(version)
    PROVE  /\ VersionOf(k, version) \in 1 .. Top(version) /\ Top(version) \in 1 .. Len(log)
           /\ k \in DOMAIN log[VersionOf(k, version)]
           /\ \A i \in (VersionOf(k, version) + 1) .. Top(version) : k \notin DOMAIN log[i]
<1> DEFINE n == Top(version)
           S == {i \in 1 .. n : k \in DOMAIN log[i]}
           v == VersionOf(k, version)
<1>1. n \in 0 .. Len(log) /\ Len(log) \in Nat /\ n \in Nat
  BY LogIs DEF Top
<1>2. v = Max(S) /\ \E i \in 1 .. n : k \in DOMAIN log[i]
  BY DEF VersionOf, KeysAt
<1> HIDE DEF n, v
<1>3. S # {} /\ S \in SUBSET Nat /\ \A i \in S : i <= n
  BY <1>1, <1>2
<1>4. Max(S) \in S /\ \A i \in S : i <= Max(S)
  BY <1>1, <1>3, MaxIs
<1> HIDE DEF S
<1>5. v \in S /\ \A i \in S : i <= v
  BY <1>2, <1>4
<1>6. v \in 1 .. n /\ k \in DOMAIN log[v]
  BY <1>5 DEF S
<1>7. \A i \in (v + 1) .. n : k \notin DOMAIN log[i]
  <2> SUFFICES ASSUME NEW i \in (v + 1) .. n, k \in DOMAIN log[i] PROVE FALSE
    OBVIOUS
  <2>1. i \in 1 .. n /\ ~(i <= v)
    BY <1>1, <1>6
  <2>2. i \in S
    BY <2>1 DEF S
  <2>3. QED
    BY <1>5, <2>1, <2>2
<1>8. QED
  BY <1>1, <1>6, <1>7 DEF n, v

(* A version at which the key was written is the key's version.            *)
LEMMA VersionItself ==
    ASSUME StreamAssumption, Shape, NEW n \in 1 .. Len(log), NEW k \in DOMAIN log[n]
    PROVE  k \in KeysAt(n) /\ VersionOf(k, n) = n
<1>1. Len(log) \in Nat
  BY LogIs
<1>2. Top(n) = n /\ n \in 0 .. Len(log)
  BY <1>1 DEF Top, Latest
<1>3. k \in KeysAt(n)
  BY <1>1, <1>2 DEF KeysAt
<1>4. /\ VersionOf(k, n) \in 1 .. n
      /\ \A i \in (VersionOf(k, n) + 1) .. n : k \notin DOMAIN log[i]
  BY <1>2, <1>3, VersionIs
<1> DEFINE v == VersionOf(k, n)
<1> HIDE DEF v
<1>5. /\ v \in 1 .. n /\ \A i \in (v + 1) .. n : k \notin DOMAIN log[i]
  BY <1>4 DEF v
<1>6. v # n => n \in (v + 1) .. n
  BY <1>1, <1>5
<1>7. v = n
  BY <1>5, <1>6
<1>8. QED
  BY <1>3, <1>7 DEF v

(* The same for the keys and the versions of an explicit version.          *)
LEMMA VersionsAre ==
    ASSUME StreamAssumption, Shape, NEW version \in 0 .. Len(log)
    PROVE  /\ Top(version) \in 0 .. Len(log) /\ (version # Latest => Top(version) = version)
           /\ KeysAt(version) = Domains(log, Top(version))
           /\ \A k : VersionOf(k, version) = LastOf(log, k, Top(version))
<1>1. Len(log) \in Nat
  BY LogIs
<1>2. QED
  BY <1>1 DEF Top, KeysAt, VersionOf, Domains, LastOf

(* Batches that come later change nothing of the versions there were.      *)
Kept ==
    /\ Len(log) <= Len(log') /\ Len(log') \in Nat
    /\ \A i \in 1 .. Len(log) : log'[i] = log[i]
    /\ \A n \in 0 .. Len(log) :
          /\ Domains(log', n) = Domains(log, n)
          /\ \A k : LastOf(log', k, n) = LastOf(log, k, n)

(* The log as it was keeps everything.                                     *)
LEMMA SameKeeps == ASSUME StreamAssumption, Shape, log' = log PROVE Kept
<1>1. Len(log) \in Nat
  BY LogIs
<1>2. QED
  BY <1>1 DEF Kept

(* One batch more keeps the batches before it.                             *)
LEMMA LogGrows ==
    ASSUME StreamAssumption, Shape, NEW r \in Batch, log' = Append(log, r)
    PROVE  /\ Len(log') = Len(log) + 1 /\ log' \in Seq(Batch) /\ log'[Len(log')] = r
           /\ Kept
<1>1. Len(log) \in Nat
  BY LogIs
<1>2. /\ Len(log') = Len(log) + 1 /\ log' \in Seq(Batch) /\ log'[Len(log) + 1] = r
      /\ \A i \in 1 .. Len(log) : log'[i] = log[i]
  BY AppendProperties DEF Shape
<1>3. ASSUME NEW n \in 0 .. Len(log)
      PROVE  /\ Domains(log', n) = Domains(log, n)
             /\ \A k : LastOf(log', k, n) = LastOf(log, k, n)
  <2>1. \A i \in 1 .. n : i \in 1 .. Len(log)
    BY <1>1
  <2>2. Domains(log', n) = Domains(log, n)
    BY <1>2, <2>1 DEF Domains
  <2>3. ASSUME NEW k PROVE LastOf(log', k, n) = LastOf(log, k, n)
    <3>1. {i \in 1 .. n : k \in DOMAIN log'[i]} = {i \in 1 .. n : k \in DOMAIN log[i]}
      BY <1>2, <2>1
    <3>2. QED
      BY <3>1 DEF LastOf
  <2>4. QED
    BY <2>2, <2>3
<1>4. QED
  BY <1>1, <1>2, <1>3 DEF Kept

----------------------------------------------------------------------------
(* What holds of the result, the pair, the call and the scan goes on to    *)
(* hold while batches come and they stay, or are given up.                 *)
LEMMA ResultKept ==
    ASSUME StreamAssumption, Shape, Kept, ResultSound, result' = result \/ result' = None
    PROVE  ResultSound'
<1> SUFFICES ASSUME result' # None PROVE ResultSound'
  BY DEF ResultSound
<1>1. result' = result /\ result # None
  OBVIOUS
<1>2. /\ result.key \in Key /\ result.version \in 1 .. Len(log)
      /\ result.data \in Seq(Byte) /\ result.began \in 0 .. Len(log)
      /\ result.key \in DOMAIN log[result.version]
      /\ ~result.crossed =>
            /\ result.data = log[result.version][result.key]
            /\ \A i \in (result.version + 1) .. result.began : result.key \notin DOMAIN log[i]
  BY <1>1 DEF ResultSound
<1>3. Len(log) \in Nat /\ Len(log) <= Len(log') /\ Len(log') \in Nat
      /\ \A i \in 1 .. Len(log) : log'[i] = log[i]
  BY LogIs DEF Kept
<1>4. result.version \in 1 .. Len(log') /\ result.began \in 0 .. Len(log')
      /\ log'[result.version] = log[result.version]
      /\ \A i \in (result.version + 1) .. result.began : log'[i] = log[i]
  <2>1. \A i \in (result.version + 1) .. result.began : i \in 1 .. Len(log)
    BY <1>2, <1>3
  <2>2. QED
    BY <1>2, <1>3, <2>1
<1>5. QED
  BY <1>1, <1>2, <1>4 DEF ResultSound

(* The iterator's pair keeps the value of its version.                     *)
LEMMA PairKept ==
    ASSUME StreamAssumption, Shape, Kept, PairSound, it'.pair = it.pair \/ it'.pair = None
    PROVE  PairSound'
<1> SUFFICES ASSUME it'.pair # None PROVE PairSound'
  BY DEF PairSound
<1>1. /\ it'.pair = it.pair /\ it.pair.version \in 1 .. Len(log)
      /\ it.pair.key \in DOMAIN log[it.pair.version]
      /\ it.pair.data = log[it.pair.version][it.pair.key]
  BY DEF PairSound
<1>2. Len(log) \in Nat /\ Len(log) <= Len(log') /\ Len(log') \in Nat
      /\ \A i \in 1 .. Len(log) : log'[i] = log[i]
  BY LogIs DEF Kept
<1>3. it.pair.version \in 1 .. Len(log') /\ log'[it.pair.version] = log[it.pair.version]
  BY <1>1, <1>2
<1>4. QED
  BY <1>1, <1>3 DEF PairSound

(* A call keeps what it has collected.                                     *)
LEMMA CallKept ==
    ASSUME StreamAssumption, Shape, Kept, CallSound, call' = call \/ call' = Idle
    PROVE  CallSound'
<1> SUFFICES ASSUME call' # Idle PROVE CallSound'
  BY DEF CallSound
<1>1. call' = call /\ call # Idle /\ call \in Record
  BY DEF Shape
<1>2. /\ {call.version, call.found, call.seen, call.began} \subseteq 0 .. Len(log)
      /\ Len(call.data) <= call.size
      /\ Len(call.data) > 0 =>
            /\ call.seen # 0 /\ call.key \in DOMAIN log[call.seen]
            /\ call.size = Len(log[call.seen][call.key])
            /\ ~call.crossed =>
                  call.data = SubSeq(log[call.seen][call.key], 1, Len(call.data))
      /\ call.kind # "read" =>
            /\ call.found # 0 /\ call.version = call.found /\ call.seen = call.found
            /\ call.key \in DOMAIN log[call.found] /\ ~call.crossed
  BY <1>1 DEF CallSound
<1>3. Len(log) \in Nat /\ Len(log) <= Len(log') /\ Len(log') \in Nat
      /\ \A i \in 1 .. Len(log) : log'[i] = log[i]
  BY LogIs DEF Kept
<1>4. \A i \in 0 .. Len(log) : i \in 0 .. Len(log') /\ (i # 0 => log'[i] = log[i])
  BY <1>3
<1>5. {call.version, call.found, call.seen, call.began} \subseteq 0 .. Len(log')
  BY <1>2, <1>4
<1>6. /\ call.seen # 0 => log'[call.seen] = log[call.seen]
      /\ call.found # 0 => log'[call.found] = log[call.found]
  BY <1>2, <1>4
<1>7. QED
  BY <1>1, <1>2, <1>5, <1>6 DEF CallSound

(* The batches a move or a scan is about were there before.                *)
LEMMA StartIs ==
    ASSUME StreamAssumption, Shape
    PROVE  /\ it.version \in 0 .. Len(log) /\ Start \in 0 .. Len(log)
           /\ scan.from \in 0 .. Len(log) /\ Len(log) \in Nat
           /\ scan.seen \in Seq(Pair) /\ Len(scan.seen) \in Nat
           /\ \A i \in 1 .. Len(scan.seen) : scan.seen[i] \in Pair
<1>1. it.version \in 0 .. Len(log) /\ scan.from \in 0 .. Len(log) /\ scan.seen \in Seq(Pair)
  BY DEF Shape
<1>2. Start \in 0 .. Len(log)
  BY <1>1 DEF Start
<1>3. QED
  BY <1>1, <1>2, LogIs, LenProperties, ElementOfSeq

(* A move under way still goes to the least key left.                      *)
LEMMA MoveKept ==
    ASSUME StreamAssumption, Shape, Kept, CallSound, MoveSound, it' = it, scan' = scan,
           call' # Idle =>
               call # Idle /\ call'.kind = call.kind /\ call'.key = call.key
               /\ call'.found = call.found /\ call'.began = call.began
    PROVE  MoveSound'
<1> SUFFICES ASSUME call' # Idle PROVE MoveSound'
  BY DEF MoveSound
<1>1. /\ call # Idle /\ call'.kind = call.kind /\ call'.key = call.key
      /\ call'.found = call.found /\ call'.began = call.began
  OBVIOUS
<1> DEFINE from == IF it.version = Latest THEN call.began ELSE it.version
<1>2. call.began \in 0 .. Len(log)
  BY <1>1 DEF CallSound
<1>3. it.version \in 0 .. Len(log) /\ Start \in 0 .. Len(log) /\ from \in 0 .. Len(log)
  BY <1>2, StartIs
<1>4. /\ Domains(log', from) = Domains(log, from)
      /\ Domains(log', Start) = Domains(log, Start)
      /\ Domains(log', it.version) = Domains(log, it.version)
      /\ \A k : LastOf(log', k, it.version) = LastOf(log, k, it.version)
  BY <1>3 DEF Kept
<1>5. Start' = Start /\ from' = from
  BY <1>1 DEF Start
<1>6. AtVersion(call.key, call.found) => AtVersion(call.key, call.found)'
  BY <1>1, <1>4 DEF AtVersion
<1>7. call'.kind = "first" =>
        /\ \A k \in Domains(log', from') : call'.key <= k
        /\ AtVersion(call.key, call.found)'
  BY <1>1, <1>4, <1>5, <1>6 DEF MoveSound
<1>8. call'.kind = "next" =>
        /\ it'.pair # None
        /\ it'.pair.key < call'.key /\ AtVersion(call.key, call.found)'
        /\ scan'.state = "on" =>
              \A k \in Domains(log', Start') : it'.pair.key < k => call'.key <= k
  BY <1>1, <1>4, <1>5, <1>6 DEF MoveSound
<1>9. QED
  BY <1>7, <1>8 DEF MoveSound

(* A scan still has passed the same keys.                                  *)
LEMMA ScanKept ==
    ASSUME StreamAssumption, Shape, Kept, ScanSound, it' = it, scan' = scan
    PROVE  ScanSound'
<1>1. it.version \in 0 .. Len(log) /\ Start \in 0 .. Len(log) /\ Start' = Start
  BY StartIs DEF Start
<1>2. /\ Domains(log', Start) = Domains(log, Start)
      /\ Domains(log', it.version) = Domains(log, it.version)
      /\ \A k : LastOf(log', k, it.version) = LastOf(log, k, it.version)
  BY <1>1 DEF Kept
<1>3. \A k, version : AtVersion(k, version)' <=> AtVersion(k, version)
  BY <1>2 DEF AtVersion
<1>4. QED
  BY <1>1, <1>2 DEF ScanSound, AtVersion

----------------------------------------------------------------------------
(* What has been collected, with the next piece after it.                  *)
LEMMA PieceIs ==
    ASSUME StreamAssumption, NEW value \in Seq(Byte), NEW len \in Nat
    PROVE  LET e == Min({len + MAX_QUERY_SIZE, Len(value)})
               piece == SubSeq(value, len + 1, e)
           IN  /\ piece \in Seq(Byte) /\ Len(piece) <= Len(value)
               /\ len <= Len(value) =>
                    /\ len + Len(piece) = e /\ e <= Len(value) /\ e \in len .. Len(value)
                    /\ SubSeq(value, 1, len) \o piece = SubSeq(value, 1, e)
<1> DEFINE n == Len(value)
           e == Min({len + MAX_QUERY_SIZE, n})
           piece == SubSeq(value, len + 1, e)
<1>1. n \in Nat /\ MAX_QUERY_SIZE \in Nat \ {0} /\ \A i \in 1 .. n : value[i] \in Byte
  BY LenProperties, ElementOfSeq DEF StreamAssumption
<1>2. e \in Nat /\ e <= n /\ (e = len + MAX_QUERY_SIZE \/ e = n)
  <2> DEFINE S == {len + MAX_QUERY_SIZE, n}
  <2>1. S \in SUBSET Nat /\ S # {} /\ n \in S
    BY <1>1
  <2>2. Min(S) \in S /\ \A x \in S : Min(S) <= x
    BY <2>1, MinIs
  <2>3. QED
    BY <1>1, <2>1, <2>2
<1> HIDE DEF e, n
<1>3. \A i \in len + 1 .. e : value[i] \in Byte
  <2>1. \A i \in len + 1 .. e : i \in 1 .. n
    BY <1>1, <1>2
  <2>2. QED
    BY <1>1, <2>1
<1>4. piece \in Seq(Byte) /\ Len(piece) = IF len + 1 <= e THEN e - (len + 1) + 1 ELSE 0
  <2>1. len + 1 \in Int /\ e \in Int
    BY <1>2
  <2>2. QED
    BY <1>3, <2>1, SubSeqProperties
<1>5. Len(piece) <= n
  <2>1. (IF len + 1 <= e THEN e - (len + 1) + 1 ELSE 0) <= n
    BY <1>1, <1>2
  <2>2. QED
    BY <1>4, <2>1
<1>6. ASSUME len <= n
      PROVE  /\ len + Len(piece) = e /\ e <= n /\ e \in len .. n
             /\ SubSeq(value, 1, len) \o piece = SubSeq(value, 1, e)
  <2>1. e \in len .. n
    BY <1>1, <1>2, <1>6
  <2>2. len + (IF len + 1 <= e THEN e - (len + 1) + 1 ELSE 0) = e
    BY <1>1, <1>2, <2>1
  <2>3. len + Len(piece) = e
    BY <1>4, <2>2
  <2>4. 1 \in 1 .. n + 1 /\ len \in 1 - 1 .. n
    BY <1>1, <1>6
  <2>5. SubSeq(value, 1, len) \o piece = SubSeq(value, 1, e)
    BY <2>1, <2>4, ConcatAdjacentSubSeq DEF n
  <2>6. QED
    BY <1>2, <2>1, <2>3, <2>5
<1>7. QED
  BY <1>4, <1>5, <1>6 DEF e, n

(* The call after the node's next answer.                                  *)
LEMMA CollectedIs ==
    ASSUME StreamAssumption, Shape, CallSound, Answered
    PROVE  /\ Collected \in Record
           /\ Collected.kind = call.kind /\ Collected.key = call.key
           /\ Collected.version = call.version /\ Collected.found = call.found
           /\ Collected.began = call.began
           /\ Collected.seen = VersionOf(call.key, call.version)
           /\ Collected.seen \in 1 .. Len(log) /\ call.key \in DOMAIN log[Collected.seen]
           /\ Collected.size = Len(log[Collected.seen][call.key])
           /\ Len(Collected.data) <= Collected.size
           /\ ~Collected.crossed =>
                 Collected.data = SubSeq(log[Collected.seen][call.key], 1, Len(Collected.data))
           /\ call.kind # "read" => Collected.seen = call.found /\ ~Collected.crossed
<1> DEFINE v == VersionOf(call.key, call.version)
           value == log[v][call.key]
           len == Len(call.data)
           e == Min({len + MAX_QUERY_SIZE, Len(value)})
           piece == SubSeq(value, len + 1, e)
           kept == IF call.seen = v THEN call.data ELSE << >>
           crossed == call.crossed \/ (len > 0 /\ call.seen # v)
<1>1. call # Idle /\ call \in Record /\ call.key \in KeysAt(call.version)
      /\ call.version \in 0 .. Len(log)
  BY DEF Answered, Shape, CallSound
<1>2. v \in 1 .. Len(log) /\ call.key \in DOMAIN log[v] /\ Len(log) \in Nat
  <2>1. Len(log) \in Nat
    BY LogIs
  <2>2. v \in 1 .. Top(call.version) /\ Top(call.version) \in 1 .. Len(log)
        /\ call.key \in DOMAIN log[v]
    BY <1>1, VersionIs
  <2>3. QED
    BY <2>1, <2>2
<1>3. value \in Seq(Byte)
  BY <1>2, LogIs
<1>4. call.data \in Seq(Byte) /\ len \in Nat /\ call.crossed \in BOOLEAN
  BY <1>1, LenProperties DEF Record
<1>5. Collected = [call EXCEPT !.seen = v, !.size = Len(value), !.crossed = crossed,
                               !.data = kept \o piece]
  BY DEF Collected
<1> HIDE DEF v
<1>6. /\ len > 0 => call.seen # 0 /\ call.key \in DOMAIN log[call.seen]
      /\ len > 0 /\ call.seen = v => len <= Len(value)
      /\ len > 0 /\ call.seen = v /\ ~call.crossed => call.data = SubSeq(value, 1, len)
  BY <1>1 DEF CallSound
<1> HIDE DEF value
<1>7. Len(value) \in Nat
  BY <1>3, LenProperties
<1>8. len = 0 => call.data = << >> /\ len <= Len(value) /\ SubSeq(value, 1, len) = << >>
  <2>1. len = 0 => call.data = << >>
    BY <1>4, EmptySeq
  <2>2. SubSeq(value, 1, 0) = << >>
    BY SubSeqEmpty
  <2>3. QED
    BY <1>7, <2>1, <2>2
<1>9. /\ piece \in Seq(Byte) /\ Len(piece) <= Len(value) /\ Len(piece) \in Nat
      /\ len <= Len(value) =>
           /\ len + Len(piece) = e /\ e <= Len(value)
           /\ SubSeq(value, 1, len) \o piece = SubSeq(value, 1, e)
  BY <1>3, <1>4, PieceIs, LenProperties
<1> HIDE DEF len, piece, e
<1>10. kept \in Seq(Byte) /\ Len(kept) \in Nat /\ kept \o piece \in Seq(Byte)
       /\ Len(kept \o piece) = Len(kept) + Len(piece)
  <2>1. kept \in Seq(Byte)
    BY <1>4, EmptySeq
  <2> HIDE DEF kept
  <2>2. QED
    BY <1>9, <2>1, ConcatProperties, LenProperties
<1>11. (len = 0 \/ call.seen = v) => kept = call.data /\ len <= Len(value)
  BY <1>4, <1>6, <1>8
<1>12. ~(len = 0 \/ call.seen = v) => kept = << >> /\ crossed
  BY <1>4
<1>13. Len(kept \o piece) <= Len(value)
       /\ (~crossed => kept \o piece = SubSeq(value, 1, Len(kept \o piece)))
  <2>1. CASE len = 0 \/ call.seen = v
    <3>1. kept = call.data /\ Len(kept) = len /\ len <= Len(value)
      BY <1>11, <2>1 DEF len
    <3>2. Len(kept \o piece) = e /\ e <= Len(value)
      BY <1>9, <1>10, <3>1
    <3>3. ~crossed => kept = SubSeq(value, 1, len)
      BY <1>4, <1>6, <1>8, <2>1, <3>1
    <3>4. QED
      BY <1>9, <3>1, <3>2, <3>3
  <2>2. CASE ~(len = 0 \/ call.seen = v)
    <3>1. kept = << >> /\ crossed /\ Len(kept) = 0
      BY <1>12, <2>2, EmptySeq
    <3> HIDE DEF kept, crossed
    <3>2. QED
      BY <1>7, <1>9, <1>10, <3>1
  <2>3. QED
    BY <2>1, <2>2
<1>14. call.kind # "read" => v = call.found /\ ~crossed
  <2> SUFFICES ASSUME call.kind # "read" PROVE v = call.found /\ ~crossed
    OBVIOUS
  <2>1. /\ call.found # 0 /\ call.version = call.found /\ call.seen = call.found
        /\ call.key \in DOMAIN log[call.found] /\ ~call.crossed
        /\ call.found \in 0 .. Len(log)
    BY <1>1 DEF CallSound
  <2>2. call.found \in 1 .. Len(log)
    BY <1>2, <2>1
  <2>3. v = call.found
    BY <2>1, <2>2, VersionItself DEF v
  <2>4. QED
    BY <2>1, <2>3
<1> HIDE DEF kept, crossed
<1>15. Collected \in Record
  <2>1. v \in Nat /\ Len(value) \in Nat /\ crossed \in BOOLEAN /\ kept \o piece \in Seq(Byte)
    BY <1>2, <1>4, <1>7, <1>10 DEF crossed
  <2>2. QED
    BY <1>1, <1>5, <2>1 DEF Record
<1>16. /\ Collected.kind = call.kind /\ Collected.key = call.key
       /\ Collected.version = call.version /\ Collected.found = call.found
       /\ Collected.began = call.began /\ Collected.seen = v
       /\ Collected.size = Len(value) /\ Collected.data = kept \o piece
       /\ Collected.crossed = crossed
  BY <1>1, <1>5 DEF Record
<1>17. QED
  BY <1>2, <1>13, <1>14, <1>15, <1>16 DEF v, value

----------------------------------------------------------------------------
(* What was asked for stays while the builder does.                        *)
LEMMA AskedKept ==
    ASSUME WritesAsked, writes' = writes, asked' = asked
    PROVE  WritesAsked'
<1>1. \A m, n \in 1 .. Len(writes') : writes'[m].key = writes'[n].key => m = n
  BY DEF WritesAsked
<1>2. ASSUME NEW m \in 1 .. Len(writes'), NEW j \in 1 .. Len(writes'[m].data)
      PROVE  LET k == writes'[m].data[j].key
             IN  /\ writes'[m].key \in asked'[k].ids
                 /\ \A id : asked'[k].ids = {id} => writes'[m].data[j].data = asked'[k].data
  <2>1. m \in 1 .. Len(writes) /\ j \in 1 .. Len(writes[m].data)
    BY <1>2
  <2>2. LET k == writes[m].data[j].key
        IN  /\ writes[m].key \in asked[k].ids
            /\ \A id : asked[k].ids = {id} => writes[m].data[j].data = asked[k].data
    BY <2>1 DEF WritesAsked
  <2>3. QED
    BY <2>2
<1>3. ASSUME NEW k \in Key, NEW id \in asked'[k].ids
      PROVE  \E m \in 1 .. Len(writes') : writes'[m].key = id /\ HasKey(writes'[m].data, k)
  BY <1>3 DEF WritesAsked
<1>4. QED
  BY <1>1, <1>2, <1>3 DEF WritesAsked

----------------------------------------------------------------------------
(* The builder's operations.                                               *)
LEMMA SetIInv ==
    ASSUME StreamAssumption, IInv, NEW id \in StreamId, NEW k \in Key, NEW d \in Data,
           Set(id, k, d)
    PROVE  IInv'
<1>1. /\ log' = log /\ it' = it /\ call' = call /\ result' = result /\ scan' = scan
      /\ sets' = sets + 1
      /\ asked' = [asked EXCEPT ![k] = [data |-> d, ids |-> @.ids \cup {id}]]
  BY DEF Set
<1>2. writes' \in Seq([key : StreamId, data : Dict]) /\ WritesAsked' /\ AskedIsFinite'
  BY SetWrites, SetFinite DEF IInv
<1>3. Shape'
  <2>1. asked' \in [Key -> [data : Data \cup {<< >>}, ids : SUBSET StreamId]]
    BY <1>1 DEF IInv, Shape
  <2>2. sets' \in Nat
    BY <1>1 DEF IInv, Shape
  <2>3. QED
    BY <1>1, <1>2, <2>1, <2>2 DEF IInv, Shape
<1>4. Kept
  BY <1>1, SameKeeps DEF IInv
<1>5. CallSound' /\ ResultSound' /\ PairSound' /\ MoveSound' /\ ScanSound'
  BY <1>1, <1>4, CallKept, ResultKept, PairKept, MoveKept, ScanKept DEF IInv
<1>6. QED
  BY <1>2, <1>3, <1>5 DEF IInv

(* exec() puts the batch of all that was asked for into the log.           *)
LEMMA ExecIInv == ASSUME StreamAssumption, IInv, Exec PROVE IInv'
<1> DEFINE r == Replayed(Encode(Build))
<1>1. /\ log' = Append(log, r) /\ Len(log) < MaxLog
      /\ writes' = writes /\ asked' = asked /\ sets' = sets
      /\ it' = it /\ call' = call /\ result' = result /\ scan' = scan
  BY DEF Exec, builder
<1>2. r \in Batch /\ DOMAIN r = {k \in Key : asked[k].ids # {}}
  BY BatchHas DEF IInv
<1> HIDE DEF r
<1>3. Len(log') = Len(log) + 1 /\ log' \in Seq(Batch) /\ log'[Len(log')] = r /\ Kept
  BY <1>1, <1>2, LogGrows DEF IInv
<1>4. Len(log) \in Nat /\ \A i \in 1 .. Len(log) : log'[i] = log[i]
  BY <1>3, LogIs DEF IInv, Kept
<1>5. Shape'
  <2>1. Len(log') <= MaxLog
    BY <1>1, <1>3, <1>4 DEF StreamAssumption
  <2>2. \A i \in 0 .. Len(log) : i \in 0 .. Len(log')
    BY <1>3, <1>4
  <2>3. /\ it \in [version : 0 .. Len(log), pair : {None} \cup Pair]
        /\ scan \in [state : {"off", "on", "done"}, from : 0 .. Len(log), seen : Seq(Pair)]
    BY DEF IInv, Shape
  <2>4. it' \in [version : 0 .. Len(log'), pair : {None} \cup Pair]
    BY <1>1, <2>2, <2>3
  <2>5. scan' \in [state : {"off", "on", "done"}, from : 0 .. Len(log'), seen : Seq(Pair)]
    BY <1>1, <2>2, <2>3
  <2>6. QED
    BY <1>1, <1>3, <2>1, <2>4, <2>5 DEF IInv, Shape
<1>6. WritesAsked'
  BY <1>1, AskedKept DEF IInv
<1>7. AskedIsFinite'
  <2>1. ASSUME NEW i \in 1 .. Len(log'), NEW k \in DOMAIN log'[i] PROVE asked[k].ids # {}
    <3>1. CASE i = Len(log')
      BY <1>2, <1>3, <3>1
    <3>2. CASE i # Len(log')
      <4>1. i \in 1 .. Len(log)
        BY <1>3, <1>4, <3>2
      <4>2. QED
        BY <1>4, <4>1 DEF IInv, AskedIsFinite
    <3>3. QED
      BY <3>1, <3>2
  <2>2. QED
    BY <1>1, <2>1 DEF IInv, AskedIsFinite
<1>8. CallSound' /\ ResultSound' /\ PairSound' /\ MoveSound' /\ ScanSound'
  BY <1>1, <1>3, CallKept, ResultKept, PairKept, MoveKept, ScanKept DEF IInv
<1>9. QED
  BY <1>5, <1>6, <1>7, <1>8 DEF IInv

----------------------------------------------------------------------------
(* The client's operations leave the builder and the log as they are.      *)
LEMMA ClientKeeps ==
    ASSUME StreamAssumption, IInv, UNCHANGED <<builder, log>>
    PROVE  /\ writes' = writes /\ asked' = asked /\ sets' = sets /\ log' = log
           /\ WritesAsked' /\ AskedIsFinite' /\ Kept
           /\ it' \in [version : 0 .. Len(log), pair : {None} \cup Pair]
              /\ (call' = Idle \/ call' \in Record)
              /\ scan' \in [state : {"off", "on", "done"}, from : 0 .. Len(log), seen : Seq(Pair)]
              => Shape'
<1>1. writes' = writes /\ asked' = asked /\ sets' = sets /\ log' = log
  BY DEF builder
<1>2. WritesAsked' /\ AskedIsFinite'
  BY <1>1, AskedKept DEF IInv, AskedIsFinite
<1>3. Kept
  BY <1>1, SameKeeps DEF IInv
<1>4. QED
  BY <1>1, <1>2, <1>3 DEF IInv, Shape

(* A new call has collected nothing.                                       *)
LEMMA NewCall ==
    ASSUME StreamAssumption, Shape, NEW k \in Key, NEW version \in 0 .. Len(log),
           NEW kind \in {"read", "first", "last", "after", "before", "next", "prev"},
           NEW found \in 0 .. Len(log), log' = log,
           call' = GetValue(kind, k, version, found),
           kind # "read" => found # 0 /\ version = found /\ k \in DOMAIN log[found]
    PROVE  /\ call' \in Record /\ call' # Idle /\ CallSound'
           /\ call'.kind = kind /\ call'.key = k /\ call'.found = found
           /\ call'.began = Len(log)
<1>1. Len(log) \in Nat /\ version \in Nat /\ found \in Nat
  BY LogIs
<1>2. << >> \in Seq(Byte) /\ Len(<< >>) = 0
  BY EmptySeq
<1>3. /\ call'.kind = kind /\ call'.key = k /\ call'.version = version
      /\ call'.found = found /\ call'.seen = version /\ call'.data = << >>
      /\ call'.size = 0 /\ call'.began = Len(log) /\ call'.crossed = FALSE
  BY DEF GetValue
<1>4. call' \in Record
  BY <1>1, <1>2 DEF GetValue, Record
<1>5. call' # Idle
  BY <1>3 DEF Idle
<1>6. CallSound'
  BY <1>1, <1>2, <1>3 DEF CallSound
<1>7. QED
  BY <1>3, <1>4, <1>5, <1>6

(* get_value begins.                                                       *)
LEMMA ReadIInv ==
    ASSUME StreamAssumption, IInv, NEW k \in Key, NEW version \in 0 .. MaxLog,
           Read(k, version)
    PROVE  IInv'
<1>1. /\ version \in 0 .. Len(log) /\ call' = GetValue("read", k, version, Latest)
      /\ result' = None /\ it' = it /\ scan' = scan /\ UNCHANGED <<builder, log>>
  BY DEF Read
<1>2. Latest \in 0 .. Len(log) /\ log' = log
  BY <1>1, LogIs DEF IInv, Latest
<1>3. call' \in Record /\ call' # Idle /\ CallSound' /\ call'.kind = "read"
  BY <1>1, <1>2, NewCall DEF IInv
<1>4. WritesAsked' /\ AskedIsFinite' /\ Kept /\ Shape'
  BY <1>1, <1>3, ClientKeeps DEF IInv, Shape
<1>5. ResultSound' /\ PairSound' /\ ScanSound'
  BY <1>1, <1>4, ResultKept, PairKept, ScanKept DEF IInv
<1>6. MoveSound'
  BY <1>3 DEF MoveSound
<1>7. QED
  BY <1>3, <1>4, <1>5, <1>6 DEF IInv

(* A piece of the value comes.                                             *)
LEMMA PieceIInv == ASSUME StreamAssumption, IInv, Piece PROVE IInv'
<1>1. /\ Answered /\ call' = Collected /\ UNCHANGED <<builder, log>>
      /\ it' = it /\ result' = result /\ scan' = scan /\ log' = log
  BY DEF Piece
<1>2. call # Idle /\ call \in Record /\ Len(log) \in Nat
  BY <1>1, LogIs DEF IInv, Shape, Answered
<1>3. /\ call' \in Record
      /\ call'.kind = call.kind /\ call'.key = call.key
      /\ call'.version = call.version /\ call'.found = call.found
      /\ call'.began = call.began
      /\ call'.seen \in 1 .. Len(log) /\ call.key \in DOMAIN log[call'.seen]
      /\ call'.size = Len(log[call'.seen][call.key])
      /\ Len(call'.data) <= call'.size
      /\ ~call'.crossed =>
            call'.data = SubSeq(log[call'.seen][call.key], 1, Len(call'.data))
      /\ call.kind # "read" => call'.seen = call.found /\ ~call'.crossed
  BY <1>1, CollectedIs DEF IInv
<1>4. /\ {call.version, call.found, call.began} \subseteq 0 .. Len(log)
      /\ call.kind # "read" =>
            /\ call.found # 0 /\ call.version = call.found
            /\ call.key \in DOMAIN log[call.found]
  BY <1>2 DEF IInv, CallSound
<1>5. CallSound'
  <2>1. {call'.version, call'.found, call'.seen, call'.began} \subseteq 0 .. Len(log')
        /\ call'.seen # 0
    BY <1>1, <1>2, <1>3, <1>4
  <2>2. QED
    BY <1>1, <1>3, <1>4, <2>1 DEF CallSound
<1>6. WritesAsked' /\ AskedIsFinite' /\ Kept /\ Shape'
  BY <1>1, <1>3, ClientKeeps DEF IInv, Shape
<1>7. ResultSound' /\ PairSound' /\ ScanSound'
  BY <1>1, <1>6, ResultKept, PairKept, ScanKept DEF IInv
<1>8. MoveSound'
  BY <1>1, <1>2, <1>3, <1>6, MoveKept DEF IInv
<1>9. QED
  BY <1>5, <1>6, <1>7, <1>8 DEF IInv

(* A call fails.                                                           *)
LEMMA CallFailsIInv == ASSUME StreamAssumption, IInv, CallFails PROVE IInv'
<1>1. /\ call' = Idle /\ UNCHANGED <<builder, log>>
      /\ it' = it /\ result' = result /\ scan' = scan
  BY DEF CallFails
<1>2. WritesAsked' /\ AskedIsFinite' /\ Kept /\ Shape'
  BY <1>1, ClientKeeps DEF IInv, Shape
<1>3. CallSound' /\ ResultSound' /\ PairSound' /\ MoveSound' /\ ScanSound'
  BY <1>1, <1>2, CallKept, ResultKept, PairKept, MoveKept, ScanKept DEF IInv
<1>4. QED
  BY <1>2, <1>3 DEF IInv

(* A value that is complete is the value of the version it was seen at.    *)
LEMMA CompleteIs ==
    ASSUME StreamAssumption, IInv, Answered, Complete, ~Collected.crossed
    PROVE  Collected.data = log[Collected.seen][call.key]
<1> DEFINE value == log[Collected.seen][call.key]
           c == Collected
<1>1. /\ c.seen \in 1 .. Len(log) /\ call.key \in DOMAIN log[c.seen]
      /\ c.size = Len(value) /\ c.data = SubSeq(value, 1, Len(c.data))
  BY CollectedIs DEF IInv
<1>2. Len(c.data) = c.size
  BY DEF Complete
<1>3. value \in Seq(Byte)
  BY <1>1, LogIs DEF IInv
<1> HIDE DEF value, c
<1>4. c.data = SubSeq(value, 1, Len(value))
  BY <1>1, <1>2
<1>5. c.data = value
  BY <1>3, <1>4, SubSeqFull
<1>6. QED
  BY <1>5 DEF value, c

(* get_value returns.                                                      *)
LEMMA ReadReturnsIInv == ASSUME StreamAssumption, IInv, ReadReturns PROVE IInv'
<1> DEFINE c == Collected
<1>1. /\ Answered /\ Complete /\ call' = Idle /\ UNCHANGED <<builder, log>>
      /\ result' = [key |-> call.key, version |-> c.seen, data |-> c.data,
                    began |-> IF call.version = Latest THEN call.began ELSE call.version,
                    crossed |-> c.crossed]
      /\ it' = it /\ scan' = scan /\ log' = log
  BY DEF ReadReturns
<1>2. /\ c \in Record /\ c.seen = VersionOf(call.key, call.version)
      /\ c.seen \in 1 .. Len(log) /\ call.key \in DOMAIN log[c.seen]
  BY <1>1, CollectedIs DEF IInv
<1>3. ~c.crossed => c.data = log[c.seen][call.key]
  BY <1>1, CompleteIs
<1> HIDE DEF c
<1>4. /\ call # Idle /\ call \in Record /\ call.key \in KeysAt(call.version)
      /\ call.version \in 0 .. Len(log) /\ call.began \in 0 .. Len(log)
      /\ Len(log) \in Nat
  BY <1>1, LogIs DEF Answered, IInv, Shape, CallSound
<1>5. \A i \in (c.seen + 1) .. result'.began : call.key \notin DOMAIN log[i]
  <2>1. \A i \in (c.seen + 1) .. Top(call.version) : call.key \notin DOMAIN log[i]
    BY <1>2, <1>4, VersionIs DEF IInv
  <2>2. Top(call.version) = IF call.version = Latest THEN Len(log) ELSE call.version
    BY DEF Top
  <2>3. result'.began = IF call.version = Latest THEN call.began ELSE call.version
    BY <1>1
  <2>4. result'.began <= Top(call.version) /\ result'.began \in Nat
        /\ Top(call.version) \in Nat
    BY <1>4, <2>2, <2>3
  <2>5. \A i \in (c.seen + 1) .. result'.began : i \in (c.seen + 1) .. Top(call.version)
    BY <1>2, <1>4, <2>4
  <2>6. QED
    BY <2>1, <2>5
<1>6. ResultSound'
  <2>1. /\ result'.key = call.key /\ result'.version = c.seen /\ result'.data = c.data
        /\ result'.crossed = c.crossed
        /\ result'.began = IF call.version = Latest THEN call.began ELSE call.version
    BY <1>1
  <2>2. result'.began \in 0 .. Len(log)
    BY <1>4, <2>1
  <2>3. call.key \in Key /\ c.data \in Seq(Byte)
    BY <1>2, <1>4 DEF Record
  <2>4. QED
    BY <1>1, <1>2, <1>3, <1>5, <2>1, <2>2, <2>3 DEF ResultSound
<1>7. WritesAsked' /\ AskedIsFinite' /\ Kept /\ Shape'
  BY <1>1, ClientKeeps DEF IInv, Shape
<1>8. CallSound' /\ PairSound' /\ MoveSound' /\ ScanSound'
  BY <1>1, <1>7, CallKept, PairKept, MoveKept, ScanKept DEF IInv
<1>9. QED
  BY <1>6, <1>7, <1>8 DEF IInv

----------------------------------------------------------------------------
(* The iterator.  A move that returns goes to the pair it has read.        *)
LEMMA PairReturned ==
    ASSUME StreamAssumption, IInv, MoveReturns
    PROVE  \E pair \in Pair :
              /\ pair = [key |-> call.key, version |-> call.found, data |-> Collected.data]
              /\ it' = [it EXCEPT !.pair = pair] /\ it'.pair = pair
              /\ it'.version = it.version
              /\ scan' = Scanned(call.kind, pair)
              /\ it'.pair # None /\ pair.key = call.key /\ pair.version = call.found
              /\ PairSound'
<1> DEFINE pair == [key |-> call.key, version |-> call.found, data |-> Collected.data]
<1>1. /\ Answered /\ Complete /\ call.kind # "read" /\ log' = log
      /\ it' = [it EXCEPT !.pair = pair] /\ scan' = Scanned(call.kind, pair)
  BY DEF MoveReturns
<1>2. /\ call # Idle /\ call \in Record /\ Len(log) \in Nat /\ Len(log) <= MaxLog
  BY <1>1, LogIs DEF Answered, IInv, Shape
<1>3. /\ Collected \in Record /\ Collected.seen = call.found /\ ~Collected.crossed
      /\ Collected.seen \in 1 .. Len(log) /\ call.key \in DOMAIN log[Collected.seen]
  BY <1>1, CollectedIs DEF IInv
<1>4. Collected.data = log[call.found][call.key]
  BY <1>1, <1>3, CompleteIs
<1>5. call.found \in 1 .. Len(log) /\ call.key \in DOMAIN log[call.found]
  BY <1>3
<1>6. pair \in Pair
  <2>1. call.found \in 1 .. MaxLog
    BY <1>2, <1>5 DEF StreamAssumption
  <2>2. call.key \in Key /\ Collected.data \in Seq(Byte)
    BY <1>2, <1>3 DEF Record
  <2>3. QED
    BY <2>1, <2>2 DEF Pair
<1>7. /\ pair.key = call.key /\ pair.version = call.found
      /\ pair.data = Collected.data
  OBVIOUS
<1>8. pair # None
  <2>1. DOMAIN pair = {"key", "version", "data"} /\ DOMAIN None = {"key"}
    BY DEF None
  <2>2. "data" \in {"key", "version", "data"} /\ "data" \notin {"key"}
    OBVIOUS
  <2>3. QED
    BY <2>1, <2>2
<1> HIDE DEF pair
<1>9. it'.pair = pair /\ it'.version = it.version
  BY <1>1 DEF IInv, Shape
<1>10. PairSound'
  BY <1>1, <1>4, <1>5, <1>7, <1>9 DEF PairSound
<1>11. QED
  BY <1>1, <1>6, <1>7, <1>8, <1>9, <1>10 DEF pair

(* A forward scan whose first move returns.                                *)
LEMMA ScanBegins ==
    ASSUME StreamAssumption, IInv, call # Idle, call.kind = "first", NEW pair \in Pair,
           pair.key = call.key, pair.version = call.found,
           it'.pair = pair, it'.version = it.version, log' = log,
           scan' = [state |-> "on", from |-> call.began, seen |-> << pair >>]
    PROVE  ScanSound'
<1>1. /\ \A k \in Domains(log, IF it.version = Latest THEN call.began ELSE it.version) :
            call.key <= k
      /\ AtVersion(call.key, call.found)
  BY DEF IInv, MoveSound
<1>2. /\ scan'.state = "on" /\ scan'.from = call.began /\ scan'.seen = << pair >>
      /\ Len(scan'.seen) = 1 /\ scan'.seen[1] = pair
  OBVIOUS
<1>3. Start' = IF it.version = Latest THEN call.began ELSE it.version
  BY <1>2 DEF Start
<1>4. scan'.seen # << >>
  BY <1>2
<1>5. \A i \in 1 .. Len(scan'.seen) : i = 1
  BY <1>2
<1>6. \A i, j \in 1 .. Len(scan'.seen) : i < j => scan'.seen[i].key < scan'.seen[j].key
  BY <1>2
<1>7. it.version # Latest =>
          pair.key \in Domains(log, it.version) /\ pair.version = LastOf(log, pair.key, it.version)
  BY <1>1 DEF AtVersion
<1>8. \A i \in 1 .. Len(scan'.seen) : it'.version # Latest =>
          /\ scan'.seen[i].key \in Domains(log', it'.version)
          /\ scan'.seen[i].version = LastOf(log', scan'.seen[i].key, it'.version)
  BY <1>2, <1>5, <1>7
<1>9. call.key \in Nat
  BY DEF Pair, StreamAssumption
<1>10. \A k \in Domains(log', Start') : k \in Nat
  <2>1. Start' \in 0 .. Len(log) /\ Len(log) \in Nat
    BY <1>3, StartIs DEF IInv, CallSound
  <2>2. QED
    BY <2>1, LogIs DEF IInv, Domains
<1>11. \A k \in Domains(log', Start') : k <= scan'.seen[Len(scan'.seen)].key =>
          \E i \in 1 .. Len(scan'.seen) : scan'.seen[i].key = k
  <2> SUFFICES ASSUME NEW k \in Domains(log', Start'), k <= pair.key
               PROVE  pair.key = k
    BY <1>2
  <2>1. call.key <= k
    BY <1>1, <1>3
  <2>2. QED
    BY <1>9, <1>10, <2>1
<1>12. QED
  BY <1>2, <1>4, <1>6, <1>8, <1>11 DEF ScanSound, AtVersion

(* A forward scan that goes on: its next pair is the next key.             *)
LEMMA ScanGoesOn ==
    ASSUME StreamAssumption, IInv, call # Idle, call.kind = "next", scan.state = "on",
           NEW pair \in Pair, pair.key = call.key, pair.version = call.found,
           it'.pair = pair, it'.version = it.version, log' = log,
           scan' = [scan EXCEPT !.seen = Append(@, pair)]
    PROVE  ScanSound'
<1> DEFINE n == Len(scan.seen)
<1>1. /\ scan.seen # << >> /\ it.pair = scan.seen[n]
      /\ \A i, j \in 1 .. n : i < j => scan.seen[i].key < scan.seen[j].key
      /\ \A i \in 1 .. n : AtVersion(scan.seen[i].key, scan.seen[i].version)
      /\ \A k \in Domains(log, Start) : k <= scan.seen[n].key =>
             \E i \in 1 .. n : scan.seen[i].key = k
  BY DEF IInv, ScanSound
<1>2. /\ it.pair.key < call.key /\ AtVersion(call.key, call.found)
      /\ \A k \in Domains(log, Start) : it.pair.key < k => call.key <= k
  BY DEF IInv, MoveSound
<1>3. /\ n \in Nat /\ scan.seen \in Seq(Pair) /\ \A i \in 1 .. n : scan.seen[i] \in Pair
      /\ Start \in 0 .. Len(log) /\ Len(log) \in Nat
  BY StartIs DEF IInv
<1>4. n # 0
  BY <1>1, <1>3, EmptySeq
<1>5. /\ scan'.seen = Append(scan.seen, pair) /\ scan'.state = "on"
      /\ scan'.from = scan.from
  BY DEF IInv, Shape
<1>6. /\ Len(scan'.seen) = n + 1 /\ scan'.seen[n + 1] = pair
      /\ \A i \in 1 .. n : scan'.seen[i] = scan.seen[i]
  BY <1>3, <1>5, AppendProperties
<1>7. Start' = Start
  BY <1>5 DEF Start
<1> HIDE DEF n
<1>8. \A i \in 1 .. Len(scan'.seen) : i \in 1 .. n \/ i = n + 1
  BY <1>3, <1>6
<1>9. \A q \in Pair : q.key \in Nat
  BY DEF Pair, StreamAssumption
<1>10. \A i \in 1 .. n : scan.seen[i].key < pair.key
  <2> SUFFICES ASSUME NEW i \in 1 .. n PROVE scan.seen[i].key < pair.key
    OBVIOUS
  <2>1. n \in 1 .. n /\ i \in Nat
    BY <1>3, <1>4
  <2>2. scan.seen[i].key \in Nat /\ scan.seen[n].key \in Nat /\ pair.key \in Nat
    BY <1>3, <1>9, <2>1
  <2>3. scan.seen[n].key < pair.key
    BY <1>1, <1>2
  <2>4. CASE i = n
    BY <2>3, <2>4
  <2>5. CASE i < n
    <3>1. scan.seen[i].key < scan.seen[n].key
      BY <1>1, <2>1, <2>5
    <3>2. QED
      BY <2>2, <2>3, <3>1
  <2>6. QED
    BY <1>3, <2>1, <2>4, <2>5
<1>11. ASSUME NEW i \in 1 .. Len(scan'.seen), NEW j \in 1 .. Len(scan'.seen), i < j
       PROVE  scan'.seen[i].key < scan'.seen[j].key
  <2>1. i \in 1 .. n
    BY <1>3, <1>6, <1>11
  <2>2. CASE j \in 1 .. n
    BY <1>1, <1>6, <1>11, <2>1, <2>2
  <2>3. CASE j = n + 1
    BY <1>6, <1>10, <2>1, <2>3
  <2>4. QED
    BY <1>8, <2>2, <2>3
<1>12. ASSUME NEW i \in 1 .. Len(scan'.seen), it'.version # Latest
       PROVE  /\ scan'.seen[i].key \in Domains(log', it'.version)
              /\ scan'.seen[i].version = LastOf(log', scan'.seen[i].key, it'.version)
  <2>1. CASE i \in 1 .. n
    BY <1>1, <1>6, <1>12, <2>1 DEF AtVersion
  <2>2. CASE i = n + 1
    BY <1>2, <1>6, <1>12, <2>2 DEF AtVersion
  <2>3. QED
    BY <1>8, <2>1, <2>2
<1>13. ASSUME NEW k \in Domains(log', Start'), k <= scan'.seen[Len(scan'.seen)].key
       PROVE  \E i \in 1 .. Len(scan'.seen) : scan'.seen[i].key = k
  <2>1. k \in Domains(log, Start) /\ k <= pair.key
    BY <1>6, <1>7, <1>13
  <2>2. k \in Nat
    <3>1. PICK i \in 1 .. Start : k \in DOMAIN log[i]
      BY <2>1 DEF Domains
    <3>2. i \in 1 .. Len(log)
      BY <1>3
    <3>3. QED
      BY <3>1, <3>2, LogIs DEF IInv
  <2>3. n \in 1 .. n /\ n + 1 \in 1 .. Len(scan'.seen)
        /\ \A i \in 1 .. n : i \in 1 .. Len(scan'.seen)
    BY <1>3, <1>4, <1>6
  <2>4. scan.seen[n].key \in Nat /\ pair.key \in Nat
    BY <1>3, <1>9, <2>3
  <2>5. CASE k <= scan.seen[n].key
    <3>1. PICK i \in 1 .. n : scan.seen[i].key = k
      BY <1>1, <2>1, <2>5
    <3>2. QED
      BY <1>6, <2>3, <3>1
  <2>6. CASE scan.seen[n].key < k
    <3>1. pair.key <= k
      BY <1>1, <1>2, <2>1, <2>6
    <3>2. pair.key = k
      BY <2>1, <2>2, <2>4, <3>1
    <3>3. QED
      BY <1>6, <2>3, <3>2
  <2>7. QED
    BY <2>2, <2>4, <2>5, <2>6, SMTT(30)
<1>14. scan'.seen # << >> /\ it'.pair = scan'.seen[Len(scan'.seen)]
  <2>1. scan'.seen # << >>
    BY <1>3, <1>6, EmptySeq
  <2>2. QED
    BY <1>6, <2>1
<1>15. QED
  BY <1>5, <1>11, <1>12, <1>13, <1>14 DEF ScanSound, AtVersion

(* No scan is under way.                                                   *)
LEMMA NoScanSound ==
    ASSUME StreamAssumption, scan' = NoScan
    PROVE  ScanSound'
<1>1. scan'.state = "off"
  BY DEF NoScan
<1>2. QED
  BY <1>1 DEF ScanSound

(* _move returns the pair, and a forward scan has one pair more.           *)
LEMMA MoveReturnsIInv == ASSUME StreamAssumption, IInv, MoveReturns PROVE IInv'
<1>1. /\ Answered /\ call.kind # "read" /\ call' = Idle /\ UNCHANGED <<builder, log>>
      /\ result' = result /\ log' = log
  BY DEF MoveReturns
<1>2. PICK pair \in Pair :
        /\ it' = [it EXCEPT !.pair = pair] /\ it'.pair = pair /\ it'.version = it.version
        /\ scan' = Scanned(call.kind, pair)
        /\ pair.key = call.key /\ pair.version = call.found /\ PairSound'
  BY PairReturned
<1>3. /\ call # Idle /\ call.began \in 0 .. Len(log)
      /\ it.version \in 0 .. Len(log) /\ scan.seen \in Seq(Pair)
      /\ scan.from \in 0 .. Len(log)
  BY <1>1, StartIs DEF Answered, IInv, CallSound
<1>4. it' \in [version : 0 .. Len(log), pair : {None} \cup Pair]
  BY <1>2 DEF IInv, Shape
<1>5. /\ scan' \in [state : {"off", "on", "done"}, from : 0 .. Len(log), seen : Seq(Pair)]
      /\ ScanSound'
  <2>1. CASE call.kind = "first"
    <3>1. scan' = [state |-> "on", from |-> call.began, seen |-> << pair >>]
      BY <1>2, <2>1 DEF Scanned
    <3>2. << pair >> \in Seq(Pair)
      OBVIOUS
    <3>3. scan' \in [state : {"off", "on", "done"}, from : 0 .. Len(log), seen : Seq(Pair)]
      BY <1>3, <3>1, <3>2
    <3>4. ScanSound'
      BY <1>1, <1>2, <1>3, <2>1, <3>1, ScanBegins
    <3>5. QED
      BY <3>3, <3>4
  <2>2. CASE call.kind = "next" /\ scan.state = "on"
    <3>1. scan' = [scan EXCEPT !.seen = Append(@, pair)]
      BY <1>2, <2>2 DEF Scanned
    <3>2. Append(scan.seen, pair) \in Seq(Pair)
      BY <1>3, AppendProperties
    <3>3. scan' \in [state : {"off", "on", "done"}, from : 0 .. Len(log), seen : Seq(Pair)]
      BY <3>1, <3>2 DEF IInv, Shape
    <3>4. ScanSound'
      BY <1>1, <1>2, <1>3, <2>2, <3>1, ScanGoesOn
    <3>5. QED
      BY <3>3, <3>4
  <2>3. CASE call.kind # "first" /\ ~(call.kind = "next" /\ scan.state = "on")
    <3>1. scan' = NoScan
      BY <1>2, <2>3 DEF Scanned
    <3>2. << >> \in Seq(Pair) /\ 0 \in 0 .. Len(log)
      BY EmptySeq, LogIs DEF IInv
    <3>3. scan' \in [state : {"off", "on", "done"}, from : 0 .. Len(log), seen : Seq(Pair)]
      BY <3>1, <3>2 DEF NoScan
    <3>4. QED
      BY <3>1, <3>3, NoScanSound
  <2>4. QED
    BY <2>1, <2>2, <2>3
<1>6. WritesAsked' /\ AskedIsFinite' /\ Kept /\ Shape'
  BY <1>1, <1>4, <1>5, ClientKeeps
<1>7. CallSound' /\ ResultSound' /\ MoveSound'
  BY <1>1, <1>6, ResultKept DEF IInv, CallSound, MoveSound
<1>8. QED
  BY <1>2, <1>5, <1>6, <1>7 DEF IInv

(* A new iterator is at no pair.                                           *)
LEMMA NewIteratorIInv ==
    ASSUME StreamAssumption, IInv, NEW version \in 0 .. MaxLog, NewIterator(version)
    PROVE  IInv'
<1>1. /\ call = Idle /\ call' = call /\ UNCHANGED <<builder, log>> /\ result' = result
      /\ version \in 0 .. Len(log) /\ it' = [version |-> version, pair |-> None]
      /\ scan' = NoScan
  BY DEF NewIterator
<1>2. << >> \in Seq(Pair) /\ 0 \in 0 .. Len(log)
  BY EmptySeq, LogIs DEF IInv
<1>3. scan' \in [state : {"off", "on", "done"}, from : 0 .. Len(log), seen : Seq(Pair)]
  BY <1>1, <1>2 DEF NoScan
<1>4. it' \in [version : 0 .. Len(log), pair : {None} \cup Pair] /\ it'.pair = None
  BY <1>1
<1>5. WritesAsked' /\ AskedIsFinite' /\ Kept /\ Shape'
  BY <1>1, <1>3, <1>4, ClientKeeps
<1>6. CallSound' /\ ResultSound' /\ MoveSound' /\ PairSound'
  BY <1>1, <1>4, <1>5, ResultKept DEF IInv, CallSound, MoveSound, PairSound
<1>7. QED
  BY <1>1, <1>5, <1>6, NoScanSound DEF IInv

(* The keys of a version are keys that were asked for: they are bounded.   *)
LEMMA KeysBounded ==
    ASSUME StreamAssumption, Shape, AskedIsFinite, NEW version \in 0 .. Len(log)
    PROVE  /\ \A k \in KeysAt(version) : k \in Key /\ k \in Nat
           /\ \E b \in Nat : \A k \in KeysAt(version) : k <= b
<1>1. Top(version) \in 0 .. Len(log) /\ Len(log) \in Nat
  BY VersionsAre, LogIs
<1>2. PICK b \in Nat : \A k \in Key : asked[k].ids # {} => k <= b
  BY DEF AskedIsFinite
<1>3. ASSUME NEW k \in KeysAt(version)
      PROVE  k \in Key /\ k \in Nat /\ k <= b
  <2>1. PICK i \in 1 .. Top(version) : k \in DOMAIN log[i]
    BY DEF KeysAt
  <2>2. i \in 1 .. Len(log)
    BY <1>1
  <2>3. k \in Key /\ k \in Nat
    BY <2>1, <2>2, LogIs
  <2>4. asked[k].ids # {}
    BY <2>1, <2>2 DEF AskedIsFinite
  <2>5. QED
    BY <1>2, <2>3, <2>4
<1>4. QED
  BY <1>3

(* A move goes to the least or the greatest of the keys.                   *)
LEMMA EndOfKeys ==
    ASSUME StreamAssumption, IInv, NEW keys \in SUBSET KeysAt(it.version), keys # {},
           NEW ascending \in BOOLEAN
    PROVE  LET k == IF ascending THEN Min(keys) ELSE Max(keys)
           IN  k \in keys /\ (ascending => \A j \in keys : k <= j)
<1>1. it.version \in 0 .. Len(log)
  BY StartIs DEF IInv
<1>2. /\ \A k \in KeysAt(it.version) : k \in Key /\ k \in Nat
      /\ \E b \in Nat : \A k \in KeysAt(it.version) : k <= b
  BY <1>1, KeysBounded DEF IInv
<1>3. keys \in SUBSET Nat
  BY <1>2
<1>4. PICK b \in Nat : \A k \in keys : k <= b
  BY <1>2
<1>5. CASE ascending
  BY <1>3, <1>5, MinIs
<1>6. CASE ~ascending
  BY <1>3, <1>4, <1>6, MaxIs
<1>7. QED
  BY <1>5, <1>6

(* A scan that has no further key has passed all that were there.          *)
LEMMA ScanEnds ==
    ASSUME StreamAssumption, IInv, NEW move, NEW keys,
           move = "first" => keys = KeysAt(it.version),
           move = "next" =>
               it.pair # None /\ keys = {j \in KeysAt(it.version) : j > it.pair.key},
           keys = {}, it' = [it EXCEPT !.pair = None], scan' = Exhausted(move), log' = log
    PROVE  /\ scan' \in [state : {"off", "on", "done"}, from : 0 .. Len(log), seen : Seq(Pair)]
           /\ it'.version = it.version /\ it'.pair = None
           /\ ScanSound'
<1> DEFINE n == Len(scan.seen)
           Scans == [state : {"off", "on", "done"}, from : 0 .. Len(log), seen : Seq(Pair)]
<1>1. it'.version = it.version /\ it'.pair = None
  BY DEF IInv, Shape
<1>2. /\ it.version \in 0 .. Len(log) /\ Len(log) \in Nat /\ Start \in 0 .. Len(log)
      /\ n \in Nat /\ scan.seen \in Seq(Pair) /\ \A i \in 1 .. n : scan.seen[i] \in Pair
      /\ scan \in Scans
  BY StartIs DEF IInv, Shape
<1>3. /\ KeysAt(it.version) = Domains(log, Top(it.version))
      /\ Top(it.version) \in 0 .. Len(log)
      /\ it.version # Latest => Top(it.version) = it.version
      /\ it.version = Latest => Top(it.version) = Len(log)
  BY <1>2, VersionsAre DEF IInv, Top
<1>4. << >> \in Seq(Pair) /\ Len(<< >>) = 0 /\ Len(log) \in 0 .. Len(log) /\ 0 \in 0 .. Len(log)
  BY <1>2, EmptySeq
<1> HIDE DEF n
<1>5. CASE move = "first"
  <2>1. /\ scan' = [state |-> "done", from |-> Len(log), seen |-> << >>]
        /\ scan'.state = "done" /\ scan'.from = Len(log) /\ scan'.seen = << >>
    BY <1>5 DEF Exhausted
  <2>2. Start' = Top(it.version)
    BY <1>1, <1>3, <2>1 DEF Start
  <2>3. Domains(log', Start') = {}
    BY <1>3, <1>5, <2>2
  <2>4. \A i \in 1 .. Len(scan'.seen) : FALSE
    BY <1>4, <2>1
  <2>5. ScanSound'
    BY <2>1, <2>3, <2>4 DEF ScanSound
  <2>6. scan' \in Scans
    BY <1>4, <2>1
  <2>7. QED
    BY <1>1, <2>5, <2>6
<1>6. CASE move = "next" /\ scan.state = "on"
  <2>1. scan' = [scan EXCEPT !.state = "done"]
    BY <1>6 DEF Exhausted
  <2>2. scan'.state = "done" /\ scan'.from = scan.from /\ scan'.seen = scan.seen
        /\ scan' \in Scans
    BY <1>2, <2>1
  <2>3. /\ scan.seen # << >> /\ it.pair = scan.seen[n]
        /\ \A i, j \in 1 .. n : i < j => scan.seen[i].key < scan.seen[j].key
        /\ \A i \in 1 .. n : AtVersion(scan.seen[i].key, scan.seen[i].version)
        /\ \A k \in Domains(log, Start) : k <= scan.seen[n].key =>
               \E i \in 1 .. n : scan.seen[i].key = k
    BY <1>6 DEF IInv, ScanSound, n
  <2>4. n \in 1 .. n
    <3>1. n # 0
      BY <1>2, <2>3, EmptySeq DEF n
    <3>2. QED
      BY <1>2, <3>1
  <2>5. Start' = Start
    BY <1>1, <2>2 DEF Start
  <2>6. \A k \in Domains(log, Start) : k \in KeysAt(it.version) /\ k \in Nat
    <3>1. Start <= Top(it.version)
      BY <1>2, <1>3 DEF Start
    <3>2. \A i \in 1 .. Start : i \in 1 .. Top(it.version)
      BY <1>2, <1>3, <3>1
    <3>3. \A k \in Domains(log, Start) : k \in KeysAt(it.version)
      BY <1>3, <3>2 DEF Domains
    <3>4. QED
      BY <1>2, <3>3, KeysBounded DEF IInv
  <2>7. scan.seen[n].key \in Nat
    BY <1>2, <2>4 DEF Pair, StreamAssumption
  <2>8. \A k \in Domains(log, Start) : \E i \in 1 .. n : scan.seen[i].key = k
    <3> SUFFICES ASSUME NEW k \in Domains(log, Start)
                 PROVE  \E i \in 1 .. n : scan.seen[i].key = k
      OBVIOUS
    <3>1. ~(k > scan.seen[n].key) /\ k \in Nat
      BY <1>6, <2>3, <2>6
    <3>2. QED
      BY <2>3, <2>7, <3>1
  <2>9. \A i \in 1 .. n : it'.version # Latest =>
           /\ scan'.seen[i].key \in Domains(log', it'.version)
           /\ scan'.seen[i].version = LastOf(log', scan'.seen[i].key, it'.version)
    BY <1>1, <2>2, <2>3 DEF AtVersion
  <2>10. ScanSound'
    BY <2>2, <2>3, <2>5, <2>8, <2>9 DEF ScanSound, AtVersion, n
  <2>11. QED
    BY <1>1, <2>2, <2>10
<1>7. CASE move # "first" /\ ~(move = "next" /\ scan.state = "on")
  <2>1. scan' = NoScan
    BY <1>7 DEF Exhausted
  <2>2. scan' \in Scans
    BY <1>4, <2>1 DEF NoScan
  <2>3. QED
    BY <1>1, <2>1, <2>2, NoScanSound
<1>8. QED
  BY <1>5, <1>6, <1>7

(* The node's answer to a move: the pair's value is read next, or the      *)
(* iterator is at no pair.                                                 *)
LEMMA MoveIInv ==
    ASSUME StreamAssumption, IInv,
           NEW move \in {"first", "last", "after", "before", "next", "prev"},
           NEW keys \in SUBSET KeysAt(it.version), NEW ascending \in BOOLEAN,
           move = "first" => keys = KeysAt(it.version) /\ ascending,
           move = "next" => /\ it.pair # None /\ ascending
                            /\ keys = {j \in KeysAt(it.version) : j > it.pair.key},
           Move(move, keys, ascending)
    PROVE  IInv'
<1>1. call = Idle /\ result' = None /\ UNCHANGED <<builder, log>> /\ log' = log
  BY DEF Move
<1>2. it.version \in 0 .. Len(log) /\ Len(log) \in Nat
  BY StartIs DEF IInv
<1>3. CASE keys = {}
  <2>1. it' = [it EXCEPT !.pair = None] /\ scan' = Exhausted(move) /\ call' = call
    BY <1>3 DEF Move
  <2>2. /\ scan' \in [state : {"off", "on", "done"}, from : 0 .. Len(log), seen : Seq(Pair)]
        /\ it'.pair = None /\ ScanSound'
    BY <1>1, <1>3, <2>1, ScanEnds
  <2>3. it' \in [version : 0 .. Len(log), pair : {None} \cup Pair]
    BY <2>1 DEF IInv, Shape
  <2>4. WritesAsked' /\ AskedIsFinite' /\ Kept /\ Shape'
    BY <1>1, <2>1, <2>2, <2>3, ClientKeeps
  <2>5. CallSound' /\ ResultSound' /\ MoveSound' /\ PairSound'
    BY <1>1, <2>1, <2>2 DEF CallSound, ResultSound, MoveSound, PairSound
  <2>6. QED
    BY <2>2, <2>4, <2>5 DEF IInv
<1>4. CASE keys # {}
  <2> DEFINE k == IF ascending THEN Min(keys) ELSE Max(keys)
             v == VersionOf(k, it.version)
  <2>1. call' = GetValue(move, k, v, v) /\ it' = it /\ scan' = scan
    BY <1>4 DEF Move
  <2>2. k \in keys /\ (ascending => \A j \in keys : k <= j)
    BY <1>4, EndOfKeys
  <2> HIDE DEF k
  <2>3. k \in KeysAt(it.version)
    BY <2>2
  <2>4. /\ v \in 1 .. Top(it.version) /\ Top(it.version) \in 1 .. Len(log)
        /\ k \in DOMAIN log[v]
    BY <1>2, <2>3, VersionIs DEF IInv
  <2>5. /\ KeysAt(it.version) = Domains(log, Top(it.version))
        /\ v = LastOf(log, k, Top(it.version))
        /\ it.version # Latest => Top(it.version) = it.version
        /\ it.version = Latest => Top(it.version) = Len(log)
    BY <1>2, VersionsAre DEF IInv, Top
  <2> HIDE DEF v
  <2>6. v \in 0 .. Len(log) /\ v # 0 /\ k \in Key /\ k \in Nat
    <3>1. v \in 0 .. Len(log) /\ v # 0
      BY <1>2, <2>4
    <3>2. QED
      BY <1>2, <2>3, <3>1, KeysBounded DEF IInv
  <2>7. /\ call' \in Record /\ call' # Idle /\ CallSound'
        /\ call'.kind = move /\ call'.key = k /\ call'.found = v
        /\ call'.began = Len(log)
    BY <1>1, <2>1, <2>4, <2>6, NewCall DEF IInv
  <2>8. WritesAsked' /\ AskedIsFinite' /\ Kept /\ Shape'
    BY <1>1, <2>1, <2>7, ClientKeeps DEF IInv, Shape
  <2>9. ResultSound' /\ PairSound' /\ ScanSound'
    BY <1>1, <2>1, <2>8, ResultKept, PairKept, ScanKept DEF IInv
  <2>10. it'.version # Latest =>
            call'.key \in Domains(log', it'.version)
            /\ call'.found = LastOf(log', call'.key, it'.version)
    BY <1>1, <2>1, <2>3, <2>5, <2>7
  <2>11. CASE move = "first"
    <3>1. Top(it.version) = IF it'.version = Latest THEN call'.began ELSE it'.version
      BY <2>1, <2>5, <2>7
    <3>2. \A j \in Domains(log', IF it'.version = Latest THEN call'.began ELSE it'.version) :
             call'.key <= j
      BY <1>1, <2>2, <2>5, <2>7, <2>11, <3>1
    <3>3. QED
      BY <2>7, <2>8, <2>9, <2>10, <2>11, <3>2 DEF IInv, MoveSound, AtVersion
  <2>12. CASE move = "next"
    <3>1. it'.pair # None /\ it'.pair.key < call'.key
      <4>1. it.pair # None /\ k > it.pair.key
        BY <2>2, <2>12
      <4>2. it.pair.key \in Nat
        BY <4>1 DEF IInv, Shape, Pair, StreamAssumption
      <4>3. QED
        BY <2>1, <2>6, <2>7, <4>1, <4>2
    <3>2. \A j \in Domains(log', Start') : it'.pair.key < j => call'.key <= j
      <4> SUFFICES ASSUME NEW j \in Domains(log, Start), it.pair.key < j
                   PROVE  k <= j
        BY <1>1, <2>1, <2>7 DEF Start
      <4>1. Start \in 0 .. Len(log) /\ Start <= Top(it.version)
        BY <1>2, <2>4, <2>5, StartIs DEF IInv, Start
      <4>2. \A i \in 1 .. Start : i \in 1 .. Top(it.version)
        BY <1>2, <2>4, <4>1
      <4>3. j \in KeysAt(it.version)
        BY <2>5, <4>2 DEF Domains
      <4>4. j > it.pair.key
        OBVIOUS
      <4>5. j \in keys
        BY <2>12, <4>3, <4>4
      <4>6. QED
        BY <2>2, <2>12, <4>5
    <3>3. QED
      BY <2>7, <2>8, <2>9, <2>10, <2>12, <3>1, <3>2 DEF IInv, MoveSound, AtVersion
  <2>13. CASE move \notin {"first", "next"}
    <3>1. MoveSound'
      BY <2>7, <2>13 DEF MoveSound
    <3>2. QED
      BY <2>7, <2>8, <2>9, <3>1 DEF IInv
  <2>14. QED
    BY <2>11, <2>12, <2>13
<1>5. QED
  BY <1>3, <1>4

(* The moves.                                                              *)
LEMMA MovesIInv ==
    ASSUME StreamAssumption, IInv,
           \/ SeekToFirst \/ SeekToLast \/ StepNext \/ StepPrev
           \/ \E k \in Key : SeekAfter(k) \/ SeekBefore(k)
    PROVE  IInv'
<1>1. CASE SeekToFirst
  BY <1>1, MoveIInv DEF SeekToFirst
<1>2. CASE SeekToLast
  BY <1>2, MoveIInv DEF SeekToLast
<1>3. CASE StepNext
  <2> DEFINE keys == {j \in KeysAt(it.version) : j > it.pair.key}
  <2>1. keys \in SUBSET KeysAt(it.version) /\ it.pair # None /\ Move("next", keys, TRUE)
    BY <1>3 DEF StepNext
  <2>2. QED
    BY <2>1, MoveIInv
<1>4. CASE StepPrev
  <2> DEFINE keys == {j \in KeysAt(it.version) : j < it.pair.key}
  <2>1. keys \in SUBSET KeysAt(it.version) /\ Move("prev", keys, FALSE)
    BY <1>4 DEF StepPrev
  <2> HIDE DEF keys
  <2>2. QED
    BY <2>1, MoveIInv
<1>5. ASSUME NEW k \in Key, SeekAfter(k) PROVE IInv'
  <2> DEFINE keys == {j \in KeysAt(it.version) : j >= k}
  <2>1. keys \in SUBSET KeysAt(it.version) /\ Move("after", keys, TRUE)
    BY <1>5 DEF SeekAfter
  <2> HIDE DEF keys
  <2>2. QED
    BY <2>1, MoveIInv
<1>6. ASSUME NEW k \in Key, SeekBefore(k) PROVE IInv'
  <2> DEFINE keys == {j \in KeysAt(it.version) : j <= k}
  <2>1. keys \in SUBSET KeysAt(it.version) /\ Move("before", keys, FALSE)
    BY <1>6 DEF SeekBefore
  <2> HIDE DEF keys
  <2>2. QED
    BY <2>1, MoveIInv
<1>7. QED
  BY <1>1, <1>2, <1>3, <1>4, <1>5, <1>6

(* Every step keeps the invariant.                                         *)
LEMMA NextIInv == ASSUME StreamAssumption, IInv, [Next]_vars PROVE IInv'
<1>1. CASE UNCHANGED vars
  <2>1. /\ UNCHANGED <<builder, log>> /\ log' = log
        /\ it' = it /\ call' = call /\ result' = result /\ scan' = scan
    BY <1>1 DEF vars
  <2>2. WritesAsked' /\ AskedIsFinite' /\ Kept /\ Shape'
    BY <2>1, ClientKeeps DEF IInv, Shape
  <2>3. CallSound' /\ ResultSound' /\ PairSound' /\ MoveSound' /\ ScanSound'
    BY <2>1, <2>2, CallKept, ResultKept, PairKept, MoveKept, ScanKept DEF IInv
  <2>4. QED
    BY <2>2, <2>3 DEF IInv
<1>2. ASSUME NEW id \in StreamId, NEW k \in Key, NEW d \in Data, Set(id, k, d)
      PROVE  IInv'
  BY <1>2, SetIInv
<1>3. CASE Exec
  BY <1>3, ExecIInv
<1>4. ASSUME NEW k \in Key, NEW version \in 0 .. MaxLog, Read(k, version) PROVE IInv'
  BY <1>4, ReadIInv
<1>5. CASE Piece
  BY <1>5, PieceIInv
<1>6. CASE ReadReturns
  BY <1>6, ReadReturnsIInv
<1>7. CASE CallFails
  BY <1>7, CallFailsIInv
<1>8. ASSUME NEW version \in 0 .. MaxLog, NewIterator(version) PROVE IInv'
  BY <1>8, NewIteratorIInv
<1>9. CASE \/ SeekToFirst \/ SeekToLast \/ StepNext \/ StepPrev
           \/ \E k \in Key : SeekAfter(k) \/ SeekBefore(k)
  BY <1>9, MovesIInv
<1>10. CASE MoveReturns
  BY <1>10, MoveReturnsIInv
<1>11. QED
  BY <1>1, <1>2, <1>3, <1>4, <1>5, <1>6, <1>7, <1>8, <1>9, <1>10 DEF Next

----------------------------------------------------------------------------
(* The invariant.                                                          *)
THEOREM Invariance == Spec => []IInv
<1>1. Init => IInv
  BY StreamAssumption, InitIInv
<1>2. IInv /\ [Next]_vars => IInv'
  BY StreamAssumption, NextIInv
<1>3. QED
  BY <1>1, <1>2, PTL DEF Spec

(* Keys, versions and values are of their types: no call, pair, result or  *)
(* scan names a version that the log does not have.                        *)
THEOREM TypeCorrect == Spec => []TypeOK
<1>1. IInv => TypeOK
  <2> SUFFICES ASSUME IInv PROVE TypeOK
    OBVIOUS
  <2>1. /\ DOMAIN log = 1 .. Len(log) /\ Len(log) \in Nat /\ Len(log) <= MaxLog
        /\ \A i \in 1 .. Len(log) : log[i] \in Batch
    BY StreamAssumption, LogIs, ElementOfSeq DEF IInv, Shape
  <2>2. \A i \in DOMAIN log : DOMAIN log[i] \subseteq Key /\ Range(log[i]) \subseteq Data
    <3> SUFFICES ASSUME NEW i \in DOMAIN log
                 PROVE  DOMAIN log[i] \subseteq Key /\ Range(log[i]) \subseteq Data
      OBVIOUS
    <3>1. PICK K \in SUBSET Key : log[i] \in [K -> Data]
      BY <2>1 DEF Batch
    <3>2. QED
      BY <3>1 DEF Range
  <2>3. \A k \in Key : asked[k].ids \subseteq StreamId
    BY DEF IInv, Shape
  <2>4. it.version \in 0 .. Len(log) /\ (it.pair = None \/ it.pair \in Pair)
        /\ scan.from \in 0 .. Len(log)
    BY DEF IInv, Shape
  <2>5. result # None => [f \in {"key", "version", "data"} |-> result[f]] \in Pair
    <3> SUFFICES ASSUME result # None
                 PROVE  [f \in {"key", "version", "data"} |-> result[f]] \in Pair
      OBVIOUS
    <3>1. /\ result.key \in Key /\ result.version \in 1 .. Len(log)
          /\ result.data \in Seq(Byte)
      BY DEF IInv, ResultSound
    <3>2. result.version \in 1 .. MaxLog
      BY <2>1, <3>1, StreamAssumption DEF StreamAssumption
    <3>3. QED
      BY <3>1, <3>2 DEF Pair
  <2>6. call # Idle => /\ call.key \in Key /\ call.found \in 0 .. Len(log)
                       /\ Len(call.data) <= call.size
    BY DEF IInv, Shape, CallSound, Record
  <2>7. QED
    BY <2>2, <2>3, <2>4, <2>5, <2>6 DEF TypeOK
<1>2. QED
  BY <1>1, Invariance, PTL

(* get_value returns a whole value that is no older than its call, and a   *)
(* pair of the iterator has the value of its version, whatever comes into  *)
(* the log between the pieces: for values and pieces of every size.        *)
THEOREM ReadsAreWhole == Spec => []ReadIsWhole
<1>1. IInv => ReadIsWhole
  BY DEF IInv, ResultSound, PairSound, ReadIsWhole
<1>2. QED
  BY <1>1, Invariance, PTL

(* A forward scan passes over no key that was there when it began and      *)
(* stays at its version, for any number of keys and of batches in between. *)
THEOREM ScansAreSnapshots == Spec => []ScanIsSnapshot
<1>1. IInv => ScanIsSnapshot
  <2> SUFFICES ASSUME IInv, scan.state # "off" PROVE ScanIsSnapshot
    BY DEF ScanIsSnapshot
  <2> DEFINE seen == scan.seen
             n == Len(seen)
  <2>1. /\ \A i, j \in 1 .. n : i < j => seen[i].key < seen[j].key
        /\ \A i \in 1 .. n : AtVersion(seen[i].key, seen[i].version)
        /\ \A k \in Domains(log, Start) :
              scan.state = "done" \/ k <= seen[n].key => \E i \in 1 .. n : seen[i].key = k
    BY DEF IInv, ScanSound
  <2>2. n \in Nat /\ DOMAIN seen = 1 .. n /\ it.version \in 0 .. Len(log)
    BY StreamAssumption, StartIs, LenProperties DEF IInv
  <2>3. ASSUME NEW i \in 2 .. n PROVE seen[i - 1].key < seen[i].key
    <3>1. i - 1 \in 1 .. n /\ i \in 1 .. n /\ i - 1 < i
      BY <2>2
    <3>2. QED
      BY <2>1, <3>1
  <2>4. \A k \in UNION {DOMAIN log[i] : i \in 1 .. Start} :
           (scan.state = "done" \/ k <= seen[n].key)
               => \E i \in DOMAIN seen : seen[i].key = k
    BY <2>1, <2>2 DEF Domains
  <2>5. ASSUME it.version # Latest, NEW i \in DOMAIN seen
        PROVE  /\ seen[i].key \in KeysAt(it.version)
               /\ seen[i].version = VersionOf(seen[i].key, it.version)
    <3>1. /\ Top(it.version) = it.version
          /\ KeysAt(it.version) = Domains(log, it.version)
          /\ VersionOf(seen[i].key, it.version) = LastOf(log, seen[i].key, it.version)
      BY <2>2, <2>5, StreamAssumption, VersionsAre DEF IInv
    <3>2. AtVersion(seen[i].key, seen[i].version)
      BY <2>1, <2>2, <2>5
    <3>3. QED
      BY <2>5, <3>1, <3>2 DEF AtVersion
  <2>6. QED
    BY <2>3, <2>4, <2>5 DEF ScanIsSnapshot, Start
<1>2. QED
  BY <1>1, Invariance, PTL

(* A batch in the log has every key that was set, each with the data set   *)
(* last, for every number and order of calls of set.                       *)
THEOREM BatchesAreAsked == Spec => BatchIsAsked
<1> DEFINE Has(batch) ==
               /\ DOMAIN batch = {k \in Key : asked[k].ids # {}}
               /\ \A k \in DOMAIN batch :
                     Cardinality(asked[k].ids) = 1 => batch[k] = asked[k].data
<1>1. IInv /\ [Next]_vars => [log' # log => Has(log'[Len(log')])]_vars
  <2> SUFFICES ASSUME IInv, [Next]_vars, log' # log PROVE Has(log'[Len(log')])
    OBVIOUS
  <2>1. Exec
    BY DEF Next, vars, Set, Read, Piece, ReadReturns, CallFails, NewIterator, SeekToFirst,
           SeekToLast, StepNext, StepPrev, SeekAfter, SeekBefore, Move, MoveReturns
  <2> DEFINE r == Replayed(Encode(Build))
  <2>2. log' = Append(log, r)
    BY <2>1 DEF Exec
  <2>3. /\ r \in Batch /\ DOMAIN r = {k \in Key : asked[k].ids # {}}
        /\ \A k \in DOMAIN r : \A id : asked[k].ids = {id} => r[k] = asked[k].data
    BY StreamAssumption, BatchHas DEF IInv
  <2> HIDE DEF r
  <2>4. log'[Len(log')] = r
    BY <2>2, <2>3, StreamAssumption, LogGrows DEF IInv
  <2>5. ASSUME NEW k \in DOMAIN r, Cardinality(asked[k].ids) = 1
        PROVE  r[k] = asked[k].data
    <3>1. IsFiniteSet(asked[k].ids)
      BY <2>3, <2>5 DEF IInv, AskedIsFinite
    <3>2. PICK id : asked[k].ids = {id}
      BY <2>5, <3>1, FS_Singleton
    <3>3. QED
      BY <2>3, <3>2
  <2>6. QED
    BY <2>3, <2>4, <2>5
<1>2. QED
  BY <1>1, Invariance, PTL DEF Spec, BatchIsAsked
=============================================================================
