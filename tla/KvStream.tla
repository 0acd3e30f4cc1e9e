------------------------------ MODULE KvStream ------------------------------
(***************************************************************************)
(* A key-value stream of the storage SDK: one Batcher that writes it, one  *)
(* KvClient that reads it, by get_value and by a KvIterator, while batches *)
(* arrive (core/kv/*.py, core/storage_kv.py).                              *)
(*                                                                         *)
(* The KV node is external.  It replays the batches that reach the log; a  *)
(* version is the number of batches replayed, and a key's version is that  *)
(* of the last batch that writes it.  Each of its answers is one step; the *)
(* client is between two answers in between.                               *)
(***************************************************************************)
EXTENDS Integers, SequencesExt, FiniteSetsExt

CONSTANTS
    StreamId,        \* the spellings of the stream's id: strings, for the builder
    Key,             \* naturals: the node orders keys as byte strings
    Data,            \* sequences of bytes
    MAX_QUERY_SIZE,
    MAX_SET_SIZE,
    MaxSets,         \* bound: calls of set
    MaxLog           \* bound: batches that reach the log

Byte == 0 .. 255

ASSUME StreamAssumption ==
    /\ Key \subseteq Nat /\ Data \subseteq Seq(Byte)
    /\ MAX_QUERY_SIZE \in Nat \ {0} /\ MAX_SET_SIZE \in Nat
    /\ MaxSets \in Nat /\ MaxLog \in Nat

VARIABLES
    writes,    \* StreamDataBuilder.writes: a dict of dicts, in insertion order
    asked,     \* history: for each key set, the data set last and under which ids
    sets,      \* bound: the calls of set so far
    log,       \* the batches the node has replayed: functions from keys to data
    it,        \* the iterator: its version and its current pair
    call,      \* the read or move under way
    result,    \* what the last get_value returned
    scan       \* history: the pairs of a forward scan

builder == <<writes, asked, sets>>
vars == <<builder, log, it, call, result, scan>>

Latest == 0      \* version=None, for which get_value puts 0 into val.version
None == [key |-> "none"]
Idle == [kind |-> "idle"]
NoScan == [state |-> "off", from |-> 0, seen |-> <<>>]

Pair == [key: Key, version: 1..MaxLog, data: Seq(Byte)]

TypeOK ==
    /\ \A k \in Key : asked[k].ids \subseteq StreamId
    /\ \A i \in DOMAIN log : DOMAIN log[i] \subseteq Key /\ Range(log[i]) \subseteq Data
    /\ it.version \in 0..Len(log)
    /\ it.pair = None \/ it.pair \in Pair
    /\ result = None \/ [f \in {"key", "version", "data"} |-> result[f]] \in Pair
    /\ call = Idle \/ /\ call.key \in Key
                      /\ call.found \in 0..Len(log)
                      /\ Len(call.data) <= call.size
    /\ scan.from \in 0..Len(log)

Init ==
    /\ writes = <<>>
    /\ asked = [k \in Key |-> [data |-> <<>>, ids |-> {}]]
    /\ sets = 0
    /\ log = <<>>
    /\ it = [version |-> Latest, pair |-> None]
    /\ call = Idle
    /\ result = None
    /\ scan = NoScan

----------------------------------------------------------------------------
(* The batch.  A dict is the sequence of its items: an item set again is   *)
(* replaced where it is.                                                   *)

Item(k, d) == [key |-> k, data |-> d]

HasKey(dict, k) == \E i \in DOMAIN dict : dict[i].key = k

At(dict, k) == LET i == CHOOSE i \in DOMAIN dict : dict[i].key = k IN dict[i].data

PutItem(dict, k, d) ==
    IF HasKey(dict, k)
    THEN [i \in DOMAIN dict |-> IF dict[i].key = k THEN Item(k, d) ELSE dict[i]]
    ELSE Append(dict, Item(k, d))

Set(id, k, d) ==
    LET keys == IF HasKey(writes, id) THEN At(writes, id) ELSE <<>>
    IN  /\ sets < MaxSets
        /\ writes' = PutItem(writes, id, PutItem(keys, k, d))
        /\ asked' = [asked EXCEPT ![k] = [data |-> d, ids |-> @.ids \cup {id}]]
        /\ sets' = sets + 1
        /\ UNCHANGED <<log, it, call, result, scan>>

\* build(): nothing adds reads or access controls, so that a batch is its writes.
Build == FlattenSeq([i \in DOMAIN writes |-> writes[i].data])

(* Mutant: only the values are brought into the order of the keys.         *)
Encode_SortedValues(batch) ==
    [headers |-> [i \in DOMAIN batch |->
                    [key |-> batch[i].key, size |-> Len(batch[i].data)]],
     values  |-> LET sorted == SortSeq(batch, LAMBDA a, b : a.key < b.key)
                 IN  FlattenSeq([i \in DOMAIN batch |-> sorted[i].data])]

\* All headers come first, then all values one after the other.
Encode(batch) ==
    [headers |-> [i \in DOMAIN batch |->
                    [key |-> batch[i].key, size |-> Len(batch[i].data)]],
     values  |-> FlattenSeq([i \in DOMAIN batch |-> batch[i].data])]

\* Where the values of these headers end.
Ends(headers) ==
    LET end[i \in 0 .. Len(headers)] ==
            IF i = 0 THEN 0 ELSE end[i - 1] + headers[i].size
    IN  end

\* What the node reads from it: of two writes of one key the later counts.
Replayed(encoded) ==
    LET h == encoded.headers
        last(k) == Max({i \in DOMAIN h : h[i].key = k})
    IN  [k \in {h[i].key : i \in DOMAIN h} |->
            SubSeq(encoded.values, Ends(h)[last(k) - 1] + 1, Ends(h)[last(k)])]

\* exec(): build, encode, upload.  A batch that is too large raises in build;
\* an upload that fails may still have brought the batch into the log, or not.
\* The builder keeps its writes, so that the next batch has them again.
Exec ==
    /\ Len(Build) <= MAX_SET_SIZE
    /\ Len(log) < MaxLog
    /\ log' = Append(log, Replayed(Encode(Build)))
    /\ UNCHANGED <<builder, it, call, result, scan>>

----------------------------------------------------------------------------
(* The node's answers.                                                     *)

Top(version) == IF version = Latest THEN Len(log) ELSE version

KeysAt(version) == UNION {DOMAIN log[i] : i \in 1..Top(version)}

VersionOf(k, version) == Max({i \in 1..Top(version) : k \in DOMAIN log[i]})

----------------------------------------------------------------------------
(* get_value, by itself (kind "read") or within _move, collects the value  *)
(* piece by piece.  `version` is the argument, `seen` val.version, `found` *)
(* the version of the pair a move goes to; `began` and `crossed` are       *)
(* history: the length of the log when the call began, and whether the     *)
(* value was written again after a piece of it had come.                   *)

GetValue(kind, k, version, found) ==
    [kind |-> kind, key |-> k, version |-> version, found |-> found,
     seen |-> version, data |-> <<>>, size |-> 0,
     began |-> Len(log), crossed |-> FALSE]

Read(k, version) ==
    /\ call = Idle
    /\ version \in 0..Len(log)
    /\ call' = GetValue("read", k, version, Latest)
    /\ result' = None
    /\ UNCHANGED <<builder, log, it, scan>>

(* Mutant: the data of the earlier version is kept.                        *)
Collected_Kept ==
    LET version == VersionOf(call.key, call.version)
        value   == log[version][call.key]
        len     == Len(call.data)
    IN  [call EXCEPT
           !.seen = version,
           !.size = Len(value),
           !.crossed = @ \/ (len > 0 /\ call.seen # version),
           !.data = @ \o SubSeq(value, len + 1, Min({len + MAX_QUERY_SIZE, Len(value)}))]

\* What the loop has after the node's next answer: data collected at another
\* version goes, but the answer is the piece from where that data ended.
Collected ==
    LET version == VersionOf(call.key, call.version)
        value   == log[version][call.key]
        len     == Len(call.data)
        kept    == IF call.seen = version THEN call.data ELSE <<>>
    IN  [call EXCEPT
           !.seen = version,
           !.size = Len(value),
           !.crossed = @ \/ (len > 0 /\ call.seen # version),
           !.data = kept \o SubSeq(value, len + 1, Min({len + MAX_QUERY_SIZE, Len(value)}))]

Answered == call # Idle /\ call.key \in KeysAt(call.version)

Complete == Len(Collected.data) = Collected.size

Piece ==
    /\ Answered /\ ~Complete
    /\ call' = Collected
    /\ UNCHANGED <<builder, log, it, result, scan>>

ReadReturns ==
    /\ Answered /\ Complete /\ call.kind = "read"
    /\ result' = [key |-> call.key, version |-> Collected.seen, data |-> Collected.data,
                  began |-> IF call.version = Latest THEN call.began ELSE call.version,
                  crossed |-> Collected.crossed]
    /\ call' = Idle
    /\ UNCHANGED <<builder, log, it, scan>>

\* No value: the read returns None, the move an error; or the request raises.
CallFails ==
    /\ call # Idle
    /\ call' = Idle
    /\ UNCHANGED <<builder, log, it, result, scan>>

----------------------------------------------------------------------------
(* The iterator.                                                           *)

\* History: the moves of a forward scan are "first" and then "next".
Scanned(move, pair) ==
    CASE move = "first" -> [state |-> "on", from |-> call.began, seen |-> <<pair>>]
      [] move = "next" /\ scan.state = "on" -> [scan EXCEPT !.seen = Append(@, pair)]
      [] OTHER -> NoScan

Exhausted(move) ==
    CASE move = "first" -> [state |-> "done", from |-> Len(log), seen |-> <<>>]
      [] move = "next" /\ scan.state = "on" -> [scan EXCEPT !.state = "done"]
      [] OTHER -> NoScan

NewIterator(version) ==
    /\ call = Idle
    /\ version \in 0..Len(log)
    /\ it' = [version |-> version, pair |-> None]
    /\ scan' = NoScan
    /\ UNCHANGED <<builder, log, call, result>>

(* Mutant: the value is read without a version.                            *)
Move_Latest(move, keys, ascending) ==
    /\ call = Idle
    /\ result' = None
    /\ UNCHANGED <<builder, log>>
    /\ \/ /\ keys # {}
          /\ LET k == IF ascending THEN Min(keys) ELSE Max(keys)
             IN  call' = GetValue(move, k, Latest, VersionOf(k, it.version))
          /\ UNCHANGED <<it, scan>>
       \/ /\ keys = {}
          /\ it' = [it EXCEPT !.pair = None]
          /\ scan' = Exhausted(move)
          /\ UNCHANGED call

\* The node's answer to a move is the first or the last of `keys`, and _move
\* goes on to read its value at the version the answer has.
Move(move, keys, ascending) ==
    /\ call = Idle
    /\ result' = None
    /\ UNCHANGED <<builder, log>>
    /\ \/ /\ keys # {}
          /\ LET k == IF ascending THEN Min(keys) ELSE Max(keys)
                 version == VersionOf(k, it.version)
             IN  call' = GetValue(move, k, version, version)
          /\ UNCHANGED <<it, scan>>
       \/ /\ keys = {}
          /\ it' = [it EXCEPT !.pair = None]
          /\ scan' = Exhausted(move)
          /\ UNCHANGED call

MoveReturns ==
    /\ Answered /\ Complete /\ call.kind # "read"
    /\ LET pair == [key |-> call.key, version |-> call.found, data |-> Collected.data]
       IN  /\ it' = [it EXCEPT !.pair = pair]
           /\ scan' = Scanned(call.kind, pair)
    /\ call' = Idle
    /\ UNCHANGED <<builder, log, result>>

SeekToFirst == Move("first", KeysAt(it.version), TRUE)

SeekToLast == Move("last", KeysAt(it.version), FALSE)

SeekAfter(k) == Move("after", {j \in KeysAt(it.version) : j >= k}, TRUE)

SeekBefore(k) == Move("before", {j \in KeysAt(it.version) : j <= k}, FALSE)

(* Mutant: the key it is at counts as a next one.                          *)
StepNext_Inclusive ==
    /\ it.pair # None
    /\ Move("next", {j \in KeysAt(it.version) : j >= it.pair.key}, TRUE)

StepNext ==
    /\ it.pair # None
    /\ Move("next", {j \in KeysAt(it.version) : j > it.pair.key}, TRUE)

StepPrev ==
    /\ it.pair # None
    /\ Move("prev", {j \in KeysAt(it.version) : j < it.pair.key}, FALSE)

Next ==
    \/ \E id \in StreamId, k \in Key, d \in Data : Set(id, k, d)
    \/ Exec
    \/ \E k \in Key, version \in 0..MaxLog : Read(k, version)
    \/ Piece \/ ReadReturns \/ CallFails
    \/ \E version \in 0..MaxLog : NewIterator(version)
    \/ SeekToFirst \/ SeekToLast \/ StepNext \/ StepPrev
    \/ \E k \in Key : SeekAfter(k) \/ SeekBefore(k)
    \/ MoveReturns

Spec == Init /\ [][Next]_vars

----------------------------------------------------------------------------
(* A batch that reaches the log has every key that was ever set, and each  *)
(* with the data that was set last, whatever was set between and in which  *)
(* order the keys came.  A key set under two spellings of the stream's id  *)
(* has two writes in the batch and either may be the later one.            *)
BatchIsAsked ==
    [][log' # log =>
         LET batch == log'[Len(log')]
         IN  /\ DOMAIN batch = {k \in Key : asked[k].ids # {}}
             /\ \A k \in DOMAIN batch :
                  Cardinality(asked[k].ids) = 1 => batch[k] = asked[k].data]_vars

(* get_value returns a value that was written as a whole, and no older one *)
(* than the key had when the call began (at the version it asked for); and *)
(* the pair of an iterator is the key's value of the pair's version,       *)
(* however many batches came between the pieces.  A read without version   *)
(* whose value is written again between two pieces is excepted: it goes on *)
(* at the old offset in the new value.                                     *)
ReadIsWhole ==
    /\ result # None /\ ~result.crossed =>
         /\ result.data = log[result.version][result.key]
         /\ \A i \in (result.version + 1)..result.began : result.key \notin DOMAIN log[i]
    /\ it.pair # None =>
         it.pair.data = log[it.pair.version][it.pair.key]

(* A scan from seek_to_first by next: it goes up, it passes over no key    *)
(* that was there when it began, and when it has a version it finds        *)
(* nothing but that version, while batches come in between, moves fail and *)
(* are repeated.                                                           *)
ScanIsSnapshot ==
    LET seen    == scan.seen
        start   == IF it.version = Latest THEN scan.from ELSE it.version
        passed(k) == scan.state = "done" \/ k <= seen[Len(seen)].key
    IN  scan.state # "off" =>
          /\ \A i \in 2..Len(seen) : seen[i - 1].key < seen[i].key
          /\ \A k \in UNION {DOMAIN log[i] : i \in 1..start} :
               passed(k) => \E i \in DOMAIN seen : seen[i].key = k
          /\ it.version # Latest =>
               \A i \in DOMAIN seen :
                  /\ seen[i].key \in KeysAt(it.version)
                  /\ seen[i].version = VersionOf(seen[i].key, it.version)
=============================================================================
