----------------------------- MODULE MCUploader -----------------------------
(* A file of three segments, or one of five in fragments of four, which    *)
(* begin with odd segments of the log, and nodes that keep one shard of    *)
(* two, or everything.                                                     *)
EXTENDS Uploader

OneFragment == << <<1, 3>> >>
SomeFragments == << <<1, 4>>, <<5, 1>> >>
OfTwo == {<<1, 0>>, <<2, 0>>, <<2, 1>>}
OrBroken == OfTwo \cup {<<3, 1>>}
SomeOptions == {[skipTx |-> TRUE, finality |-> FALSE],
                [skipTx |-> FALSE, finality |-> TRUE]}
DefaultOptions == {[skipTx |-> FALSE, finality |-> FALSE]}
=============================================================================
