---------------------------- MODULE MCDownloader ----------------------------
(* Two processes, of which the second wants a file that is a fragment of   *)
(* the first one's; the fragments have two segments and one, and two nodes *)
(* keep the even and the odd segments, or all of them.                     *)
EXTENDS Downloader

CONSTANTS a, b, first, second, n1, n2

InOrder == <<n1, n2>>
SomeRequests ==
    [c \in Caller |->
        IF c = first THEN {[roots |-> <<a, b>>, fragments |-> TRUE],
                           [roots |-> <<a>>, fragments |-> FALSE]}
        ELSE {[roots |-> <<a>>, fragments |-> TRUE]}]
TwiceAndOnce == [c \in Caller |-> IF c = first THEN 2 ELSE 1]
TwoAndOne == [r \in Root |-> IF r = a THEN 2 ELSE 1]
FirstIsOdd == [r \in Root |-> IF r = a THEN 1 ELSE 4]
OfTwo == {<<1, 0>>, <<2, 0>>, <<2, 1>>}
=============================================================================
