---------------------------- MODULE Settlement ----------------------------
(***************************************************************************)
(* What the settlement contract promises, without tokens, stakes or        *)
(* reentrancy: the life of a commit as IVericastArbiter.sol describes it.  *)
(* One step is one transaction; it may take several commits along one edge *)
(* of their life cycle each.                                               *)
(*                                                                         *)
(*       absent --> pending --> finalized                                  *)
(*                   |   ^                                                 *)
(*                   v   |                                                 *)
(*                 disputed --> absent                                     *)
(***************************************************************************)
EXTENDS Naturals

CONSTANTS
    Payload,
    DISPUTE_WINDOW,
    MaxBlock        \* bound: the last block modelled

CommitId == Payload \X (1 .. MaxBlock)
Status == {"absent", "pending", "disputed", "finalized"}

VARIABLES status, now

vars == <<status, now>>

TypeOK ==
    /\ status \in [CommitId -> Status]
    /\ now \in 1 .. MaxBlock

Init ==
    /\ status = [c \in CommitId |-> "absent"]
    /\ now = 1

Edge(c, from, to) ==
    \/ from = "absent" /\ to = "pending" /\ c[2] = now
    \/ from = "pending" /\ to = "disputed"
    \/ from = "disputed" /\ to \in {"pending", "absent"}
    \/ from = "pending" /\ to = "finalized" /\ c[2] + DISPUTE_WINDOW <= now

Transaction ==
    /\ status' \in [CommitId -> Status]
    /\ \A c \in CommitId :
          status'[c] # status[c] => Edge(c, status[c], status'[c])
    /\ UNCHANGED now

NextBlock ==
    /\ now < MaxBlock
    /\ now' = now + 1
    /\ UNCHANGED status

Next == Transaction \/ NextBlock

Spec == Init /\ [][Next]_vars

============================================================================
