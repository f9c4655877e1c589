------------------------------ MODULE AuditLog ------------------------------
(***************************************************************************)
(* What the governance ledger promises its callers, whatever its queue,    *)
(* its writer task, its retries and its fallback file do:                  *)
(*   - a record that was accepted is pending, stored or given up, never    *)
(*     just gone, and what is stored or given up stays so;                 *)
(*   - records reach the store in the order in which they were recorded.   *)
(* "Given up" covers what the code reports: shed by a full queue, written  *)
(* to the fallback log instead of the database, or in the hands of a       *)
(* writer that was cancelled.                                              *)
(* Records are named by their place in the order of the calls: 1, 2, ...   *)
(***************************************************************************)
EXTENDS Naturals

CONSTANT MaxRecords        \* bound: how many records are ever accepted

VARIABLES accepted,        \* how many records were accepted: 1..accepted
          pending,         \* accepted, and neither stored for good nor given up
          stored,          \* visible to the readers of the ledger
          givenUp          \* not pending any more without having been stored

logVars == <<accepted, pending, stored, givenUp>>

Init ==
  /\ accepted = 0
  /\ pending = {}
  /\ stored = {}
  /\ givenUp = {}

(* A new record is accepted, possibly at the price of older pending ones.  *)
Accept ==
  /\ accepted < MaxRecords
  /\ accepted' = accepted + 1
  /\ \E D \in SUBSET pending :
        /\ pending' = (pending \ D) \cup {accepted'}
        /\ givenUp' = givenUp \cup D
  /\ UNCHANGED stored

InOrder(S) == \A r \in S, s \in stored : s < r

(* Pending records become visible to readers, after everything visible     *)
(* already. If the writer does not learn of it they stay pending as well.  *)
Store ==
  \E S \in SUBSET pending :
     /\ InOrder(S)
     /\ stored' = stored \cup S
     /\ \E P \in {pending, pending \ S} : pending' = P
     /\ UNCHANGED <<accepted, givenUp>>

(* Pending records are given up; those already visible stay stored.        *)
GiveUp ==
  \E D \in SUBSET pending :
     /\ pending' = pending \ D
     /\ givenUp' = givenUp \cup (D \ stored)
     /\ UNCHANGED <<accepted, stored>>

Next == Accept \/ Store \/ GiveUp

Spec == Init /\ [][Next]_logVars
=============================================================================
