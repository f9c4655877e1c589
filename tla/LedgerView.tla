----------------------------- MODULE LedgerView -----------------------------
(***************************************************************************)
(* The ledger as those see it who decide by it: they record without waiting*)
(* and query what is stored, which comes later, in the order of recording, *)
(* in batches, and with gaps where records were shed or given up. Modules  *)
(* that record and query extend this one; a record is whatever they say.   *)
(*                                                                         *)
(* created_at is the time of the transaction that stores the batch: its    *)
(* records have the same age, and a query for the newest ones orders them  *)
(* as it likes.                                                            *)
(***************************************************************************)
EXTENDS Naturals, FiniteSets, Sequences

CONSTANT MaxRecords  \* bound: records in the ledger

ASSUME LedgerViewAssumption == MaxRecords \in Nat

VARIABLES
  records,    \* what the ledger accepted, in the order of the calls
  storedOn,   \* the day of each stored record, 0 for the others
  batchEnds   \* the last record of every batch

ledgerVars == <<records, storedOn, batchEnds>>

accepted == Len(records)
stored == {r \in 1..accepted : storedOn[r] # 0}

LedgerTypeOK(Record, Days) ==
  /\ records \in Seq(Record) /\ accepted <= MaxRecords
  /\ storedOn \in [1..MaxRecords -> Days \cup {0}]
  /\ batchEnds \subseteq stored

LedgerInit ==
  /\ records = <<>>
  /\ storedOn = [r \in 1..MaxRecords |-> 0]
  /\ batchEnds = {}

RecordExecution(record) ==
  /\ accepted < MaxRecords
  /\ records' = Append(records, record)
  /\ UNCHANGED <<storedOn, batchEnds>>

Storable == {r \in 1..accepted : \A s \in stored : s < r}

(* The writer stores a batch of what came after all that is stored.        *)
StoreBatch(day) ==
  /\ \E S \in SUBSET Storable :
       /\ S # {}
       /\ storedOn' = [r \in 1..MaxRecords |-> IF r \in S THEN day ELSE storedOn[r]]
       /\ batchEnds' = batchEnds \cup {r \in S : \A s \in S : s <= r}
  /\ UNCHANGED records

(* What Ledger is shown to implement: a module that extends this one lets  *)
(* the same steps happen among its own.                                    *)
LedgerNext(Record, Days) ==
  \/ \E record \in Record : RecordExecution(record)
  \/ \E day \in Days : StoreBatch(day)

-----------------------------------------------------------------------------
SameAge(r, s) == ~ \E b \in batchEnds : (r <= b /\ b < s) \/ (s <= b /\ b < r)

(* The answers to a query for the n newest records.                        *)
Newest(n) ==
  {W \in SUBSET stored :
     /\ Cardinality(W) = IF Cardinality(stored) < n THEN Cardinality(stored) ELSE n
     /\ \A w \in W, r \in stored \ W : r < w \/ SameAge(r, w)}
=============================================================================
