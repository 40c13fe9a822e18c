----------------------------- MODULE FileLedger -----------------------------
(***************************************************************************)
(* What the claim protocol promises of one source's files, with no         *)
(* instances, leases or storage calls in sight (BR-COL-004, BR-COL-006,    *)
(* BR-HA-003/004): a delivered name is recorded at most once, it leaves    *)
(* the input area only after it has a verdict, and every delivered file    *)
(* gets one.  FileClaim implements it.                                     *)
(***************************************************************************)
EXTENDS Naturals

CONSTANT Names

VARIABLES
  present,     \* names lying in the input area
  delivered,   \* names the sender delivered at least once
  recorded,    \* file UIDs recorded DONE for each name
  quarantined  \* names with a QUARANTINED record

ledgerVars == <<present, delivered, recorded, quarantined>>

HasVerdict(n) == recorded[n] # {} \/ n \in quarantined

LedgerInit ==
  /\ present = {}
  /\ delivered = {}
  /\ recorded = [n \in Names |-> {}]
  /\ quarantined = {}

Deliver(n) ==
  /\ n \notin present
  /\ present' = present \cup {n}
  /\ delivered' = delivered \cup {n}
  /\ UNCHANGED <<recorded, quarantined>>

\* The one and only record of a delivered name.
Record(n) ==
  /\ n \in delivered
  /\ recorded[n] = {}
  /\ \E u \in recorded'[n] : recorded' = [recorded EXCEPT ![n] = {u}]
  /\ UNCHANGED <<present, delivered, quarantined>>

Quarantine(n) ==
  /\ n \in delivered
  /\ quarantined' = quarantined \cup {n}
  /\ UNCHANGED <<present, delivered, recorded>>

Dispose(n) ==
  /\ HasVerdict(n)
  /\ present' = present \ {n}
  /\ UNCHANGED <<delivered, recorded, quarantined>>

LedgerNext ==
  \E n \in Names : Deliver(n) \/ Record(n) \/ Quarantine(n) \/ Dispose(n)

LedgerSafety == LedgerInit /\ [][LedgerNext]_ledgerVars

\* Every file lying in the input area is eventually decided.
LedgerProgress == \A n \in Names : n \in present ~> HasVerdict(n)

LedgerSpec == LedgerSafety /\ LedgerProgress
=============================================================================
