------------------------------ MODULE OutcomeLog ------------------------------
(***************************************************************************)
(* What the port RecordBrokerOutcome promises its callers: an outcome is   *)
(* recorded under its identity once, whole, and for ever.                  *)
(***************************************************************************)
CONSTANTS
    Identities,
    NoOutcome,
    FillsOf         \* [outcome -> the fills it books]

VARIABLES
    recorded,       \* [Identities -> outcome or NoOutcome]
    booked          \* the fills in the ledger

LogInit == recorded = [i \in Identities |-> NoOutcome] /\ booked = {}

Record(i, p) ==
    /\ recorded[i] = NoOutcome
    /\ recorded' = [recorded EXCEPT ![i] = p]
    /\ booked' = booked \cup FillsOf[p]

LogNext == \E i \in Identities, p \in DOMAIN FillsOf : Record(i, p)

LogSpec == LogInit /\ [][LogNext]_<<recorded, booked>>
==============================================================================
