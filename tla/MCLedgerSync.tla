----------------------------- MODULE MCLedgerSync -----------------------------
(***************************************************************************)
(* Dates and titles for the configurations of LedgerSync.                  *)
(***************************************************************************)
EXTENDS LedgerSync, TLC

DeviceSymmetry == Permutations(Device)

\* Every entry on a day of its own, the later ones first.
OwnDates == [e \in Entry |-> 10 - e]

\* All entries on one day.
OneDate == [e \in Entry |-> 1]

\* Titles in the order opposite to staging, and titles that are encrypted.
ReversedTitles  == [e \in Entry |-> 10 - e]
EncryptedTitles == [e \in Entry |-> 0]
=============================================================================
