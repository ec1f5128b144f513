----------------------------- MODULE EntryCustody -----------------------------
(***************************************************************************)
(* What staging promises about entries, seen from outside: an entry that   *)
(* a user has captured is held somewhere in staging until it is settled,   *)
(* that is, committed to a ledger or removed by a user.  A settled entry   *)
(* may still be held, and may come back from a copy that is behind.        *)
(***************************************************************************)
EXTENDS Naturals

CONSTANT Entry   \* the habit entries users may capture

VARIABLES
  captured,  \* entries some user has captured
  held,      \* entries in the staging file of some device
  settled    \* entries some ledger holds or some user has removed

vars == <<captured, held, settled>>

Init == captured = {} /\ held = {} /\ settled = {}

\* A new entry is captured and held at once.
Capture(e) ==
  /\ e \in Entry \ captured
  /\ captured' = captured \cup {e}
  /\ held' = held \cup {e}
  /\ UNCHANGED settled

\* Captured entries are settled; only settled entries are let go or come back.
Settle ==
  /\ settled' \in SUBSET captured /\ settled \subseteq settled'
  /\ held' \in SUBSET captured
  /\ held \ settled' = held' \ settled'
  /\ UNCHANGED captured

Next == Settle \/ \E e \in Entry : Capture(e)

Spec == Init /\ [][Next]_vars
=============================================================================
