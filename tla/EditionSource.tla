--------------------------- MODULE EditionSource ---------------------------
(***************************************************************************)
(* What a reader of the Daily Agenda is promised (docs/DAILY-AGENDA.md and *)
(* the last comment of v1_daily_agenda, "Never return a half-generation"): *)
(* the source offers one edition at a time, and a read ends with one whole *)
(* edition that was offered while it ran, or with the word of why not.     *)
(* No files, no integrity checks: Agenda implements this with both.        *)
(***************************************************************************)
CONSTANTS Edition,  \* what can be offered
          Refusals  \* the answers that carry no edition

VARIABLES offer,   \* the edition on offer; no element of Edition: none is
          seen,    \* the editions offered during this read
          reading, \* a read is under way
          answer   \* how the last read ended

vars == <<offer, seen, reading, answer>>

Init ==
  /\ offer \notin Edition /\ seen = {}
  /\ reading = FALSE /\ answer \in Refusals

Change ==
  /\ seen' = IF reading THEN seen \cup ({offer'} \cap Edition) ELSE {}
  /\ UNCHANGED <<reading, answer>>

Begin ==
  /\ ~reading
  /\ reading' = TRUE /\ seen' = {offer} \cap Edition
  /\ UNCHANGED <<offer, answer>>

End ==
  /\ reading
  /\ reading' = FALSE /\ seen' = {} /\ answer' \in seen \cup Refusals
  /\ UNCHANGED offer

Next == Change \/ Begin \/ End

Spec == Init /\ [][Next]_vars
=============================================================================
