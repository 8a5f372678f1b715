----------------------------- MODULE AuditTrail -----------------------------
(***************************************************************************)
(* What the gateway promises of every decision it takes from Dash          *)
(* (docs/audit-first.md:3-9): the intent is in the ledger before the       *)
(* surface acts, what is recorded as applied was applied, what is recorded *)
(* as refused was not, and Dash hears "ok" only of what is recorded.       *)
(*                                                                         *)
(* No polling, no memory, no failures: Decisions implements this with all  *)
(* of them.                                                                *)
(***************************************************************************)
EXTENDS Naturals

CONSTANTS Cmd,      \* the decisions
          Replies,  \* how a call can end, "ok" and "refused" among them
          Results   \* what Dash can be told

VARIABLES intents, outcomes, effects, told

vars == <<intents, outcomes, effects, told>>

Init ==
  /\ intents = [c \in Cmd |-> 0]
  /\ outcomes = [c \in Cmd |-> [r \in Replies |-> 0]]
  /\ effects = [c \in Cmd |-> 0]
  /\ told = [c \in Cmd |-> {}]

(* c has an intent that no effect and no refusal has used up.              *)
Covered(c) == effects[c] + outcomes[c]["refused"] < intents[c]

RecordIntent(c) ==
  /\ intents' = [intents EXCEPT ![c] = @ + 1]
  /\ UNCHANGED <<outcomes, effects, told>>

Act(c) ==
  /\ Covered(c)
  /\ effects' = [effects EXCEPT ![c] = @ + 1]
  /\ UNCHANGED <<intents, outcomes, told>>

RecordOutcome(c, r) ==
  /\ r = "ok" => effects[c] > 0
  /\ r = "refused" => Covered(c)
  /\ outcomes' = [outcomes EXCEPT ![c][r] = @ + 1]
  /\ UNCHANGED <<intents, effects, told>>

(* Dash may hear of several decisions at once.                             *)
Tell ==
  /\ told' \in [Cmd -> SUBSET Results]
  /\ \A c \in Cmd :
       /\ told[c] \subseteq told'[c]
       /\ "ok" \in told'[c] => outcomes[c]["ok"] > 0
  /\ UNCHANGED <<intents, outcomes, effects>>

Next ==
  \/ \E c \in Cmd : RecordIntent(c) \/ Act(c)
  \/ \E c \in Cmd, r \in Replies : RecordOutcome(c, r)
  \/ Tell

Spec == Init /\ [][Next]_vars
=============================================================================
