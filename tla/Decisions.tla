----------------------------- MODULE Decisions -----------------------------
(***************************************************************************)
(* Decisions from Dash: DashPusher.take_commands, apply_command and        *)
(* DashPusher.report of nix/gateway.py, with the services they talk to.    *)
(*                                                                         *)
(* A reviewer queues a decision in Dash.  The pusher thread of the gateway *)
(* polls Dash, takes at most MaxCommands decisions from a response, and    *)
(* runs each one through                                                   *)
(*                                                                         *)
(*      look the hold up -> append the intent to the Nostoi ledger         *)
(*        -> call the surface -> append the outcome -> remember            *)
(*                                                                         *)
(* and then reports every result Dash has not acknowledged.  The results   *)
(* live in memory only: a crash of the gateway forgets them.               *)
(*                                                                         *)
(* Every network or ledger call is a step of its own, so time passes, the  *)
(* hold expires, a reviewer decides it in Ephor or the gateway dies        *)
(* between any two of them.  What leaves a call's fate open (a reply that  *)
(* never comes, a crash while waiting) leaves an orphan: a request the     *)
(* surface may still carry out at any later moment.                        *)
(*                                                                         *)
(* Simplifications.                                                        *)
(*  - A hold lives on one surface; the walk over the bridge and the gates  *)
(*    (gateway.py:1424-1443) is one Lookup that either reads it or not.    *)
(*  - The error strings are grouped by what they say about the effect; an  *)
(*    HTTP 5xx leaves it as open as no answer does.                        *)
(*  - Lost poll requests are not steps: nothing changes.                   *)
(*  - MaxFaults bounds crashes, failed calls and failed appends together.  *)
(***************************************************************************)
EXTENDS Naturals, Sequences, FiniteSets

CONSTANTS
  Cmd,            \* command ids Dash hands out
  Hold,           \* request ids of the holds
  Kind,           \* Kind[c]: "approve", "deny", "defer", "escalate", "review"
  Target,         \* Target[c]: the hold an oversight command is about
  Form,           \* Form[c]: how far the command passes validation
  Keyed,          \* the holds on the bridge, which honours Idempotency-Key
  FirstDeadline,  \* FirstDeadline[h]: the deadline the hold starts with
  DeferBy,        \* how far a defer moves a deadline
  MaxCommands,    \* MAX_COMMANDS: decisions taken from one response
  MaxRemembered,  \* MAX_REMEMBERED: results kept for a command sent again
  MaxNow,         \* bound on the clock
  MaxFaults       \* bound on the failures of one behaviour

Kinds == {"approve", "deny", "defer", "escalate", "review"}

(* "unhashable": a JSON list or object as id, "in self.applied" raises;    *)
(* "no_id": not addressable; "bad": refused before any call; "bad_params": *)
(* refused after the lookup; "fine": passes every check.                   *)
Forms == {"unhashable", "no_id", "bad", "bad_params", "fine"}

ASSUME DecisionsAssumption ==
  /\ IsFiniteSet(Cmd) /\ Cmd \cap {"nobody", "ephor"} = {}
  /\ Kind \in [Cmd -> Kinds]
  /\ Target \in [Cmd -> Hold]
  /\ Form \in [Cmd -> Forms]
  /\ \A c \in Cmd : Kind[c] = "review" => Form[c] # "bad_params"
  /\ Keyed \subseteq Hold
  /\ FirstDeadline \in [Hold -> Nat]
  /\ DeferBy \in Nat
  /\ MaxCommands \in Nat \ {0}
  /\ MaxRemembered \in Nat
  /\ MaxNow \in Nat
  /\ MaxFaults \in Nat

None == "none"
Results == {"ok", "bad", "not_pending", "deadline_passed", "audit_unavailable",
            "unreachable", "refused", "unknown"}
(* How the call to the surface can end, as the outcome record tells it.    *)
Replies == {"ok", "refused", "unreachable"}
(* The results that tell the reviewer the command had no effect.           *)
Refusals == {"bad", "not_pending", "deadline_passed", "audit_unavailable", "refused"}

VARIABLES
  now,         \* time.time() of the host
  queue,       \* Dash: decisions handed out until their result arrives
  told,        \* told[c]: the results Dash has received for c
  pc,          \* where the pusher thread is
  batch,       \* take_commands: the rest of the response; its head is current
  startMs,     \* apply_command: now_ms
  res,         \* apply_command: result, between the call and its outcome
  applied,     \* self.applied
  order,       \* the insertion order of self.applied
  unreported,  \* self.unreported
  intents,     \* ledger: "rebekah.decision.requested" records of c
  outcomes,    \* ledger: outcomes[c][r] outcome records of c with result r
  status,      \* status[h] as the surface stores it
  deadline,    \* deadline[h] as the surface stores it
  decider,     \* history: the command that decided h, or who else did
  effects,     \* history: how many times the surface carried c out
  orphans,     \* requests for c whose reply nobody awaits any more
  raced,       \* history: holds decided since a lookup last found its hold pending
  forgotten,   \* history: commands whose execution the gateway forgot
  faults       \* history: failures so far

dash     == <<queue, told>>
memory   == <<applied, order, unreported>>
local    == <<batch, startMs, res>>
ledger   == <<intents, outcomes>>
surface  == <<status, deadline, decider, effects, orphans>>
history  == <<raced, forgotten>>
vars     == <<now, dash, pc, local, memory, ledger, surface, history, faults>>

Seen == queue \cup {c \in Cmd : told[c] # {}}
cur  == Head(batch)

(* Fault: "seen" means not acknowledged yet.                               *)
RememberedUntilAcknowledged(c) == unreported[c] # None
Remembered(c) == applied[c] # None

Init ==
  /\ now = 0
  /\ queue = {}
  /\ told = [c \in Cmd |-> {}]
  /\ pc = "idle"
  /\ batch = <<>>
  /\ startMs = 0
  /\ res = None
  /\ applied = [c \in Cmd |-> None]
  /\ order = <<>>
  /\ unreported = [c \in Cmd |-> None]
  /\ intents = [c \in Cmd |-> 0]
  /\ outcomes = [c \in Cmd |-> [r \in Replies |-> 0]]
  /\ status = [h \in Hold |-> "pending"]
  /\ deadline = FirstDeadline
  /\ decider = [h \in Hold |-> "nobody"]
  /\ effects = [c \in Cmd |-> 0]
  /\ orphans = [c \in Cmd |-> 0]
  /\ raced = {}
  /\ forgotten = {}
  /\ faults = 0

Fault == /\ faults < MaxFaults
         /\ faults' = faults + 1

-----------------------------------------------------------------------------
(* The world around the gateway.                                           *)

Tick == /\ now < MaxNow
        /\ now' = now + 1
        /\ UNCHANGED <<dash, pc, local, memory, ledger, surface, history, faults>>

(* A reviewer queues decision c in Dash.                                   *)
Submit(c) ==
  /\ c \notin Seen
  /\ queue' = queue \cup {c}
  /\ UNCHANGED <<now, told, pc, local, memory, ledger, surface, history, faults>>

(* Ephor itself decides a pending hold: a reviewer there, or, past the     *)
(* deadline, its default to deny.                                          *)
EphorDecides(h) ==
  /\ status[h] = "pending"
  /\ \E s \in {"approved", "denied"} :
       /\ now > deadline[h] => s = "denied"
       /\ status' = [status EXCEPT ![h] = s]
  /\ decider' = [decider EXCEPT ![h] = "ephor"]
  /\ raced' = raced \cup {h}
  /\ UNCHANGED <<now, dash, pc, local, memory, ledger, deadline, effects,
                 orphans, forgotten, faults>>

(* What carrying command c out does.  The bridge and WeftMark replay a     *)
(* request whose Idempotency-Key they know; a gate gets no key.            *)
IsKeyed(c) == Kind[c] = "review" \/ Target[c] \in Keyed
Replay(c)  == IsKeyed(c) /\ effects[c] > 0

Verdict(c) == IF Kind[c] = "approve" THEN "approved" ELSE "denied"

Perform(c) ==
  LET h == Target[c] IN
  IF Replay(c) THEN UNCHANGED <<status, deadline, decider, effects, raced>>
  ELSE
    /\ effects' = [effects EXCEPT ![c] = @ + 1]
    /\ IF Kind[c] \in {"approve", "deny"}
         THEN /\ status' = [status EXCEPT ![h] = Verdict(c)]
              /\ decider' = [decider EXCEPT ![h] = c]
              /\ raced' = raced \cup {h}
         ELSE UNCHANGED <<status, decider, raced>>
    /\ IF Kind[c] = "defer"
         THEN deadline' = [deadline EXCEPT ![h] = @ + DeferBy]
         ELSE UNCHANGED deadline

(* A request nobody waits for any more is carried out after all.           *)
OrphanPerformed(c) ==
  /\ orphans[c] > 0
  /\ orphans' = [orphans EXCEPT ![c] = @ - 1]
  /\ Perform(c)
  /\ UNCHANGED <<now, dash, pc, local, memory, ledger, forgotten, faults>>

-----------------------------------------------------------------------------
(* One round of the pusher: poll, take_commands, report.                   *)

(* The first n decisions of a response that lists the queue in any order.  *)
Listing(n) ==
  LET k == IF Cardinality(queue) < n THEN Cardinality(queue) ELSE n
  IN  {s \in [1..k -> queue] : \A i, j \in 1..k : s[i] = s[j] => i = j}

(* Dash answered 200.                                                      *)

Poll ==
  /\ pc = "idle"
  /\ batch' \in Listing(MaxCommands)
  /\ pc' = "take"
  /\ UNCHANGED <<now, dash, startMs, res, memory, ledger, surface, history, faults>>

(* Dash hands out again a decision whose result it already has.            *)
PollRepeats ==
  /\ pc = "idle"
  /\ Fault
  /\ \E c \in Seen \ queue, s \in Listing(MaxCommands - 1) : batch' = <<c>> \o s
  /\ pc' = "take"
  /\ UNCHANGED <<now, dash, startMs, res, memory, ledger, surface, history>>

(* Remember the result of the current command and go on to the next one.   *)
Finish(r) ==
  /\ applied' = [applied EXCEPT ![cur] = r]
  /\ order' = Append(order, cur)
  /\ unreported' = [unreported EXCEPT ![cur] = r]
  /\ batch' = Tail(batch)
  /\ pc' = "take"
  /\ startMs' = 0
  /\ res' = None

(* Fault: a command already applied is skipped.                            *)
TakeKnownSilently ==
  /\ pc = "take" /\ batch # <<>>
  /\ Remembered(cur)
  /\ batch' = Tail(batch)
  /\ UNCHANGED <<now, dash, pc, startMs, res, memory, ledger, surface, history, faults>>

(* "if cid in self.applied": report it again, never apply it again.        *)
TakeKnown ==
  /\ pc = "take" /\ batch # <<>>
  /\ Remembered(cur)
  /\ unreported' = [unreported EXCEPT ![cur] = IF @ = None THEN applied[cur] ELSE @]
  /\ batch' = Tail(batch)
  /\ UNCHANGED <<now, dash, pc, startMs, res, applied, order, ledger, surface,
                 history, faults>>

(* The membership test itself raises: run drops the rest of the response,  *)
(* and neither the trim nor the report of this round is reached.           *)
TakeUnhashable ==
  /\ pc = "take" /\ batch # <<>>
  /\ Form[cur] = "unhashable"
  /\ batch' = <<>>
  /\ pc' = "idle"
  /\ UNCHANGED <<now, dash, startMs, res, memory, ledger, surface, history, faults>>

(* An id that is not well formed has nothing to report back to.            *)
TakeUnaddressable ==
  /\ pc = "take" /\ batch # <<>>
  /\ ~Remembered(cur)
  /\ Form[cur] = "no_id"
  /\ batch' = Tail(batch)
  /\ UNCHANGED <<now, dash, pc, startMs, res, memory, ledger, surface, history, faults>>

TakeMalformed ==
  /\ pc = "take" /\ batch # <<>>
  /\ ~Remembered(cur)
  /\ Form[cur] = "bad"
  /\ Finish("bad")
  /\ UNCHANGED <<now, dash, ledger, surface, history, faults>>

(* The clock is read here, before the lookup and the intent.               *)
TakeNew ==
  /\ pc = "take" /\ batch # <<>>
  /\ ~Remembered(cur)
  /\ Form[cur] \in {"bad_params", "fine"}
  /\ startMs' = now
  /\ pc' = IF Kind[cur] = "review" THEN "intent" ELSE "lookup"
  /\ UNCHANGED <<now, dash, batch, res, memory, ledger, surface, history, faults>>

(* Fault: a hold that is no longer pending goes through.                   *)
ObjectionIgnoringStatus(c) ==
  CASE Form[c] = "bad_params" -> "bad"
    [] Kind[c] = "approve" /\ startMs > deadline[Target[c]] -> "deadline_passed"
    [] OTHER -> None

(* What the gateway refuses of a hold it could read, None if nothing.      *)
Objection(c) ==
  CASE status[Target[c]] # "pending" -> "not_pending"
    [] Form[c] = "bad_params" -> "bad"
    [] Kind[c] = "approve" /\ startMs > deadline[Target[c]] -> "deadline_passed"
    [] OTHER -> None

LookupAgrees ==
  /\ pc = "lookup"
  /\ Objection(cur) = None
  /\ pc' = "intent"
  /\ raced' = {}
  /\ UNCHANGED <<now, dash, local, memory, ledger, surface, forgotten, faults>>

LookupObjects ==
  /\ pc = "lookup"
  /\ Objection(cur) # None
  /\ Finish(Objection(cur))
  /\ UNCHANGED <<now, dash, ledger, surface, history, faults>>

(* The surface that holds it does not answer, or does not list it.         *)
LookupFails ==
  /\ pc = "lookup"
  /\ Fault
  /\ Finish("unreachable")
  /\ UNCHANGED <<now, dash, ledger, surface, history>>

IntentAppended ==
  /\ pc = "intent"
  /\ intents' = [intents EXCEPT ![cur] = @ + 1]
  /\ pc' = "send"
  /\ UNCHANGED <<now, dash, local, memory, outcomes, surface, history, faults>>

(* Fault: the call is made although the intent could not be recorded.      *)
IntentFailsOpen ==
  /\ pc = "intent"
  /\ Fault
  /\ \E n \in {0, 1} : intents' = [intents EXCEPT ![cur] = @ + n]
  /\ pc' = "send"
  /\ UNCHANGED <<now, dash, local, memory, outcomes, surface, history>>

(* The writer failed or gave no receipt; the record may be there anyway.   *)
IntentFails ==
  /\ pc = "intent"
  /\ Fault
  /\ \E n \in {0, 1} : intents' = [intents EXCEPT ![cur] = @ + n]
  /\ Finish("audit_unavailable")
  /\ UNCHANGED <<now, dash, outcomes, surface, history>>

(* The surface carried the command out and its reply arrived.              *)
SendPerformed ==
  /\ pc = "send"
  /\ Perform(cur)
  /\ res' = "ok"
  /\ pc' = "outcome"
  /\ UNCHANGED <<now, dash, batch, startMs, memory, ledger, orphans, forgotten, faults>>

(* The surface answered with an error of its own, as it may for a hold     *)
(* decided since the lookup.                                               *)
SendRefused ==
  /\ pc = "send"
  /\ IF Kind[cur] # "review" /\ status[Target[cur]] # "pending"
       THEN UNCHANGED faults ELSE Fault
  /\ res' = "refused"
  /\ pc' = "outcome"
  /\ UNCHANGED <<now, dash, batch, startMs, memory, ledger, surface, history>>

(* No reply: the request was never sent, is still on its way, or was       *)
(* carried out and its reply lost.                                         *)
Orphan(c) == orphans' = [orphans EXCEPT ![c] = @ + 1]

(* Fault: no answer is taken for a refusal.                                *)
SendUnansweredAsRefused ==
  /\ pc = "send"
  /\ Fault
  /\ Orphan(cur)
  /\ res' = "refused"
  /\ pc' = "outcome"
  /\ UNCHANGED <<now, dash, batch, startMs, memory, ledger, status, deadline,
                 decider, effects, history>>

SendUnanswered ==
  /\ pc = "send"
  /\ Fault
  /\ Orphan(cur)
  /\ res' = "unreachable"
  /\ pc' = "outcome"
  /\ UNCHANGED <<now, dash, batch, startMs, memory, ledger, status, deadline,
                 decider, effects, history>>

OutcomeAppended ==
  /\ pc = "outcome"
  /\ outcomes' = [outcomes EXCEPT ![cur][res] = @ + 1]
  /\ Finish(res)
  /\ UNCHANGED <<now, dash, intents, surface, history, faults>>

(* Fault: a result that could not be recorded is reported all the same.    *)
OutcomeFailsUnnoticed ==
  /\ pc = "outcome"
  /\ Fault
  /\ Finish(res)
  /\ UNCHANGED <<now, dash, ledger, surface, history>>

(* The outcome could not be recorded: the result becomes unknown.          *)
OutcomeFails ==
  /\ pc = "outcome"
  /\ Fault
  /\ \/ UNCHANGED outcomes
     \/ outcomes' = [outcomes EXCEPT ![cur][res] = @ + 1]
  /\ Finish("unknown")
  /\ UNCHANGED <<now, dash, intents, surface, history>>

(* The end of take_commands: keep the MaxRemembered latest results.        *)
Surplus == IF Len(order) > MaxRemembered THEN Len(order) - MaxRemembered ELSE 0

EndBatch ==
  /\ pc = "take" /\ batch = <<>>
  /\ LET gone == {order[i] : i \in 1..Surplus} IN
       /\ applied' = [c \in Cmd |-> IF c \in gone THEN None ELSE applied[c]]
       /\ forgotten' = forgotten \cup gone
  /\ order' = SubSeq(order, Surplus + 1, Len(order))
  /\ pc' = "report"
  /\ UNCHANGED <<now, dash, local, unreported, ledger, surface, raced, faults>>

Unreported == {c \in Cmd : unreported[c] # None}

(* Dash receives the results of the commands in S and drops them.          *)
DashRecords(S) ==
  /\ told' = [c \in Cmd |-> IF c \in S THEN told[c] \cup {unreported[c]} ELSE told[c]]
  /\ queue' = queue \ S

Acknowledge(S) ==
  unreported' = [c \in Cmd |-> IF c \in S THEN None ELSE unreported[c]]

Report ==
  /\ pc = "report"
  /\ DashRecords(Unreported)
  /\ Acknowledge(Unreported)
  /\ pc' = "idle"
  /\ UNCHANGED <<now, local, applied, order, ledger, surface, history, faults>>

(* Some of the results, or none, reach Dash's queue, and some of them, or  *)
(* none, come back as acknowledged: the call failed, its reply was lost,   *)
(* or Dash answered 200 without having recorded everything.                *)
ReportFails ==
  /\ pc = "report"
  /\ Unreported # {}
  /\ Fault
  /\ \E S, T \in SUBSET Unreported : DashRecords(S) /\ Acknowledge(T)
  /\ pc' = "idle"
  /\ UNCHANGED <<now, local, applied, order, ledger, surface, history>>

-----------------------------------------------------------------------------
(* Failures of the whole round.                                            *)

(* The current command's request is out, or its effect is.                 *)
InFlight == IF pc \in {"send", "outcome"} THEN {cur} ELSE {}

(* A reply of an unexpected shape raises out of apply_command: run drops   *)
(* the rest of the batch, keeping the results it already has.              *)
RoundAborted ==
  /\ pc \in {"lookup", "send"}
  /\ Fault
  /\ IF pc = "send" THEN Orphan(cur) ELSE UNCHANGED orphans
  /\ forgotten' = forgotten \cup InFlight
  /\ batch' = <<>> /\ startMs' = 0
  /\ pc' = "idle"
  /\ UNCHANGED <<now, dash, res, memory, ledger, status, deadline, decider, effects, raced>>

(* The gateway process dies and is started again with an empty memory.     *)
Crash ==
  /\ Fault
  /\ IF pc = "send" THEN Orphan(cur) ELSE UNCHANGED orphans
  /\ forgotten' = forgotten \cup InFlight \cup {c \in Cmd : Remembered(c)}
  /\ applied' = [c \in Cmd |-> None]
  /\ unreported' = [c \in Cmd |-> None]
  /\ order' = <<>>
  /\ batch' = <<>> /\ startMs' = 0 /\ res' = None
  /\ pc' = "idle"
  /\ UNCHANGED <<now, dash, ledger, status, deadline, decider, effects, raced>>

-----------------------------------------------------------------------------
Execute ==
  \/ TakeNew
  \/ LookupAgrees \/ LookupObjects
  \/ IntentAppended
  \/ SendPerformed
  \/ OutcomeAppended

Round ==
  \/ Poll
  \/ TakeKnown \/ TakeUnhashable \/ TakeUnaddressable \/ TakeMalformed
  \/ Execute
  \/ EndBatch
  \/ Report

Failure ==
  \/ PollRepeats
  \/ LookupFails
  \/ IntentFails
  \/ SendRefused \/ SendUnanswered
  \/ OutcomeFails
  \/ ReportFails
  \/ RoundAborted
  \/ Crash

World ==
  \/ Tick
  \/ \E c \in Cmd : Submit(c) \/ OrphanPerformed(c)
  \/ \E h \in Hold : EphorDecides(h)

Next == Round \/ Failure \/ World

(* run() loops for the life of the process and every call it makes has a   *)
(* time limit, so a round in progress goes on and a new one follows.       *)
Fairness == WF_vars(Round)

Spec == Init /\ [][Next]_vars /\ Fairness

DashTypeOK ==
  /\ queue \subseteq Cmd
  /\ told \in [Cmd -> SUBSET Results]

LocalTypeOK ==
  /\ now \in Nat /\ startMs \in Nat /\ faults \in Nat
  /\ pc \in {"idle", "take", "lookup", "intent", "send", "outcome", "report"}
  /\ batch \in Seq(Cmd)
  /\ res \in Replies \cup {None}

MemoryTypeOK ==
  /\ applied \in [Cmd -> Results \cup {None}]
  /\ unreported \in [Cmd -> Results \cup {None}]
  /\ order \in Seq(Cmd)

LedgerTypeOK ==
  /\ intents \in [Cmd -> Nat]
  /\ outcomes \in [Cmd -> [Replies -> Nat]]

SurfaceTypeOK ==
  /\ status \in [Hold -> {"pending", "approved", "denied"}]
  /\ deadline \in [Hold -> Nat]
  /\ decider \in [Hold -> Cmd \cup {"nobody", "ephor"}]
  /\ effects \in [Cmd -> Nat]
  /\ orphans \in [Cmd -> Nat]

HistoryTypeOK == raced \subseteq Hold /\ forgotten \subseteq Cmd

TypeOK ==
  /\ DashTypeOK /\ LocalTypeOK /\ MemoryTypeOK
  /\ LedgerTypeOK /\ SurfaceTypeOK /\ HistoryTypeOK

-----------------------------------------------------------------------------
(* At the ledger, the total of c's records that say the call was refused,  *)
(* and c's requests the surface has carried out or may yet carry out.      *)
Refused(c)  == outcomes[c]["refused"]
Possible(c) == effects[c] + orphans[c]

(* Audit first (docs/audit-first.md:3-9, apply_command): every effect a    *)
(* command had, and every one it may still have, is covered by an intent   *)
(* of its own in the ledger, and none of those was recorded as refused.    *)
EffectsAccounted == \A c \in Cmd : Possible(c) + Refused(c) <= intents[c]

(* Dash is told "ok" only of a command that took effect and whose outcome  *)
(* is in the ledger (_decision_outcome turns the rest into "unknown").     *)
OkIsRecorded ==
  \A c \in Cmd : "ok" \in told[c] => effects[c] > 0 /\ outcomes[c]["ok"] > 0

(* A command Dash sends again is reported, never applied twice             *)
(* (gateway.py:2143-2145), as long as the gateway has not forgotten it.    *)
AppliedOnceUnlessForgotten ==
  \A c \in Cmd : Possible(c) > 1 => c \in forgotten

(* Dash is told of a refusal only when the command had no effect, again    *)
(* unless the gateway forgot an execution of it.                           *)
RefusalsAreTrue ==
  \A c \in Cmd : told[c] \cap Refusals # {} => effects[c] = 0 \/ c \in forgotten

(* The gateway keeps the audit promise of AuditTrail, whatever fails.      *)
Trail == INSTANCE AuditTrail
KeepsTrail == Trail!Spec

(* Reporting a result until it is acknowledged never changes it.           *)
ReportsAgree ==
  \A c \in Cmd : \A r, s \in told[c] : r = s \/ c \in forgotten

(* The gateway refuses to decide a hold that is no longer pending          *)
(* (gateway.py:1260).  A decision of a hold, taken in Ephor or by another  *)
(* command, is overturned only by a request the gateway had already given  *)
(* up on, carried out late, or if it fell between the overturning          *)
(* command's own lookup and its call (gateway.py:1447-1483).               *)
CarriedOutLate(c) == orphans'[c] < orphans[c]
DecidedSinceLookup(c, h) == pc = "send" /\ c = cur /\ h \in raced

NoOverturn ==
  [][\A h \in Hold : decider[h] # "nobody" /\ decider'[h] # decider[h] =>
       \E c \in Cmd : decider'[h] = c /\ (CarriedOutLate(c) \/ DecidedSinceLookup(c, h))]_vars

(* gateway.py:1457, "Past its deadline a hold defaults to deny; never      *)
(* approve it late".                                                       *)
NeverApprovedLate ==
  [][\A c \in Cmd : Kind[c] = "approve" /\ effects'[c] > effects[c] =>
       now <= deadline[Target[c]]]_vars

(* What keeps the rest of Dash's queue from being taken, for as long as    *)
(* Dash hands it out: an id that raises, or a response full of ids that    *)
(* nothing can be reported of.                                             *)
WithForm(f) == {c \in queue : Form[c] = f}
Blocked == \/ WithForm("unhashable") # {}
           \/ Cardinality(WithForm("no_id")) >= MaxCommands

(* Once failures end, Dash gets a result for every addressable decision    *)
(* it queued, whatever was lost on the way and whatever else is queued,    *)
(* unless ids it hands out with it block the queue (gateway.py:2183-2189). *)
EveryDecisionReported ==
  \A c \in Cmd :
    c \in Seen /\ Form[c] \notin {"unhashable", "no_id"} ~> told[c] # {} \/ Blocked
=============================================================================
