----------------------------- MODULE DashViews -----------------------------
(***************************************************************************)
(* What one round of the pusher says: DashPusher.views of nix/gateway.py   *)
(* and the views it reads, one source after the other, while reviewers     *)
(* decide, agents ask, the agenda's generator writes and services fail.    *)
(* The agenda's part of the state and of the steps is that of Agenda.      *)
(*                                                                         *)
(* A surface of Ephor (the bridge, and one MCP gate per service) lists its *)
(* actions in an order of its own.  The bridge is asked for the pending    *)
(* ones and at most Limit of them; a gate lists every action it has, of    *)
(* which the gateway looks at the first Limit.                             *)
(*                                                                         *)
(* Simplifications.                                                        *)
(*  - A hold is its name and status; risk, deadline and arguments are      *)
(*    texts that nothing here depends on.                                  *)
(*  - Of the system's, the work and the change requests' views only how    *)
(*    large they and the oversight view are together.                      *)
(*  - What a reply of Frog contains is in what the gateway makes of it.    *)
(***************************************************************************)
EXTENDS Agenda, Sequences, FiniteSets, FiniteSetsExt

CONSTANTS
  Hold,        \* the actions Ephor may hold
  SurfaceOf,   \* where it holds each: "bridge", or a gate
  Gates,       \* sorted(cfg.mcp_gates)
  Setups,      \* the settings a behaviour starts with: <<Ephor is enabled,
               \* the agenda has a directory>>
  Limit,       \* the 100 of v1_oversight
  FrogReply,   \* what Frog may answer, as Frog below understands it
  SizeOf,      \* edition -> the size of its view
  FrogSize,    \* the size of a ready Frog view
  WorkSize,    \* the sizes of all other views together
  Cap          \* DASH_MAX_PUSH

ASSUME DashViewsAssumption ==
  /\ IsFiniteSet(Hold)
  /\ Gates \in Seq(STRING) /\ \A i, j \in 1..Len(Gates) : Gates[i] = Gates[j] => i = j
  /\ \A i \in 1..Len(Gates) : Gates[i] # "bridge"
  /\ \A h \in Hold : SurfaceOf[h] = "bridge" \/ \E i \in 1..Len(Gates) : SurfaceOf[h] = Gates[i]
  /\ Setups \subseteq BOOLEAN \X BOOLEAN /\ Limit \in Nat /\ Cap \in Nat
  /\ FrogReply \subseteq {"disabled", "down", "malformed", "ahead", "skewed", "late", "fresh"}
  /\ SizeOf \in [Edition -> Nat] /\ FrogSize \in Nat /\ WorkSize \subseteq Nat

VARIABLES
  enabled,     \* cfg.ephor_state == "enabled"
  status,      \* Ephor: "none", "pending" or "decided", for each hold
  step,        \* the view that DashPusher.views reads next
  gate,        \* v1_oversight: gates read
  items,       \* v1_oversight: the holds to show
  stale,       \* v1_oversight: a surface did not answer
  frog,        \* v1_frog_kanban
  size,        \* the size of the views that are not optional
  agenda,      \* the agenda's view as it goes into the push
  always,      \* history: holds pending ever since the round began
  ever         \* history: holds pending at some time since then

oversight == <<gate, items, stale>>
others == <<frog, size, agenda>>
history == <<always, ever>>
viewsVars == <<agendaVars, enabled, status, step, oversight, others, history>>

Pending == {h \in Hold : status[h] = "pending"}
HeldBy(s) == {h \in Hold : SurfaceOf[h] = s /\ status[h] # "none"}

Init ==
  /\ AgendaInit
  /\ enabled \in BOOLEAN /\ <<enabled, configured>> \in Setups
  /\ status = [h \in Hold |-> "none"]
  /\ step = "rest"
  /\ gate = 0 /\ items = {} /\ stale = FALSE
  /\ frog = "unavailable" /\ size = 0
  /\ agenda = Unavailable
  /\ always = {} /\ ever = {}

-----------------------------------------------------------------------------
(* Ephor.  A hold is decided by a reviewer or by its deadline.             *)

Becomes(h, s) ==
  /\ status' = [status EXCEPT ![h] = s]
  /\ UNCHANGED <<agendaVars, enabled, step, oversight, others>>

HoldRequested(h) ==
  /\ enabled /\ status[h] = "none"
  /\ Becomes(h, "pending")
  /\ ever' = IF step = "rest" THEN ever ELSE ever \cup {h}
  /\ UNCHANGED always

HoldDecided(h) ==
  /\ status[h] = "pending"
  /\ Becomes(h, "decided")
  /\ always' = always \ {h} /\ UNCHANGED ever

-----------------------------------------------------------------------------
(* DashPusher.views.                                                       *)

Goes(s) == step' = s /\ UNCHANGED <<enabled, status, history>>

(* The kanban is fetched once, for both views that project it.             *)
FetchKanban ==
  /\ step = "rest"
  /\ step' = IF enabled THEN "bridge" ELSE "agenda"
  /\ size' \in WorkSize
  /\ always' = Pending /\ ever' = Pending
  /\ UNCHANGED <<agendaVars, enabled, status, oversight, frog, agenda>>

(* What the first n of a list of s can be, the list's order being unknown. *)
Firsts(n, s) == kSubset(IF n < Cardinality(s) THEN n ELSE Cardinality(s), s)

AfterGates == IF gate' < Len(Gates) THEN "gates" ELSE "agenda"

BridgeLists ==
  /\ step = "bridge"
  /\ \/ items' \in Firsts(Limit, HeldBy("bridge") \cap Pending) /\ UNCHANGED stale
     \/ stale' = TRUE /\ UNCHANGED items
  /\ UNCHANGED gate
  /\ Goes(AfterGates) /\ UNCHANGED <<agendaVars, others>>

(* Fault: an action is shown whatever its status.                          *)
KeptUndecidedOrNot(listed) == Firsts(Limit - Cardinality(items), listed)

(* Of a gate's first actions the pending ones are kept, and of those what  *)
(* the limit of the whole view has room for.                               *)
Kept(listed) == Firsts(Limit - Cardinality(items), listed \cap Pending)

GateLists ==
  /\ step = "gates"
  /\ gate' = gate + 1
  /\ \E listed \in Firsts(Limit, HeldBy(Gates[gate'])) :
       \E kept \in Kept(listed) : items' = items \cup kept
  /\ UNCHANGED stale
  /\ Goes(AfterGates) /\ UNCHANGED <<agendaVars, others>>

(* Fault: a gate that does not answer holds nothing.                       *)
GateFailsQuietly ==
  /\ step = "gates"
  /\ gate' = gate + 1 /\ UNCHANGED <<stale, items>>
  /\ Goes(AfterGates) /\ UNCHANGED <<agendaVars, others>>

GateFails ==
  /\ step = "gates"
  /\ gate' = gate + 1 /\ stale' = TRUE /\ UNCHANGED items
  /\ Goes(AfterGates) /\ UNCHANGED <<agendaVars, others>>

AgendaBegins ==
  /\ step = "agenda"
  /\ BeginRead
  /\ Goes("reading") /\ UNCHANGED <<oversight, others>>

AgendaReads ==
  /\ step = "reading"
  /\ AgendaRead
  /\ Goes(IF reader' = "idle" THEN "frog" ELSE "reading")
  /\ UNCHANGED <<oversight, others>>

Frog(reply) ==
  CASE reply = "disabled" -> "disabled"
    [] reply \in {"down", "malformed", "ahead"} -> "unavailable"
    [] reply \in {"skewed", "late"} -> "stale"
    [] reply = "fresh" -> "ready"

FrogListed ==
  /\ step = "frog"
  /\ \E reply \in FrogReply : frog' = Frog(reply)
  /\ Goes("envelope") /\ UNCHANGED <<agendaVars, oversight, size, agenda>>

FrogTakes(f) == IF f \in {"ready", "stale"} THEN FrogSize ELSE 0
AgendaTakes(a) == IF a.status = "ready" THEN SizeOf[a.manifest] ELSE 0
Fits(f, a) == size + FrogTakes(f) + AgendaTakes(a) <= Cap

(* Fault: each view is compared with the cap, not all of them together.    *)
EnvelopeOfEach ==
  /\ step = "envelope"
  /\ frog' = IF FrogTakes(frog) <= Cap THEN frog ELSE "unavailable"
  /\ agenda' = IF AgendaTakes(answer) <= Cap THEN answer ELSE Unavailable
  /\ Goes("pushed") /\ UNCHANGED <<agendaVars, oversight, size>>

(* Fault: the agenda gives way first, as docs/DAILY-AGENDA.md:119 has it.  *)
EnvelopeAgendaFirst ==
  /\ step = "envelope"
  /\ agenda' = IF Fits(frog, answer) THEN answer ELSE Unavailable
  /\ frog' = IF Fits(frog, agenda') THEN frog ELSE "unavailable"
  /\ Goes("pushed") /\ UNCHANGED <<agendaVars, oversight, size>>

(* Frog's view gives way first, the agenda's if that was not enough.       *)
Envelope ==
  /\ step = "envelope"
  /\ frog' = IF Fits(frog, answer) THEN frog ELSE "unavailable"
  /\ agenda' = IF Fits(frog', answer) THEN answer ELSE Unavailable
  /\ Goes("pushed") /\ UNCHANGED <<agendaVars, oversight, size>>

(* step() pushes the views, if they say anything new, and forgets them.     *)
RoundEnds ==
  /\ step = "pushed"
  /\ gate' = 0 /\ items' = {} /\ stale' = FALSE
  /\ frog' = "unavailable" /\ size' = 0
  /\ agenda' = Unavailable
  /\ always' = {} /\ ever' = {}
  /\ step' = "rest" /\ UNCHANGED <<agendaVars, enabled, status>>

Round ==
  \/ FetchKanban \/ BridgeLists \/ GateLists \/ GateFails
  \/ AgendaBegins \/ AgendaReads
  \/ FrogListed \/ Envelope \/ RoundEnds

Still == UNCHANGED <<enabled, status, step, oversight, others, history>>

World ==
  \/ \E h \in Hold : HoldRequested(h) \/ HoldDecided(h)
  \/ HostStep /\ Still
  \/ AgendaTick /\ Still

Next == Round \/ World

(* The pusher's rounds go on (DashPush), and so does the clock.            *)
Fairness == WF_viewsVars(Round) /\ WF_viewsVars(AgendaTick /\ Still)

Spec == Init /\ [][Next]_viewsVars /\ Fairness

-----------------------------------------------------------------------------
(* Properties.                                                             *)

(* Types.                                                                  *)
TypeOK ==
  /\ AgendaTypeOK
  /\ enabled \in BOOLEAN /\ status \in [Hold -> {"none", "pending", "decided"}]
  /\ step \in {"rest", "bridge", "gates", "agenda", "reading", "frog",
              "envelope", "pushed"}
  /\ (reader # "idle" => step = "reading") /\ gate \in 0..Len(Gates)
  /\ items \subseteq Hold /\ Cardinality(items) <= Limit /\ stale \in BOOLEAN
  /\ frog \in {"disabled", "unavailable", "stale", "ready"}
  /\ size \in WorkSize \cup {0} /\ agenda \in Answers
  /\ always \subseteq ever /\ ever \subseteq Hold

(* A reviewer who is shown a view that does not call itself stale misses    *)
(* nothing: as long as Ephor has no more actions than the view has room for, *)
(* whatever was held during the whole round is in it.                      *)
PendingIsShown ==
  step = "pushed" /\ ~stale /\ Cardinality({h \in Hold : status[h] # "none"}) <= Limit
    => always \subseteq items

(* What was decided before the round began is not shown to a reviewer.     *)
ShownWasPending == items \subseteq ever

(* A large optional view keeps nothing else from Dash (gateway.py:2158):   *)
(* the push fits if the views that are not optional do.  The agenda gives  *)
(* way only when it would not fit without Frog's view either; that is the  *)
(* code's order (2162-2174), where docs/DAILY-AGENDA.md:119 only knows of  *)
(* the agenda giving way.                                                  *)
OptionalYields ==
  step = "pushed" =>
    /\ size <= Cap => Fits(frog, agenda)
    /\ agenda # answer => size + AgendaTakes(answer) > Cap

(* What goes into the push is what is in place, if nothing changed since   *)
(* the read began: an edition that projects, if there is room for it       *)
(* beside the views that are not optional, and then with the age of its    *)
(* evidence; that its contract is unknown, if those views alone have room. *)
PushedFits ==
  step = "pushed" /\ ~disturbed /\ configured =>
    /\ agenda.status = "ready"
         <=> \E e \in InPlace \cap Sound :
               Supported(e) /\ ~Ahead(e, now) /\ size + SizeOf[e] <= Cap
    /\ agenda.status = "ready" =>
         /\ agenda.manifest = disk["manifest"]
         /\ agenda.stale <=> now > Observed[disk["snapshot"]] + MaxEvidence
    /\ agenda.status = "contract-mismatch"
         <=> size <= Cap /\ \E e \in InPlace \cap Readable : ~Supported(e)

AtRest(e) == Whole(e) /\ e \in Sound /\ Supported(e) /\ ~Ahead(e, MaxNow)

HasRoom(e) == step = "envelope" /\ size + SizeOf[e] <= Cap
Shows(e)   == step = "pushed" /\ agenda.status = "ready" /\ agenda.manifest = e

(* Once a sound edition of a known contract is in place and stays, it is   *)
(* pushed again and again, whatever earlier rounds ran into and however    *)
(* far ahead the host's clock was, as long as there are rounds that have   *)
(* room for it beside the views that are not optional.                     *)
EditionArrives ==
  \A e \in Edition : <>[]AtRest(e) /\ []<>HasRoom(e) => []<>Shows(e)
=============================================================================
