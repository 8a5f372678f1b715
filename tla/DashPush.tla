------------------------------ MODULE DashPush ------------------------------
(***************************************************************************)
(* The scheduler that pushes this instance's views to Dash:                *)
(* DashPusher.run, step, _wait, _failed, _poll_interval and digest of      *)
(* nix/gateway.py.  One thread runs it for each Dash target.               *)
(*                                                                         *)
(* A round reads the clock, builds the views, and pushes them if there is  *)
(* something to say; else it polls Dash if the time has come; else it does *)
(* nothing.  What Dash answers decides how long the thread then waits.     *)
(*                                                                         *)
(* Time is discrete and only differences of it matter, so the times the    *)
(* code keeps (last_push, last_call, the end of the wait) are kept as ages *)
(* and as a countdown.  A round takes up to RoundTime: the times the code  *)
(* compares are those at its start, the wait counts from its end.          *)
(*                                                                         *)
(* Simplifications.                                                        *)
(*  - Views are a content; with a runtime snapshot of the host, also its   *)
(*    age in fractions of a second, which no two builds agree on.          *)
(*  - Dash keeps a click on Refresh until a push reaches it.               *)
(*  - The decisions a reply carries are in Decisions; here only whether    *)
(*    any ran counts.  Applying them falls in the time of the round.       *)
(***************************************************************************)
EXTENDS Naturals

CONSTANTS
  Content,       \* what the views can say
  Poll,          \* REBEKAH_DASH_POLL_INTERVAL
  Heartbeat,     \* REBEKAH_DASH_PUSH_INTERVAL
  MinPoll,       \* DASH_MIN_POLL
  Watch,         \* DASH_WATCH
  MaxBackoff,    \* DASH_MAX_BACKOFF
  EphorStates,   \* the possible values of cfg.ephor_state == "enabled"
  TakesCommands, \* commands: FALSE for a mirror
  Snapshots,     \* does the system view carry a runtime snapshot
  RoundTime,     \* the longest a round takes
  MaxRetry,      \* the longest Retry-After Dash asks for
  MaxAge,        \* bound on every age, past all that is compared
  MaxFaults      \* bound on failed rounds

ASSUME DashPushAssumption ==
  /\ {MinPoll, Poll, Heartbeat, Watch, MaxBackoff, RoundTime, MaxRetry, MaxAge, MaxFaults}
       \subseteq Nat
  /\ 1 <= MinPoll /\ MinPoll <= Poll /\ Poll <= Heartbeat /\ 1 <= Watch
  /\ 1 <= MaxRetry
  /\ Heartbeat + 2 * RoundTime < MaxAge
  /\ EphorStates \cup Snapshots \cup {TakesCommands} \subseteq BOOLEAN

Never == MaxAge + 1   \* the age of what has not happened

VARIABLES
  ephorEnabled,\* cfg.ephor_state == "enabled": read once, at the start
  snapshot,    \* cfg.runtime_snapshot names one that is valid
  content,     \* what the views would say now
  shown,       \* Dash: the content of the last push it received, {} if none
  clicked,     \* Dash: someone asked for fresh data
  pc,          \* "wait": stop.wait(delay); "build", "call": in step
  delay,       \* what is left of the wait
  spent,       \* how long the round has taken
  built,       \* step: the views of this round, by their digest
  due,         \* step: this round pushes
  lastDigest,  \* self.last_digest
  pushAge,     \* now - self.last_push
  callAge,     \* now - self.last_call
  pollEvery,   \* self.poll_every
  refresh,     \* self.refresh
  failures,    \* self.failures, to the 10 that count
  quiet,       \* history: time since the content changed or a round failed
  clickAge,    \* history: time since the click Dash keeps
  faults       \* history: failed rounds

dash    == <<shown, clicked>>
round   == <<pc, delay, spent, built, due>>
self    == <<lastDigest, pushAge, callAge, pollEvery, refresh, failures>>
history == <<quiet, clickAge, faults>>
vars    == <<ephorEnabled, snapshot, content, dash, round, self, history>>

NoDigest == {}

Min2(a, b) == IF a < b THEN a ELSE b
Max2(a, b) == IF a > b THEN a ELSE b
Older(age) == IF age = Never THEN Never ELSE Min2(age + 1, MaxAge)

(* An age as it was when the round read the clock.                         *)
AtStart(age) == IF age = Never THEN Never ELSE age - spent

Init ==
  /\ ephorEnabled \in EphorStates /\ snapshot \in Snapshots
  /\ content \in Content
  /\ shown = {} /\ clicked = FALSE
  /\ pc = "wait" /\ delay = 1 /\ spent = 0
  /\ built = NoDigest /\ due = FALSE
  /\ lastDigest = NoDigest
  /\ pushAge = Never /\ callAge = Never
  /\ pollEvery = Poll
  /\ refresh = FALSE
  /\ failures = 0
  /\ quiet = 0 /\ clickAge = 0 /\ faults = 0

-----------------------------------------------------------------------------
(* The world: time, the services whose state the views show, the users of  *)
(* Dash.                                                                   *)

(* No wait is longer than its delay and no round longer than RoundTime.    *)
Tick ==
  /\ IF pc = "wait"
       THEN delay > 0 /\ delay' = delay - 1 /\ UNCHANGED spent
       ELSE spent < RoundTime /\ spent' = spent + 1 /\ UNCHANGED delay
  /\ pushAge' = Older(pushAge)
  /\ callAge' = Older(callAge)
  /\ quiet' = Older(quiet)
  /\ clickAge' = IF clicked THEN Older(clickAge) ELSE clickAge
  /\ UNCHANGED <<content, dash, pc, built, due, lastDigest, pollEvery, refresh, failures,
                 faults>>

ViewsChange ==
  /\ \E c \in Content \ {content} : content' = c
  /\ quiet' = 0
  /\ UNCHANGED <<dash, round, self, clickAge, faults>>

Click ==
  /\ ~clicked
  /\ clicked' = TRUE
  /\ clickAge' = 0
  /\ UNCHANGED <<content, shown, round, self, quiet, faults>>

-----------------------------------------------------------------------------
(* Fault: a wait that forgets the heartbeat.                               *)
WaitForPoll(every, sinceCall, sincePush) ==
  LET untilPoll == Max2(every - Min2(sinceCall, every), 1)
  IN  IF ephorEnabled THEN Min2(Watch, untilPoll) ELSE untilPoll

(* _wait: to the next poll or the heartbeat, or sooner to watch for holds. *)
Wait(every, sinceCall, sincePush) ==
  LET untilPoll == Max2(every - Min2(sinceCall, every), 1)
      untilPush == IF sincePush = Never THEN untilPoll
                   ELSE Max2(Heartbeat - Min2(sincePush, Heartbeat), 1)
      next == Min2(untilPoll, untilPush)
  IN  IF ephorEnabled THEN Min2(Watch, next) ELSE next

(* _poll_interval: what Dash asks for, within [MinPoll, Poll].             *)
PollInterval(asked) == Min2(Max2(asked, MinPoll), Poll)

(* _failed: twice as long after each failure.                              *)
Backoff(n) == Min2(Poll * 2^n, MaxBackoff)

Sleep(n) == pc' = "wait" /\ delay' = n /\ spent' = 0

(* The clock is read first, then the views are built.                      *)
RoundStarts ==
  /\ pc = "wait" /\ delay = 0
  /\ pc' = "build"
  /\ UNCHANGED <<content, dash, delay, spent, built, due, self, history>>

(* digest: the views are hashed without their own observed_at, but with the *)
(* age that runtime_snapshot has computed.                                 *)
Digest == content
Changed == snapshot \/ Digest # lastDigest

(* Fault: a change waits for the heartbeat.                                *)
DueWithoutChange ==
  \/ refresh
  \/ pushAge = Never
  \/ AtStart(pushAge) >= Heartbeat

(* Fault: unchanged views are never pushed again.                          *)
DueOnlyOnChange == refresh \/ Changed \/ pushAge = Never

Due == \/ refresh
       \/ Changed
       \/ pushAge = Never
       \/ AtStart(pushAge) >= Heartbeat

(* Nothing new to say, and not yet time to ask.                            *)
NothingToDo ==
  /\ pc = "build"
  /\ ~Due
  /\ AtStart(callAge) < pollEvery
  /\ built' = Digest
  /\ due' = FALSE
  /\ Sleep(Wait(pollEvery, AtStart(callAge), AtStart(pushAge)))
  /\ UNCHANGED <<content, dash, self, history>>

CallStarts ==
  /\ pc = "build"
  /\ Due \/ AtStart(callAge) >= pollEvery
  /\ built' = Digest
  /\ due' = Due
  /\ callAge' = spent
  /\ pc' = "call"
  /\ UNCHANGED <<content, dash, delay, spent, lastDigest, pushAge, pollEvery,
                 refresh, failures, history>>

(* A push reaches Dash: it shows the views and forgets the click.          *)
Received == /\ shown' = {built}
            /\ clicked' = FALSE
            /\ clickAge' = 0

(* 200 to a push.  The reply may still name the click the push answers;    *)
(* a decision changes what the views show, so they are pushed again.       *)
PushAccepted ==
  /\ pc = "call" /\ due
  /\ Received
  /\ failures' = 0
  /\ \E asked \in 0..Poll : pollEvery' = PollInterval(asked)
  /\ lastDigest' = built
  /\ pushAge' = spent
  /\ \E decided \in {FALSE, TakesCommands}, flag \in {FALSE, clicked} :
       /\ refresh' = (flag \/ decided)
       /\ Sleep(IF decided THEN 0 ELSE Wait(pollEvery', 0, 0))
  /\ UNCHANGED <<content, built, due, callAge, quiet, faults>>

(* Fault: a click is pushed at the next poll.                              *)
PollAcceptedLazily ==
  /\ pc = "call" /\ ~due
  /\ failures' = 0
  /\ \E asked \in 0..Poll : pollEvery' = PollInterval(asked)
  /\ \E decided \in {FALSE, TakesCommands} :
       /\ refresh' = (clicked \/ decided)
       /\ Sleep(IF decided THEN 0 ELSE Wait(pollEvery', 0, AtStart(pushAge)))
  /\ UNCHANGED <<content, dash, built, due, lastDigest, pushAge, callAge, quiet,
                 clickAge, faults>>

(* 200 to a poll.  Someone asked for fresh data: push now.                 *)
PollAccepted ==
  /\ pc = "call" /\ ~due
  /\ failures' = 0
  /\ \E asked \in 0..Poll : pollEvery' = PollInterval(asked)
  /\ \E decided \in {FALSE, TakesCommands} :
       /\ refresh' = (clicked \/ decided)
       /\ Sleep(IF refresh' THEN 0 ELSE Wait(pollEvery', 0, AtStart(pushAge)))
  /\ UNCHANGED <<content, dash, built, due, lastDigest, pushAge, callAge, quiet,
                 clickAge, faults>>

-----------------------------------------------------------------------------
(* Rounds that fail.  A failed push may have reached Dash all the same.    *)

Fails == /\ faults < MaxFaults
         /\ faults' = faults + 1
         /\ quiet' = 0

MaybeReceived == \/ due /\ Received
                 \/ UNCHANGED <<dash, clickAge>>

(* 401 or 403.                                                             *)
Rejected ==
  /\ pc = "call"
  /\ Fails
  /\ failures' = Min2(failures + 1, 10)
  /\ Sleep(MaxBackoff)
  /\ UNCHANGED <<content, dash, built, due, lastDigest, pushAge, callAge,
                 pollEvery, refresh, clickAge>>

(* 429, with or without a time to wait.                                    *)
RateLimited ==
  /\ pc = "call"
  /\ Fails
  /\ \E retry \in 0..MaxRetry : Sleep(Max2(IF retry = 0 THEN Poll ELSE retry, 1))
  /\ UNCHANGED <<content, dash, built, due, self, clickAge>>

(* No answer, or one that is none of these: back off.                      *)
CallFails ==
  /\ pc = "call"
  /\ Fails
  /\ MaybeReceived
  /\ failures' = Min2(failures + 1, 10)
  /\ Sleep(Backoff(failures'))
  /\ UNCHANGED <<content, built, due, lastDigest, pushAge, callAge, pollEvery,
                 refresh>>

(* Building the views raises: run backs off, and the clock of the last     *)
(* call stays as it was.                                                   *)
BuildRaises ==
  /\ pc = "build"
  /\ Fails
  /\ failures' = Min2(failures + 1, 10)
  /\ Sleep(Backoff(failures'))
  /\ UNCHANGED <<content, dash, built, due, lastDigest, pushAge, callAge,
                 pollEvery, refresh, clickAge>>

(* Dash answered 200 and a decision it sent raises: the round is not       *)
(* remembered as a push, and failures was reset just before.               *)
DecisionRaises ==
  /\ pc = "call" /\ TakesCommands
  /\ Fails
  /\ IF due THEN Received ELSE UNCHANGED <<dash, clickAge>>
  /\ \E asked \in 0..Poll : pollEvery' = PollInterval(asked)
  /\ failures' = 1
  /\ Sleep(Backoff(1))
  /\ UNCHANGED <<content, built, due, lastDigest, pushAge, callAge, refresh>>

-----------------------------------------------------------------------------
Step ==
  \/ RoundStarts
  \/ NothingToDo
  \/ CallStarts
  \/ PushAccepted \/ PollAccepted

Failure ==
  \/ Rejected \/ RateLimited \/ CallFails
  \/ BuildRaises \/ DecisionRaises

World == Tick \/ ViewsChange \/ Click

Next ==
  /\ Step \/ Failure \/ World
  /\ UNCHANGED <<ephorEnabled, snapshot>>

Spec == Init /\ [][Next]_vars

Ages == 0..MaxAge \cup {Never}
Digests == Content \cup {NoDigest}

TypeOK ==
  /\ ephorEnabled \in EphorStates /\ snapshot \in Snapshots
  /\ content \in Content
  /\ shown = {} \/ \E c \in Content : shown = {c}
  /\ clicked \in BOOLEAN /\ due \in BOOLEAN /\ refresh \in BOOLEAN
  /\ pc \in {"wait", "build", "call"}
  /\ delay \in 0..Max2(Max2(MaxBackoff, MaxRetry), Heartbeat)
  /\ spent \in 0..RoundTime
  /\ built \in Digests /\ lastDigest \in Digests
  /\ pushAge \in Ages /\ callAge \in Ages /\ quiet \in Ages /\ clickAge \in Ages
  /\ pollEvery \in MinPoll..Poll
  /\ failures \in 0..10
  /\ faults \in 0..MaxFaults

Shows(c) == shown = {c}

(* "sends Dash its payloads whenever they change" (README.md:219), and     *)
(* with Ephor "looks for new ones every 5 seconds": without failures, Dash *)
(* shows a change one wait, and the rounds at its two ends, after it.      *)
ChangesArrive ==
  faults = 0 /\ ~Shows(content) =>
    quiet <= (IF ephorEnabled THEN Watch ELSE Poll) + 2 * RoundTime

(* "at least every REBEKAH_DASH_PUSH_INTERVAL seconds" (README.md:221),    *)
(* give or take the round that was running and the push itself.            *)
HeartbeatKept ==
  faults = 0 /\ pushAge # Never => pushAge <= Heartbeat + 2 * RoundTime

(* "checks every REBEKAH_DASH_POLL_INTERVAL seconds whether someone        *)
(* clicked Refresh in Dash, pushing at once if so" (README.md:221-223).    *)
RefreshServed ==
  faults = 0 /\ clicked => clickAge <= Poll + 3 * RoundTime

(* Whatever was lost on the way, a heartbeat or a backoff after the last   *)
(* failure or change Dash shows what is.                                   *)
CatchesUp ==
  ~Shows(content) =>
    quiet <= Max2(Max2(MaxBackoff, MaxRetry), Heartbeat) + 2 * RoundTime
=============================================================================
