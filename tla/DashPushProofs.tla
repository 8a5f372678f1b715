--------------------------- MODULE DashPushProofs ---------------------------
(***************************************************************************)
(* The push scheduler keeps its promises for any intervals, any length of  *)
(* a round and any number of failures: a heartbeat, a change, a click and  *)
(* the end of a disturbance each reach Dash in time.                       *)
(*                                                                         *)
(* None of the four is inductive.  Each age grows with the clock, so what  *)
(* bounds it is the age and what is left of the wait together, and, while  *)
(* a round runs, the age it had when the round began: AtStart is what the  *)
(* code computes with, spent is what it does not know of.                  *)
(***************************************************************************)
EXTENDS DashPush, TLAPS

(* How soon a round follows a change.                                      *)
WatchTime == IF ephorEnabled THEN Watch ELSE Poll

(* The longest wait.                                                       *)
MaxWait == Max2(Max2(MaxBackoff, MaxRetry), Heartbeat)

(* A round's time is part of every age it may compute with, and what it    *)
(* has built is what it found.                                             *)
InRound ==
  /\ pc = "wait" => spent = 0
  /\ pc # "wait" => spent <= callAge /\ spent <= pushAge
  /\ pc = "call" => callAge = spent /\ built \in Content
  /\ pc = "call" /\ built # content => quiet <= spent
  /\ pc = "call" /\ ~due =>
       ~refresh /\ built = lastDigest /\ pushAge < Heartbeat + spent
  /\ quiet <= MaxAge /\ clickAge <= MaxAge

(* The heartbeat.                                                          *)
Beats ==
  faults = 0 /\ pushAge # Never =>
    /\ pc = "wait" => pushAge + delay <= Heartbeat + RoundTime
    /\ pc # "wait" => pushAge <= Heartbeat + RoundTime + spent

(* As long as nothing fails, Dash shows what was pushed last.              *)
InStep ==
  faults = 0 =>
    /\ shown = IF pushAge = Never THEN {} ELSE {lastDigest}
    /\ pc = "wait" => delay <= WatchTime /\ delay <= Poll

(* A change that Dash does not show yet.                                   *)
Changes ==
  faults = 0 /\ ~Shows(content) =>
    /\ pc = "wait" => quiet + delay <= WatchTime + RoundTime
    /\ pc # "wait" => quiet <= WatchTime + RoundTime + spent

(* A click: it waits for the next poll, and then for a push.               *)
Clicks ==
  faults = 0 =>
    /\ pc = "wait" /\ callAge # Never => callAge + delay <= Poll + RoundTime
    /\ clicked /\ ~refresh /\ pc # "call" => clickAge <= callAge
    /\ clicked /\ ~refresh /\ pc = "wait" => clickAge + delay <= Poll + RoundTime
    /\ clicked /\ ~refresh /\ pc = "build" => clickAge <= Poll + RoundTime + spent
    /\ clicked /\ refresh /\ pc = "wait" => clickAge + delay <= Poll + 2 * RoundTime
    /\ clicked /\ ((refresh /\ pc = "build") \/ pc = "call") =>
         clickAge <= Poll + 2 * RoundTime + spent
    /\ clicked /\ pc = "call" /\ ~due => clickAge <= Poll + RoundTime + spent

(* What a failure left behind.                                             *)
Recovers ==
  ~Shows(content) =>
    /\ quiet <= pushAge
    /\ pc = "wait" => quiet + delay <= MaxWait + RoundTime
    /\ pc # "wait" => quiet <= MaxWait + RoundTime + spent

PushInv == TypeOK /\ InRound /\ Beats /\ InStep /\ Changes /\ Clicks /\ Recovers

-----------------------------------------------------------------------------
(* Numbers.                                                                *)

(* The intervals.                                                          *)
LEMMA Intervals ==
  /\ MinPoll \in Nat /\ Poll \in Nat /\ Heartbeat \in Nat /\ Watch \in Nat
  /\ MaxBackoff \in Nat /\ RoundTime \in Nat /\ MaxRetry \in Nat /\ MaxAge \in Nat
  /\ MaxFaults \in Nat
  /\ 1 <= MinPoll /\ MinPoll <= Poll /\ Poll <= Heartbeat /\ 1 <= Watch
  /\ Heartbeat + 2 * RoundTime < MaxAge
  /\ Never = MaxAge + 1
  /\ MaxWait \in Nat /\ Heartbeat <= MaxWait /\ MaxBackoff <= MaxWait /\ MaxRetry <= MaxWait
  BY DashPushAssumption DEF Never, MaxWait, Max2

(* The longest wait, as the type invariant writes it.                      *)
LEMMA Waits ==
  0..Max2(Max2(MaxBackoff, MaxRetry), Heartbeat) = 0..MaxWait
  BY DEF MaxWait

(* Ages.                                                                   *)
LEMMA AgesAre ==
  /\ Ages = 0..MaxAge + 1
  /\ \A a \in Ages :
       /\ Older(a) \in Ages /\ Older(a) <= a + 1 /\ a <= Older(a)
       /\ a < MaxAge => Older(a) = a + 1
       /\ (Older(a) = Never) = (a = Never)
       /\ a <= MaxAge => Older(a) <= MaxAge
  /\ \A a, b \in Ages : a <= b => Older(a) <= Older(b)
  BY Intervals DEF Ages, Older, Min2, Never

(* What just happened has an age.                                          *)
LEMMA ZeroAge == 0 \in Ages
  BY AgesAre, Intervals

(* A wait ends by the next poll and the heartbeat, and soon if it watches. *)
LEMMA WaitEnds ==
  ASSUME NEW every \in 1..Poll, NEW sinceCall \in Nat, NEW sincePush \in Nat
  PROVE  /\ Wait(every, sinceCall, sincePush) \in 0..Poll
         /\ Wait(every, sinceCall, sincePush) <= WatchTime
         /\ sinceCall < every => sinceCall + Wait(every, sinceCall, sincePush) <= every
         /\ sincePush < Heartbeat => sincePush + Wait(every, sinceCall, sincePush) <= Heartbeat
<1>1. sincePush = Never \/ sincePush # Never
  OBVIOUS
<1> QED
  BY <1>1, Intervals DEF Wait, WatchTime, Min2, Max2

(* What Dash asks for is kept within the bounds.                           *)
LEMMA PollIntervals ==
  ASSUME NEW asked \in 0..Poll
  PROVE  PollInterval(asked) \in MinPoll..Poll /\ PollInterval(asked) \in 1..Poll
  BY Intervals DEF PollInterval, Min2, Max2

(* The powers that a backoff multiplies with.                              *)
LEMMA Powers ==
  ASSUME NEW n \in 0..10
  PROVE  2^n \in Nat
<1>1. 2^0 \in Nat /\ 2^1 \in Nat /\ 2^2 \in Nat /\ 2^3 \in Nat /\ 2^4 \in Nat
  OBVIOUS
<1>2. 2^5 \in Nat /\ 2^6 \in Nat /\ 2^7 \in Nat /\ 2^8 \in Nat /\ 2^9 \in Nat /\ 2^10 \in Nat
  OBVIOUS
<1>3. n = 0 \/ n = 1 \/ n = 2 \/ n = 3 \/ n = 4 \/ n = 5 \/ n = 6 \/ n = 7 \/ n = 8 \/ n = 9
        \/ n = 10
  OBVIOUS
<1> QED
  BY <1>1, <1>2, <1>3, Zenon

(* No backoff is longer than the longest.                                  *)
LEMMA BackoffEnds ==
  ASSUME NEW n \in 0..10
  PROVE  Backoff(n) \in 0..MaxWait
<1> DEFINE k == 2^n
<1>1. k \in Nat
  BY Powers
<1>2. Backoff(n) = Min2(Poll * k, MaxBackoff)
  BY DEF Backoff
<1> HIDE DEF k
<1>3. Poll * k \in Nat
  BY <1>1, Intervals
<1> QED
  BY <1>2, <1>3, Intervals DEF Min2
-----------------------------------------------------------------------------
(* The types, with the longest wait by its name.                           *)
LEMMA Types ==
  ASSUME TypeOK
  PROVE  /\ delay \in 0..MaxWait /\ spent \in 0..RoundTime /\ pollEvery \in 1..Poll
         /\ pushAge \in 0..MaxAge + 1 /\ callAge \in 0..MaxAge + 1
         /\ quiet \in 0..MaxAge + 1 /\ clickAge \in 0..MaxAge + 1
         /\ failures \in 0..10 /\ faults \in Nat
         /\ WatchTime \in Nat /\ 1 <= WatchTime
<1>1. /\ delay \in 0..MaxWait /\ spent \in 0..RoundTime /\ failures \in 0..10
      /\ faults \in 0..MaxFaults /\ pollEvery \in MinPoll..Poll
  BY Waits DEF TypeOK
<1>2. pushAge \in Ages /\ callAge \in Ages /\ quiet \in Ages /\ clickAge \in Ages
  BY DEF TypeOK
<1>3. Ages = 0..MaxAge + 1
  BY AgesAre
<1>4. WatchTime \in Nat /\ 1 <= WatchTime
  BY Intervals DEF WatchTime
<1> QED
  BY <1>1, <1>2, <1>3, <1>4, Intervals

(* Everything holds at the start.                                          *)
LEMMA Starts ==
  ASSUME Init
  PROVE  PushInv
<1>1. TypeOK
  <2>1. /\ ephorEnabled \in EphorStates /\ snapshot \in Snapshots /\ content \in Content
        /\ shown = {} /\ built \in Digests /\ lastDigest \in Digests
    BY DEF Init, Digests
  <2>2. /\ clicked = FALSE /\ pc = "wait" /\ delay = 1 /\ spent = 0 /\ due = FALSE
        /\ pushAge = Never /\ callAge = Never /\ pollEvery = Poll /\ refresh = FALSE
        /\ failures = 0 /\ quiet = 0 /\ clickAge = 0 /\ faults = 0
    BY DEF Init
  <2>3. 1 \in 0..MaxWait /\ Never \in Ages /\ 0 \in Ages /\ Poll \in MinPoll..Poll
        /\ 0 \in 0..RoundTime /\ 0 \in 0..10 /\ 0 \in 0..MaxFaults
    BY Intervals, AgesAre
  <2> QED
    BY <2>1, <2>2, <2>3, Waits DEF TypeOK
<1>2. InRound /\ Beats /\ InStep
  BY Intervals DEF Init, InRound, Beats, InStep, WatchTime
<1>3. Changes /\ Clicks /\ Recovers
  BY Intervals DEF Init, Changes, Clicks, Recovers, WatchTime
<1> QED
  BY <1>1, <1>2, <1>3 DEF PushInv

(* Time passes: an age grows by what the wait or the round's allowance     *)
(* shrinks.                                                                *)
LEMMA TickKeeps ==
  ASSUME PushInv, Tick, UNCHANGED <<ephorEnabled, snapshot>>
  PROVE  PushInv'
<1>0. /\ TypeOK /\ InRound /\ Beats /\ InStep /\ Changes /\ Clicks /\ Recovers
      /\ delay \in 0..MaxWait /\ spent \in 0..RoundTime /\ WatchTime \in Nat
  BY Types DEF PushInv
<1> DEFINE push2 == Older(pushAge)  call2 == Older(callAge)
           quiet2 == Older(quiet)   click2 == Older(clickAge)
<1>1. /\ pushAge \in Ages /\ callAge \in Ages /\ quiet \in Ages /\ clickAge \in Ages
      /\ pushAge \in Nat /\ callAge \in Nat /\ quiet \in Nat /\ clickAge \in Nat
  BY <1>0, Types, Intervals DEF TypeOK
<1>2. /\ push2 \in Ages /\ call2 \in Ages /\ quiet2 \in Ages /\ click2 \in Ages
      /\ push2 <= pushAge + 1 /\ pushAge <= push2 /\ (push2 = Never <=> pushAge = Never)
      /\ call2 <= callAge + 1 /\ callAge <= call2 /\ (call2 = Never <=> callAge = Never)
      /\ quiet2 <= quiet + 1 /\ click2 <= clickAge + 1
      /\ (quiet <= MaxAge => quiet2 <= MaxAge) /\ (clickAge <= MaxAge => click2 <= MaxAge)
      /\ (quiet <= pushAge => quiet2 <= push2) /\ (clickAge <= callAge => click2 <= call2)
      /\ (pushAge < MaxAge => push2 = pushAge + 1) /\ (callAge < MaxAge => call2 = callAge + 1)
  BY <1>1, AgesAre
<1>3. push2 \in Nat /\ call2 \in Nat /\ quiet2 \in Nat /\ click2 \in Nat
  BY <1>2, AgesAre, Intervals
<1> HIDE DEF push2, call2, quiet2, click2
<1>4. /\ pushAge' = push2 /\ callAge' = call2 /\ quiet' = quiet2
      /\ clickAge' = (IF clicked THEN click2 ELSE clickAge)
      /\ UNCHANGED <<content, shown, clicked, pc, built, due, lastDigest, pollEvery, refresh,
                     failures, faults, ephorEnabled, snapshot>>
  BY DEF Tick, dash, push2, call2, quiet2, click2
<1>5. CASE pc = "wait"
  <2>1. delay > 0 /\ delay' = delay - 1 /\ spent' = spent
    BY <1>5 DEF Tick
  <2>2. TypeOK'
    <3>1. delay' \in 0..MaxWait /\ spent' \in 0..RoundTime
      BY <1>0, <2>1, Intervals
    <3> QED
      BY <1>0, <1>1, <1>2, <1>4, <3>1, Waits DEF TypeOK
  <2>3. InRound'
    BY <1>0, <1>1, <1>2, <1>3, <1>4, <1>5, <2>1, Intervals DEF InRound
  <2>4. Beats'
    BY <1>0, <1>1, <1>2, <1>3, <1>4, <1>5, <2>1, Intervals DEF Beats
  <2>5. InStep'
    BY <1>0, <1>1, <1>2, <1>4, <1>5, <2>1, Intervals DEF InStep, WatchTime
  <2>6. Changes'
    BY <1>0, <1>1, <1>2, <1>3, <1>4, <1>5, <2>1, Intervals DEF Changes, Shows, WatchTime
  <2>7. Clicks'
    BY <1>0, <1>1, <1>2, <1>3, <1>4, <1>5, <2>1, Intervals DEF Clicks
  <2>8. Recovers'
    BY <1>0, <1>1, <1>2, <1>3, <1>4, <1>5, <2>1, Intervals DEF Recovers, Shows
  <2> QED
    BY <2>2, <2>3, <2>4, <2>5, <2>6, <2>7, <2>8 DEF PushInv
<1>6. CASE pc # "wait"
  <2>1. spent < RoundTime /\ spent' = spent + 1 /\ delay' = delay
    BY <1>6 DEF Tick
  <2>2. TypeOK'
    <3>1. delay' \in 0..MaxWait /\ spent' \in 0..RoundTime
      BY <1>0, <2>1, Intervals
    <3> QED
      BY <1>0, <1>1, <1>2, <1>4, <3>1, Waits DEF TypeOK
  <2>3. InRound'
    BY <1>0, <1>1, <1>2, <1>3, <1>4, <1>6, <2>1, Intervals DEF InRound
  <2>4. Beats'
    BY <1>0, <1>1, <1>2, <1>3, <1>4, <1>6, <2>1, Intervals DEF Beats
  <2>5. InStep'
    BY <1>0, <1>1, <1>2, <1>4, <1>6, <2>1, Intervals DEF InStep, WatchTime
  <2>6. Changes'
    BY <1>0, <1>1, <1>2, <1>3, <1>4, <1>6, <2>1, Intervals DEF Changes, Shows, WatchTime
  <2>7. Clicks'
    BY <1>0, <1>1, <1>2, <1>3, <1>4, <1>6, <2>1, Intervals DEF Clicks
  <2>8. Recovers'
    BY <1>0, <1>1, <1>2, <1>3, <1>4, <1>6, <2>1, Intervals DEF Recovers, Shows
  <2> QED
    BY <2>2, <2>3, <2>4, <2>5, <2>6, <2>7, <2>8 DEF PushInv
<1> QED
  BY <1>5, <1>6

(* The views change, or someone clicks: from then on a wait is at most its *)
(* full length.                                                            *)
LEMMA WorldKeeps ==
  ASSUME PushInv, ViewsChange \/ Click, UNCHANGED <<ephorEnabled, snapshot>>
  PROVE  PushInv'
<1>1. TypeOK /\ InRound /\ Beats /\ InStep /\ Changes /\ Clicks /\ Recovers
  BY DEF PushInv
<1>2. /\ delay \in 0..MaxWait /\ spent \in 0..RoundTime /\ callAge \in Nat /\ pushAge \in Nat
      /\ WatchTime \in Nat
  BY <1>1, Types, Intervals
<1>3. CASE ViewsChange
  <2>1. /\ content' \in Content /\ quiet' = 0
        /\ UNCHANGED <<shown, clicked, pc, delay, spent, built, due, lastDigest, pushAge, callAge,
                       pollEvery, refresh, failures, clickAge, faults, ephorEnabled, snapshot>>
    BY <1>3 DEF ViewsChange, dash, round, self
  <2>2. TypeOK'
    BY <1>1, <2>1, ZeroAge DEF TypeOK
  <2>3. InRound'
    BY <1>1, <1>2, <2>1, Intervals DEF InRound
  <2>4. Beats' /\ InStep' /\ Clicks'
    BY <1>1, <2>1 DEF Beats, InStep, Clicks, WatchTime
  <2>5. Changes'
    BY <1>1, <1>2, <2>1, Intervals DEF Changes, InStep, WatchTime
  <2>6. Recovers'
    BY <1>1, <1>2, <2>1, Intervals DEF Recovers
  <2> QED
    BY <2>2, <2>3, <2>4, <2>5, <2>6 DEF PushInv
<1>4. CASE Click
  <2>1. /\ clicked' = TRUE /\ clickAge' = 0
        /\ UNCHANGED <<content, shown, pc, delay, spent, built, due, lastDigest, pushAge, callAge,
                       pollEvery, refresh, failures, quiet, faults, ephorEnabled, snapshot>>
    BY <1>4 DEF Click, round, self
  <2>2. TypeOK'
    BY <1>1, <2>1, ZeroAge DEF TypeOK
  <2>3. InRound'
    BY <1>1, <2>1, Intervals DEF InRound
  <2>4. Beats' /\ InStep' /\ Changes' /\ Recovers'
    BY <1>1, <2>1 DEF Beats, InStep, Changes, Recovers, Shows, WatchTime
  <2>5. Clicks'
    BY <1>1, <1>2, <2>1, Intervals DEF Clicks, InStep
  <2> QED
    BY <2>2, <2>3, <2>4, <2>5 DEF PushInv
<1> QED
  BY <1>3, <1>4

(* The ages as a round computes with them.                                 *)
LEMMA StartAges ==
  ASSUME PushInv, pc # "wait"
  PROVE  /\ AtStart(pushAge) \in Nat /\ AtStart(callAge) \in Nat
         /\ AtStart(pushAge) < Heartbeat =>
              pushAge # Never /\ pushAge = AtStart(pushAge) + spent
         /\ AtStart(callAge) < Poll => callAge # Never /\ callAge = AtStart(callAge) + spent
         /\ pushAge < Heartbeat + spent => AtStart(pushAge) < Heartbeat
  BY Types, Intervals DEF PushInv, InRound, AtStart

(* A round begins when the wait is over.                                   *)
LEMMA RoundStartsKeeps ==
  ASSUME PushInv, RoundStarts, UNCHANGED <<ephorEnabled, snapshot>>
  PROVE  PushInv'
<1>1. /\ TypeOK /\ InRound /\ Beats /\ InStep /\ Changes /\ Clicks /\ Recovers
      /\ spent \in 0..RoundTime /\ WatchTime \in Nat /\ pollEvery \in 1..Poll
      /\ quiet \in Nat /\ clickAge \in Nat /\ pushAge \in Nat /\ callAge \in Nat
  BY Types, Intervals DEF PushInv
<1>2. /\ pc = "wait" /\ delay = 0 /\ pc' = "build" /\ spent = 0
      /\ UNCHANGED <<content, shown, clicked, delay, spent, built, due, lastDigest, pushAge,
                     callAge, pollEvery, refresh, failures, quiet, clickAge, faults, ephorEnabled,
                     snapshot>>
  BY <1>1 DEF RoundStarts, dash, self, history, InRound
<1>3. TypeOK'
  BY <1>1, <1>2 DEF TypeOK
<1>4. InRound' /\ InStep'
  BY <1>1, <1>2, Intervals DEF InRound, InStep
<1>5. Beats' /\ Changes' /\ Recovers'
  BY <1>1, <1>2, Intervals DEF Beats, Changes, Recovers, Shows, WatchTime
<1>6. Clicks'
  BY <1>1, <1>2, Intervals DEF Clicks
<1> QED
  BY <1>3, <1>4, <1>5, <1>6 DEF PushInv

(* A round with nothing to say: Dash shows what the views say, or has been *)
(* told less than a heartbeat ago.                                         *)
LEMMA NothingToDoKeeps ==
  ASSUME PushInv, NothingToDo, UNCHANGED <<ephorEnabled, snapshot>>
  PROVE  PushInv'
<1>1. /\ TypeOK /\ InRound /\ Beats /\ InStep /\ Changes /\ Clicks /\ Recovers
      /\ spent \in 0..RoundTime /\ WatchTime \in Nat /\ pollEvery \in 1..Poll
      /\ quiet \in Nat /\ clickAge \in Nat /\ pushAge \in Nat /\ callAge \in Nat
  BY Types, Intervals DEF PushInv
<1> DEFINE sinceCall == AtStart(callAge)
           sincePush == AtStart(pushAge)
           w == Wait(pollEvery, sinceCall, sincePush)
<1>2. /\ pc = "build" /\ pc' = "wait" /\ delay' = w /\ spent' = 0 /\ due' = FALSE
      /\ built' = content /\ ~refresh /\ content = lastDigest
      /\ sincePush < Heartbeat /\ sinceCall < pollEvery
      /\ UNCHANGED <<content, shown, clicked, lastDigest, pushAge, callAge, pollEvery, refresh,
                     failures, quiet, clickAge, faults, ephorEnabled, snapshot>>
  <2>1. sincePush \in Nat
    BY StartAges DEF NothingToDo
  <2> QED
    BY <2>1, Intervals DEF NothingToDo, Due, Changed, Digest, Sleep, dash, self, history
<1>3. /\ sinceCall \in Nat /\ sincePush \in Nat
      /\ pushAge # Never /\ pushAge = sincePush + spent
      /\ callAge # Never /\ callAge = sinceCall + spent
  BY <1>1, <1>2, StartAges, Intervals
<1>4. /\ w \in Nat /\ w <= WatchTime /\ w <= Poll /\ sinceCall + w <= Poll
      /\ sincePush + w <= Heartbeat
  <2>1. /\ w \in 0..Poll /\ w <= WatchTime
        /\ (sinceCall < pollEvery => sinceCall + w <= pollEvery)
        /\ (sincePush < Heartbeat => sincePush + w <= Heartbeat)
    BY <1>1, <1>3, WaitEnds
  <2> QED
    BY <1>1, <1>2, <1>3, <2>1, Intervals
<1> HIDE DEF w, sinceCall, sincePush
<1>5. TypeOK'
  <2>1. w \in 0..MaxWait /\ 0 \in 0..RoundTime
    BY <1>4, Intervals
  <2> QED
    BY <1>1, <1>2, <2>1, Waits DEF TypeOK, Digests
<1>6. InRound' /\ InStep'
  BY <1>1, <1>2, <1>4 DEF InRound, InStep, WatchTime
<1>7. Beats' /\ Changes'
  BY <1>1, <1>2, <1>3, <1>4, Intervals DEF Beats, Changes, InStep, Shows
<1>8. Clicks'
  BY <1>1, <1>2, <1>3, <1>4, Intervals DEF Clicks
<1>9. Recovers'
  BY <1>1, <1>2, <1>3, <1>4, Intervals DEF Recovers, Shows
<1> QED
  BY <1>5, <1>6, <1>7, <1>8, <1>9 DEF PushInv

(* A round that calls Dash.                                                *)
LEMMA CallStartsKeeps ==
  ASSUME PushInv, CallStarts, UNCHANGED <<ephorEnabled, snapshot>>
  PROVE  PushInv'
<1>1. /\ TypeOK /\ InRound /\ Beats /\ InStep /\ Changes /\ Clicks /\ Recovers
      /\ spent \in 0..RoundTime /\ WatchTime \in Nat /\ pollEvery \in 1..Poll
      /\ quiet \in Nat /\ clickAge \in Nat /\ pushAge \in Nat /\ callAge \in Nat
  BY Types, Intervals DEF PushInv
<1>2. /\ pc = "build" /\ pc' = "call" /\ callAge' = spent /\ built' = content /\ due' = Due
      /\ UNCHANGED <<content, shown, clicked, delay, spent, lastDigest, pushAge, pollEvery,
                     refresh, failures, quiet, clickAge, faults, ephorEnabled, snapshot>>
  BY DEF CallStarts, Digest, dash, history
<1>3. /\ due' \in BOOLEAN /\ (refresh => due')
      /\ ~due' => ~refresh /\ content = lastDigest /\ pushAge < Heartbeat + spent
  <2>1. AtStart(pushAge) \in Nat /\ (AtStart(pushAge) < Heartbeat =>
                                        pushAge = AtStart(pushAge) + spent)
    BY <1>2, StartAges
  <2> QED
    BY <1>1, <1>2, <2>1, Intervals DEF Due, Changed, Digest
<1>4. TypeOK'
  <2>1. spent \in Ages
    BY <1>1, AgesAre, Intervals
  <2> QED
    BY <1>1, <1>2, <1>3, <2>1 DEF TypeOK, Digests
<1>5. InRound'
  <2>1. content \in Content
    BY <1>1 DEF TypeOK
  <2> QED
    BY <1>1, <1>2, <1>3, <2>1, Intervals DEF InRound
<1>6. Beats' /\ InStep' /\ Changes' /\ Recovers'
  BY <1>1, <1>2 DEF Beats, InStep, Changes, Recovers, Shows, WatchTime
<1>7. Clicks'
  BY <1>1, <1>2, <1>3, Intervals DEF Clicks
<1> QED
  BY <1>4, <1>5, <1>6, <1>7 DEF PushInv

(* An accepted push: Dash shows what was built, which is what the views    *)
(* say unless they changed in the round.                                   *)
LEMMA PushAcceptedKeeps ==
  ASSUME PushInv, PushAccepted, UNCHANGED <<ephorEnabled, snapshot>>
  PROVE  PushInv'
<1>1. /\ TypeOK /\ InRound /\ Beats /\ InStep /\ Changes /\ Clicks /\ Recovers
      /\ spent \in 0..RoundTime /\ WatchTime \in Nat /\ pollEvery \in 1..Poll
      /\ quiet \in Nat /\ clickAge \in Nat /\ pushAge \in Nat /\ callAge \in Nat
  BY Types, Intervals DEF PushInv
<1>2. /\ pc = "call" /\ pc' = "wait" /\ spent' = 0 /\ failures' = 0
      /\ shown' = {built} /\ clicked' = FALSE /\ clickAge' = 0
      /\ lastDigest' = built /\ pushAge' = spent
      /\ UNCHANGED <<content, built, due, callAge, quiet, faults, ephorEnabled, snapshot>>
  BY DEF PushAccepted, Received, Sleep
<1>3. pollEvery' \in MinPoll..Poll /\ pollEvery' \in 1..Poll
  BY PollIntervals DEF PushAccepted
<1>4. /\ refresh' \in BOOLEAN
      /\ delay' = 0 \/ delay' = Wait(pollEvery', 0, 0)
  BY DEF PushAccepted, Sleep
<1>5. PICK d \in Nat : delay' = d /\ d <= WatchTime /\ d <= Poll /\ d <= Heartbeat
  <2>1. Wait(pollEvery', 0, 0) \in 0..Poll /\ Wait(pollEvery', 0, 0) <= WatchTime
    BY <1>3, WaitEnds, Intervals
  <2> QED
    BY <1>1, <1>4, <2>1, Intervals
<1>6. built \in Content /\ callAge = spent /\ (built # content => quiet <= spent)
      /\ quiet <= MaxAge
  BY <1>1, <1>2 DEF InRound
<1>7. TypeOK'
  <2>1. /\ delay' \in 0..MaxWait /\ 0 \in 0..RoundTime /\ spent \in Ages /\ 0 \in Ages
        /\ 0 \in 0..10 /\ FALSE \in BOOLEAN
    <3>1. Ages = 0..MaxAge + 1
      BY AgesAre
    <3> QED
      BY <1>1, <1>5, <3>1, Intervals
  <2> QED
    BY <1>1, <1>2, <1>3, <1>4, <1>6, <2>1, Waits DEF TypeOK, Digests
<1>8. InRound'
  BY <1>1, <1>2, <1>6, Intervals DEF InRound
<1>9. /\ WatchTime' = WatchTime /\ pushAge' # Never
      /\ pushAge' + delay' <= Heartbeat + RoundTime /\ callAge' + delay' <= Poll + RoundTime
  <2>1. WatchTime' = WatchTime /\ pushAge' = spent /\ callAge' = spent
    BY <1>2, <1>6 DEF WatchTime
  <2>2. /\ spent \in Nat /\ spent <= RoundTime /\ spent # Never
        /\ RoundTime \in Nat /\ Poll \in Nat /\ Heartbeat \in Nat
    BY <1>1, Intervals
  <2> QED
    BY <1>5, <2>1, <2>2
<1>10. /\ content' # built' => /\ quiet' + delay' <= WatchTime' + RoundTime
                               /\ quiet' + delay' <= MaxWait + RoundTime
                               /\ quiet' <= pushAge'
  <2>1. /\ spent \in Nat /\ spent <= RoundTime /\ RoundTime \in Nat
        /\ MaxWait \in Nat /\ Poll <= MaxWait /\ Poll \in Nat
    BY <1>1, Intervals
  <2>2. /\ quiet' = quiet /\ pushAge' = spent /\ (content' # built' => quiet <= spent)
        /\ quiet \in Nat /\ WatchTime \in Nat
    BY <1>1, <1>2, <1>6
  <2> QED
    BY <1>5, <1>9, <2>1, <2>2
<1>11. Beats' /\ InStep'
  BY <1>2, <1>5, <1>9 DEF Beats, InStep
<1>12. Changes' /\ Recovers'
  BY <1>2, <1>10 DEF Changes, Recovers, Shows
<1>13. Clicks'
  BY <1>2, <1>9 DEF Clicks
<1> QED
  BY <1>7, <1>8, <1>11, <1>12, <1>13 DEF PushInv

(* An answered poll: a click it tells of is pushed at once.                *)
LEMMA PollAcceptedKeeps ==
  ASSUME PushInv, PollAccepted, UNCHANGED <<ephorEnabled, snapshot>>
  PROVE  PushInv'
<1>1. /\ TypeOK /\ InRound /\ Beats /\ InStep /\ Changes /\ Clicks /\ Recovers
      /\ spent \in 0..RoundTime /\ WatchTime \in Nat /\ pollEvery \in 1..Poll
      /\ quiet \in Nat /\ clickAge \in Nat /\ pushAge \in Nat /\ callAge \in Nat
  BY Types, Intervals DEF PushInv
<1> DEFINE sincePush == AtStart(pushAge)
<1>2. /\ pc = "call" /\ ~due /\ pc' = "wait" /\ spent' = 0 /\ failures' = 0
      /\ UNCHANGED <<content, shown, clicked, built, due, lastDigest, pushAge, callAge, quiet,
                     clickAge, faults, ephorEnabled, snapshot>>
  BY DEF PollAccepted, Sleep, dash
<1>3. pollEvery' \in MinPoll..Poll /\ pollEvery' \in 1..Poll
  BY PollIntervals DEF PollAccepted
<1>4. /\ refresh' \in BOOLEAN /\ (clicked => refresh')
      /\ delay' = (IF refresh' THEN 0 ELSE Wait(pollEvery', 0, sincePush))
  BY DEF PollAccepted, Sleep
<1>5. /\ ~refresh /\ built = lastDigest /\ pushAge < Heartbeat + spent /\ callAge = spent
      /\ (built # content => quiet <= spent)
  BY <1>1, <1>2 DEF InRound
<1>6. sincePush \in Nat /\ sincePush < Heartbeat /\ pushAge = sincePush + spent
      /\ pushAge # Never
  BY <1>2, <1>5, StartAges
<1>7. PICK d \in Nat :
        /\ delay' = d /\ d <= WatchTime /\ d <= Poll /\ sincePush + d <= Heartbeat
        /\ clicked => d = 0
  <2>1. /\ Wait(pollEvery', 0, sincePush) \in 0..Poll
        /\ Wait(pollEvery', 0, sincePush) <= WatchTime
        /\ (sincePush < Heartbeat => sincePush + Wait(pollEvery', 0, sincePush) <= Heartbeat)
    BY <1>3, <1>6, WaitEnds, Intervals
  <2> QED
    BY <1>1, <1>4, <1>6, <2>1, Intervals
<1> HIDE DEF sincePush
<1>8. TypeOK'
  <2>1. delay' \in 0..MaxWait /\ 0 \in 0..RoundTime /\ 0 \in 0..10
    BY <1>7, Intervals
  <2> QED
    BY <1>1, <1>2, <1>3, <1>4, <2>1, Waits DEF TypeOK
<1>9. InRound' /\ InStep'
  BY <1>1, <1>2, <1>7 DEF InRound, InStep, WatchTime
<1>10. /\ WatchTime' = WatchTime
       /\ pushAge' + delay' <= Heartbeat + RoundTime
  <2>1. WatchTime' = WatchTime /\ pushAge' = sincePush + spent
    BY <1>2, <1>6 DEF WatchTime
  <2>2. spent \in Nat /\ spent <= RoundTime /\ RoundTime \in Nat /\ Heartbeat \in Nat
    BY <1>1, Intervals
  <2> QED
    BY <1>6, <1>7, <2>1, <2>2
<1>11. Beats'
  BY <1>2, <1>10 DEF Beats
<1>12. Changes'
  <2>1. quiet <= spent => quiet' + delay' <= WatchTime' + RoundTime
    <3>1. /\ spent \in Nat /\ spent <= RoundTime /\ RoundTime \in Nat
          /\ quiet \in Nat /\ WatchTime \in Nat
      BY <1>1, Intervals
    <3>2. quiet' = quiet
      BY <1>2
    <3> QED
      BY <1>7, <1>10, <3>1, <3>2
  <2> QED
    BY <1>1, <1>2, <1>5, <1>6, <2>1 DEF Changes, InStep, Shows
<1>13. Clicks'
  BY <1>1, <1>2, <1>4, <1>5, <1>7, Intervals DEF Clicks
<1>14. Recovers'
  <2>1. quiet <= pushAge => quiet' + delay' <= MaxWait + RoundTime
    <3>1. /\ RoundTime \in Nat /\ MaxWait \in Nat /\ Heartbeat \in Nat /\ Heartbeat <= MaxWait
          /\ quiet \in Nat /\ pushAge \in Nat
      BY <1>1, Intervals
    <3>2. quiet' = quiet /\ pushAge' = pushAge
      BY <1>2
    <3> QED
      BY <1>7, <1>10, <3>1, <3>2
  <2> QED
    BY <1>1, <1>2, <2>1 DEF Recovers, Shows
<1> QED
  BY <1>8, <1>9, <1>11, <1>12, <1>13, <1>14 DEF PushInv

(* A failed round: the wait is at most the longest, and the count of what  *)
(* is owed begins anew.                                                    *)
LEMMA FailureKeeps ==
  ASSUME PushInv, Failure, UNCHANGED <<ephorEnabled, snapshot>>
  PROVE  PushInv'
<1>1. /\ TypeOK /\ InRound /\ Beats /\ InStep /\ Changes /\ Clicks /\ Recovers
      /\ spent \in 0..RoundTime /\ WatchTime \in Nat /\ pollEvery \in 1..Poll
      /\ quiet \in Nat /\ clickAge \in Nat /\ pushAge \in Nat /\ callAge \in Nat
  BY Types, Intervals DEF PushInv
<1>2. /\ pc' = "wait" /\ spent' = 0 /\ quiet' = 0 /\ faults' = faults + 1
      /\ faults < MaxFaults
      /\ UNCHANGED <<content, built, due, lastDigest, pushAge, callAge, refresh, ephorEnabled,
                     snapshot>>
  BY DEF Failure, Rejected, RateLimited, CallFails, BuildRaises, DecisionRaises, Fails, Sleep,
         self
<1>3. failures' \in 0..10 /\ delay' \in 0..MaxWait /\ pollEvery' \in MinPoll..Poll
  <2>1. failures \in 0..10 /\ Min2(failures + 1, 10) \in 0..10
        /\ pollEvery \in MinPoll..Poll
    BY <1>1 DEF TypeOK, Min2
  <2>2. CASE Rejected
    BY <2>1, <2>2, Intervals DEF Rejected, Sleep
  <2>3. CASE RateLimited
    <3>1. failures' = failures /\ pollEvery' = pollEvery
      BY <2>3 DEF RateLimited, self
    <3>2. PICK retry \in 0..MaxRetry :
            delay' = Max2(IF retry = 0 THEN Poll ELSE retry, 1)
      BY <2>3 DEF RateLimited, Sleep
    <3>3. delay' \in 0..MaxWait
      BY <3>2, Intervals DEF Max2
    <3> QED
      BY <2>1, <3>1, <3>3
  <2>4. CASE CallFails
    BY <2>1, <2>4, BackoffEnds DEF CallFails, Sleep
  <2>5. CASE BuildRaises
    BY <2>1, <2>5, BackoffEnds DEF BuildRaises, Sleep
  <2>6. CASE DecisionRaises
    BY <2>6, BackoffEnds, PollIntervals DEF DecisionRaises, Sleep
  <2> QED
    BY <2>2, <2>3, <2>4, <2>5, <2>6 DEF Failure
<1>4. \/ UNCHANGED <<shown, clicked, clickAge>>
      \/ pc = "call" /\ shown' = {built} /\ clicked' = FALSE /\ clickAge' = 0
  BY DEF Failure, Rejected, RateLimited, CallFails, BuildRaises, DecisionRaises, MaybeReceived,
         Received, dash
<1>5. TypeOK'
  <2>1. faults' \in 0..MaxFaults
    BY <1>1, <1>2, Intervals DEF TypeOK
  <2>2. shown' = {} \/ \E c \in Content : shown' = {c}
    BY <1>1, <1>4 DEF TypeOK, InRound
  <2>3. clicked' \in BOOLEAN /\ clickAge' \in Ages /\ 0 \in Ages
    BY <1>1, <1>4, ZeroAge DEF TypeOK
  <2>4. 0 \in 0..RoundTime
    BY Intervals
  <2> QED
    BY <1>1, <1>2, <1>3, <2>1, <2>2, <2>3, <2>4, Waits DEF TypeOK
<1>6. InRound'
  BY <1>1, <1>2, <1>4, Intervals DEF InRound
<1>7. faults' # 0
  BY <1>1, <1>2 DEF TypeOK
<1>8. Beats' /\ InStep' /\ Changes' /\ Clicks'
  BY <1>7 DEF Beats, InStep, Changes, Clicks
<1>9. Recovers'
  <2>1. quiet' = 0 /\ pc' = "wait" /\ quiet' <= pushAge' /\ quiet' + delay' <= MaxWait + RoundTime
    <3>1. PICK d \in 0..MaxWait : delay' = d
      BY <1>3
    <3> QED
      BY <1>1, <1>2, <3>1, Intervals
  <2> QED
    BY <2>1 DEF Recovers
<1> QED
  BY <1>5, <1>6, <1>8, <1>9 DEF PushInv

-----------------------------------------------------------------------------
(* No step breaks the invariant.                                           *)
LEMMA NextKeeps == PushInv /\ [Next]_vars => PushInv'
<1> SUFFICES ASSUME PushInv, [Next]_vars PROVE PushInv'
  OBVIOUS
<1>1. CASE UNCHANGED vars
  <2>1. UNCHANGED <<ephorEnabled, snapshot, content, shown, clicked, pc, delay, spent, built, due,
                    lastDigest, pushAge, callAge, pollEvery, refresh, failures, quiet, clickAge,
                    faults>>
    BY <1>1 DEF vars, dash, round, self, history
  <2> QED
    BY <2>1 DEF PushInv, TypeOK, InRound, Beats, InStep, Changes, Clicks, Recovers, Shows,
                WatchTime
<1>2. CASE Next
  BY <1>2, TickKeeps, WorldKeeps, RoundStartsKeeps, NothingToDoKeeps, CallStartsKeeps,
     PushAcceptedKeeps, PollAcceptedKeeps, FailureKeeps DEF Next, Step, World
<1> QED
  BY <1>1, <1>2

(* The invariant of the schedule holds: every age is bounded together with *)
(* what is left of the wait, whatever the intervals.                       *)
THEOREM PushInductive == Spec => []PushInv
<1>1. Init => PushInv
  BY Starts
<1>2. PushInv /\ [Next]_vars => PushInv'
  BY NextKeeps
<1> QED
  BY <1>1, <1>2, PTL DEF Spec

(* The types.                                                              *)
THEOREM TypeCorrect == Spec => []TypeOK
<1>1. PushInv => TypeOK
  BY DEF PushInv
<1> QED
  BY <1>1, PushInductive, PTL

(* "at least every REBEKAH_DASH_PUSH_INTERVAL seconds": no run of polls,   *)
(* clicks and quiet rounds stretches the heartbeat.                        *)
THEOREM HeartbeatIsKept == Spec => []HeartbeatKept
<1>1. PushInv => HeartbeatKept
  BY Types, Intervals DEF PushInv, InRound, Beats, HeartbeatKept
<1> QED
  BY <1>1, PushInductive, PTL

(* A change of the views is on Dash a wait and two rounds later, for any   *)
(* interval Dash asks for.                                                 *)
THEOREM ChangesAreInTime == Spec => []ChangesArrive
<1>1. PushInv => ChangesArrive
  BY Types, Intervals DEF PushInv, InRound, Changes, ChangesArrive, WatchTime
<1> QED
  BY <1>1, PushInductive, PTL

(* A click is answered by a push within a poll interval and three rounds.  *)
THEOREM ClicksAreServed == Spec => []RefreshServed
<1>1. PushInv => RefreshServed
  <2> SUFFICES ASSUME PushInv, faults = 0, clicked PROVE clickAge <= Poll + 3 * RoundTime
    BY DEF RefreshServed
  <2>1. /\ delay \in Nat /\ spent \in 0..RoundTime /\ clickAge \in Nat
        /\ pc \in {"wait", "build", "call"} /\ refresh \in BOOLEAN
    BY Types, Intervals DEF PushInv, TypeOK
  <2> QED
    BY <2>1, Intervals DEF PushInv, Clicks
<1> QED
  BY <1>1, PushInductive, PTL

(* After any failures, in any order, the views are on Dash a heartbeat or  *)
(* the longest backoff later.                                              *)
THEOREM CatchesUpInTime == Spec => []CatchesUp
<1>1. PushInv => CatchesUp
  <2>1. Max2(Max2(MaxBackoff, MaxRetry), Heartbeat) = MaxWait
    BY DEF MaxWait
  <2> QED
    BY <2>1, Types, Intervals DEF PushInv, Recovers, CatchesUp
<1> QED
  BY <1>1, PushInductive, PTL
=============================================================================
