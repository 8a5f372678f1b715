-------------------------- MODULE SupervisorProofs --------------------------
(***************************************************************************)
(* For any suite of services, any timeouts and any number of requests and  *)
(* failures: the Supervisor's safety properties, from one inductive        *)
(* invariant.  What it adds to the properties is the phase the script is   *)
(* in (whether the trap is set, who stops the services), the time that has *)
(* passed since a stop request, and which services have answered.          *)
(***************************************************************************)
EXTENDS Supervisor, TLAPS

Starting == {"launch", "note", "health", "wait", "failing"}
Stopping == {"term", "drain", "kill", "reap"}

(* What holds in each phase of the script.                                 *)
Phases ==
  /\ pc \in {"doctor", "seed"} =>
       trap = "default" /\ reason = "none" /\ ~asked /\ next = 1
  /\ pc \in {"doctor", "seed", "launch", "note"} => at = 1
  /\ pc \in Starting => trap = "handler" /\ reason = "none"
  /\ pc \in Stopping =>
       /\ trap = "default"
       /\ (reason = "stop" /\ asked) \/ (reason = "failure" /\ ~asked)
  /\ pc # "exited" => code = Running
  /\ pc = "launch" \/ pc = "note" => next <= Len(Order)

(* How the container ends.                                                 *)
Ends == NothingCutOff /\ StatusTellsWhy

(* A service that was started and is not in pids.                          *)
Unknown == \E s \in Service : svc[s] # "none" /\ s \notin pids

(* The time since the request, and what a stop that takes longer implies.  *)
InTime ==
  /\ ~asked => age = 0
  /\ pc \in Starting \cup {"term"} => age <= CommandTime
  /\ pc = "drain" => age + grace <= CommandTime + StopTimeout
  /\ pc = "kill" => age <= CommandTime + StopTimeout
  /\ pc = "reap" => /\ \A s \in pids : ~Alive(s)
                    /\ age <= CommandTime + StopTimeout \/ Unknown
  /\ code = 137 => Unknown

(* A service that answered has come up, and may have ended since.          *)
Answered ==
  /\ pc \in Starting \cup {"doctor", "seed"} => \A s \in Service : svc[s] # "termed"
  /\ pc = "health" /\ ~failed =>
       \A i \in DOMAIN Probes : i < at => svc[Probes[i]] \in {"up", "dead"}
  /\ HealthyIsTrue

IInv == TypeOK /\ Phases /\ Ends /\ InTime /\ Answered

-----------------------------------------------------------------------------
(* The sequences have lengths, and hold services.                          *)
LEMMA SequenceFacts ==
  /\ Len(Order) \in Nat /\ Len(Order) >= 1
  /\ Len(Probes) \in Nat /\ DOMAIN Probes = 1 .. Len(Probes)
  /\ \A i \in 1 .. Len(Order) : Order[i] \in Service
  /\ \A i \in 1 .. Len(Probes) : Probes[i] \in Service
<1>1. Order \in Seq(Service) /\ Order # <<>> /\ Probes \in Seq(Service)
  BY SupervisorAssumption
<1>2. DOMAIN Order = 1 .. Len(Order) /\ Len(Order) \in Nat /\ Len(Order) # 0
  BY <1>1
<1>3. \A i \in 1 .. Len(Order) : Order[i] \in Service
  BY <1>2 DEF Service
<1>4. DOMAIN Probes = 1 .. Len(Probes) /\ Len(Probes) \in Nat
  BY <1>1
<1>5. \A i \in 1 .. Len(Probes) : Probes[i] \in Service
  BY <1>1, <1>4
<1> QED BY <1>2, <1>3, <1>4, <1>5

(* The bounds are numbers.                                                 *)
LEMMA Bounds ==
  /\ Attempts \in Nat /\ Attempts >= 1
  /\ CommandTime \in Nat /\ StopTimeout \in Nat /\ PodmanTimeout \in Nat
  /\ CommandTime + StopTimeout < PodmanTimeout
  /\ MaxRequests \in Nat /\ MaxFaults \in Nat
BY SupervisorAssumption

(* The script has not begun anything.                                      *)
LEMMA InitHolds == Init => IInv
<1> SUFFICES ASSUME Init PROVE IInv
  OBVIOUS
<1> USE SequenceFacts, Bounds DEF Init
<1>1. svc \in [Service -> {"none", "starting", "up", "termed", "dead"}]
      /\ \A s \in Service : svc[s] = "none"
  OBVIOUS
<1>2. failed \in BOOLEAN /\ asked \in BOOLEAN
  OBVIOUS
<1>3. TypeOK
  BY <1>1, <1>2 DEF TypeOK, Codes, Running
<1>4. Phases /\ Ends
  BY DEF Phases, Starting, Stopping, Ends, NothingCutOff, StatusTellsWhy, Running
<1>5. InTime /\ Answered
  BY <1>1 DEF InTime, Answered, HealthyIsTrue, Starting, Running
<1> QED BY <1>3, <1>4, <1>5 DEF IInv

(* The container's end changes four variables, within their types.         *)
LEMMA ExitTypes ==
  ASSUME TypeOK, NEW status \in Codes, Exit(status)
  PROVE  /\ pc' = "exited" /\ code' \in Codes /\ cut' \subseteq Service
         /\ svc' \in [Service -> {"none", "starting", "up", "termed", "dead"}]
BY DEF TypeOK, Exit

(* So does a failure of the script.                                        *)
LEMMA AbortTypes ==
  ASSUME TypeOK, Abort
  PROVE  TypeOK'
<1>1. Exit(1) /\ 1 \in Codes
  BY DEF Abort, Codes
<1>2. /\ pc' = "exited" /\ code' \in Codes /\ cut' \subseteq Service
      /\ svc' \in [Service -> {"none", "starting", "up", "termed", "dead"}]
  BY <1>1, ExitTypes
<1>3. faults' \in 0 .. MaxFaults
  BY Bounds DEF TypeOK, Abort, Fault
<1> QED BY <1>2, <1>3 DEF TypeOK, Abort

(* A flag that is kept or raised stays a flag.                             *)
LEMMA FlagTypes ==
  ASSUME failed \in BOOLEAN, (failed' = failed) \/ (failed' = TRUE)
  PROVE  failed' \in BOOLEAN
<1>1. CASE failed' = TRUE
  BY <1>1, Zenon
<1>2. CASE failed' = failed
  BY <1>2, Zenon
<1> QED BY <1>1, <1>2, Zenon

(* Every step keeps the types.                                             *)
LEMMA TypeStep ==
  ASSUME IInv, Next
  PROVE  TypeOK'
<1> USE SequenceFacts, Bounds
       DEF IInv, TypeOK, Phases, Starting, Stopping, script, outside, Alive,
           Codes, Running
<1>1. CASE ~TrapPending /\ Doctor
  <2>1. CASE Abort
    BY <2>1, AbortTypes
  <2>2. CASE ~Abort
    <3>1. UNCHANGED <<next, pids, attempt, at, failed, trap, reason, grace, code, svc,
                      outside, cut>> /\ pc' = "seed"
      BY <1>1, <2>2 DEF Doctor
    <3> QED BY <3>1
  <2> QED BY <2>1, <2>2
<1>2. CASE ~TrapPending /\ Seed
  <2>1. CASE Abort
    BY <2>1, AbortTypes
  <2>2. CASE ~Abort
    <3>1. UNCHANGED <<next, pids, attempt, at, failed, reason, grace, code, svc,
                      outside, cut>> /\ pc' = "launch" /\ trap' = "handler"
      BY <1>2, <2>2 DEF Seed
    <3> QED BY <3>1
  <2> QED BY <2>1, <2>2
<1>3. CASE ~TrapPending /\ Launch
  BY <1>3 DEF Launch, TrapPending
<1>4. CASE ~TrapPending /\ Note
  BY <1>4 DEF Note, TrapPending
<1>5. CASE ~TrapPending /\ PreparationFails
  BY <1>5, AbortTypes DEF PreparationFails
<1>6. CASE ~TrapPending /\ Probe
  <2>1. at' \in 1 .. Len(Probes) + 1
    BY <1>6 DEF Probe
  <2>2. faults' \in 0 .. MaxFaults
    BY <1>6 DEF Probe, Fault
  <2>3. failed' \in BOOLEAN
    <3>1. (failed' = failed) \/ (failed' = TRUE)
      BY <1>6 DEF Probe
    <3>2. failed \in BOOLEAN
      OBVIOUS
    <3> QED BY <3>1, <3>2, FlagTypes
  <2>4. UNCHANGED <<pc, next, pids, attempt, trap, reason, grace, code, svc, asked, age,
                    requests, cut>>
    BY <1>6 DEF Probe
  <2> QED BY <2>1, <2>2, <2>3, <2>4
<1>7. CASE ~TrapPending /\ Healthy
  BY <1>7 DEF Healthy, TrapPending
<1>8. CASE ~TrapPending /\ TryAgain
  <2>1. attempt' \in 1 .. Attempts /\ at' \in 1 .. Len(Probes) + 1
    BY <1>8 DEF TryAgain
  <2>2. failed' \in BOOLEAN
    BY <1>8 DEF TryAgain
  <2>3. UNCHANGED <<pc, next, pids, trap, reason, grace, code, svc, outside, cut>>
    BY <1>8 DEF TryAgain
  <2> QED BY <2>1, <2>2, <2>3
<1>9. CASE ~TrapPending /\ GiveUp
  BY <1>9 DEF GiveUp, TrapPending
<1>10. CASE ~TrapPending /\ WaitReturns
  BY <1>10 DEF WaitReturns, TrapPending
<1>11. CASE ~TrapPending /\ StopAfterFailure
  BY <1>11 DEF StopAfterFailure, StopServices, TrapPending
<1>12. CASE ~TrapPending /\ Term
  BY <1>12 DEF Term, TrapPending
<1>13. CASE ~TrapPending /\ Drained
  BY <1>13 DEF Drained, StillAlive, TrapPending
<1>14. CASE ~TrapPending /\ KillRest
  BY <1>14 DEF KillRest, TrapPending
<1>15. CASE ~TrapPending /\ Reaped
  BY <1>15 DEF Reaped, Exit, TrapPending
<1>16. CASE TrapRuns
  BY <1>16 DEF TrapRuns, TrapPending, StopServices
<1>17. CASE \E s \in Service : Ready(s)
  BY <1>17 DEF Ready
<1>18. CASE \E s \in Service : Crash(s)
  BY <1>18 DEF Crash, Fault
<1>19. CASE \E s \in Service : Obey(s)
  BY <1>19 DEF Obey
<1>20. CASE Request
  <2>1. requests' \in 0 .. MaxRequests
    BY <1>20 DEF Request
  <2>2. CASE trap = "handler"
    <3>1. asked' \in BOOLEAN
      BY <1>20, <2>2 DEF Request
    <3>2. UNCHANGED <<script, code, svc, cut, age, faults>>
      BY <1>20, <2>2 DEF Request
    <3> QED BY <2>1, <3>1, <3>2
  <2>3. CASE trap # "handler"
    <3>1. Exit(143) /\ 143 \in Codes
      BY <1>20, <2>3 DEF Request, Codes
    <3>2. /\ pc' = "exited" /\ code' \in Codes /\ cut' \subseteq Service
          /\ svc' \in [Service -> {"none", "starting", "up", "termed", "dead"}]
      BY <3>1, ExitTypes
    <3>3. UNCHANGED <<next, pids, attempt, at, failed, trap, reason, grace, asked, age, faults>>
      BY <1>20, <2>3 DEF Request
    <3> QED BY <2>1, <3>2, <3>3
  <2> HIDE DEF IInv, TypeOK, Phases, Starting, Stopping, script, outside, Alive, Codes, Running
  <2> QED BY <2>2, <2>3
<1>21. CASE RuntimeKills
  BY <1>21 DEF RuntimeKills, Exit
<1>22. CASE Tick
  BY <1>22 DEF Tick, Waiting, StillAlive, TrapPending
<1> QED
  BY <1>1, <1>2, <1>3, <1>4, <1>5, <1>6, <1>7, <1>8, <1>9, <1>10, <1>11, <1>12, <1>13,
     <1>14, <1>15, <1>16, <1>17, <1>18, <1>19, <1>20, <1>21, <1>22
  DEF Next, Step, Command

(* Every step keeps what each phase of the script rests on.                *)
LEMMA PhaseStep ==
  ASSUME IInv, Next
  PROVE  Phases'
<1> USE SequenceFacts, Bounds
       DEF IInv, TypeOK, Phases, Starting, Stopping, script, outside, Codes,
           Running
<1>1. CASE ~TrapPending /\ Doctor
  BY <1>1 DEF Doctor, Abort, Exit, Fault, TrapPending
<1>2. CASE ~TrapPending /\ Seed
  BY <1>2 DEF Seed, Abort, Exit, Fault, TrapPending
<1>3. CASE ~TrapPending /\ Launch
  BY <1>3 DEF Launch, TrapPending
<1>4. CASE ~TrapPending /\ Note
  BY <1>4 DEF Note, TrapPending
<1>5. CASE ~TrapPending /\ PreparationFails
  BY <1>5 DEF PreparationFails, Abort, Exit, Fault, TrapPending
<1>6. CASE ~TrapPending /\ Probe
  BY <1>6 DEF Probe, Answers, Fault, TrapPending
<1>7. CASE ~TrapPending /\ Healthy
  BY <1>7 DEF Healthy, TrapPending
<1>8. CASE ~TrapPending /\ TryAgain
  BY <1>8 DEF TryAgain, TrapPending
<1>9. CASE ~TrapPending /\ GiveUp
  BY <1>9 DEF GiveUp, TrapPending
<1>10. CASE ~TrapPending /\ WaitReturns
  BY <1>10 DEF WaitReturns, TrapPending
<1>11. CASE ~TrapPending /\ StopAfterFailure
  BY <1>11 DEF StopAfterFailure, StopServices, TrapPending
<1>12. CASE ~TrapPending /\ Term
  BY <1>12 DEF Term, TrapPending
<1>13. CASE ~TrapPending /\ Drained
  BY <1>13 DEF Drained, StillAlive, TrapPending
<1>14. CASE ~TrapPending /\ KillRest
  BY <1>14 DEF KillRest, TrapPending
<1>15. CASE ~TrapPending /\ Reaped
  BY <1>15 DEF Reaped, Exit, TrapPending
<1>16. CASE TrapRuns
  BY <1>16 DEF TrapRuns, TrapPending, StopServices
<1>17. CASE \E s \in Service : Ready(s)
  BY <1>17 DEF Ready
<1>18. CASE \E s \in Service : Crash(s)
  BY <1>18 DEF Crash, Fault
<1>19. CASE \E s \in Service : Obey(s)
  BY <1>19 DEF Obey
<1>20. CASE Request
  BY <1>20 DEF Request, Exit
<1>21. CASE RuntimeKills
  BY <1>21 DEF RuntimeKills, Exit
<1>22. CASE Tick
  BY <1>22 DEF Tick, Waiting, StillAlive, TrapPending
<1> QED
  BY <1>1, <1>2, <1>3, <1>4, <1>5, <1>6, <1>7, <1>8, <1>9, <1>10, <1>11, <1>12, <1>13,
     <1>14, <1>15, <1>16, <1>17, <1>18, <1>19, <1>20, <1>21, <1>22
  DEF Next, Step, Command

(* Every step keeps the reasons of the exit status.                        *)
LEMMA WhyStep ==
  ASSUME IInv, Next
  PROVE  Ends'
<1> USE SequenceFacts, Bounds
       DEF IInv, TypeOK, Phases, Starting, Stopping, Ends, NothingCutOff,
           StatusTellsWhy, script, outside, Alive, Running
<1>1. CASE ~TrapPending /\ Doctor
  BY <1>1 DEF Doctor, Abort, Exit, Fault, TrapPending
<1>2. CASE ~TrapPending /\ Seed
  BY <1>2 DEF Seed, Abort, Exit, Fault, TrapPending
<1>3. CASE ~TrapPending /\ Launch
  BY <1>3 DEF Launch, TrapPending
<1>4. CASE ~TrapPending /\ Note
  BY <1>4 DEF Note, TrapPending
<1>5. CASE ~TrapPending /\ PreparationFails
  BY <1>5 DEF PreparationFails, Abort, Exit, Fault, TrapPending
<1>6. CASE ~TrapPending /\ Probe
  BY <1>6 DEF Probe, Answers, Fault, TrapPending
<1>7. CASE ~TrapPending /\ Healthy
  BY <1>7 DEF Healthy, TrapPending
<1>8. CASE ~TrapPending /\ TryAgain
  BY <1>8 DEF TryAgain, TrapPending
<1>9. CASE ~TrapPending /\ GiveUp
  BY <1>9 DEF GiveUp, TrapPending
<1>10. CASE ~TrapPending /\ WaitReturns
  BY <1>10 DEF WaitReturns, TrapPending
<1>11. CASE ~TrapPending /\ StopAfterFailure
  BY <1>11 DEF StopAfterFailure, StopServices, TrapPending
<1>12. CASE ~TrapPending /\ Term
  BY <1>12 DEF Term, TrapPending
<1>13. CASE ~TrapPending /\ Drained
  BY <1>13 DEF Drained, StillAlive, TrapPending
<1>14. CASE ~TrapPending /\ KillRest
  BY <1>14 DEF KillRest, TrapPending
<1>15. CASE ~TrapPending /\ Reaped
  BY <1>15 DEF Reaped, Exit, TrapPending
<1>16. CASE TrapRuns
  BY <1>16 DEF TrapRuns, TrapPending, StopServices
<1>17. CASE \E s \in Service : Ready(s)
  BY <1>17 DEF Ready
<1>18. CASE \E s \in Service : Crash(s)
  BY <1>18 DEF Crash, Fault
<1>19. CASE \E s \in Service : Obey(s)
  BY <1>19 DEF Obey
<1>20. CASE Request
  BY <1>20 DEF Request, Exit
<1>21. CASE RuntimeKills
  BY <1>21 DEF RuntimeKills, Exit
<1>22. CASE Tick
  BY <1>22 DEF Tick, Waiting, StillAlive, TrapPending
<1> QED
  BY <1>1, <1>2, <1>3, <1>4, <1>5, <1>6, <1>7, <1>8, <1>9, <1>10, <1>11, <1>12, <1>13,
     <1>14, <1>15, <1>16, <1>17, <1>18, <1>19, <1>20, <1>21, <1>22
  DEF Next, Step, Command

(* Every step keeps the account of the time since the request.             *)
LEMMA TimeStep ==
  ASSUME IInv, Next
  PROVE  InTime'
<1> USE SequenceFacts, Bounds
       DEF IInv, TypeOK, Phases, Starting, Stopping, InTime, Unknown,
           script, outside, Alive, Running
<1>1. CASE ~TrapPending /\ Doctor
  BY <1>1 DEF Doctor, Abort, Exit, Fault, TrapPending
<1>2. CASE ~TrapPending /\ Seed
  BY <1>2 DEF Seed, Abort, Exit, Fault, TrapPending
<1>3. CASE ~TrapPending /\ Launch
  BY <1>3 DEF Launch, TrapPending
<1>4. CASE ~TrapPending /\ Note
  BY <1>4 DEF Note, TrapPending
<1>5. CASE ~TrapPending /\ PreparationFails
  BY <1>5 DEF PreparationFails, Abort, Exit, Fault, TrapPending
<1>6. CASE ~TrapPending /\ Probe
  BY <1>6 DEF Probe, Answers, Fault, TrapPending
<1>7. CASE ~TrapPending /\ Healthy
  BY <1>7 DEF Healthy, TrapPending
<1>8. CASE ~TrapPending /\ TryAgain
  BY <1>8 DEF TryAgain, TrapPending
<1>9. CASE ~TrapPending /\ GiveUp
  BY <1>9 DEF GiveUp, TrapPending
<1>10. CASE ~TrapPending /\ WaitReturns
  BY <1>10 DEF WaitReturns, TrapPending
<1>11. CASE ~TrapPending /\ StopAfterFailure
  BY <1>11 DEF StopAfterFailure, StopServices, TrapPending
<1>12. CASE ~TrapPending /\ Term
  BY <1>12 DEF Term, TrapPending
<1>13. CASE ~TrapPending /\ Drained
  BY <1>13 DEF Drained, StillAlive, TrapPending
<1>14. CASE ~TrapPending /\ KillRest
  BY <1>14 DEF KillRest, TrapPending
<1>15. CASE ~TrapPending /\ Reaped
  BY <1>15 DEF Reaped, Exit, TrapPending
<1>16. CASE TrapRuns
  BY <1>16 DEF TrapRuns, TrapPending, StopServices
<1>17. CASE \E s \in Service : Ready(s)
  BY <1>17 DEF Ready
<1>18. CASE \E s \in Service : Crash(s)
  BY <1>18 DEF Crash, Fault
<1>19. CASE \E s \in Service : Obey(s)
  BY <1>19 DEF Obey
<1>20. CASE Request
  BY <1>20 DEF Request, Exit
<1>21. CASE RuntimeKills
  BY <1>21 DEF RuntimeKills, Exit
<1>22. CASE Tick
  BY <1>22 DEF Tick, Waiting, StillAlive, TrapPending
<1> QED
  BY <1>1, <1>2, <1>3, <1>4, <1>5, <1>6, <1>7, <1>8, <1>9, <1>10, <1>11, <1>12, <1>13,
     <1>14, <1>15, <1>16, <1>17, <1>18, <1>19, <1>20, <1>21, <1>22
  DEF Next, Step, Command

(* Every step keeps what is known of the services that answered.           *)
LEMMA AnswerStep ==
  ASSUME IInv, Next
  PROVE  Answered'
<1> USE SequenceFacts, Bounds
       DEF IInv, TypeOK, Phases, Starting, Stopping, Answered, HealthyIsTrue,
           script, outside, Alive, Running
<1>1. CASE ~TrapPending /\ Doctor
  BY <1>1 DEF Doctor, Abort, Exit, Fault, TrapPending
<1>2. CASE ~TrapPending /\ Seed
  BY <1>2 DEF Seed, Abort, Exit, Fault, TrapPending
<1>3. CASE ~TrapPending /\ Launch
  BY <1>3 DEF Launch, TrapPending
<1>4. CASE ~TrapPending /\ Note
  BY <1>4 DEF Note, TrapPending
<1>5. CASE ~TrapPending /\ PreparationFails
  BY <1>5 DEF PreparationFails, Abort, Exit, Fault, TrapPending
<1>6. CASE ~TrapPending /\ Probe
  <2>1. \A i \in DOMAIN Probes :
          pc' = "health" /\ ~failed' /\ i < at' => svc'[Probes[i]] \in {"up", "dead"}
    <3> SUFFICES ASSUME NEW i \in DOMAIN Probes, ~failed', i < at'
                 PROVE  svc[Probes[i]] \in {"up", "dead"}
      BY <1>6 DEF Probe
    <3>1. ~failed /\ svc[Probes[at]] = "up"
      BY <1>6 DEF Probe, Answers
    <3>2. at' = at + 1 /\ pc = "health"
      BY <1>6 DEF Probe
    <3>3. CASE i = at
      BY <3>1, <3>3
    <3>4. CASE i # at
      BY <3>1, <3>2, <3>4
    <3> QED BY <3>3, <3>4
  <2> QED BY <1>6, <2>1 DEF Probe
<1>7. CASE ~TrapPending /\ Healthy
  BY <1>7 DEF Healthy, TrapPending
<1>8. CASE ~TrapPending /\ TryAgain
  BY <1>8 DEF TryAgain, TrapPending
<1>9. CASE ~TrapPending /\ GiveUp
  BY <1>9 DEF GiveUp, TrapPending
<1>10. CASE ~TrapPending /\ WaitReturns
  BY <1>10 DEF WaitReturns, TrapPending
<1>11. CASE ~TrapPending /\ StopAfterFailure
  BY <1>11 DEF StopAfterFailure, StopServices, TrapPending
<1>12. CASE ~TrapPending /\ Term
  BY <1>12 DEF Term, TrapPending
<1>13. CASE ~TrapPending /\ Drained
  BY <1>13 DEF Drained, StillAlive, TrapPending
<1>14. CASE ~TrapPending /\ KillRest
  BY <1>14 DEF KillRest, TrapPending
<1>15. CASE ~TrapPending /\ Reaped
  BY <1>15 DEF Reaped, Exit, TrapPending
<1>16. CASE TrapRuns
  BY <1>16 DEF TrapRuns, TrapPending, StopServices
<1>17. CASE \E s \in Service : Ready(s)
  BY <1>17 DEF Ready
<1>18. CASE \E s \in Service : Crash(s)
  <2> PICK s \in Service : Crash(s)
    BY <1>18
  <2>1. UNCHANGED <<pc, failed, at>>
    BY DEF Crash
  <2>2. \A t \in Service : svc'[t] = svc[t] \/ svc'[t] = "dead"
    BY DEF Crash
  <2> HIDE DEF IInv, TypeOK
  <2>3. \A t \in Service : svc[t] \in {"up", "dead"} => svc'[t] \in {"up", "dead"}
    BY <2>2
  <2>4. Answered
    BY DEF IInv
  <2> QED BY <2>1, <2>2, <2>3, <2>4
<1>19. CASE \E s \in Service : Obey(s)
  BY <1>19 DEF Obey
<1>20. CASE Request
  BY <1>20 DEF Request, Exit
<1>21. CASE RuntimeKills
  BY <1>21 DEF RuntimeKills, Exit
<1>22. CASE Tick
  BY <1>22 DEF Tick, Waiting, StillAlive, TrapPending
<1> QED
  BY <1>1, <1>2, <1>3, <1>4, <1>5, <1>6, <1>7, <1>8, <1>9, <1>10, <1>11, <1>12, <1>13,
     <1>14, <1>15, <1>16, <1>17, <1>18, <1>19, <1>20, <1>21, <1>22
  DEF Next, Step, Command

(* A stutter keeps everything.                                             *)
LEMMA StutterKeeps ==
  ASSUME IInv, UNCHANGED vars
  PROVE  IInv'
BY DEF IInv, TypeOK, Phases, Ends, NothingCutOff, StatusTellsWhy, InTime, Unknown,
       Answered, HealthyIsTrue, Alive, vars, script, outside

(* The inductive invariant holds of every behavior.                        *)
THEOREM Inductive == Spec => []IInv
<1>1. IInv /\ [Next]_vars => IInv'
  BY TypeStep, PhaseStep, WhyStep, TimeStep, AnswerStep, StutterKeeps DEF IInv
<1> QED BY InitHolds, <1>1, PTL DEF Spec

(* The script and its surroundings are well typed.                         *)
THEOREM TypeCorrect == Spec => []TypeOK
BY Inductive, PTL DEF IInv

(* Whatever is stopped and whenever: after stop_services no service is     *)
(* left to the kernel.                                                     *)
THEOREM NoServiceIsCutOff == Spec => []NothingCutOff
BY Inductive, PTL DEF IInv, Ends

(* The exit status tells a requested stop from a failure.                  *)
THEOREM StatusIsTrue == Spec => []StatusTellsWhy
BY Inductive, PTL DEF IInv, Ends

(* The suite is announced healthy only when every asked service came up.   *)
THEOREM HealthyServicesCameUp == Spec => []HealthyIsTrue
BY Inductive, PTL DEF IInv, Answered

(* For any timeouts with CommandTime + StopTimeout < PodmanTimeout: a stop *)
(* takes longer only if a service was started that is not in pids.         *)
THEOREM StopIsInTime == Spec => []KilledOnlyIfUnknown
<1>1. IInv => KilledOnlyIfUnknown
  BY DEF IInv, InTime, Unknown, KilledOnlyIfUnknown
<1> QED BY Inductive, <1>1, PTL

-----------------------------------------------------------------------------
(* The container ends.  ExitOfOneEndsAll also rests on the fairness of the *)
(* script and of time; what follows is the rest of its argument, for any   *)
(* suite: a service that ends is one that the script watches, the script   *)
(* waits for nothing that does not come, and it never goes back.           *)

(* What is in pids while the suite starts.                                 *)
Noted ==
  /\ pc \in {"doctor", "seed"} => pids = {}
  /\ pc \in Starting => pids = {Order[i] : i \in 1 .. next - 1}
  /\ pc \in {"health", "wait", "failing"} => next = Len(Order) + 1
  /\ reason = "failure" => pids = Service

(* wait -n watches every service; the stop loop ends in time; and what the *)
(* script stops by itself leaves nothing for the last wait to wait for,    *)
(* while the runtime puts an end to the wait of a stop that was requested. *)
WaitsEnd ==
  /\ pc = "wait" => pids = Service
  /\ pc = "drain" => age < PodmanTimeout
  /\ pc = "reap" /\ ~asked => \A s \in Service : ~Alive(s)

(* The order of the parts of serve() and stop_services.                    *)
Place(p) ==
  CASE p = "doctor" -> 0 [] p = "seed" -> 1 [] p \in {"launch", "note"} -> 2
    [] p = "health" -> 3 [] p = "wait" -> 4 [] p = "failing" -> 5 [] p = "term" -> 6
    [] p = "drain" -> 7 [] p = "kill" -> 8 [] p = "reap" -> 9 [] OTHER -> 10

(* A later part, the next service, the next attempt or the next probe.     *)
Later ==
  \/ Place(pc') > Place(pc)
  \/ pc = "launch" /\ pc' = "note" /\ next' = next
  \/ pc = "note" /\ pc' = "launch" /\ next' = next + 1
  \/ /\ pc = "health" /\ pc' = "health"
     /\ attempt' = attempt + 1 \/ (attempt' = attempt /\ at' = at + 1)

(* Every command brings the script on, every second counts, and nothing    *)
(* takes the script back.                                                  *)
GoesForward == [][
  /\ Step => Later
  /\ Tick => age' = age + 1 \/ grace' = grace - 1
  /\ Later \/ UNCHANGED <<pc, next, attempt, at>>]_vars

(* At the start pids is empty.                                             *)
LEMMA NotedAtFirst == Init => Noted
  BY DEF Init, Noted, Starting

(* Note adds the service that Launch started; nothing else changes pids.   *)
LEMMA NotedStep ==
  ASSUME IInv, Noted, [Next]_vars
  PROVE  Noted'
<1> USE SequenceFacts, Bounds DEF IInv, TypeOK, Phases, Noted, Starting, Stopping, script
<1>1. CASE ~TrapPending /\ Note
  <2>1. next \in 1 .. Len(Order) /\ pids = {Order[i] : i \in 1 .. next - 1}
    BY <1>1 DEF Note
  <2>2. {Order[i] : i \in 1 .. next} = {Order[i] : i \in 1 .. next - 1} \cup {Order[next]}
    BY <2>1
  <2>3. pids' = {Order[i] : i \in 1 .. next' - 1} /\ reason' = reason /\ reason # "failure"
    BY <1>1, <2>1, <2>2 DEF Note
  <2>4. next' = next + 1 /\ pc' = IF next = Len(Order) THEN "health" ELSE "launch"
    BY <1>1 DEF Note
  <2> QED
    BY <2>1, <2>3, <2>4
<1>2. CASE ~TrapPending /\ StopAfterFailure
  <2>1. pids = {Order[i] : i \in 1 .. Len(Order)}
    BY <1>2 DEF StopAfterFailure
  <2>2. pids = Service
    BY <2>1 DEF Service
  <2> QED
    BY <1>2, <2>2 DEF StopAfterFailure, StopServices
<1>3. CASE ~TrapPending /\ Doctor
  BY <1>3 DEF Doctor, Abort, Exit
<1>4. CASE ~TrapPending /\ Seed
  BY <1>4 DEF Seed, Abort, Exit
<1>5. CASE ~TrapPending /\ Launch
  BY <1>5 DEF Launch
<1>6. CASE ~TrapPending /\ PreparationFails
  BY <1>6 DEF PreparationFails, Abort, Exit
<1>7. CASE ~TrapPending /\ Probe
  BY <1>7 DEF Probe
<1>8. CASE ~TrapPending /\ Healthy
  BY <1>8 DEF Healthy
<1>9. CASE ~TrapPending /\ TryAgain
  BY <1>9 DEF TryAgain
<1>10. CASE ~TrapPending /\ GiveUp
  BY <1>10 DEF GiveUp
<1>11. CASE ~TrapPending /\ WaitReturns
  BY <1>11 DEF WaitReturns
<1>12. CASE ~TrapPending /\ Term
  BY <1>12 DEF Term
<1>13. CASE ~TrapPending /\ Drained
  BY <1>13 DEF Drained
<1>14. CASE ~TrapPending /\ KillRest
  BY <1>14 DEF KillRest
<1>15. CASE ~TrapPending /\ Reaped
  BY <1>15 DEF Reaped, Exit
<1>16. CASE TrapRuns
  BY <1>16 DEF TrapRuns, TrapPending, StopServices
<1>17. CASE \E s \in Service : Ready(s) \/ Crash(s) \/ Obey(s)
  BY <1>17 DEF Ready, Crash, Obey
<1>18. CASE Request
  BY <1>18 DEF Request, Exit
<1>19. CASE RuntimeKills
  BY <1>19 DEF RuntimeKills, Exit
<1>20. CASE Tick
  BY <1>20 DEF Tick
<1>21. CASE UNCHANGED vars
  BY <1>21 DEF vars
<1> QED
  BY <1>1, <1>2, <1>3, <1>4, <1>5, <1>6, <1>7, <1>8, <1>9, <1>10, <1>11, <1>12,
     <1>13, <1>14, <1>15, <1>16, <1>17, <1>18, <1>19, <1>20, <1>21
  DEF Next, Step, Command

(* The two invariants together.                                            *)
LEMMA BothInvariants == Spec => [](IInv /\ Noted)
<1>1. IInv /\ Noted /\ [Next]_vars => Noted'
  BY NotedStep
<1> QED
  BY NotedAtFirst, <1>1, Inductive, PTL DEF Spec

(* No wait of the script is for ever: wait -n is called with every service *)
(* of the suite (entrypoint.sh:682), the stop loop ends before the runtime *)
(* loses its patience, and the wait after the kills has nothing to wait    *)
(* for, unless the runtime is going to end it.                             *)
THEOREM NoWaitForEver == Spec => []WaitsEnd
<1>1. IInv /\ Noted => WaitsEnd
  <2> SUFFICES ASSUME IInv, Noted PROVE WaitsEnd
    OBVIOUS
  <2>1. pc = "wait" => pids = Service
    BY SequenceFacts DEF Noted, Starting, Service
  <2>2. pc = "drain" => age < PodmanTimeout
    BY Bounds DEF IInv, TypeOK, InTime
  <2>3. pc = "reap" /\ ~asked => \A s \in Service : ~Alive(s)
    BY DEF IInv, Phases, Stopping, Noted, InTime
  <2> QED
    BY <2>1, <2>2, <2>3 DEF WaitsEnd
<1> QED
  BY <1>1, BothInvariants, PTL

(* Each command is one place further on.                                   *)
LEMMA CommandsGoForward ==
  ASSUME IInv, Step
  PROVE  Later
<1> USE DEF IInv, TypeOK, Later, Place
<1>1. CASE Doctor
  BY <1>1 DEF Doctor, Abort, Exit
<1>2. CASE Seed
  BY <1>2 DEF Seed, Abort, Exit
<1>3. CASE Launch
  BY <1>3 DEF Launch
<1>4. CASE Note
  BY <1>4 DEF Note
<1>5. CASE PreparationFails
  BY <1>5 DEF PreparationFails, Abort, Exit
<1>6. CASE Probe
  BY <1>6 DEF Probe
<1>7. CASE Healthy
  BY <1>7 DEF Healthy
<1>8. CASE TryAgain
  BY <1>8 DEF TryAgain
<1>9. CASE GiveUp
  BY <1>9 DEF GiveUp
<1>10. CASE WaitReturns
  BY <1>10 DEF WaitReturns
<1>11. CASE StopAfterFailure
  BY <1>11 DEF StopAfterFailure, StopServices
<1>12. CASE Term
  BY <1>12 DEF Term
<1>13. CASE Drained
  BY <1>13 DEF Drained
<1>14. CASE KillRest
  BY <1>14 DEF KillRest
<1>15. CASE Reaped
  BY <1>15 DEF Reaped, Exit
<1>16. CASE TrapRuns
  <2>1. pc \in Starting /\ pc' = "term"
    BY <1>16 DEF TrapRuns, TrapPending, StopServices, Phases, Starting, Stopping
  <2> QED
    BY <2>1 DEF Starting
<1> QED
  BY <1>1, <1>2, <1>3, <1>4, <1>5, <1>6, <1>7, <1>8, <1>9, <1>10, <1>11, <1>12,
     <1>13, <1>14, <1>15, <1>16 DEF Step, Command

(* The script ends after a bounded number of commands and seconds: it has  *)
(* finitely many parts, services, attempts and probes, and each command    *)
(* goes to a later one; each second brings the end of the grace or the     *)
(* runtime's timeout nearer; and neither a service nor the operator takes  *)
(* the script back.                                                        *)
THEOREM ScriptGoesForward == Spec => GoesForward
<1>1. IInv /\ Noted /\ [Next]_vars =>
        [/\ Step => Later
         /\ Tick => age' = age + 1 \/ grace' = grace - 1
         /\ Later \/ UNCHANGED <<pc, next, attempt, at>>]_vars
  <2> SUFFICES ASSUME IInv, Noted, Next
               PROVE  /\ Step => Later
                      /\ Tick => age' = age + 1 \/ grace' = grace - 1
                      /\ Later \/ UNCHANGED <<pc, next, attempt, at>>
    OBVIOUS
  <2>1. Step => Later
    BY CommandsGoForward
  <2>2. ASSUME Tick PROVE age' = age + 1 \/ grace' = grace - 1
    <3>1. pc = "reap" /\ ~asked => \A s \in Service : ~Alive(s)
      BY DEF IInv, Phases, Stopping, Noted, InTime
    <3> QED
      BY <2>2, <3>1 DEF Tick, Waiting, TrapPending
  <2>3. ASSUME Request \/ RuntimeKills
        PROVE  Later \/ UNCHANGED <<pc, next, attempt, at>>
    BY <2>3 DEF Request, RuntimeKills, Exit, script, Later, Place, IInv, TypeOK
  <2>4. ASSUME Tick \/ \E s \in Service : Ready(s) \/ Crash(s) \/ Obey(s)
        PROVE  UNCHANGED <<pc, next, attempt, at>>
    BY <2>4 DEF Tick, Ready, Crash, Obey, script
  <2> QED
    BY <2>1, <2>2, <2>3, <2>4 DEF Next
<1> QED
  BY <1>1, BothInvariants, PTL DEF Spec, GoesForward
=============================================================================
