----------------------------- MODULE Supervisor -----------------------------
(***************************************************************************)
(* The container's supervisor: serve() of nix/entrypoint.sh.               *)
(*                                                                         *)
(* A shell script starts the services one after another, waits until their *)
(* health endpoints answer, and then waits for the first of them to exit.  *)
(* TERM and INT run on_stop_signal, between any two of its commands; the   *)
(* services it stops are those in the array pids.  It is a child of tini,  *)
(* so a signal it has no trap for ends it, and its exit ends the container *)
(* with every process in it.                                               *)
(*                                                                         *)
(* Simplifications.  Time passes only where the script waits: in the stop  *)
(* loop, in wait, and in a command that a stop request finds running.  The *)
(* wait for the MCP sockets (lines 458-463) gives up after some seconds    *)
(* and changes nothing, so it is a launch that may happen at any time; the *)
(* second run of health after one that passed changes nothing either.      *)
(* wait -n is taken to remember a service that ended before it was called. *)
(***************************************************************************)
EXTENDS Naturals, Sequences

CONSTANTS
  Order,        \* the services of a configuration, in the order of run_as
  Probes,       \* those that health() asks, in its order
  Fallible,     \* those before which serve() runs commands that may fail
  Attempts,     \* REBEKAH_STARTUP_ATTEMPTS
  CommandTime,  \* the longest foreground command (a probe's --max-time)
  StopTimeout,  \* REBEKAH_STOP_TIMEOUT
  PodmanTimeout,\* podman stop -t: what the runtime waits before it kills
  MaxRequests,  \* bound on stop requests
  MaxFaults     \* bound on crashes, failing commands and slow answers

Service == {Order[i] : i \in DOMAIN Order}

ASSUME SupervisorAssumption ==
  /\ Order \in Seq(Service) /\ Order # <<>>
  /\ Probes \in Seq(Service)
  /\ Fallible \subseteq Service
  /\ Attempts \in Nat \ {0}
  /\ CommandTime \in Nat /\ StopTimeout \in Nat
  /\ PodmanTimeout \in Nat
  /\ CommandTime + StopTimeout < PodmanTimeout
  /\ MaxRequests \in Nat /\ MaxFaults \in Nat

VARIABLES
  pc,        \* the next command of the script
  next,      \* launch: the index in Order of the service to start
  pids,      \* the services whose process id is in the array pids
  attempt,   \* wait_until_healthy: which attempt
  at,        \* health: the index in Probes of the next one
  failed,    \* health: $failed
  trap,      \* what TERM and INT do: "default" or "handler"
  reason,    \* who called stop_services
  grace,     \* stop_services: seconds left to $deadline
  code,      \* the exit status of the container, Running before that
  svc,       \* svc[s]: the process of service s
  asked,     \* a stop request is pending, or being served
  age,       \* seconds since that request
  requests,  \* history: stop requests so far
  faults,    \* history: failures so far
  cut        \* history: the services still running when the container ended

script == <<pc, next, pids, attempt, at, failed, trap, reason, grace>>
outside == <<asked, age, requests, faults>>
vars == <<script, code, svc, outside, cut>>

Running == 999
Codes == {0, 1, 137, 143}
Alive(s) == svc[s] \in {"starting", "up", "termed"}

TypeOK ==
  /\ pc \in {"doctor", "seed", "launch", "note", "health", "wait", "failing",
             "term", "drain", "kill", "reap", "exited"}
  /\ next \in 1 .. Len(Order) + 1
  /\ pids \subseteq Service
  /\ attempt \in 1 .. Attempts /\ at \in 1 .. Len(Probes) + 1
  /\ failed \in BOOLEAN
  /\ trap \in {"default", "handler"}
  /\ reason \in {"none", "stop", "failure", "error"}
  /\ grace \in 0 .. StopTimeout
  /\ code \in Codes \cup {Running}
  /\ svc \in [Service -> {"none", "starting", "up", "termed", "dead"}]
  /\ asked \in BOOLEAN /\ age \in 0 .. PodmanTimeout
  /\ requests \in 0 .. MaxRequests /\ faults \in 0 .. MaxFaults
  /\ cut \subseteq Service

Init ==
  /\ pc = "doctor" /\ next = 1 /\ pids = {}
  /\ attempt = 1 /\ at = 1 /\ failed = FALSE
  /\ trap = "default" /\ reason = "none" /\ grace = 0
  /\ code = Running
  /\ svc = [s \in Service |-> "none"]
  /\ asked = FALSE /\ age = 0 /\ requests = 0 /\ faults = 0
  /\ cut = {}

\* A failure that the bound still allows.
Fault == faults < MaxFaults /\ faults' = faults + 1

\* The supervisor ends, tini with it, and the kernel kills what is left.
Exit(status) ==
  /\ pc' = "exited" /\ code' = status
  /\ cut' = {s \in Service : Alive(s)}
  /\ svc' = [s \in Service |-> IF Alive(s) THEN "dead" ELSE svc[s]]

-----------------------------------------------------------------------------
(* The script.  Bash runs the trap of a pending signal before the next     *)
(* command, so no other command runs while one is pending.                 *)

TrapPending == asked /\ trap = "handler"

\* set -e: a failing doctor, seed_ledger or preparation ends the script.
Abort ==
  /\ Exit(1)
  /\ reason' = "error"
  /\ Fault
  /\ UNCHANGED <<next, pids, attempt, at, failed, trap, grace, asked, age,
                 requests>>

Doctor ==
  /\ pc = "doctor"
  /\ \/ /\ pc' = "seed"
        /\ UNCHANGED <<next, pids, attempt, at, failed, trap, reason, grace,
                       code, svc, outside, cut>>
     \/ Abort

\* seed_ledger, and the trap that is set after it.
Seed ==
  /\ pc = "seed"
  /\ \/ /\ pc' = "launch" /\ trap' = "handler"
        /\ UNCHANGED <<next, pids, attempt, at, failed, reason, grace,
                       code, svc, outside, cut>>
     \/ Abort

\* run_as: the process runs before its id is in pids.
Launch ==
  /\ pc = "launch"
  /\ pc' = "note"
  /\ svc' = [svc EXCEPT ![Order[next]] = "starting"]
  /\ UNCHANGED <<next, pids, attempt, at, failed, trap, reason, grace,
                 code, outside, cut>>

Note ==
  /\ pc = "note"
  /\ pids' = pids \cup {Order[next]}
  /\ next' = next + 1
  /\ pc' = IF next = Len(Order) THEN "health" ELSE "launch"
  /\ UNCHANGED <<attempt, at, failed, trap, reason, grace, code, svc,
                 outside, cut>>

\* A token file, a directory or a config that serve() cannot write.
PreparationFails ==
  /\ pc = "launch"
  /\ Order[next] \in Fallible
  /\ Abort

Answers(s) == svc[s] = "up"

\* Fault: the last answer is the one that counts.
ProbeLastCounts ==
  /\ pc = "health" /\ at <= Len(Probes)
  /\ failed' = ~Answers(Probes[at])
  /\ at' = at + 1
  /\ UNCHANGED <<pc, next, pids, attempt, trap, reason, grace, code, svc,
                 outside, cut>>

\* health() asks every service, whatever the ones before answered.
Probe ==
  /\ pc = "health" /\ at <= Len(Probes)
  /\ \/ /\ Answers(Probes[at])
        /\ UNCHANGED <<failed, faults>>
     \/ /\ ~Answers(Probes[at])
        /\ failed' = TRUE /\ UNCHANGED faults
     \/ /\ Answers(Probes[at])                 \* but not in time
        /\ failed' = TRUE /\ Fault
  /\ at' = at + 1
  /\ UNCHANGED <<pc, next, pids, attempt, trap, reason, grace, code, svc,
                 asked, age, requests, cut>>

\* wait_until_healthy, at the end of a run of health().
Healthy ==
  /\ pc = "health" /\ at > Len(Probes) /\ ~failed
  /\ pc' = "wait"
  /\ UNCHANGED <<next, pids, attempt, at, failed, trap, reason, grace, code,
                 svc, outside, cut>>

TryAgain ==
  /\ pc = "health" /\ at > Len(Probes) /\ failed
  /\ attempt < Attempts
  /\ attempt' = attempt + 1 /\ at' = 1 /\ failed' = FALSE
  /\ UNCHANGED <<pc, next, pids, trap, reason, grace, code, svc, outside, cut>>

GiveUp ==
  /\ pc = "health" /\ at > Len(Probes) /\ failed
  /\ attempt = Attempts
  /\ pc' = "failing"
  /\ UNCHANGED <<next, pids, attempt, at, failed, trap, reason, grace, code,
                 svc, outside, cut>>

\* Fault: only the services that health() asks are watched.
WaitReturnsIfAsked ==
  /\ pc = "wait"
  /\ \E i \in DOMAIN Probes : svc[Probes[i]] = "dead"
  /\ pc' = "failing"
  /\ UNCHANGED <<next, pids, attempt, at, failed, trap, reason, grace, code,
                 svc, outside, cut>>

\* wait -n "${pids[@]}" returns when one of them has ended.
WaitReturns ==
  /\ pc = "wait"
  /\ \E s \in pids : svc[s] = "dead"
  /\ pc' = "failing"
  /\ UNCHANGED <<next, pids, attempt, at, failed, trap, reason, grace, code,
                 svc, outside, cut>>

-----------------------------------------------------------------------------
(* stop_services, called for a failure or by the trap.                     *)

StopServices(why) ==
  /\ trap' = "default"
  /\ reason' = why
  /\ pc' = "term"
  /\ UNCHANGED <<next, pids, attempt, at, failed, grace, code, svc, outside,
                 cut>>

StopAfterFailure == pc = "failing" /\ StopServices("failure")

TrapRuns == TrapPending /\ pc # "exited" /\ StopServices("stop")

Term ==
  /\ pc = "term"
  /\ svc' = [s \in Service |->
               IF s \in pids /\ Alive(s) THEN "termed" ELSE svc[s]]
  /\ grace' = StopTimeout
  /\ pc' = "drain"
  /\ UNCHANGED <<next, pids, attempt, at, failed, trap, reason, code, outside,
                 cut>>

StillAlive == \E s \in pids : Alive(s)

Drained ==
  /\ pc = "drain"
  /\ ~StillAlive \/ grace = 0
  /\ pc' = "kill"
  /\ UNCHANGED <<next, pids, attempt, at, failed, trap, reason, grace, code,
                 svc, outside, cut>>

\* Fault: a second TERM instead of KILL.
KillRestPolitely ==
  /\ pc = "kill"
  /\ pc' = "reap"
  /\ UNCHANGED <<next, pids, attempt, at, failed, trap, reason, grace, code,
                 svc, outside, cut>>

KillRest ==
  /\ pc = "kill"
  /\ svc' = [s \in Service |->
               IF s \in pids /\ Alive(s) THEN "dead" ELSE svc[s]]
  /\ pc' = "reap"
  /\ UNCHANGED <<next, pids, attempt, at, failed, trap, reason, grace, code,
                 outside, cut>>

\* Fault: no wait after the kills.
ReapedAtOnce ==
  /\ pc = "reap"
  /\ Exit(IF reason = "stop" THEN 0 ELSE 1)
  /\ UNCHANGED <<next, pids, attempt, at, failed, trap, reason, grace, outside>>

\* Fault: the trap does not exit, and returns into the startup loop.
ReapedThenReturn ==
  /\ pc = "reap"
  /\ \A s \in Service : ~Alive(s)
  /\ IF reason = "stop"
     THEN pc' = "health" /\ UNCHANGED <<code, svc, cut>>
     ELSE Exit(1)
  /\ UNCHANGED <<next, pids, attempt, at, failed, trap, reason, grace, outside>>

\* wait || true: for every child; then exit 0 in the trap, return 1 in serve.
Reaped ==
  /\ pc = "reap"
  /\ \A s \in Service : ~Alive(s)
  /\ Exit(IF reason = "stop" THEN 0 ELSE 1)
  /\ UNCHANGED <<next, pids, attempt, at, failed, trap, reason, grace, outside>>

Command ==
  \/ Doctor \/ Seed \/ Launch \/ Note \/ PreparationFails
  \/ Probe \/ Healthy \/ TryAgain \/ GiveUp \/ WaitReturns
  \/ StopAfterFailure \/ Term \/ Drained \/ KillRest \/ Reaped

Step == TrapRuns \/ (~TrapPending /\ Command)

-----------------------------------------------------------------------------
(* The services, the runtime and the operator.                             *)

Ready(s) ==
  /\ svc[s] = "starting"
  /\ svc' = [svc EXCEPT ![s] = "up"]
  /\ UNCHANGED <<script, code, outside, cut>>

\* A service ends by itself.
Crash(s) ==
  /\ svc[s] \in {"starting", "up"}
  /\ svc' = [svc EXCEPT ![s] = "dead"]
  /\ Fault
  /\ UNCHANGED <<script, code, asked, age, requests, cut>>

\* A service ends on TERM: soon, late or never.
Obey(s) ==
  /\ svc[s] = "termed"
  /\ svc' = [svc EXCEPT ![s] = "dead"]
  /\ UNCHANGED <<script, code, outside, cut>>

\* podman stop, or Ctrl-C: the signal is trapped, or it ends the supervisor.
Request ==
  /\ pc # "exited" /\ requests < MaxRequests
  /\ requests' = requests + 1
  /\ IF trap = "handler"
     THEN /\ asked' = TRUE
          /\ UNCHANGED <<script, code, svc, cut>>
     ELSE /\ Exit(143)
          /\ UNCHANGED <<next, pids, attempt, at, failed, trap, reason, grace,
                         asked>>
  /\ UNCHANGED <<age, faults>>

\* podman stop -t: the runtime kills what has not stopped by then.
RuntimeKills ==
  /\ pc # "exited" /\ asked /\ age = PodmanTimeout
  /\ Exit(137)
  /\ UNCHANGED <<next, pids, attempt, at, failed, trap, reason, grace, outside>>

\* Where the script spends time: a command that the signal found running, the
\* loop that waits for the services to end, and wait.
Waiting ==
  \/ TrapPending /\ pc \in {"launch", "health"} /\ age < CommandTime
  \/ pc = "drain" /\ StillAlive /\ grace > 0
  \/ pc = "reap" /\ \E s \in Service : Alive(s)

Tick ==
  /\ Waiting
  /\ age < PodmanTimeout
  /\ age' = IF asked THEN age + 1 ELSE age
  /\ grace' = IF pc = "drain" THEN grace - 1 ELSE grace
  /\ UNCHANGED <<pc, next, pids, attempt, at, failed, trap, reason, code, svc,
                 asked, requests, faults, cut>>

Next ==
  \/ Step
  \/ \E s \in Service : Ready(s) \/ Crash(s) \/ Obey(s)
  \/ Request \/ RuntimeKills \/ Tick

\* The script goes on, time passes, and the runtime keeps its word.
Fairness == WF_vars(Step) /\ WF_vars(Tick) /\ WF_vars(RuntimeKills)

Spec == Init /\ [][Next]_vars /\ Fairness

-----------------------------------------------------------------------------
(* Properties.                                                             *)

(* A container that the supervisor ends by stop_services leaves no service *)
(* to the kernel: the wait after the kills covers a service whose process  *)
(* id never got into pids.                                                 *)
NothingCutOff == reason \in {"stop", "failure"} /\ code \in {0, 1} => cut = {}

(* The status says why the container stopped: 0 only because somebody      *)
(* asked, and 1 only if nobody had (the unit restarts on failure, and must *)
(* not after a stop).                                                      *)
StatusTellsWhy == (code = 0 => asked) /\ (code = 1 => ~asked)

(* The services are announced healthy only when each one health() asks has *)
(* come up: an answer after a failed one does not hide it.                 *)
HealthyIsTrue ==
  pc = "wait" => \A i \in DOMAIN Probes : svc[Probes[i]] \in {"up", "dead"}

(* The runtime has to kill only a container in which a service was started *)
(* that stop_services did not know of.                                     *)
KilledOnlyIfUnknown ==
  code = 137 => \E s \in Service : svc[s] # "none" /\ s \notin pids

(* A stop is bounded even if a service ignores TERM (entrypoint.sh:300).   *)
StopIsBounded == code # 137

(* When a service of the suite exits, the supervisor ends the container:   *)
(* whether it ended while others were started, between two probes, unasked *)
(* by any probe, or during a stop.                                         *)
ExitOfOneEndsAll == \A s \in Service : svc[s] = "dead" ~> pc = "exited"
=============================================================================
