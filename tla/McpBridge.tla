----------------------------- MODULE McpBridge -----------------------------
(***************************************************************************)
(* The bridge to a service's MCP server: serve, session, pump and connect  *)
(* of nix/mcp-bridge.py.                                                   *)
(*                                                                         *)
(*   proxy -> connect ==socket==> inbound pump --stdin--> child            *)
(*   proxy <- connect <==socket== outbound pump <--stdout-- child          *)
(*                                                                         *)
(* serve accepts connections of one UID and joins each to a child of its   *)
(* own, at most MaxSessions at a time.  A session is two threads: one      *)
(* copies what connect sends to the child's stdin and then closes it, one  *)
(* copies the child's stdout to the socket, shuts the socket down, reaps   *)
(* the child and gives the slot back.                                      *)
(*                                                                         *)
(* Simplifications.                                                        *)
(*  - A chunk is the unit of every read and write.  Sockets and pipes keep *)
(*    the order, so how many chunks have passed each point says which.     *)
(*  - connect and the proxy are one client; it reads and writes in two     *)
(*    threads, and leaves when it reads the end of the stream.             *)
(*  - The child answers each chunk with one, ends at the end of its stdin, *)
(*    and closes its stdout by ending.                                     *)
(*  - A timeout of the wait for the child is a step that may come at any   *)
(*    moment.  The backlog of the listening socket is never full.          *)
(***************************************************************************)
EXTENDS Naturals, FiniteSets

CONSTANTS
  Session,      \* connections
  Requests,     \* Requests[s]: how many chunks the client of s has to send
  Capacity,     \* chunks a socket or a pipe holds, in each direction
  MaxSessions,  \* MAX_SESSIONS
  MaxFaults     \* bound on children that crash or cannot be started

ASSUME McpBridgeAssumption ==
  /\ IsFiniteSet(Session)
  /\ Requests \in [Session -> Nat]
  /\ Capacity \in Nat \ {0}
  /\ MaxSessions \in Nat \ {0}
  /\ MaxFaults \in Nat

VARIABLES
  client,    \* client[s]: "away", "on", "half" (it has sent all), "left"
  conn,      \* conn[s]: the server's socket, in the backlog at first
  sent,      \* sent[s]: chunks the client put into the socket
  taken,     \* taken[s]: chunks the inbound pump received
  fed,       \* fed[s]: chunks it wrote to the child's stdin
  read,      \* read[s]: chunks the child read
  wrote,     \* wrote[s]: chunks the child wrote
  pulled,    \* pulled[s]: chunks the outbound pump read
  pushed,    \* pushed[s]: chunks it put into the socket
  got,       \* got[s]: chunks the client received
  inbound,   \* inbound[s]: the inbound pump
  outbound,  \* outbound[s]: the thread of session
  child,     \* child[s]: the process
  slots,     \* the semaphore's count
  told,      \* history: clients that read the end of the stream
  finished,  \* history: children that read the end of their stdin
  faults     \* history: failures so far

request == <<sent, taken, fed, read>>
answer == <<wrote, pulled, pushed, got>>
threads == <<inbound, outbound>>
history == <<told, finished, faults>>
vars == <<client, conn, request, answer, threads, child, slots, history>>

Counter == [Session -> Nat]

TypeOK ==
  /\ client \in [Session -> {"away", "on", "half", "left"}]
  /\ conn \in [Session -> {"none", "foreign", "backlog", "open", "shut", "closed"}]
  /\ sent \in Counter /\ taken \in Counter /\ fed \in Counter /\ read \in Counter
  /\ wrote \in Counter /\ pulled \in Counter /\ pushed \in Counter
  /\ got \in Counter
  /\ inbound \in [Session -> {"none", "on", "done"}]
  /\ outbound \in [Session -> {"none", "start", "pump", "wait", "release", "done"}]
  /\ child \in [Session -> {"none", "up", "dead"}]
  /\ slots \in 0 .. MaxSessions
  /\ told \subseteq Session /\ finished \subseteq Session
  /\ faults \in 0 .. MaxFaults

Zero == [s \in Session |-> 0]
All(x) == [s \in Session |-> x]

Init ==
  /\ client = All("away") /\ conn = All("none")
  /\ sent = Zero /\ taken = Zero /\ fed = Zero /\ read = Zero
  /\ wrote = Zero /\ pulled = Zero /\ pushed = Zero /\ got = Zero
  /\ inbound = All("none") /\ outbound = All("none") /\ child = All("none")
  /\ slots = MaxSessions
  /\ told = {} /\ finished = {} /\ faults = 0

Fault == faults < MaxFaults /\ faults' = faults + 1

\* What f counts at s goes up by one.
Count(f, s) == f' = [f EXCEPT ![s] = @ + 1]

-----------------------------------------------------------------------------
(* connect, and the proxy that started it.                                 *)

Here(s) == client[s] \in {"on", "half"}
Open(s) == conn[s] \in {"foreign", "backlog", "open"}

\* "foreign": the peer does not have the UID that serve lets in.
Connect(s) ==
  /\ client[s] = "away"
  /\ client' = [client EXCEPT ![s] = "on"]
  /\ \E c \in {"foreign", "backlog"} : conn' = [conn EXCEPT ![s] = c]
  /\ UNCHANGED <<request, answer, threads, child, slots, history>>

Send(s) ==
  /\ client[s] = "on" /\ Open(s)
  /\ sent[s] < Requests[s] /\ sent[s] - taken[s] < Capacity
  /\ Count(sent, s)
  /\ UNCHANGED <<client, conn, taken, fed, read, answer, threads, child, slots,
                 history>>

\* The end of its stdin, or a send that fails.
HalfClose(s) ==
  /\ client[s] = "on"
  /\ client' = [client EXCEPT ![s] = "half"]
  /\ UNCHANGED <<conn, request, answer, threads, child, slots, history>>

MayReceive(s) == Here(s) /\ got[s] < pushed[s]

Receive(s) ==
  /\ MayReceive(s)
  /\ Count(got, s)
  /\ UNCHANGED <<client, conn, request, wrote, pulled, pushed, threads, child,
                 slots, history>>

MayReceiveEnd(s) == Here(s) /\ got[s] = pushed[s] /\ ~Open(s)

\* The end of the stream: connect exits, whatever its other thread does.
ReceiveEnd(s) ==
  /\ MayReceiveEnd(s)
  /\ client' = [client EXCEPT ![s] = "left"]
  /\ told' = told \cup {s}
  /\ UNCHANGED <<conn, request, answer, threads, child, slots, finished, faults>>

\* The proxy kills it, or stops listening.
Leave(s) ==
  /\ Here(s)
  /\ client' = [client EXCEPT ![s] = "left"]
  /\ UNCHANGED <<conn, request, answer, threads, child, slots, history>>

-----------------------------------------------------------------------------
(* The loop of serve.                                                      *)

Refuse(s) ==
  /\ \/ conn[s] = "foreign"
     \/ conn[s] = "backlog" /\ slots = 0
  /\ conn' = [conn EXCEPT ![s] = "closed"]
  /\ UNCHANGED <<client, request, answer, threads, child, slots, history>>

Accept(s) ==
  /\ conn[s] = "backlog" /\ slots > 0
  /\ slots' = slots - 1
  /\ conn' = [conn EXCEPT ![s] = "open"]
  /\ outbound' = [outbound EXCEPT ![s] = "start"]
  /\ UNCHANGED <<client, request, answer, inbound, child, history>>

-----------------------------------------------------------------------------
(* session and its child.                                                  *)

Start(s) ==
  /\ outbound[s] = "start"
  /\ child' = [child EXCEPT ![s] = "up"]
  /\ inbound' = [inbound EXCEPT ![s] = "on"]
  /\ outbound' = [outbound EXCEPT ![s] = "pump"]
  /\ UNCHANGED <<client, conn, request, answer, slots, history>>

StartFails(s) ==
  /\ outbound[s] = "start"
  /\ Fault
  /\ conn' = [conn EXCEPT ![s] = "closed"]
  /\ outbound' = [outbound EXCEPT ![s] = "release"]
  /\ UNCHANGED <<client, request, answer, inbound, child, slots, told, finished>>

MayTake(s) ==
  /\ inbound[s] = "on" /\ conn[s] # "closed"
  /\ taken[s] = fed[s] /\ taken[s] < sent[s]

Take(s) ==
  /\ MayTake(s)
  /\ Count(taken, s)
  /\ UNCHANGED <<client, conn, sent, fed, read, answer, threads, child, slots,
                 history>>

MayFeed(s) ==
  /\ inbound[s] = "on" /\ child[s] = "up"
  /\ fed[s] < taken[s] /\ fed[s] - read[s] < Capacity

Feed(s) ==
  /\ MayFeed(s)
  /\ Count(fed, s)
  /\ UNCHANGED <<client, conn, sent, taken, read, answer, threads, child, slots,
                 history>>

\* recv has nothing more to return, or fails; or the write does.
RecvEnds(s) ==
  /\ taken[s] = fed[s]
  /\ \/ conn[s] = "closed"
     \/ taken[s] = sent[s] /\ (client[s] \in {"half", "left"} \/ conn[s] = "shut")
WriteFails(s) == fed[s] < taken[s] /\ child[s] = "dead"

\* Fault: the pump stops at the half-close, whatever it has still to copy.
InboundEndsEarly(s) ==
  /\ inbound[s] = "on"
  /\ client[s] \in {"half", "left"} \/ RecvEnds(s) \/ WriteFails(s)
  /\ inbound' = [inbound EXCEPT ![s] = "done"]
  /\ UNCHANGED <<client, conn, request, answer, outbound, child, slots, history>>

\* Fault: the end of the requests shuts the connection, not the stdin.
InboundEndsBoth(s) ==
  /\ inbound[s] = "on"
  /\ RecvEnds(s) \/ WriteFails(s)
  /\ inbound' = [inbound EXCEPT ![s] = "done"]
  /\ conn' = [conn EXCEPT ![s] = IF @ = "open" THEN "shut" ELSE @]
  /\ UNCHANGED <<client, request, answer, outbound, child, slots, history>>

MayEndInbound(s) == inbound[s] = "on" /\ (RecvEnds(s) \/ WriteFails(s))

\* close_stdin.
InboundEnds(s) ==
  /\ MayEndInbound(s)
  /\ inbound' = [inbound EXCEPT ![s] = "done"]
  /\ UNCHANGED <<client, conn, request, answer, outbound, child, slots, history>>

MayRead(s) == child[s] = "up" /\ read[s] = wrote[s] /\ read[s] < fed[s]

ChildReads(s) ==
  /\ MayRead(s)
  /\ Count(read, s)
  /\ UNCHANGED <<client, conn, sent, taken, fed, answer, threads, child, slots,
                 history>>

MayWrite(s) ==
  child[s] = "up" /\ wrote[s] < read[s] /\ wrote[s] - pulled[s] < Capacity

ChildWrites(s) ==
  /\ MayWrite(s)
  /\ Count(wrote, s)
  /\ UNCHANGED <<client, conn, request, pulled, pushed, got, threads, child,
                 slots, history>>

MayEnd(s) ==
  /\ child[s] = "up"
  /\ inbound[s] = "done" /\ read[s] = fed[s] /\ wrote[s] = read[s]

ChildEnds(s) ==
  /\ MayEnd(s)
  /\ child' = [child EXCEPT ![s] = "dead"]
  /\ finished' = finished \cup {s}
  /\ UNCHANGED <<client, conn, request, answer, threads, slots, told, faults>>

ChildCrashes(s) ==
  /\ child[s] = "up"
  /\ Fault
  /\ child' = [child EXCEPT ![s] = "dead"]
  /\ UNCHANGED <<client, conn, request, answer, threads, slots, told, finished>>

\* Fault: answers are copied when the requests have ended.
PullAfterRequests(s) ==
  /\ outbound[s] = "pump" /\ inbound[s] = "done"
  /\ pulled[s] = pushed[s] /\ pulled[s] < wrote[s]
  /\ Count(pulled, s)
  /\ UNCHANGED <<client, conn, request, wrote, pushed, got, threads, child,
                 slots, history>>

MayPull(s) ==
  outbound[s] = "pump" /\ pulled[s] = pushed[s] /\ pulled[s] < wrote[s]

Pull(s) ==
  /\ MayPull(s)
  /\ Count(pulled, s)
  /\ UNCHANGED <<client, conn, request, wrote, pushed, got, threads, child,
                 slots, history>>

MayPush(s) ==
  /\ outbound[s] = "pump" /\ conn[s] = "open" /\ Here(s)
  /\ pushed[s] < pulled[s] /\ pushed[s] - got[s] < Capacity

Push(s) ==
  /\ MayPush(s)
  /\ Count(pushed, s)
  /\ UNCHANGED <<client, conn, request, wrote, pulled, got, threads, child,
                 slots, history>>

MayEndOutbound(s) ==
  /\ outbound[s] = "pump"
  /\ \/ pulled[s] = pushed[s] /\ pulled[s] = wrote[s] /\ child[s] = "dead"
     \/ pushed[s] < pulled[s] /\ (client[s] = "left" \/ conn[s] # "open")

\* close_conn, at the end of stdout or when the client is gone.
OutboundEnds(s) ==
  /\ MayEndOutbound(s)
  /\ conn' = [conn EXCEPT ![s] = "shut"]
  /\ outbound' = [outbound EXCEPT ![s] = "wait"]
  /\ UNCHANGED <<client, request, answer, inbound, child, slots, history>>

\* child.wait(timeout=5), and conn.close().
Reap(s) ==
  /\ outbound[s] = "wait" /\ child[s] = "dead"
  /\ conn' = [conn EXCEPT ![s] = "closed"]
  /\ outbound' = [outbound EXCEPT ![s] = "release"]
  /\ UNCHANGED <<client, request, answer, inbound, child, slots, history>>

\* Fault: the timeout ends the wait, not the child.
KillForgotten(s) ==
  /\ outbound[s] = "wait" /\ child[s] = "up"
  /\ conn' = [conn EXCEPT ![s] = "closed"]
  /\ outbound' = [outbound EXCEPT ![s] = "release"]
  /\ UNCHANGED <<client, request, answer, inbound, child, slots, history>>

\* Fault: a wait without a timeout.
KillNever(s) == FALSE

Kill(s) ==
  /\ outbound[s] = "wait" /\ child[s] = "up"
  /\ child' = [child EXCEPT ![s] = "dead"]
  /\ UNCHANGED <<client, conn, request, answer, threads, slots, history>>

Release(s) ==
  /\ outbound[s] = "release"
  /\ slots' = slots + 1
  /\ outbound' = [outbound EXCEPT ![s] = "done"]
  /\ UNCHANGED <<client, conn, request, answer, inbound, child, history>>

-----------------------------------------------------------------------------
Listen(s) == Receive(s) \/ ReceiveEnd(s)
Serve(s) == Refuse(s) \/ Accept(s)
CopyIn(s) == Take(s) \/ Feed(s) \/ InboundEnds(s)
Respond(s) == ChildReads(s) \/ ChildWrites(s) \/ ChildEnds(s)
CopyOut(s) ==
  \/ Start(s) \/ Pull(s) \/ Push(s) \/ OutboundEnds(s)
  \/ Reap(s) \/ Kill(s) \/ Release(s)

Next == \E s \in Session :
  \/ Connect(s) \/ Send(s) \/ HalfClose(s) \/ Leave(s) \/ Listen(s)
  \/ Serve(s)
  \/ CopyIn(s) \/ Respond(s) \/ CopyOut(s)
  \/ StartFails(s) \/ ChildCrashes(s)

(* Every thread runs, the child answers and ends when its stdin does, and  *)
(* a client reads what reaches it.  Nobody has to send, close or leave.    *)
Fairness == \A s \in Session :
  /\ WF_vars(Listen(s)) /\ WF_vars(Serve(s))
  /\ WF_vars(CopyIn(s)) /\ WF_vars(CopyOut(s)) /\ WF_vars(Respond(s))

Spec == Init /\ [][Next]_vars /\ Fairness

-----------------------------------------------------------------------------
(* Properties.                                                             *)

(* MAX_SESSIONS bounds the processes, not only the sessions: a slot is     *)
(* given back when its child is dead, so that with the free ones there     *)
(* are never more than MaxSessions.                                        *)
ChildrenBounded ==
  Cardinality({s \in Session : child[s] = "up"}) + slots <= MaxSessions

(* Bytes pass through untouched (mcp-bridge.py:20), to the last of them:   *)
(* a client that reads the end of the stream has read everything its child *)
(* wrote, whether the child ended, crashed or the client had half-closed.  *)
WholeAnswer == \A s \in told : got[s] = wrote[s]

(* And a child that reads the end of its stdin has read everything its     *)
(* client sent, also when the client left at once.                         *)
WholeRequest == \A s \in finished : read[s] = sent[s]

(* An answer does not wait for the client to stop sending: every request   *)
(* sent in a session is answered, unless the client leaves first, or is    *)
(* told that the session has ended.                                        *)
AnswersArrive == \A s \in Session : \A n \in 1 .. Requests[s] :
  sent[s] = n /\ conn[s] = "open" ~> got[s] >= n \/ client[s] = "left"

(* A session whose client has stopped sending gives its slot back, even if *)
(* the client left without reading the answers.                            *)
SlotComesBack == \A s \in Session :
  outbound[s] # "none" /\ client[s] \in {"half", "left"} ~> outbound[s] = "done"
=============================================================================
