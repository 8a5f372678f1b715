-------------------------- MODULE McpBridgeProofs --------------------------
(***************************************************************************)
(* The bridge bounds the children it starts and copies both streams to the *)
(* last chunk, for any connections, buffers, bounds and failures.          *)
(*                                                                         *)
(* The invariant says what each thread knows of the others: the chunks     *)
(* pass the points of each stream in order, the state of the session's     *)
(* thread fixes those of the socket and the child, and after the end of a  *)
(* stream nothing more can enter it.                                       *)
(***************************************************************************)
EXTENDS McpBridge, FiniteSetTheorems, TLAPS

InOrder(s) ==
  /\ taken[s] <= sent[s] /\ fed[s] <= taken[s] /\ read[s] <= fed[s]
  /\ sent[s] <= Requests[s]
  /\ wrote[s] <= read[s] /\ pulled[s] <= wrote[s]
  /\ pushed[s] <= pulled[s] /\ got[s] <= pushed[s]

(* What the state of the session's thread says of the socket and the child.*)
Phase(s) ==
  /\ outbound[s] = "none" => conn[s] \notin {"open", "shut"}
  /\ outbound[s] \in {"start", "pump"} => conn[s] = "open"
  /\ outbound[s] = "wait" => conn[s] = "shut"
  /\ outbound[s] \in {"release", "done"} => conn[s] = "closed"
  /\ outbound[s] \in {"none", "start"} => child[s] = "none"
  /\ outbound[s] \in {"release", "done"} => child[s] # "up"
  /\ outbound[s] \in {"pump", "wait"} => child[s] # "none" /\ inbound[s] # "none"
  /\ child[s] = "none" => wrote[s] = 0 /\ inbound[s] = "none"
  /\ client[s] = "away" <=> conn[s] = "none"

NoMoreRequests(s) == client[s] \in {"half", "left"} \/ ~Open(s)

(* A closed stdin means that all of the requests are in it.                *)
RequestsEnd(s) ==
  /\ inbound[s] = "done" /\ child[s] = "up" =>
       fed[s] = sent[s] /\ NoMoreRequests(s) /\ client[s] # "away"
  /\ s \in finished =>
       read[s] = sent[s] /\ NoMoreRequests(s) /\ client[s] # "away"
         /\ child[s] = "dead"

(* A socket that was shut has passed all of the answers, unless its client *)
(* left before.                                                            *)
AnswersEnd(s) ==
  /\ conn[s] \in {"shut", "closed"} =>
       client[s] = "left" \/ (pushed[s] = wrote[s] /\ child[s] # "up")
  /\ s \in told =>
       /\ client[s] = "left" /\ ~Open(s)
       /\ got[s] = wrote[s] /\ child[s] # "up"

SessionInv(s) == InOrder(s) /\ Phase(s) /\ RequestsEnd(s) /\ AnswersEnd(s)

(* The sessions that have a slot.                                          *)
Holding == {s \in Session : outbound[s] \notin {"none", "done"}}

SlotsHeld == slots + Cardinality(Holding) = MaxSessions

IInv == TypeOK /\ (\A s \in Session : SessionInv(s)) /\ SlotsHeld

-----------------------------------------------------------------------------
(* The counters and the words of TypeOK, apart.                            *)
CountersOK ==
  /\ sent \in Counter /\ taken \in Counter /\ fed \in Counter /\ read \in Counter
  /\ wrote \in Counter /\ pulled \in Counter /\ pushed \in Counter
  /\ got \in Counter

WordsOK ==
  /\ client \in [Session -> {"away", "on", "half", "left"}]
  /\ conn \in [Session -> {"none", "foreign", "backlog", "open", "shut", "closed"}]
  /\ inbound \in [Session -> {"none", "on", "done"}]
  /\ outbound \in [Session -> {"none", "start", "pump", "wait", "release", "done"}]
  /\ child \in [Session -> {"none", "up", "dead"}]

(* A step of session t: the actions of Next, one by one.                   *)
SessionStep(t) ==
  \/ Connect(t)
  \/ Send(t)
  \/ HalfClose(t)
  \/ Leave(t)
  \/ Receive(t)
  \/ ReceiveEnd(t)
  \/ Refuse(t)
  \/ Accept(t)
  \/ Take(t)
  \/ Feed(t)
  \/ InboundEnds(t)
  \/ ChildReads(t)
  \/ ChildWrites(t)
  \/ ChildEnds(t)
  \/ Start(t)
  \/ Pull(t)
  \/ Push(t)
  \/ OutboundEnds(t)
  \/ Reap(t)
  \/ Kill(t)
  \/ Release(t)
  \/ StartFails(t)
  \/ ChildCrashes(t)

(* At the start nobody is connected and every slot is free.                *)
LEMMA InitInv == Init => IInv
<1> SUFFICES ASSUME Init PROVE IInv
  OBVIOUS
<1>1. TypeOK
  BY McpBridgeAssumption DEF Init, TypeOK, Counter, Zero, All
<1>2. ASSUME NEW s \in Session PROVE SessionInv(s)
  BY McpBridgeAssumption
  DEF Init, SessionInv, InOrder, Phase, RequestsEnd, AnswersEnd, Zero, All
<1>3. Holding = {}
  BY DEF Holding, Init, All
<1>4. SlotsHeld
  BY <1>3, FS_EmptySet, McpBridgeAssumption DEF SlotsHeld, Init
<1> QED
  BY <1>1, <1>2, <1>4 DEF IInv

(* An action changes one entry of one counter.                             *)
LEMMA CountersStep ==
  ASSUME CountersOK, NEW t \in Session, SessionStep(t)
  PROVE  CountersOK'
<1> USE DEF CountersOK, Counter, request, answer
<1>1. CASE Connect(t)
  BY <1>1 DEF Connect
<1>2. CASE Send(t)
  BY <1>2 DEF Send, Open, Count
<1>3. CASE HalfClose(t)
  BY <1>3 DEF HalfClose
<1>4. CASE Leave(t)
  BY <1>4 DEF Leave, Here
<1>5. CASE Receive(t)
  BY <1>5 DEF Receive, MayReceive, Here, Count
<1>6. CASE ReceiveEnd(t)
  BY <1>6 DEF ReceiveEnd, MayReceiveEnd, Here, Open
<1>7. CASE Refuse(t)
  BY <1>7 DEF Refuse
<1>8. CASE Accept(t)
  BY <1>8 DEF Accept
<1>9. CASE Take(t)
  BY <1>9 DEF Take, MayTake, Count
<1>10. CASE Feed(t)
  BY <1>10 DEF Feed, MayFeed, Count
<1>11. CASE InboundEnds(t)
  BY <1>11 DEF InboundEnds, MayEndInbound, RecvEnds, WriteFails
<1>12. CASE ChildReads(t)
  BY <1>12 DEF ChildReads, MayRead, Count
<1>13. CASE ChildWrites(t)
  BY <1>13 DEF ChildWrites, MayWrite, Count
<1>14. CASE ChildEnds(t)
  BY <1>14 DEF ChildEnds, MayEnd
<1>15. CASE Start(t)
  BY <1>15 DEF Start
<1>16. CASE Pull(t)
  BY <1>16 DEF Pull, MayPull, Count
<1>17. CASE Push(t)
  BY <1>17 DEF Push, MayPush, Count, Here
<1>18. CASE OutboundEnds(t)
  BY <1>18 DEF OutboundEnds, MayEndOutbound
<1>19. CASE Reap(t)
  BY <1>19 DEF Reap
<1>20. CASE Kill(t)
  BY <1>20 DEF Kill
<1>21. CASE Release(t)
  BY <1>21 DEF Release
<1>22. CASE StartFails(t)
  BY <1>22 DEF StartFails, Fault
<1>23. CASE ChildCrashes(t)
  BY <1>23 DEF ChildCrashes, Fault
<1> QED
  BY <1>1, <1>2, <1>3, <1>4, <1>5, <1>6, <1>7, <1>8, <1>9, <1>10, <1>11, <1>12,
     <1>13, <1>14, <1>15, <1>16, <1>17, <1>18, <1>19, <1>20, <1>21, <1>22, <1>23
  DEF SessionStep

(* And one entry of each state.                                            *)
LEMMA WordsStep ==
  ASSUME WordsOK, NEW t \in Session, SessionStep(t)
  PROVE  WordsOK'
<1> USE DEF WordsOK, threads
<1>1. CASE Connect(t)
  BY <1>1 DEF Connect
<1>2. CASE Send(t)
  BY <1>2 DEF Send, Open, Count
<1>3. CASE HalfClose(t)
  BY <1>3 DEF HalfClose
<1>4. CASE Leave(t)
  BY <1>4 DEF Leave, Here
<1>5. CASE Receive(t)
  BY <1>5 DEF Receive, MayReceive, Here, Count
<1>6. CASE ReceiveEnd(t)
  BY <1>6 DEF ReceiveEnd, MayReceiveEnd, Here, Open
<1>7. CASE Refuse(t)
  BY <1>7 DEF Refuse
<1>8. CASE Accept(t)
  BY <1>8 DEF Accept
<1>9. CASE Take(t)
  BY <1>9 DEF Take, MayTake, Count
<1>10. CASE Feed(t)
  BY <1>10 DEF Feed, MayFeed, Count
<1>11. CASE InboundEnds(t)
  BY <1>11 DEF InboundEnds, MayEndInbound, RecvEnds, WriteFails
<1>12. CASE ChildReads(t)
  BY <1>12 DEF ChildReads, MayRead, Count
<1>13. CASE ChildWrites(t)
  BY <1>13 DEF ChildWrites, MayWrite, Count
<1>14. CASE ChildEnds(t)
  BY <1>14 DEF ChildEnds, MayEnd
<1>15. CASE Start(t)
  BY <1>15 DEF Start
<1>16. CASE Pull(t)
  BY <1>16 DEF Pull, MayPull, Count
<1>17. CASE Push(t)
  BY <1>17 DEF Push, MayPush, Count, Here
<1>18. CASE OutboundEnds(t)
  BY <1>18 DEF OutboundEnds, MayEndOutbound
<1>19. CASE Reap(t)
  BY <1>19 DEF Reap
<1>20. CASE Kill(t)
  BY <1>20 DEF Kill
<1>21. CASE Release(t)
  BY <1>21 DEF Release
<1>22. CASE StartFails(t)
  BY <1>22 DEF StartFails, Fault
<1>23. CASE ChildCrashes(t)
  BY <1>23 DEF ChildCrashes, Fault
<1> QED
  BY <1>1, <1>2, <1>3, <1>4, <1>5, <1>6, <1>7, <1>8, <1>9, <1>10, <1>11, <1>12,
     <1>13, <1>14, <1>15, <1>16, <1>17, <1>18, <1>19, <1>20, <1>21, <1>22, <1>23
  DEF SessionStep

(* A step of t keeps the invariant of every session, t's own and others.   *)
LEMMA SessionKept ==
  ASSUME CountersOK, WordsOK, NEW t \in Session, SessionStep(t),
         NEW s \in Session, SessionInv(s)
  PROVE  SessionInv(s)'
<1> USE DEF CountersOK, Counter, WordsOK, request, answer, threads, history,
            SessionInv, InOrder, Phase, RequestsEnd, AnswersEnd,
            NoMoreRequests, Open
<1>1. CASE Connect(t)
  BY <1>1 DEF Connect
<1>2. CASE Send(t)
  <2>1. InOrder(s)'
    <3>1. sent[t] < Requests[t] /\ Requests[t] \in Nat /\ sent[t] \in Nat
      BY <1>2, McpBridgeAssumption DEF Send
    <3>2. sent' = [sent EXCEPT ![t] = sent[t] + 1] /\ UNCHANGED <<taken, fed, read, answer>>
      BY <1>2 DEF Send, Count
    <3>3. sent'[s] <= Requests[s] /\ taken[s] <= sent'[s]
      BY <3>1, <3>2
    <3> QED
      BY <3>2, <3>3
  <2> QED
    BY <1>2, <2>1 DEF Send, Count
<1>3. CASE HalfClose(t)
  BY <1>3 DEF HalfClose
<1>4. CASE Leave(t)
  BY <1>4 DEF Leave, Here
<1>5. CASE Receive(t)
  BY <1>5 DEF Receive, MayReceive, Here, Count
<1>6. CASE ReceiveEnd(t)
  BY <1>6 DEF ReceiveEnd, MayReceiveEnd, Here
<1>7. CASE Refuse(t)
  BY <1>7 DEF Refuse
<1>8. CASE Accept(t)
  BY <1>8 DEF Accept
<1>9. CASE Take(t)
  BY <1>9 DEF Take, MayTake, Count
<1>10. CASE Feed(t)
  BY <1>10 DEF Feed, MayFeed, Count
<1>11. CASE InboundEnds(t)
  BY <1>11 DEF InboundEnds, MayEndInbound, RecvEnds, WriteFails
<1>12. CASE ChildReads(t)
  BY <1>12 DEF ChildReads, MayRead, Count
<1>13. CASE ChildWrites(t)
  BY <1>13 DEF ChildWrites, MayWrite, Count
<1>14. CASE ChildEnds(t)
  BY <1>14 DEF ChildEnds, MayEnd
<1>15. CASE Start(t)
  BY <1>15 DEF Start
<1>16. CASE Pull(t)
  BY <1>16 DEF Pull, MayPull, Count
<1>17. CASE Push(t)
  BY <1>17 DEF Push, MayPush, Count, Here
<1>18. CASE OutboundEnds(t)
  BY <1>18 DEF OutboundEnds, MayEndOutbound
<1>19. CASE Reap(t)
  BY <1>19 DEF Reap
<1>20. CASE Kill(t)
  BY <1>20 DEF Kill
<1>21. CASE Release(t)
  BY <1>21 DEF Release
<1>22. CASE StartFails(t)
  BY <1>22 DEF StartFails, Fault
<1>23. CASE ChildCrashes(t)
  BY <1>23 DEF ChildCrashes, Fault
<1> QED
  BY <1>1, <1>2, <1>3, <1>4, <1>5, <1>6, <1>7, <1>8, <1>9, <1>10, <1>11, <1>12,
     <1>13, <1>14, <1>15, <1>16, <1>17, <1>18, <1>19, <1>20, <1>21, <1>22, <1>23
  DEF SessionStep

(* Only Accept and Release move a slot, with the session that holds it.    *)
LEMMA SlotsStep ==
  ASSUME IInv, NEW t \in Session, SessionStep(t)
  PROVE  SlotsHeld' /\ slots' \in 0 .. MaxSessions /\ faults' \in 0 .. MaxFaults
<1> DEFINE n == Cardinality(Holding)
<1>1. IsFiniteSet(Holding) /\ n \in Nat
  BY McpBridgeAssumption, FS_Subset, FS_CardinalityType DEF Holding
<1>2. slots \in Nat /\ faults \in 0 .. MaxFaults /\ slots + n = MaxSessions
  BY DEF IInv, TypeOK, SlotsHeld
<1>3. WordsOK /\ Phase(t)
  BY DEF IInv, TypeOK, WordsOK, SessionInv
<1>4. ASSUME Holding' = Holding, slots' = slots
      PROVE  SlotsHeld' /\ slots' \in 0 .. MaxSessions
  BY <1>1, <1>2, <1>4, McpBridgeAssumption DEF SlotsHeld
<1>5. CASE Accept(t)
  <2>1. t \notin Holding /\ Holding' = Holding \cup {t}
    BY <1>3, <1>5 DEF Accept, Phase, Holding, WordsOK
  <2>2. Cardinality(Holding') = n + 1
    BY <1>1, <2>1, FS_AddElement
  <2>3. slots' = slots - 1 /\ slots > 0 /\ faults' = faults
    BY <1>5 DEF Accept, history
  <2> QED
    BY <1>1, <1>2, <2>2, <2>3, McpBridgeAssumption DEF SlotsHeld
<1>6. CASE Release(t)
  <2>1. t \in Holding /\ Holding' = Holding \ {t}
    BY <1>3, <1>6 DEF Release, Holding, WordsOK
  <2>2. Cardinality(Holding') = n - 1 /\ n > 0
    BY <1>1, <2>1, FS_RemoveElement, FS_EmptySet
  <2>3. slots' = slots + 1 /\ faults' = faults
    BY <1>6 DEF Release, history
  <2> QED
    BY <1>1, <1>2, <2>2, <2>3, McpBridgeAssumption DEF SlotsHeld
<1>7. CASE Start(t) \/ StartFails(t) \/ OutboundEnds(t) \/ Reap(t)
  <2>1. Holding' = Holding /\ slots' = slots
    BY <1>3, <1>7
    DEF Start, StartFails, OutboundEnds, MayEndOutbound, Reap, Holding, WordsOK
  <2>2. faults' \in 0 .. MaxFaults
    BY <1>2, <1>7, McpBridgeAssumption
    DEF Start, StartFails, OutboundEnds, Reap, Fault, history
  <2> QED
    BY <1>4, <2>1, <2>2
<1>8. CASE outbound' = outbound /\ slots' = slots /\ faults' \in 0 .. MaxFaults
  BY <1>4, <1>8 DEF Holding
<1>9. CASE Connect(t) \/ Send(t) \/ HalfClose(t) \/ Leave(t) \/ Receive(t)
             \/ ReceiveEnd(t) \/ Refuse(t)
  BY <1>2, <1>8, <1>9
  DEF Connect, Send, HalfClose, Leave, Receive, ReceiveEnd, Refuse, threads, history
<1>10. CASE Take(t) \/ Feed(t) \/ InboundEnds(t) \/ Pull(t) \/ Push(t) \/ Kill(t)
  BY <1>2, <1>8, <1>10
  DEF Take, Feed, InboundEnds, Pull, Push, Kill, threads, history
<1>11. CASE ChildReads(t) \/ ChildWrites(t) \/ ChildEnds(t) \/ ChildCrashes(t)
  BY <1>2, <1>8, <1>11, McpBridgeAssumption
  DEF ChildReads, ChildWrites, ChildEnds, ChildCrashes, Fault, threads, history
<1> QED
  BY <1>5, <1>6, <1>7, <1>9, <1>10, <1>11 DEF SessionStep

(* The histories only gain the session that moved.                         *)
LEMMA HistoryStep ==
  ASSUME told \subseteq Session, finished \subseteq Session,
         NEW t \in Session, SessionStep(t)
  PROVE  told' \subseteq Session /\ finished' \subseteq Session
<1>1. told' \in {told, told \cup {t}} /\ finished' \in {finished, finished \cup {t}}
  BY DEF SessionStep, Connect, Send, HalfClose, Leave, Receive, ReceiveEnd, Refuse,
         Accept, Take, Feed, InboundEnds, ChildReads, ChildWrites, ChildEnds, Start,
         Pull, Push, OutboundEnds, Reap, Kill, Release, StartFails, ChildCrashes,
         history
<1> QED
  BY <1>1

(* The inductive invariant of the bridge: what its threads know of one     *)
(* another, and which sessions hold a slot.                                *)
THEOREM Inductive == Spec => []IInv
<1>1. IInv /\ [Next]_vars => IInv'
  <2> SUFFICES ASSUME IInv, [Next]_vars PROVE IInv'
    OBVIOUS
  <2>1. CASE UNCHANGED vars
    BY <2>1 DEF vars, request, answer, threads, history, IInv, TypeOK, SessionInv,
                InOrder, Phase, RequestsEnd, AnswersEnd, NoMoreRequests, Open,
                SlotsHeld, Holding
  <2>2. CASE Next
    <3>1. PICK t \in Session : SessionStep(t)
      BY <2>2 DEF Next, SessionStep, Listen, Serve, CopyIn, Respond, CopyOut
    <3>2. CountersOK /\ WordsOK /\ told \subseteq Session /\ finished \subseteq Session
      BY DEF IInv, TypeOK, CountersOK, WordsOK
    <3>3. CountersOK' /\ WordsOK'
      BY <3>1, <3>2, CountersStep, WordsStep
    <3>4. SlotsHeld' /\ slots' \in 0 .. MaxSessions /\ faults' \in 0 .. MaxFaults
      BY <3>1, SlotsStep
    <3>5. told' \subseteq Session /\ finished' \subseteq Session
      BY <3>1, <3>2, HistoryStep
    <3>6. TypeOK'
      BY <3>3, <3>4, <3>5 DEF TypeOK, CountersOK, WordsOK
    <3>7. ASSUME NEW s \in Session PROVE SessionInv(s)'
      BY <3>1, <3>2, SessionKept DEF IInv
    <3> QED
      BY <3>4, <3>6, <3>7 DEF IInv
  <2> QED
    BY <2>1, <2>2
<1> QED
  BY InitInv, <1>1, PTL DEF Spec

(* The state of serve and its sessions is well typed; in particular the    *)
(* semaphore is never given back more often than it was taken, which would *)
(* raise in BoundedSemaphore.release.                                      *)
THEOREM TypeCorrect == Spec => []TypeOK
<1>1. IInv => TypeOK
  BY DEF IInv
<1> QED
  BY <1>1, Inductive, PTL

(* MAX_SESSIONS bounds the children that run.                              *)
THEOREM ChildrenAreBounded == Spec => []ChildrenBounded
<1>1. IInv => ChildrenBounded
  <2> SUFFICES ASSUME IInv PROVE ChildrenBounded
    OBVIOUS
  <2> DEFINE Up == {s \in Session : child[s] = "up"}
  <2>1. Up \subseteq Holding
    BY DEF IInv, TypeOK, SessionInv, Phase, Holding
  <2>2. IsFiniteSet(Holding)
    BY McpBridgeAssumption, FS_Subset DEF Holding
  <2>3. IsFiniteSet(Up) /\ Cardinality(Up) <= Cardinality(Holding)
    BY <2>1, <2>2, FS_Subset
  <2>4. Cardinality(Up) \in Nat /\ Cardinality(Holding) \in Nat
    BY <2>2, <2>3, FS_CardinalityType
  <2>5. slots + Cardinality(Holding) = MaxSessions /\ slots \in Nat
    BY DEF IInv, SlotsHeld, TypeOK
  <2> QED
    BY <2>3, <2>4, <2>5, McpBridgeAssumption DEF ChildrenBounded
<1> QED
  BY <1>1, Inductive, PTL

(* A client that reads the end of the stream has read every answer.        *)
THEOREM AnswersAreWhole == Spec => []WholeAnswer
<1>1. IInv => WholeAnswer
  BY DEF IInv, TypeOK, SessionInv, AnswersEnd, WholeAnswer
<1> QED
  BY <1>1, Inductive, PTL

(* A child that reads the end of its stdin has read every request.         *)
THEOREM RequestsAreWhole == Spec => []WholeRequest
<1>1. IInv => WholeRequest
  BY DEF IInv, TypeOK, SessionInv, RequestsEnd, WholeRequest
<1> QED
  BY <1>1, Inductive, PTL

-----------------------------------------------------------------------------
(* Nobody waits for ever.  AnswersArrive and SlotComesBack rest on the     *)
(* fairness of the threads; what follows is the rest of their argument,    *)
(* for all values of the constants: some thread can always take a step     *)
(* while one should, and a session takes a bounded number of them.         *)

(* One of the threads under Fairness can take a step of session s.         *)
MayMove(s) ==
  \/ MayReceive(s) \/ MayReceiveEnd(s)
  \/ conn[s] \in {"foreign", "backlog"}
  \/ MayTake(s) \/ MayFeed(s) \/ MayEndInbound(s)
  \/ MayRead(s) \/ MayWrite(s) \/ MayEnd(s)
  \/ MayPull(s) \/ MayPush(s) \/ MayEndOutbound(s)
  \/ outbound[s] \in {"start", "release"}
  \/ outbound[s] = "wait" /\ child[s] \in {"up", "dead"}

(* Everything that the client sent is answered and it can send more.       *)
Quiet(s) ==
  /\ client[s] = "on" /\ conn[s] = "open"
  /\ inbound[s] = "on" /\ outbound[s] = "pump" /\ child[s] = "up"
  /\ got[s] = sent[s]

(* Everybody has gone: no thread, no process, no slot.                     *)
Over(s) ==
  /\ client[s] = "left" /\ conn[s] = "closed"
  /\ inbound[s] # "on" /\ outbound[s] \in {"none", "done"} /\ child[s] # "up"

(* The pumps, the child and the client never wait for one another in a     *)
(* circle, however small the buffers and whoever has gone.                 *)
NobodyStuck == \A s \in Session :
  client[s] # "away" => MayMove(s) \/ Quiet(s) \/ Over(s)

(* An open session whose client is still there.                            *)
LEMMA AttendedMoves ==
  ASSUME CountersOK, WordsOK, NEW s \in Session, SessionInv(s),
         outbound[s] = "pump", client[s] \in {"on", "half"}, ~MayMove(s)
  PROVE  Quiet(s)
<1> USE McpBridgeAssumption DEF CountersOK, Counter, WordsOK, SessionInv, InOrder
<1>1. conn[s] = "open" /\ inbound[s] \in {"on", "done"} /\ child[s] \in {"up", "dead"}
  BY DEF Phase
<1>2. got[s] = pushed[s]
  BY DEF MayMove, MayReceive, Here
<1>3. pushed[s] = pulled[s]
  BY <1>1, <1>2 DEF MayMove, MayPush, Here
<1>4. pulled[s] = wrote[s] /\ child[s] = "up"
  BY <1>1, <1>3 DEF MayMove, MayPull, MayEndOutbound
<1>5. wrote[s] = read[s] /\ read[s] = fed[s]
  BY <1>4 DEF MayMove, MayWrite, MayRead
<1>6. inbound[s] = "on"
  BY <1>1, <1>4, <1>5 DEF MayMove, MayEnd
<1>7. fed[s] = taken[s] /\ taken[s] = sent[s]
  BY <1>1, <1>4, <1>5, <1>6 DEF MayMove, MayFeed, MayTake
<1>8. client[s] = "on"
  BY <1>1, <1>6, <1>7 DEF MayMove, MayEndInbound, RecvEnds
<1> QED
  BY <1>1, <1>2, <1>3, <1>4, <1>5, <1>6, <1>7, <1>8 DEF Quiet

(* One whose client has left.                                              *)
LEMMA DesertedMoves ==
  ASSUME CountersOK, WordsOK, NEW s \in Session, SessionInv(s),
         outbound[s] = "pump", client[s] = "left"
  PROVE  MayMove(s)
<1> SUFFICES ASSUME ~MayMove(s) PROVE FALSE
  OBVIOUS
<1> USE McpBridgeAssumption DEF CountersOK, Counter, WordsOK, SessionInv, InOrder
<1>1. conn[s] = "open" /\ inbound[s] \in {"on", "done"} /\ child[s] \in {"up", "dead"}
  BY DEF Phase
<1>2. pushed[s] = pulled[s] /\ pulled[s] = wrote[s] /\ child[s] = "up"
  BY <1>1 DEF MayMove, MayPull, MayEndOutbound
<1>3. wrote[s] = read[s] /\ read[s] = fed[s]
  BY <1>2 DEF MayMove, MayWrite, MayRead
<1>4. inbound[s] = "on"
  BY <1>1, <1>2, <1>3 DEF MayMove, MayEnd
<1>5. fed[s] = taken[s] /\ taken[s] = sent[s]
  BY <1>1, <1>2, <1>3, <1>4 DEF MayMove, MayFeed, MayTake
<1> QED
  BY <1>4, <1>5 DEF MayMove, MayEndInbound, RecvEnds

(* One that is closed.                                                     *)
LEMMA ClosedMoves ==
  ASSUME CountersOK, WordsOK, NEW s \in Session, SessionInv(s),
         outbound[s] \in {"none", "done"}, client[s] # "away", ~MayMove(s)
  PROVE  Over(s)
<1> USE DEF CountersOK, Counter, WordsOK, SessionInv, InOrder
<1>1. conn[s] = "closed" /\ child[s] # "up"
  BY DEF Phase, MayMove
<1>2. client[s] = "left"
  BY <1>1 DEF MayMove, MayReceive, MayReceiveEnd, Here, Open
<1>3. inbound[s] # "on"
  BY <1>1 DEF Phase, MayMove, MayEndInbound, RecvEnds, WriteFails
<1> QED
  BY <1>1, <1>2, <1>3 DEF Over

(* Some thread of a session can always go on, until all have ended, except *)
(* while the client itself has nothing to wait for: neither full buffers   *)
(* in both directions nor the end of any one of them stops the others.     *)
THEOREM NoCircularWait == Spec => []NobodyStuck
<1>1. IInv => NobodyStuck
  <2> SUFFICES ASSUME IInv, NEW s \in Session, client[s] # "away", ~MayMove(s)
               PROVE  Quiet(s) \/ Over(s)
    BY DEF NobodyStuck
  <2>1. CountersOK /\ WordsOK /\ SessionInv(s)
    BY DEF IInv, TypeOK, CountersOK, WordsOK
  <2>2. outbound[s] \in {"pump", "none", "done"}
    BY <2>1 DEF WordsOK, SessionInv, Phase, MayMove
  <2>3. client[s] \in {"on", "half", "left"}
    BY <2>1 DEF WordsOK
  <2> QED
    BY <2>1, <2>2, <2>3, AttendedMoves, DesertedMoves, ClosedMoves
<1> QED
  BY <1>1, Inductive, PTL

-----------------------------------------------------------------------------
(* How far a session has come: the chunks that have passed its points, and *)
(* the changes of state that its client, socket, threads and child went    *)
(* through.                                                                *)
Chunks(s) == sent[s] + taken[s] + fed[s] + read[s]
               + wrote[s] + pulled[s] + pushed[s] + got[s]

ClientStage(c) == CASE c = "away" -> 0 [] c = "on" -> 1 [] c = "half" -> 2
                    [] OTHER -> 3
ConnStage(c) == CASE c = "none" -> 0 [] c \in {"foreign", "backlog"} -> 1
                  [] c = "open" -> 2 [] c = "shut" -> 3 [] OTHER -> 4
InboundStage(i) == CASE i = "none" -> 0 [] i = "on" -> 1 [] OTHER -> 2
OutboundStage(o) == CASE o = "none" -> 0 [] o = "start" -> 1 [] o = "pump" -> 2
                      [] o = "wait" -> 3 [] o = "release" -> 4 [] OTHER -> 5
ChildStage(c) == CASE c = "none" -> 0 [] c = "up" -> 1 [] OTHER -> 2

Stages(s) == ClientStage(client[s]) + ConnStage(conn[s]) + InboundStage(inbound[s])
               + OutboundStage(outbound[s]) + ChildStage(child[s])

Work(s) == Chunks(s) + Stages(s)

(* Every step is one session's, and takes that one further.                *)
OneGoesOn == \E t \in Session :
  /\ Work(t)' > Work(t)
  /\ \A s \in Session \ {t} : Work(s)' = Work(s)

WorkBounded == \A s \in Session : Work(s) \in 0 .. 8 * Requests[s] + 16

(* The steps that move a chunk past one of the points.                     *)
Copies(t) ==
  \/ Send(t) \/ Take(t) \/ Feed(t) \/ ChildReads(t)
  \/ ChildWrites(t) \/ Pull(t) \/ Push(t) \/ Receive(t)

(* One more chunk has passed one point, and nothing else has changed.      *)
LEMMA CopyCounts ==
  ASSUME CountersOK, NEW t \in Session, Copies(t)
  PROVE  /\ Chunks(t)' = Chunks(t) + 1
         /\ UNCHANGED <<client, conn, threads, child>>
<1> USE DEF CountersOK, Counter, Chunks, Count, request, answer, threads
<1>1. CASE Send(t)
  BY <1>1 DEF Send
<1>2. CASE Take(t)
  BY <1>2 DEF Take
<1>3. CASE Feed(t)
  BY <1>3 DEF Feed
<1>4. CASE ChildReads(t)
  BY <1>4 DEF ChildReads
<1>5. CASE ChildWrites(t)
  BY <1>5 DEF ChildWrites
<1>6. CASE Pull(t)
  BY <1>6 DEF Pull
<1>7. CASE Push(t)
  BY <1>7 DEF Push
<1>8. CASE Receive(t)
  BY <1>8 DEF Receive
<1> QED
  BY <1>1, <1>2, <1>3, <1>4, <1>5, <1>6, <1>7, <1>8 DEF Copies

(* Any other step changes the state of a thread, the client, the socket or *)
(* the child, and none of them ever goes back to an earlier one.           *)
LEMMA OtherStepStages ==
  ASSUME WordsOK, NEW t \in Session, Phase(t), SessionStep(t), ~Copies(t)
  PROVE  Stages(t)' > Stages(t) /\ UNCHANGED <<request, answer>>
<1> USE DEF WordsOK, Phase, Stages, ClientStage, ConnStage, InboundStage,
            OutboundStage, ChildStage, threads
<1>1. CASE Connect(t)
  BY <1>1 DEF Connect
<1>2. CASE HalfClose(t)
  BY <1>2 DEF HalfClose
<1>3. CASE Leave(t)
  BY <1>3 DEF Leave, Here
<1>4. CASE ReceiveEnd(t)
  BY <1>4 DEF ReceiveEnd, MayReceiveEnd, Here
<1>5. CASE Refuse(t)
  BY <1>5 DEF Refuse
<1>6. CASE Accept(t)
  BY <1>6 DEF Accept
<1>7. CASE InboundEnds(t)
  BY <1>7 DEF InboundEnds, MayEndInbound
<1>8. CASE ChildEnds(t)
  BY <1>8 DEF ChildEnds, MayEnd
<1>9. CASE Start(t)
  BY <1>9 DEF Start
<1>10. CASE OutboundEnds(t)
  BY <1>10 DEF OutboundEnds, MayEndOutbound
<1>11. CASE Reap(t)
  BY <1>11 DEF Reap
<1>12. CASE Kill(t)
  BY <1>12 DEF Kill
<1>13. CASE Release(t)
  BY <1>13 DEF Release
<1>14. CASE StartFails(t)
  BY <1>14 DEF StartFails
<1>15. CASE ChildCrashes(t)
  BY <1>15 DEF ChildCrashes
<1> QED
  BY <1>1, <1>2, <1>3, <1>4, <1>5, <1>6, <1>7, <1>8, <1>9, <1>10, <1>11,
     <1>12, <1>13, <1>14, <1>15
  DEF SessionStep, Copies

(* What belongs to the other sessions stays as it is.                      *)
LEMMA OthersStay ==
  ASSUME CountersOK, WordsOK, NEW t \in Session, SessionStep(t),
         NEW s \in Session, s # t
  PROVE  Work(s)' = Work(s)
<1>1. /\ sent'[s] = sent[s] /\ taken'[s] = taken[s] /\ fed'[s] = fed[s]
      /\ read'[s] = read[s] /\ wrote'[s] = wrote[s] /\ pulled'[s] = pulled[s]
      /\ pushed'[s] = pushed[s] /\ got'[s] = got[s]
  <2>1. CASE Copies(t)
    BY <2>1 DEF Copies, Send, Take, Feed, ChildReads, ChildWrites, Pull, Push,
                Receive, Count, request, answer, CountersOK, Counter
  <2>2. CASE ~Copies(t)
    BY <2>2 DEF SessionStep, Copies, Connect, HalfClose, Leave, ReceiveEnd, Refuse,
                Accept, InboundEnds, ChildEnds, Start, OutboundEnds, Reap, Kill,
                Release, StartFails, ChildCrashes, request, answer
  <2> QED
    BY <2>1, <2>2
<1>2. /\ client'[s] = client[s] /\ conn'[s] = conn[s] /\ child'[s] = child[s]
      /\ inbound'[s] = inbound[s] /\ outbound'[s] = outbound[s]
  <2>1. CASE Copies(t)
    BY <2>1, CopyCounts DEF threads
  <2>2. CASE ~Copies(t)
    BY <2>2 DEF SessionStep, Copies, Connect, HalfClose, Leave, ReceiveEnd, Refuse,
                Accept, InboundEnds, ChildEnds, Start, OutboundEnds, Reap, Kill,
                Release, StartFails, ChildCrashes, threads, WordsOK
  <2> QED
    BY <2>1, <2>2
<1> QED
  BY <1>1, <1>2 DEF Work, Chunks, Stages

(* The two sums are numbers, bounded by what the client has to send.       *)
LEMMA WorkIsBounded == IInv => WorkBounded
<1> SUFFICES ASSUME IInv, NEW s \in Session PROVE Work(s) \in 0 .. 8 * Requests[s] + 16
  BY DEF WorkBounded
<1>1. Requests[s] \in Nat /\ CountersOK /\ WordsOK /\ InOrder(s)
  BY McpBridgeAssumption DEF IInv, TypeOK, CountersOK, WordsOK, SessionInv
<1>2. Chunks(s) \in 0 .. 8 * Requests[s]
  BY <1>1 DEF CountersOK, Counter, InOrder, Chunks
<1>3. Stages(s) \in 0 .. 16
  BY <1>1 DEF WordsOK, Stages, ClientStage, ConnStage, InboundStage, OutboundStage,
              ChildStage
<1> QED
  BY <1>1, <1>2, <1>3 DEF Work

(* A session takes at most eight steps for each chunk of its client and    *)
(* sixteen more, whatever the others do and whichever children fail: every *)
(* step of the bridge takes one session further, none takes one back, and  *)
(* the sum is bounded.                                                     *)
THEOREM StepsAreBounded == Spec => [][OneGoesOn]_vars /\ []WorkBounded
<1>1. ASSUME IInv, IInv', [Next]_vars PROVE [OneGoesOn]_vars
  <2> SUFFICES ASSUME Next PROVE OneGoesOn
    BY <1>1
  <2>1. PICK t \in Session : SessionStep(t)
    BY DEF Next, SessionStep, Listen, Serve, CopyIn, Respond, CopyOut
  <2>2. CountersOK /\ WordsOK /\ Phase(t) /\ CountersOK' /\ WordsOK'
    BY <1>1 DEF IInv, TypeOK, CountersOK, WordsOK, SessionInv
  <2>3. Chunks(t) \in Nat /\ Stages(t) \in Nat /\ Chunks(t)' \in Nat /\ Stages(t)' \in Nat
    BY <2>2 DEF CountersOK, Counter, WordsOK, Chunks, Stages, ClientStage, ConnStage,
                InboundStage, OutboundStage, ChildStage
  <2>4. Work(t)' > Work(t)
    <3>1. CASE Copies(t)
      <4>1. Chunks(t)' = Chunks(t) + 1 /\ Stages(t)' = Stages(t)
        BY <2>2, <3>1, CopyCounts DEF Stages, threads
      <4> QED
        BY <2>3, <4>1 DEF Work
    <3>2. CASE ~Copies(t)
      <4>1. Stages(t)' > Stages(t) /\ Chunks(t)' = Chunks(t)
        BY <2>1, <2>2, <3>2, OtherStepStages DEF Chunks, request, answer
      <4> QED
        BY <2>3, <4>1 DEF Work
    <3> QED
      BY <3>1, <3>2
  <2>5. ASSUME NEW s \in Session \ {t} PROVE Work(s)' = Work(s)
    BY <2>1, <2>2, OthersStay
  <2> QED
    BY <2>4, <2>5 DEF OneGoesOn
<1> QED
  BY <1>1, WorkIsBounded, Inductive, PTL DEF Spec
=============================================================================
