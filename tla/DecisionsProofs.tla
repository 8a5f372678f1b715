-------------------------- MODULE DecisionsProofs --------------------------
(***************************************************************************)
(* Theorems about Decisions, for every set of commands and holds and every *)
(* bound.                                                                  *)
(***************************************************************************)
EXTENDS Decisions, FiniteSetTheorems, SequenceTheorems, TLAPS

(* While a command is being executed it is the head of the batch, and once *)
(* its call is over the result is one a call can have.                     *)
CurrentOK ==
  /\ pc \in {"lookup", "intent", "send", "outcome"} => batch # <<>>
  /\ pc = "outcome" => res \in Replies

Typed == TypeOK /\ CurrentOK

(* What Dash lists is a sequence of commands.                              *)
LEMMA ListingType ==
  ASSUME queue \subseteq Cmd, NEW n \in Nat, NEW s \in Listing(n)
  PROVE  s \in Seq(Cmd)
<1> DEFINE k == IF Cardinality(queue) < n THEN Cardinality(queue) ELSE n
<1>1. Cardinality(queue) \in Nat
  BY FS_Subset, FS_CardinalityType, DecisionsAssumption
<1>2. k \in Nat
  BY <1>1
<1>3. s \in [1..k -> queue]
  BY DEF Listing
<1> QED BY <1>2, <1>3

(* Forgetting the oldest results leaves a sequence of commands.            *)
LEMMA OrderType ==
  ASSUME order \in Seq(Cmd)
  PROVE  /\ SubSeq(order, Surplus + 1, Len(order)) \in Seq(Cmd)
         /\ {order[i] : i \in 1..Surplus} \subseteq Cmd
<1>1. Surplus \in Nat /\ Surplus <= Len(order)
  BY DecisionsAssumption DEF Surplus
<1>2. \A i \in Surplus + 1 .. Len(order) : order[i] \in Cmd
  BY <1>1
<1>3. \A i \in 1 .. Surplus : order[i] \in Cmd
  BY <1>1
<1> QED BY <1>1, <1>2, <1>3, SubSeqProperties

(* The current command, and what Finish leaves behind.                     *)
LEMMA CurrentType ==
  ASSUME Typed, batch # <<>>
  PROVE  cur \in Cmd /\ Tail(batch) \in Seq(Cmd)
BY HeadTailProperties DEF Typed, TypeOK, LocalTypeOK, cur

FinishTyped ==
  /\ MemoryTypeOK
  /\ batch \in Seq(Cmd)
  /\ pc = "take" /\ startMs = 0 /\ res = None

(* Every reply leaves its command remembered and unreported, well typed.   *)
LEMMA FinishType ==
  ASSUME Typed, batch # <<>>, NEW r \in Results, Finish(r)
  PROVE  FinishTyped'
<1>1. cur \in Cmd /\ Tail(batch) \in Seq(Cmd)
  BY CurrentType
<1>2. MemoryTypeOK
  BY DEF Typed, TypeOK
<1> QED BY <1>1, <1>2 DEF Finish, FinishTyped, MemoryTypeOK

(* Perform keeps the types of what it may change.                          *)
LEMMA PerformType ==
  ASSUME Typed, NEW c \in Cmd, Perform(c), orphans' \in [Cmd -> Nat]
  PROVE  SurfaceTypeOK' /\ raced' \subseteq Hold
<1>1. Target[c] \in Hold /\ DeferBy \in Nat
  BY DecisionsAssumption
<1>2. SurfaceTypeOK /\ raced \subseteq Hold
  BY DEF Typed, TypeOK, HistoryTypeOK
<1>7. raced' \subseteq Hold
  BY <1>1, <1>2 DEF Perform
<1>3. effects' \in [Cmd -> Nat]
  BY <1>2 DEF Perform, SurfaceTypeOK
<1>4. status' \in [Hold -> {"pending", "approved", "denied"}]
  BY <1>1, <1>2 DEF Perform, Verdict, SurfaceTypeOK
<1>5. decider' \in [Hold -> Cmd \cup {"nobody", "ephor"}]
  BY <1>1, <1>2 DEF Perform, SurfaceTypeOK
<1>6. deadline' \in [Hold -> Nat]
  <2>1. /\ deadline \in [Hold -> Nat]
        /\ \/ deadline' = deadline
           \/ deadline' = [deadline EXCEPT ![Target[c]] = @ + DeferBy]
    BY <1>2 DEF Perform, SurfaceTypeOK
  <2> QED BY <1>1, <2>1
<1> QED BY <1>3, <1>4, <1>5, <1>6, <1>7 DEF SurfaceTypeOK

(* The type of every variable, an invariant of the gateway's rounds under  *)
(* any failures (take_commands, apply_command, report).                    *)
LEMMA TypedStep == Typed /\ [Next]_vars => Typed'
<1> SUFFICES ASSUME Typed, [Next]_vars PROVE Typed'
  OBVIOUS
<1>t. /\ DashTypeOK /\ LocalTypeOK /\ MemoryTypeOK
      /\ LedgerTypeOK /\ SurfaceTypeOK /\ HistoryTypeOK
  BY DEF Typed, TypeOK
<1>c. CurrentOK
  BY DEF Typed
<1>d. UNCHANGED dash => DashTypeOK'
  BY <1>t DEF dash, DashTypeOK
<1>m. UNCHANGED memory => MemoryTypeOK'
  BY <1>t DEF memory, MemoryTypeOK
<1>l. UNCHANGED ledger => LedgerTypeOK'
  BY <1>t DEF ledger, LedgerTypeOK
<1>s. UNCHANGED surface => SurfaceTypeOK'
  BY <1>t DEF surface, SurfaceTypeOK
<1>h. UNCHANGED history => HistoryTypeOK'
  BY <1>t DEF history, HistoryTypeOK
<1>p. UNCHANGED <<pc, local>> => CurrentOK'
  BY <1>c DEF local, CurrentOK
<1>b. batch # <<>> => cur \in Cmd /\ Tail(batch) \in Seq(Cmd)
  BY CurrentType
<1>f. \A r \in Results : batch # <<>> /\ Finish(r) => FinishTyped'
  BY FinishType
<1>q. \A c \in Cmd : Perform(c) /\ orphans' \in [Cmd -> Nat] =>
          SurfaceTypeOK' /\ raced' \subseteq Hold
  BY PerformType
(* A call ended with Finish: the clock and the failure count are left.     *)
<1>g. ASSUME NEW r \in Results, batch # <<>>, Finish(r), now' = now, faults' \in Nat
      PROVE  LocalTypeOK' /\ MemoryTypeOK' /\ CurrentOK'
  <2>1. FinishTyped'
    BY <1>f, <1>g
  <2> QED BY <1>t, <1>g, <2>1 DEF FinishTyped, LocalTypeOK, CurrentOK
<1>j. Fault => faults' \in Nat
  BY <1>t DEF Fault, LocalTypeOK
<1>n. faults \in Nat /\ now \in Nat
  BY <1>t DEF LocalTypeOK
<1> USE DEF Typed, TypeOK
<1>1. CASE Tick
  BY <1>1, <1>t, <1>d, <1>m, <1>l, <1>s, <1>h, <1>p DEF Tick, LocalTypeOK, local
<1>2. ASSUME NEW c \in Cmd, Submit(c) PROVE Typed'
  <2>1. DashTypeOK'
    BY <1>2, <1>t DEF Submit, DashTypeOK
  <2>2. LocalTypeOK'
    BY <1>2, <1>t DEF Submit, LocalTypeOK, local
  <2> QED BY <1>2, <2>1, <2>2, <1>m, <1>l, <1>s, <1>h, <1>p DEF Submit
<1>3. ASSUME NEW c \in Cmd, OrphanPerformed(c) PROVE Typed'
  <2>1. orphans' \in [Cmd -> Nat]
    BY <1>3, <1>t DEF OrphanPerformed, SurfaceTypeOK
  <2>2. SurfaceTypeOK' /\ HistoryTypeOK'
    BY <1>3, <2>1, <1>q, <1>t DEF OrphanPerformed, HistoryTypeOK
  <2>3. LocalTypeOK'
    BY <1>3, <1>t DEF OrphanPerformed, LocalTypeOK, local
  <2> QED BY <1>3, <2>2, <2>3, <1>d, <1>m, <1>l, <1>p DEF OrphanPerformed
<1>4. ASSUME NEW h \in Hold, EphorDecides(h) PROVE Typed'
  <2>1. SurfaceTypeOK' /\ HistoryTypeOK'
    BY <1>4, <1>t DEF EphorDecides, SurfaceTypeOK, HistoryTypeOK
  <2>2. LocalTypeOK'
    BY <1>4, <1>t DEF EphorDecides, LocalTypeOK, local
  <2> QED BY <1>4, <2>1, <2>2, <1>d, <1>m, <1>l, <1>p DEF EphorDecides
<1>5. CASE Poll
  <2>1. batch' \in Seq(Cmd)
    BY <1>5, <1>t, ListingType, DecisionsAssumption DEF Poll, DashTypeOK
  <2>2. LocalTypeOK' /\ CurrentOK'
    BY <1>5, <1>t, <2>1 DEF Poll, LocalTypeOK, CurrentOK
  <2> QED BY <1>5, <2>2, <1>d, <1>m, <1>l, <1>s, <1>h DEF Poll
<1>6. CASE PollRepeats
  <2>1. PICK c \in Seen \ queue, s \in Listing(MaxCommands - 1) : batch' = <<c>> \o s
    BY <1>6 DEF PollRepeats
  <2>2. c \in Cmd
    BY <1>t DEF Seen, DashTypeOK
  <2>3. s \in Seq(Cmd)
    BY <1>t, ListingType, DecisionsAssumption DEF DashTypeOK
  <2>4. batch' \in Seq(Cmd)
    BY <2>1, <2>2, <2>3
  <2>5. LocalTypeOK' /\ CurrentOK'
    BY <1>6, <1>t, <2>4, <1>j DEF PollRepeats, LocalTypeOK, CurrentOK
  <2> QED BY <1>6, <2>5, <1>d, <1>m, <1>l, <1>s, <1>h DEF PollRepeats
<1>7. CASE TakeKnown
  <2>1. MemoryTypeOK'
    BY <1>7, <1>b, <1>t DEF TakeKnown, MemoryTypeOK
  <2>2. LocalTypeOK' /\ CurrentOK'
    BY <1>7, <1>b, <1>t DEF TakeKnown, LocalTypeOK, CurrentOK
  <2> QED BY <1>7, <2>1, <2>2, <1>d, <1>l, <1>s, <1>h DEF TakeKnown
<1>8. CASE TakeUnaddressable
  <2>1. LocalTypeOK' /\ CurrentOK'
    BY <1>8, <1>b, <1>t DEF TakeUnaddressable, LocalTypeOK, CurrentOK
  <2> QED BY <1>8, <2>1, <1>d, <1>m, <1>l, <1>s, <1>h DEF TakeUnaddressable
<1>27. CASE TakeUnhashable
  <2>1. LocalTypeOK' /\ CurrentOK'
    BY <1>27, <1>t DEF TakeUnhashable, LocalTypeOK, CurrentOK
  <2> QED BY <1>27, <2>1, <1>d, <1>m, <1>l, <1>s, <1>h DEF TakeUnhashable
<1>9. CASE TakeMalformed
  <2>1. "bad" \in Results /\ batch # <<>> /\ Finish("bad") /\ now' = now /\ faults' = faults
    BY <1>9 DEF TakeMalformed, Results
  <2>2. LocalTypeOK' /\ MemoryTypeOK' /\ CurrentOK'
    BY <2>1, <1>g, <1>n
  <2> QED BY <1>9, <2>2, <1>d, <1>l, <1>s, <1>h DEF TakeMalformed
<1>10. CASE TakeNew
  <2>1. LocalTypeOK' /\ CurrentOK'
    BY <1>10, <1>t DEF TakeNew, LocalTypeOK, CurrentOK
  <2> QED BY <1>10, <2>1, <1>d, <1>m, <1>l, <1>s, <1>h DEF TakeNew
<1>11. CASE LookupAgrees
  <2>1. LocalTypeOK' /\ CurrentOK'
    BY <1>11, <1>t, <1>c DEF LookupAgrees, LocalTypeOK, CurrentOK, local
  <2>2. HistoryTypeOK'
    BY <1>11, <1>t DEF LookupAgrees, HistoryTypeOK
  <2> QED BY <1>11, <2>1, <2>2, <1>d, <1>m, <1>l, <1>s DEF LookupAgrees
<1>12. CASE LookupObjects
  <2>1. Objection(cur) \in Results
    BY <1>12 DEF LookupObjects, Objection, Results, None
  <2>2. LocalTypeOK' /\ MemoryTypeOK' /\ CurrentOK'
    BY <1>12, <2>1, <1>c, <1>g, <1>n DEF LookupObjects, CurrentOK
  <2> QED BY <1>12, <2>2, <1>d, <1>l, <1>s, <1>h DEF LookupObjects
<1>13. CASE LookupFails
  <2>1. "unreachable" \in Results
    BY DEF Results
  <2>2. LocalTypeOK' /\ MemoryTypeOK' /\ CurrentOK'
    BY <1>13, <2>1, <1>c, <1>g, <1>j DEF LookupFails, CurrentOK
  <2> QED BY <1>13, <2>2, <1>d, <1>l, <1>s, <1>h DEF LookupFails
<1>14. CASE IntentAppended
  <2>1. cur \in Cmd
    BY <1>14, <1>b, <1>c DEF IntentAppended, CurrentOK
  <2>2. LedgerTypeOK'
    BY <1>14, <2>1, <1>t DEF IntentAppended, LedgerTypeOK
  <2>3. LocalTypeOK' /\ CurrentOK'
    BY <1>14, <1>t, <1>c DEF IntentAppended, LocalTypeOK, CurrentOK, local
  <2> QED BY <1>14, <2>2, <2>3, <1>d, <1>m, <1>s, <1>h DEF IntentAppended
<1>15. CASE IntentFails
  <2>1. cur \in Cmd /\ batch # <<>> /\ "audit_unavailable" \in Results
    BY <1>15, <1>b, <1>c DEF IntentFails, CurrentOK, Results
  <2>2. LedgerTypeOK'
    BY <1>15, <2>1, <1>t DEF IntentFails, LedgerTypeOK
  <2>3. LocalTypeOK' /\ MemoryTypeOK' /\ CurrentOK'
    BY <1>15, <2>1, <1>g, <1>j DEF IntentFails
  <2> QED BY <1>15, <2>2, <2>3, <1>d, <1>s, <1>h DEF IntentFails
<1>16. CASE SendPerformed
  <2>1. cur \in Cmd
    BY <1>16, <1>b, <1>c DEF SendPerformed, CurrentOK
  <2>2. SurfaceTypeOK' /\ HistoryTypeOK'
    BY <1>16, <2>1, <1>q, <1>t DEF SendPerformed, SurfaceTypeOK, HistoryTypeOK
  <2>3. LocalTypeOK' /\ CurrentOK'
    BY <1>16, <1>t, <1>c DEF SendPerformed, LocalTypeOK, CurrentOK, Replies
  <2> QED BY <1>16, <2>2, <2>3, <1>d, <1>m, <1>l DEF SendPerformed
<1>17. CASE SendRefused
  <2>1. faults' \in Nat
    BY <1>17, <1>j, <1>n DEF SendRefused
  <2>2. LocalTypeOK' /\ CurrentOK'
    BY <1>17, <2>1, <1>t, <1>c DEF SendRefused, LocalTypeOK, CurrentOK, Replies
  <2> QED BY <1>17, <2>2, <1>d, <1>m, <1>l, <1>s, <1>h DEF SendRefused
<1>18. CASE SendUnanswered
  <2>1. cur \in Cmd
    BY <1>18, <1>b, <1>c DEF SendUnanswered, CurrentOK
  <2>2. SurfaceTypeOK'
    BY <1>18, <2>1, <1>t DEF SendUnanswered, Orphan, SurfaceTypeOK
  <2>3. LocalTypeOK' /\ CurrentOK'
    BY <1>18, <1>j, <1>t, <1>c DEF SendUnanswered, LocalTypeOK, CurrentOK, Replies
  <2> QED BY <1>18, <2>2, <2>3, <1>d, <1>m, <1>l, <1>h DEF SendUnanswered
<1>19. CASE OutcomeAppended
  <2>1. cur \in Cmd /\ batch # <<>> /\ res \in Replies /\ res \in Results
    BY <1>19, <1>b, <1>c DEF OutcomeAppended, CurrentOK, Replies, Results
  <2>2. LedgerTypeOK'
    BY <1>19, <2>1, <1>t DEF OutcomeAppended, LedgerTypeOK
  <2>3. LocalTypeOK' /\ MemoryTypeOK' /\ CurrentOK'
    BY <1>19, <2>1, <1>g, <1>n DEF OutcomeAppended
  <2> QED BY <1>19, <2>2, <2>3, <1>d, <1>s, <1>h DEF OutcomeAppended
<1>20. CASE OutcomeFails
  <2>1. cur \in Cmd /\ batch # <<>> /\ res \in Replies /\ "unknown" \in Results
    BY <1>20, <1>b, <1>c DEF OutcomeFails, CurrentOK, Results
  <2>2. LedgerTypeOK'
    <3>1. \/ UNCHANGED outcomes
          \/ outcomes' = [outcomes EXCEPT ![cur][res] = @ + 1]
      BY <1>20 DEF OutcomeFails
    <3>2. outcomes \in [Cmd -> [Replies -> Nat]]
      BY <1>t DEF LedgerTypeOK
    <3>3. CASE outcomes' = [outcomes EXCEPT ![cur][res] = @ + 1]
      BY <3>2, <3>3, <2>1, <1>20, <1>t DEF OutcomeFails, LedgerTypeOK
    <3>4. CASE UNCHANGED outcomes
      BY <3>4, <1>20, <1>t DEF OutcomeFails, LedgerTypeOK
    <3> QED BY <3>1, <3>3, <3>4
  <2>3. LocalTypeOK' /\ MemoryTypeOK' /\ CurrentOK'
    BY <1>20, <2>1, <1>g, <1>j DEF OutcomeFails
  <2> QED BY <1>20, <2>2, <2>3, <1>d, <1>s, <1>h DEF OutcomeFails
<1>21. CASE EndBatch
  <2>1. order' \in Seq(Cmd) /\ {order[i] : i \in 1..Surplus} \subseteq Cmd
    BY <1>21, <1>t, OrderType DEF EndBatch, MemoryTypeOK
  <2>2. MemoryTypeOK'
    BY <1>21, <2>1, <1>t DEF EndBatch, MemoryTypeOK
  <2>3. HistoryTypeOK'
    BY <1>21, <2>1, <1>t DEF EndBatch, HistoryTypeOK
  <2>4. LocalTypeOK' /\ CurrentOK'
    BY <1>21, <1>t DEF EndBatch, LocalTypeOK, CurrentOK, local
  <2> QED BY <1>21, <2>2, <2>3, <2>4, <1>d, <1>l, <1>s DEF EndBatch
<1>22. CASE Report
  <2>1. DashTypeOK'
    BY <1>22, <1>t DEF Report, DashRecords, Unreported, DashTypeOK, MemoryTypeOK
  <2>2. MemoryTypeOK'
    BY <1>22, <1>t DEF Report, Acknowledge, MemoryTypeOK
  <2>3. LocalTypeOK' /\ CurrentOK'
    BY <1>22, <1>t DEF Report, LocalTypeOK, CurrentOK, local
  <2> QED BY <1>22, <2>1, <2>2, <2>3, <1>l, <1>s, <1>h DEF Report
<1>23. CASE ReportFails
  <2>1. PICK S \in SUBSET Unreported, T \in SUBSET Unreported :
          DashRecords(S) /\ Acknowledge(T)
    BY <1>23 DEF ReportFails
  <2>2. DashTypeOK'
    BY <2>1, <1>t DEF DashRecords, Unreported, DashTypeOK, MemoryTypeOK
  <2>3. MemoryTypeOK'
    BY <1>23, <2>1, <1>t DEF ReportFails, Acknowledge, MemoryTypeOK
  <2>4. LocalTypeOK' /\ CurrentOK'
    BY <1>23, <1>j, <1>t DEF ReportFails, LocalTypeOK, CurrentOK, local
  <2> QED BY <1>23, <2>2, <2>3, <2>4, <1>l, <1>s, <1>h DEF ReportFails
<1>24. CASE RoundAborted
  <2>1. cur \in Cmd
    BY <1>24, <1>b, <1>c DEF RoundAborted, CurrentOK
  <2>2. SurfaceTypeOK' /\ HistoryTypeOK'
    <3>1. orphans' \in [Cmd -> Nat]
      <4>1. /\ orphans \in [Cmd -> Nat]
            /\ \/ UNCHANGED orphans
               \/ orphans' = [orphans EXCEPT ![cur] = @ + 1]
        BY <1>24, <1>t DEF RoundAborted, Orphan, SurfaceTypeOK
      <4> QED BY <2>1, <4>1
    <3>2. forgotten' \subseteq Cmd
      BY <1>24, <2>1, <1>t DEF RoundAborted, InFlight, HistoryTypeOK
    <3> QED BY <1>24, <3>1, <3>2, <1>t DEF RoundAborted, SurfaceTypeOK, HistoryTypeOK
  <2>3. LocalTypeOK' /\ CurrentOK'
    BY <1>24, <1>j, <1>t DEF RoundAborted, LocalTypeOK, CurrentOK
  <2> QED BY <1>24, <2>2, <2>3, <1>d, <1>m, <1>l DEF RoundAborted
<1>25. CASE Crash
  <2>1. pc \in {"send", "outcome"} => cur \in Cmd
    BY <1>b, <1>c DEF CurrentOK
  <2>2. SurfaceTypeOK' /\ HistoryTypeOK'
    <3>1. orphans' \in [Cmd -> Nat]
      BY <1>25, <2>1, <1>t DEF Crash, Orphan, SurfaceTypeOK
    <3>2. forgotten' \subseteq Cmd
      BY <1>25, <2>1, <1>t DEF Crash, InFlight, HistoryTypeOK
    <3> QED BY <1>25, <3>1, <3>2, <1>t DEF Crash, SurfaceTypeOK, HistoryTypeOK
  <2>3. LocalTypeOK' /\ CurrentOK'
    BY <1>25, <1>j, <1>t DEF Crash, LocalTypeOK, CurrentOK
  <2>4. MemoryTypeOK'
    BY <1>25 DEF Crash, MemoryTypeOK
  <2> QED BY <1>25, <2>2, <2>3, <2>4, <1>d, <1>l DEF Crash
<1>26. CASE UNCHANGED vars
  <2>1. LocalTypeOK'
    BY <1>26, <1>t DEF vars, LocalTypeOK, local
  <2> QED BY <1>26, <2>1, <1>d, <1>m, <1>l, <1>s, <1>h, <1>p DEF vars
<1> QED
  BY <1>1, <1>2, <1>3, <1>4, <1>5, <1>6, <1>7, <1>8, <1>9, <1>10, <1>11,
     <1>12, <1>13, <1>14, <1>15, <1>16, <1>17, <1>18, <1>19, <1>20, <1>21,
     <1>22, <1>23, <1>24, <1>25, <1>26, <1>27
  DEF Next, Round, Execute, Failure, World

(* The connector starts with nothing taken, remembered or written.         *)
LEMMA TypedInit == Init => Typed
BY DecisionsAssumption
DEF Init, Typed, TypeOK, CurrentOK, DashTypeOK, LocalTypeOK, MemoryTypeOK,
    LedgerTypeOK, SurfaceTypeOK, HistoryTypeOK, Replies, None

(* Whatever Dash, the ledger and Ephor answer, and whenever a round stops, *)
(* the state of take_commands and of the journals stays well typed.        *)
THEOREM TypeCorrect == Spec => []TypeOK
<1>1. Typed => TypeOK
  BY DEF Typed
<1> QED BY TypedInit, TypedStep, <1>1, PTL DEF Spec

-----------------------------------------------------------------------------
(* An intent just appended is claimed by the call about to be made, and    *)
(* one whose call was refused by the record about to say so: nothing else  *)
(* may use them up.  EffectsAccounted alone is not inductive, because in   *)
(* "send" it does not say that an unused intent is there.                  *)
Claim(c) ==
  IF pc \in {"send", "outcome"} /\ c = cur /\ (pc = "outcome" => res = "refused")
    THEN 1 ELSE 0

AuditInv == \A c \in Cmd : Possible(c) + Refused(c) + Claim(c) <= intents[c]

(* No step performs, refuses or claims a decision without an entry for it. *)
LEMMA AuditStep == Typed /\ AuditInv /\ [Next]_vars => AuditInv'
<1> SUFFICES ASSUME Typed, AuditInv, [Next]_vars PROVE AuditInv'
  OBVIOUS
<1>t. /\ intents \in [Cmd -> Nat] /\ outcomes \in [Cmd -> [Replies -> Nat]]
      /\ effects \in [Cmd -> Nat] /\ orphans \in [Cmd -> Nat]
  BY DEF Typed, TypeOK, LedgerTypeOK, SurfaceTypeOK
<1>b. pc \in {"lookup", "intent", "send", "outcome"} => cur \in Cmd
  BY CurrentType DEF Typed, CurrentOK
<1>r. "refused" \in Replies /\ "ok" # "refused" /\ "unreachable" # "refused"
  BY DEF Replies
<1>c. \A c \in Cmd : Claim(c) \in {0, 1}
  BY DEF Claim
<1>i. \A c \in Cmd : effects[c] + orphans[c] + outcomes[c]["refused"] + Claim(c) <= intents[c]
  BY DEF AuditInv, Possible, Refused
(* What is neither the ledger nor the surface matters only through Claim.  *)
<1>u. ASSUME UNCHANGED <<intents, outcomes, effects, orphans>>,
             \A c \in Cmd : Claim(c)' <= Claim(c) /\ Claim(c)' \in {0, 1}
      PROVE AuditInv'
  BY <1>i, <1>t, <1>c, <1>r, <1>u DEF AuditInv, Possible, Refused
<1>z. pc' \notin {"send", "outcome"} => \A c \in Cmd : Claim(c)' <= Claim(c) /\ Claim(c)' \in {0, 1}
  BY DEF Claim
<1>s. UNCHANGED <<pc, local>> => \A c \in Cmd : Claim(c)' <= Claim(c) /\ Claim(c)' \in {0, 1}
  BY DEF Claim, cur, local
<1>1. ASSUME NEW d \in Cmd, OrphanPerformed(d) PROVE AuditInv'
  <2>1. /\ orphans[d] > 0 /\ orphans' = [orphans EXCEPT ![d] = @ - 1]
        /\ \/ effects' = effects
           \/ effects' = [effects EXCEPT ![d] = @ + 1]
        /\ UNCHANGED <<intents, outcomes, pc, local>>
    BY <1>1 DEF OrphanPerformed, Perform, ledger
  <2>2. \A c \in Cmd : Claim(c)' = Claim(c)
    BY <2>1 DEF Claim, cur, local
  <2>3. \A c \in Cmd : effects'[c] + orphans'[c] <= effects[c] + orphans[c]
    BY <2>1, <1>t
  <2>4. effects' \in [Cmd -> Nat] /\ orphans' \in [Cmd -> Nat]
    BY <2>1, <1>t
  <2> QED BY <1>i, <1>t, <1>c, <1>r, <2>1, <2>2, <2>3, <2>4 DEF AuditInv, Possible, Refused
<1>2. CASE IntentAppended
  <2>1. /\ cur \in Cmd /\ cur' = cur /\ pc' = "send" /\ pc = "intent"
        /\ intents' = [intents EXCEPT ![cur] = @ + 1]
        /\ UNCHANGED <<outcomes, effects, orphans>>
    BY <1>2, <1>b DEF IntentAppended, surface, local, cur
  <2>2. \A c \in Cmd : Claim(c) = 0 /\ Claim(c)' = IF c = cur THEN 1 ELSE 0
    BY <2>1 DEF Claim
  <2> QED BY <1>i, <1>t, <1>r, <2>1, <2>2 DEF AuditInv, Possible, Refused
<1>3. CASE IntentFails
  <2>1. /\ cur \in Cmd /\ pc' = "take" /\ pc = "intent"
        /\ UNCHANGED <<outcomes, effects, orphans>>
        /\ \E n \in {0, 1} : intents' = [intents EXCEPT ![cur] = @ + n]
    BY <1>3, <1>b DEF IntentFails, Finish, surface
  <2>2. \A c \in Cmd : Claim(c) = 0 /\ Claim(c)' = 0
    BY <2>1 DEF Claim
  <2>3. \A c \in Cmd : intents'[c] >= intents[c] /\ intents'[c] \in Nat
    BY <2>1, <1>t
  <2> QED BY <1>i, <1>t, <1>r, <2>1, <2>2, <2>3 DEF AuditInv, Possible, Refused
<1>4. CASE SendPerformed
  <2>1. /\ cur \in Cmd /\ cur' = cur /\ pc = "send" /\ pc' = "outcome" /\ res' = "ok"
        /\ \/ effects' = effects
           \/ effects' = [effects EXCEPT ![cur] = @ + 1]
        /\ UNCHANGED <<intents, outcomes, orphans>>
    BY <1>4, <1>b DEF SendPerformed, Perform, ledger, cur
  <2>2. \A c \in Cmd : Claim(c) = (IF c = cur THEN 1 ELSE 0) /\ Claim(c)' = 0
    BY <2>1 DEF Claim
  <2> QED BY <1>i, <1>t, <1>r, <2>1, <2>2 DEF AuditInv, Possible, Refused
<1>5. CASE SendRefused
  <2>1. /\ pc = "send" /\ pc' = "outcome" /\ cur' = cur
        /\ UNCHANGED <<intents, outcomes, effects, orphans>>
    BY <1>5 DEF SendRefused, ledger, surface, cur
  <2>2. \A c \in Cmd : Claim(c)' <= Claim(c) /\ Claim(c)' \in {0, 1}
    BY <2>1 DEF Claim
  <2> QED BY <2>1, <2>2, <1>u
<1>6. CASE SendUnanswered
  <2>1. /\ cur \in Cmd /\ cur' = cur /\ pc = "send" /\ pc' = "outcome" /\ res' = "unreachable"
        /\ orphans' = [orphans EXCEPT ![cur] = @ + 1]
        /\ UNCHANGED <<intents, outcomes, effects>>
    BY <1>6, <1>b DEF SendUnanswered, Orphan, ledger, cur
  <2>2. \A c \in Cmd : Claim(c) = (IF c = cur THEN 1 ELSE 0) /\ Claim(c)' = 0
    BY <2>1 DEF Claim
  <2> QED BY <1>i, <1>t, <1>r, <2>1, <2>2 DEF AuditInv, Possible, Refused
<1>7. ASSUME cur \in Cmd, pc = "outcome", res \in Replies, pc' = "take",
             UNCHANGED <<intents, effects, orphans>>,
             \/ UNCHANGED outcomes
             \/ outcomes' = [outcomes EXCEPT ![cur][res] = @ + 1]
      PROVE AuditInv'
  <2>1. \A c \in Cmd : /\ Claim(c) = (IF c = cur /\ res = "refused" THEN 1 ELSE 0)
                       /\ Claim(c)' = 0
    BY <1>7 DEF Claim
  <2>2. \A c \in Cmd : /\ outcomes'[c]["refused"] \in Nat
                       /\ outcomes'[c]["refused"] <= outcomes[c]["refused"] + Claim(c)
    BY <1>7, <1>t, <1>r, <2>1
  <2> QED BY <1>i, <1>t, <1>c, <1>r, <1>7, <2>1, <2>2 DEF AuditInv, Possible, Refused
<1>8. CASE OutcomeAppended
  BY <1>7, <1>8, <1>b DEF OutcomeAppended, Finish, surface, Typed, CurrentOK
<1>9. CASE OutcomeFails
  BY <1>7, <1>9, <1>b DEF OutcomeFails, Finish, surface, Typed, CurrentOK
(* A request left without a reply takes over the claim of its intent.      *)
<1>10. ASSUME pc' = "idle", UNCHANGED <<intents, outcomes, effects>>,
              IF pc = "send" THEN Orphan(cur) ELSE UNCHANGED orphans
       PROVE AuditInv'
  <2>1. CASE pc = "send"
    <3>1. cur \in Cmd /\ orphans' = [orphans EXCEPT ![cur] = @ + 1]
      BY <1>10, <2>1, <1>b DEF Orphan
    <3>2. \A c \in Cmd : Claim(c) = (IF c = cur THEN 1 ELSE 0) /\ Claim(c)' = 0
      BY <1>10, <2>1 DEF Claim
    <3> QED BY <1>i, <1>t, <1>r, <1>10, <3>1, <3>2 DEF AuditInv, Possible, Refused
  <2>2. CASE pc # "send"
    BY <1>10, <2>2, <1>u, <1>z
  <2> QED BY <2>1, <2>2
<1>11. CASE RoundAborted
  BY <1>10, <1>11 DEF RoundAborted, ledger
<1>12. CASE Crash
  BY <1>10, <1>12 DEF Crash, ledger
<1>13. CASE Tick
  BY <1>13, <1>u, <1>s DEF Tick, ledger, surface
<1>14. ASSUME NEW d \in Cmd, Submit(d) PROVE AuditInv'
  BY <1>14, <1>u, <1>s DEF Submit, ledger, surface
<1>15. ASSUME NEW h \in Hold, EphorDecides(h) PROVE AuditInv'
  BY <1>15, <1>u, <1>s DEF EphorDecides, ledger
<1>16. CASE Poll
  BY <1>16, <1>u, <1>z DEF Poll, ledger, surface
<1>17. CASE PollRepeats
  BY <1>17, <1>u, <1>z DEF PollRepeats, ledger, surface
<1>18. CASE TakeKnown
  BY <1>18, <1>u, <1>z DEF TakeKnown, ledger, surface
<1>19. CASE TakeUnaddressable
  BY <1>19, <1>u, <1>z DEF TakeUnaddressable, ledger, surface
<1>29. CASE TakeUnhashable
  BY <1>29, <1>u, <1>z DEF TakeUnhashable, ledger, surface
<1>20. CASE TakeMalformed
  BY <1>20, <1>u, <1>z DEF TakeMalformed, Finish, ledger, surface
<1>21. CASE TakeNew
  BY <1>21, <1>u, <1>z DEF TakeNew, ledger, surface
<1>22. CASE LookupAgrees
  BY <1>22, <1>u, <1>z DEF LookupAgrees, ledger, surface
<1>23. CASE LookupObjects
  BY <1>23, <1>u, <1>z DEF LookupObjects, Finish, ledger, surface
<1>24. CASE LookupFails
  BY <1>24, <1>u, <1>z DEF LookupFails, Finish, ledger, surface
<1>25. CASE EndBatch
  BY <1>25, <1>u, <1>z DEF EndBatch, ledger, surface
<1>26. CASE Report
  BY <1>26, <1>u, <1>z DEF Report, ledger, surface
<1>27. CASE ReportFails
  BY <1>27, <1>u, <1>z DEF ReportFails, ledger, surface
<1>28. CASE UNCHANGED vars
  BY <1>28, <1>u, <1>s DEF vars, ledger, surface
<1> QED
  BY <1>1, <1>2, <1>3, <1>4, <1>5, <1>6, <1>8, <1>9, <1>11, <1>12, <1>13,
     <1>14, <1>15, <1>16, <1>17, <1>18, <1>19, <1>20, <1>21, <1>22, <1>23,
     <1>24, <1>25, <1>26, <1>27, <1>28, <1>29
  DEF Next, Round, Execute, Failure, World

(* Audit first (apply_command: _decision_intent before gate_rpc and        *)
(* internal_json): whatever fails, every effect of a decision, and every   *)
(* one it may still have, is covered by an intent of its own.              *)
THEOREM AuditFirst == Spec => []EffectsAccounted
<1>1. Init => AuditInv
  BY DEF Init, AuditInv, Possible, Refused, Claim, Replies
<1>2. Typed /\ AuditInv => EffectsAccounted
  <2>1. \A c \in Cmd : Claim(c) \in {0, 1}
    BY DEF Claim
  <2> QED BY <2>1 DEF AuditInv, EffectsAccounted, Possible, Refused, Replies,
       Typed, TypeOK, LedgerTypeOK, SurfaceTypeOK
<1> QED BY TypedInit, TypedStep, AuditStep, <1>1, <1>2, PTL DEF Spec

-----------------------------------------------------------------------------
(* Every place a result of c is kept: at Dash, in applied, in unreported.  *)
Kept(c) == told[c] \cup {applied[c], unreported[c]}

(* "ok" is kept anywhere only once it is in the ledger, is in the ledger   *)
(* only of a command that took effect, and is the result of a call only    *)
(* after its effect.  The last two carry OkIsRecorded through a round.     *)
OkInv ==
  /\ \A c \in Cmd : "ok" \in Kept(c) => outcomes[c]["ok"] > 0
  /\ \A c \in Cmd : outcomes[c]["ok"] > 0 => effects[c] > 0
  /\ pc = "outcome" /\ res = "ok" => effects[cur] > 0

(* "ok" is replied only after the effect and the outcome entry.            *)
LEMMA OkStep == Typed /\ OkInv /\ [Next]_vars => OkInv'
<1> SUFFICES ASSUME Typed, OkInv, [Next]_vars PROVE OkInv'
  OBVIOUS
<1>t. /\ outcomes \in [Cmd -> [Replies -> Nat]]
      /\ effects \in [Cmd -> Nat]
      /\ applied \in [Cmd -> Results \cup {None}]
      /\ unreported \in [Cmd -> Results \cup {None}]
      /\ told \in [Cmd -> SUBSET Results]
  BY DEF Typed, TypeOK, DashTypeOK, MemoryTypeOK, LedgerTypeOK, SurfaceTypeOK
<1>b. pc \in {"lookup", "intent", "send", "outcome"} => cur \in Cmd
  BY CurrentType DEF Typed, CurrentOK
<1>n. None # "ok" /\ "ok" \in Replies
  BY DEF None, Replies
<1>k. UNCHANGED <<told, memory>> => \A c \in Cmd : "ok" \in Kept(c)' => "ok" \in Kept(c)
  BY DEF Kept, memory
(* A step that keeps no new "ok", records none, and takes no effect back.  *)
<1>u. ASSUME \A c \in Cmd : "ok" \in Kept(c)' => "ok" \in Kept(c),
             outcomes' = outcomes,
             \A c \in Cmd : effects[c] > 0 => effects'[c] > 0,
             pc' = "outcome" /\ res' = "ok" =>
               pc = "outcome" /\ res = "ok" /\ cur' = cur
      PROVE OkInv'
  BY <1>u, <1>b DEF OkInv
<1>f. ASSUME NEW r \in Results, r # "ok", cur \in Cmd, Finish(r), UNCHANGED told
      PROVE \A c \in Cmd : "ok" \in Kept(c)' => "ok" \in Kept(c)
  BY <1>f, <1>t DEF Finish, Kept
<1>1. ASSUME NEW d \in Cmd, OrphanPerformed(d) PROVE OkInv'
  <2>1. \A c \in Cmd : effects[c] > 0 => effects'[c] > 0
    BY <1>1, <1>t DEF OrphanPerformed, Perform
  <2> QED BY <1>1, <2>1, <1>u, <1>k DEF OrphanPerformed, ledger, dash, local, cur
<1>2. CASE IntentAppended
  BY <1>2, <1>u, <1>k DEF IntentAppended, surface, dash
<1>3. CASE IntentFails
  <2>1. "audit_unavailable" \in Results
    BY DEF Results
  <2> QED BY <1>3, <2>1, <1>u, <1>f, <1>b DEF IntentFails, Finish, surface, dash
<1>4. CASE SendPerformed
  <2>1. cur \in Cmd /\ cur' = cur
    BY <1>4, <1>b DEF SendPerformed, cur
  <2>2. \A c \in Cmd : effects[c] > 0 => effects'[c] > 0
    BY <1>4, <1>t DEF SendPerformed, Perform
  <2>3. effects'[cur] > 0
    BY <1>4, <2>1, <1>t DEF SendPerformed, Perform, Replay
  <2>4. \A c \in Cmd : "ok" \in Kept(c)' => "ok" \in Kept(c)
    BY <1>4, <1>k DEF SendPerformed, dash
  <2>5. outcomes' = outcomes
    BY <1>4 DEF SendPerformed, ledger
  <2> QED BY <2>1, <2>2, <2>3, <2>4, <2>5 DEF OkInv
<1>5. CASE SendRefused
  BY <1>5, <1>u, <1>k DEF SendRefused, ledger, surface, dash
<1>6. CASE SendUnanswered
  BY <1>6, <1>u, <1>k DEF SendUnanswered, ledger, dash
<1>7. CASE OutcomeAppended
  <2>1. cur \in Cmd /\ res \in Replies /\ pc = "outcome" /\ pc' = "take"
    BY <1>7, <1>b DEF OutcomeAppended, Finish, Typed, CurrentOK
  <2>2. /\ outcomes' = [outcomes EXCEPT ![cur][res] = @ + 1]
        /\ applied' = [applied EXCEPT ![cur] = res]
        /\ unreported' = [unreported EXCEPT ![cur] = res]
        /\ UNCHANGED <<told, effects>>
    BY <1>7 DEF OutcomeAppended, Finish, dash, surface
  <2>3. \A c \in Cmd : outcomes'[c]["ok"] =
          outcomes[c]["ok"] + (IF c = cur /\ res = "ok" THEN 1 ELSE 0)
    BY <2>1, <2>2, <1>t, <1>n
  <2>4. ASSUME NEW c \in Cmd, "ok" \in Kept(c)'
        PROVE  "ok" \in Kept(c) \/ (c = cur /\ res = "ok")
    <3>1. CASE c = cur
      BY <3>1, <2>1, <2>2, <2>4, <1>t DEF Kept
    <3>2. CASE c # cur
      <4>1. applied'[c] = applied[c] /\ unreported'[c] = unreported[c]
        BY <2>2, <3>2, <1>t
      <4> QED BY <4>1, <2>2, <2>4 DEF Kept
    <3> QED BY <3>1, <3>2
  <2>5. \A c \in Cmd : outcomes[c]["ok"] \in Nat
    BY <1>t, <1>n
  <2> QED BY <2>1, <2>2, <2>3, <2>4, <2>5 DEF OkInv
<1>8. CASE OutcomeFails
  <2>1. cur \in Cmd /\ res \in Replies /\ "unknown" \in Results
    BY <1>8, <1>b DEF OutcomeFails, Typed, CurrentOK, Results
  <2>2. \A c \in Cmd : "ok" \in Kept(c)' => "ok" \in Kept(c)
    BY <1>8, <2>1, <1>f DEF OutcomeFails, dash
  <2>3. pc' = "take" /\ effects' = effects /\ pc = "outcome"
    BY <1>8 DEF OutcomeFails, Finish, surface
  <2>4. CASE outcomes' = outcomes
    BY <2>2, <2>3, <2>4, <1>u
  <2>5. CASE outcomes' = [outcomes EXCEPT ![cur][res] = @ + 1]
    <3>1. \A c \in Cmd : /\ outcomes[c]["ok"] \in Nat
                         /\ outcomes'[c]["ok"] =
                              outcomes[c]["ok"] + (IF c = cur /\ res = "ok" THEN 1 ELSE 0)
      BY <2>1, <2>5, <1>t, <1>n
    <3> QED BY <2>1, <2>2, <2>3, <3>1 DEF OkInv
  <2> QED BY <1>8, <2>4, <2>5 DEF OutcomeFails
<1>9. CASE EndBatch
  <2>1. \A c \in Cmd : "ok" \in Kept(c)' => "ok" \in Kept(c)
    BY <1>9, <1>n DEF EndBatch, Kept, dash
  <2> QED BY <1>9, <2>1, <1>u DEF EndBatch, ledger, surface
<1>10. CASE Report
  <2>1. \A c \in Cmd : "ok" \in Kept(c)' => "ok" \in Kept(c)
    BY <1>10, <1>n, <1>t DEF Report, DashRecords, Acknowledge, Kept
  <2> QED BY <1>10, <2>1, <1>u DEF Report, ledger, surface
<1>11. CASE ReportFails
  <2>1. PICK S \in SUBSET Unreported, T \in SUBSET Unreported :
          DashRecords(S) /\ Acknowledge(T)
    BY <1>11 DEF ReportFails
  <2>2. applied' = applied
    BY <1>11 DEF ReportFails
  <2>3. \A c \in Cmd : "ok" \in Kept(c)' => "ok" \in Kept(c)
    BY <2>1, <2>2, <1>n, <1>t DEF DashRecords, Acknowledge, Kept
  <2> QED BY <1>11, <2>3, <1>u DEF ReportFails, ledger, surface
<1>12. CASE RoundAborted
  BY <1>12, <1>u, <1>k DEF RoundAborted, ledger, dash
<1>13. CASE Crash
  <2>1. \A c \in Cmd : "ok" \in Kept(c)' => "ok" \in Kept(c)
    BY <1>13, <1>n DEF Crash, Kept, dash
  <2>2. effects' = effects /\ outcomes' = outcomes /\ pc' = "idle"
    BY <1>13 DEF Crash, ledger
  <2> QED BY <2>1, <2>2, <1>u
<1>14. CASE Tick
  BY <1>14, <1>u, <1>k DEF Tick, ledger, surface, dash, local, cur
<1>15. ASSUME NEW d \in Cmd, Submit(d) PROVE OkInv'
  BY <1>15, <1>u, <1>k DEF Submit, ledger, surface, local, cur
<1>16. ASSUME NEW h \in Hold, EphorDecides(h) PROVE OkInv'
  BY <1>16, <1>u, <1>k DEF EphorDecides, ledger, dash, local, cur
<1>17. CASE Poll
  BY <1>17, <1>u, <1>k DEF Poll, ledger, surface, dash
<1>18. CASE PollRepeats
  BY <1>18, <1>u, <1>k DEF PollRepeats, ledger, surface, dash
<1>19. CASE TakeKnown
  <2>1. cur \in Cmd
    BY <1>19, CurrentType DEF TakeKnown
  <2>2. \A c \in Cmd : "ok" \in Kept(c)' => "ok" \in Kept(c)
    BY <1>19, <2>1, <1>t DEF TakeKnown, Kept, dash
  <2> QED BY <1>19, <2>2, <1>u DEF TakeKnown, ledger, surface
<1>20. CASE TakeUnaddressable
  BY <1>20, <1>u, <1>k DEF TakeUnaddressable, ledger, surface, dash
<1>27. CASE TakeUnhashable
  BY <1>27, <1>u, <1>k DEF TakeUnhashable, ledger, surface, dash
<1>21. CASE TakeMalformed
  <2>1. cur \in Cmd /\ "bad" \in Results
    BY <1>21, CurrentType DEF TakeMalformed, Results
  <2> QED BY <1>21, <2>1, <1>u, <1>f DEF TakeMalformed, Finish, ledger, surface, dash
<1>22. CASE TakeNew
  BY <1>22, <1>u, <1>k DEF TakeNew, ledger, surface, dash
<1>23. CASE LookupAgrees
  BY <1>23, <1>u, <1>k DEF LookupAgrees, ledger, surface, dash
<1>24. CASE LookupObjects
  <2>1. Objection(cur) \in Results /\ Objection(cur) # "ok"
    BY <1>24 DEF LookupObjects, Objection, Results, None
  <2> QED BY <1>24, <2>1, <1>u, <1>f, <1>b DEF LookupObjects, Finish, ledger, surface, dash
<1>25. CASE LookupFails
  <2>1. "unreachable" \in Results
    BY DEF Results
  <2> QED BY <1>25, <2>1, <1>u, <1>f, <1>b DEF LookupFails, Finish, ledger, surface, dash
<1>26. CASE UNCHANGED vars
  BY <1>26, <1>u, <1>k DEF vars, ledger, surface, dash, local, cur
<1> QED
  BY <1>1, <1>2, <1>3, <1>4, <1>5, <1>6, <1>7, <1>8, <1>9, <1>10, <1>11,
     <1>12, <1>13, <1>14, <1>15, <1>16, <1>17, <1>18, <1>19, <1>20, <1>21,
     <1>22, <1>23, <1>24, <1>25, <1>26, <1>27
  DEF Next, Round, Execute, Failure, World

(* No reply, and so no "ok", exists at the start.                          *)
LEMMA OkInit == Init => OkInv
BY DEF Init, OkInv, Kept, None, Replies

(* Dash is told "ok" only of a decision that took effect and whose outcome *)
(* is in the ledger (_decision_outcome, take_commands, report).            *)
THEOREM OkIsTrue == Spec => []OkIsRecorded
<1>1. OkInv => OkIsRecorded
  BY DEF OkInv, OkIsRecorded, Kept
<1> QED BY TypedInit, TypedStep, OkInit, OkStep, <1>1, PTL DEF Spec

-----------------------------------------------------------------------------
(* Every step of Decisions is a step of AuditTrail or leaves its variables *)
(* alone.                                                                  *)
LEMMA TrailStep ==
  Typed /\ Typed' /\ AuditInv /\ OkInv /\ OkInv' /\ [Next]_vars => [Trail!Next]_(Trail!vars)
<1> SUFFICES ASSUME Typed, Typed', AuditInv, OkInv, OkInv', [Next]_vars
             PROVE  [Trail!Next]_(Trail!vars)
  OBVIOUS
<1>t. /\ outcomes \in [Cmd -> [Replies -> Nat]] /\ intents \in [Cmd -> Nat]
      /\ effects \in [Cmd -> Nat] /\ orphans \in [Cmd -> Nat]
      /\ told \in [Cmd -> SUBSET Results] /\ told' \in [Cmd -> SUBSET Results]
  BY DEF Typed, TypeOK, DashTypeOK, LedgerTypeOK, SurfaceTypeOK
<1>b. pc \in {"lookup", "intent", "send", "outcome"} => cur \in Cmd
  BY CurrentType DEF Typed, CurrentOK
<1>i. \A c \in Cmd : effects[c] + orphans[c] + outcomes[c]["refused"] + Claim(c) <= intents[c]
  BY DEF AuditInv, Possible, Refused
<1>r. "refused" \in Replies
  BY DEF Replies
<1>u. UNCHANGED <<intents, outcomes, effects, told>> => [Trail!Next]_(Trail!vars)
  BY DEF Trail!vars
(* An effect the surface produces when an intent is still unused.          *)
<1>e. ASSUME NEW c \in Cmd, Perform(c), UNCHANGED <<intents, outcomes, told>>,
             effects[c] + outcomes[c]["refused"] < intents[c]
      PROVE [Trail!Next]_(Trail!vars)
  <2>1. CASE Replay(c)
    BY <1>e, <1>u, <2>1 DEF Perform
  <2>2. CASE ~Replay(c)
    <3>1. Trail!Act(c)
      BY <1>e, <2>2 DEF Perform, Trail!Act, Trail!Covered
    <3> QED BY <3>1 DEF Trail!Next
  <2> QED BY <2>1, <2>2
(* A report: Dash hears nothing that is not kept.                          *)
<1>d. ASSUME NEW S \in SUBSET Cmd, DashRecords(S), UNCHANGED <<intents, outcomes, effects>>
      PROVE [Trail!Next]_(Trail!vars)
  <2>1. \A c \in Cmd : told[c] \subseteq told'[c]
    BY <1>d, <1>t DEF DashRecords
  <2>2. \A c \in Cmd : "ok" \in told'[c] => outcomes[c]["ok"] > 0
    BY <1>d DEF OkInv, Kept
  <2>3. Trail!Tell
    BY <1>d, <1>t, <2>1, <2>2 DEF Trail!Tell
  <2> QED BY <2>3 DEF Trail!Next
<1>1. ASSUME NEW c \in Cmd, OrphanPerformed(c) PROVE [Trail!Next]_(Trail!vars)
  <2>1. orphans[c] > 0 /\ Perform(c) /\ UNCHANGED <<intents, outcomes, told>>
    BY <1>1 DEF OrphanPerformed, ledger, dash
  <2>2. Claim(c) \in {0, 1}
    BY DEF Claim
  <2>3. effects[c] + outcomes[c]["refused"] < intents[c]
    BY <2>1, <2>2, <1>t, <1>i, <1>r
  <2> QED BY <2>1, <2>3, <1>e
<1>2. CASE IntentAppended
  <2>1. Trail!RecordIntent(cur)
    BY <1>2 DEF IntentAppended, Trail!RecordIntent, surface, dash
  <2> QED BY <2>1, <1>2, <1>b DEF Trail!Next, IntentAppended
<1>3. CASE IntentFails
  <2>1. PICK n \in {0, 1} : intents' = [intents EXCEPT ![cur] = @ + n]
    BY <1>3 DEF IntentFails
  <2>2. cur \in Cmd /\ UNCHANGED <<outcomes, effects, told>>
    BY <1>3, <1>b DEF IntentFails, surface, dash
  <2>3. CASE n = 0
    <3>1. intents' = intents
      BY <2>1, <2>2, <2>3, <1>t
    <3> QED BY <2>2, <3>1, <1>u
  <2>4. CASE n = 1
    <3>1. Trail!RecordIntent(cur)
      BY <2>1, <2>2, <2>4 DEF Trail!RecordIntent
    <3> QED BY <2>2, <3>1 DEF Trail!Next
  <2> QED BY <2>3, <2>4
<1>4. CASE SendPerformed
  <2>1. cur \in Cmd /\ Perform(cur) /\ UNCHANGED <<intents, outcomes, told>> /\ pc = "send"
    BY <1>4, <1>b DEF SendPerformed, ledger, dash
  <2>2. Claim(cur) = 1
    BY <2>1 DEF Claim
  <2>3. effects[cur] + outcomes[cur]["refused"] < intents[cur]
    BY <2>1, <2>2, <1>t, <1>i, <1>r
  <2> QED BY <2>1, <2>3, <1>e
<1>5. ASSUME cur \in Cmd, res \in Replies, pc = "outcome",
             outcomes' = [outcomes EXCEPT ![cur][res] = @ + 1],
             UNCHANGED <<intents, effects, told>>
      PROVE [Trail!Next]_(Trail!vars)
  <2>1. res = "ok" => effects[cur] > 0
    BY <1>5 DEF OkInv
  <2>2. res = "refused" => effects[cur] + outcomes[cur]["refused"] < intents[cur]
    <3>1. res = "refused" => Claim(cur) = 1
      BY <1>5 DEF Claim
    <3> QED BY <1>5, <3>1, <1>t, <1>i, <1>r
  <2>3. Trail!RecordOutcome(cur, res)
    BY <1>5, <2>1, <2>2 DEF Trail!RecordOutcome, Trail!Covered
  <2> QED BY <1>5, <2>3 DEF Trail!Next
<1>6. CASE OutcomeAppended
  BY <1>6, <1>5, <1>b DEF OutcomeAppended, surface, dash, Typed, CurrentOK
<1>7. CASE OutcomeFails
  <2>1. /\ cur \in Cmd /\ res \in Replies /\ pc = "outcome"
        /\ UNCHANGED <<intents, effects, told>>
    BY <1>7, <1>b DEF OutcomeFails, surface, dash, Typed, CurrentOK
  <2>2. CASE UNCHANGED outcomes
    BY <2>1, <2>2, <1>u
  <2>3. CASE outcomes' = [outcomes EXCEPT ![cur][res] = @ + 1]
    BY <2>1, <2>3, <1>5
  <2> QED BY <1>7, <2>2, <2>3 DEF OutcomeFails
<1>8. CASE Report
  <2>1. DashRecords(Unreported) /\ UNCHANGED <<intents, outcomes, effects>>
    BY <1>8 DEF Report, ledger, surface
  <2>2. Unreported \in SUBSET Cmd
    BY DEF Unreported
  <2> QED BY <2>1, <2>2, <1>d
<1>9. CASE ReportFails
  <2>1. PICK S \in SUBSET Unreported : DashRecords(S)
    BY <1>9 DEF ReportFails
  <2>2. S \in SUBSET Cmd
    BY DEF Unreported
  <2> QED BY <1>9, <2>1, <2>2, <1>d DEF ReportFails, ledger, surface
<1>10. CASE Tick
  BY <1>10, <1>u DEF Tick, ledger, surface, dash
<1>11. ASSUME NEW c \in Cmd, Submit(c) PROVE [Trail!Next]_(Trail!vars)
  BY <1>11, <1>u DEF Submit, ledger, surface
<1>12. ASSUME NEW h \in Hold, EphorDecides(h) PROVE [Trail!Next]_(Trail!vars)
  BY <1>12, <1>u DEF EphorDecides, ledger, dash
<1>13. CASE Poll
  BY <1>13, <1>u DEF Poll, ledger, surface, dash
<1>14. CASE PollRepeats
  BY <1>14, <1>u DEF PollRepeats, ledger, surface, dash
<1>15. CASE TakeKnown
  BY <1>15, <1>u DEF TakeKnown, ledger, surface, dash
<1>16. CASE TakeUnaddressable \/ TakeUnhashable
  BY <1>16, <1>u DEF TakeUnaddressable, TakeUnhashable, ledger, surface, dash
<1>17. CASE TakeMalformed
  BY <1>17, <1>u DEF TakeMalformed, ledger, surface, dash
<1>18. CASE TakeNew
  BY <1>18, <1>u DEF TakeNew, ledger, surface, dash
<1>19. CASE LookupAgrees \/ LookupObjects \/ LookupFails
  BY <1>19, <1>u DEF LookupAgrees, LookupObjects, LookupFails, ledger, surface, dash
<1>20. CASE SendRefused
  BY <1>20, <1>u DEF SendRefused, ledger, surface, dash
<1>21. CASE SendUnanswered
  BY <1>21, <1>u DEF SendUnanswered, ledger, dash
<1>22. CASE EndBatch
  BY <1>22, <1>u DEF EndBatch, ledger, surface, dash
<1>23. CASE RoundAborted
  BY <1>23, <1>u DEF RoundAborted, ledger, dash
<1>24. CASE Crash
  BY <1>24, <1>u DEF Crash, ledger, dash
<1>25. CASE UNCHANGED vars
  BY <1>25, <1>u DEF vars, ledger, surface, dash
<1> QED
  BY <1>1, <1>2, <1>3, <1>4, <1>6, <1>7, <1>8, <1>9, <1>10, <1>11, <1>12,
     <1>13, <1>14, <1>15, <1>16, <1>17, <1>18, <1>19, <1>20, <1>21, <1>22,
     <1>23, <1>24, <1>25
  DEF Next, Round, Execute, Failure, World

(* The gateway implements the audit promise of docs/audit-first.md.        *)
THEOREM Refinement == Spec => KeepsTrail
<1>1. Init => Trail!Init
  BY DEF Init, Trail!Init
<1>2. Init => AuditInv
  BY DEF Init, AuditInv, Possible, Refused, Claim, Replies
<1> QED
  BY TypedInit, TypedStep, AuditStep, OkInit, OkStep, TrailStep, <1>1, <1>2, PTL
  DEF Spec, KeepsTrail, Trail!Spec

-----------------------------------------------------------------------------
(* What the pusher's memory says of a command it has not forgotten: Dash   *)
(* was told and will be told what is remembered and nothing else, and no   *)
(* request for it was made unless that says so.  Between the reply of the  *)
(* surface and Finish, res speaks for the memory.                          *)
Executing == {"lookup", "intent", "send", "outcome"}

Consistent(c) ==
  /\ told[c] \subseteq {applied[c]} /\ unreported[c] \in {None, applied[c]}
  /\ Possible(c) <= 1
  /\ Possible(c) > 0 /\ Remembered(c) => applied[c] \notin Refusals
  /\ Possible(c) > 0 /\ ~Remembered(c) => pc = "outcome" /\ cur = c /\ res # "refused"

MemInv ==
  /\ \A c \in Cmd \ forgotten : Consistent(c)
  /\ pc \in Executing => ~Remembered(cur)

(* A step keeps MemInv if it forgets no history, says nothing new to Dash  *)
(* or to itself, makes no request and goes on with the same command.       *)
LEMMA MemFrame ==
  ASSUME MemInv, NEW S, forgotten' = forgotten \cup S,
         \A c \in Cmd \ S :
           /\ told'[c] \subseteq told[c] \cup (IF unreported[c] = None THEN {} ELSE {unreported[c]})
           /\ applied'[c] = applied[c]
           /\ unreported'[c] \in {None, unreported[c], applied[c]}
           /\ Possible(c)' <= Possible(c)
           /\ Possible(c)' \in Nat /\ Possible(c) \in Nat,
         \A c \in Cmd \ S : pc = "outcome" /\ cur = c => pc' = "outcome" /\ cur' = c /\ res' = res,
         pc' \in Executing => ~Remembered(cur)'
  PROVE  MemInv'
<1> SUFFICES ASSUME NEW c \in Cmd \ forgotten' PROVE Consistent(c)'
  BY DEF MemInv
<1>1. Consistent(c) /\ c \in Cmd \ S
  BY DEF MemInv
<1>2. /\ applied'[c] = applied[c] /\ (Remembered(c)' <=> Remembered(c))
      /\ told'[c] \subseteq {applied[c]} /\ unreported'[c] \in {None, applied[c]}
  BY <1>1 DEF Consistent, Remembered
<1>3. Possible(c)' <= 1 /\ (Possible(c)' > 0 => Possible(c) > 0)
  BY <1>1 DEF Consistent
<1> QED BY <1>1, <1>2, <1>3 DEF Consistent

(* A step that ends a command with a result keeps MemInv, if the result is *)
(* no refusal of something that happened or may happen.                    *)
LEMMA MemFinish ==
  ASSUME Typed, MemInv, NEW r \in Results, cur \in Cmd, ~Remembered(cur), Finish(r),
         UNCHANGED <<told, effects, orphans, forgotten>>,
         cur \notin forgotten /\ Possible(cur) > 0 => r \notin Refusals
  PROVE  MemInv'
<1>1. pc' = "take" /\ pc' \notin Executing
  BY DEF Finish, Executing
<1> SUFFICES ASSUME NEW c \in Cmd \ forgotten PROVE Consistent(c)'
  BY <1>1 DEF MemInv
<1>2. Consistent(c) /\ Possible(c)' = Possible(c)
  BY DEF MemInv, Possible
<1>t. /\ applied \in [Cmd -> Results \cup {None}]
      /\ unreported \in [Cmd -> Results \cup {None}]
      /\ told \in [Cmd -> SUBSET Results] /\ None \notin Results
  BY DEF Typed, TypeOK, DashTypeOK, MemoryTypeOK, None, Results
<1>3. CASE c = cur
  <2>1. applied[c] = None /\ told[c] \subseteq Results /\ told[c] \subseteq {None}
    BY <1>2, <1>3, <1>t DEF Consistent, Remembered
  <2>2. told[c] = {} /\ applied'[c] = r /\ unreported'[c] = r /\ told'[c] = told[c]
    BY <2>1, <1>3, <1>t DEF Finish
  <2> QED BY <1>2, <1>3, <1>t, <2>2 DEF Consistent, Remembered
<1>4. CASE c # cur
  <2>1. applied'[c] = applied[c] /\ unreported'[c] = unreported[c] /\ told'[c] = told[c]
    BY <1>4, <1>t DEF Finish
  <2> QED BY <1>2, <1>4, <2>1 DEF Consistent, Remembered
<1> QED BY <1>3, <1>4

(* A step in which the current command is carried out, or its request left *)
(* open, keeps MemInv: there was none before it.                           *)
LEMMA MemSend ==
  ASSUME MemInv, cur \in Cmd, pc = "send", pc' = "outcome", cur' = cur, res' # "refused",
         UNCHANGED <<told, applied, unreported, forgotten>>,
         \A c \in Cmd : /\ Possible(c)' \in Nat /\ Possible(c) \in Nat
                        /\ Possible(c)' <= Possible(c) + (IF c = cur THEN 1 ELSE 0)
  PROVE  MemInv'
<1>1. ~Remembered(cur) /\ ~Remembered(cur)'
  BY DEF MemInv, Executing, Remembered
<1>2. ASSUME NEW c \in Cmd \ forgotten PROVE Consistent(c)'
  <2>1. Consistent(c)
    BY <1>2 DEF MemInv
  <2>2. CASE c = cur
    <3>1. Possible(c) = 0
      BY <1>1, <2>1, <2>2 DEF Consistent
    <3> QED BY <1>1, <2>1, <2>2, <3>1 DEF Consistent, Remembered
  <2>3. CASE c # cur
    <3>1. Possible(c)' <= Possible(c)
      BY <2>3
    <3> QED BY <2>1, <2>3, <3>1 DEF Consistent, Remembered
  <2> QED BY <2>2, <2>3
<1> QED BY <1>1, <1>2 DEF MemInv

(* No failure, lost reply or restart makes the pusher's memory say what is *)
(* not so of a command it has not forgotten (take_commands, report).       *)
LEMMA MemStep == Typed /\ Typed' /\ MemInv /\ [Next]_vars => MemInv'
<1> SUFFICES ASSUME Typed, Typed', MemInv, [Next]_vars PROVE MemInv'
  OBVIOUS
<1>t. /\ effects \in [Cmd -> Nat] /\ orphans \in [Cmd -> Nat]
      /\ effects' \in [Cmd -> Nat] /\ orphans' \in [Cmd -> Nat]
  BY DEF Typed, TypeOK, SurfaceTypeOK
<1>m. /\ applied \in [Cmd -> Results \cup {None}]
      /\ unreported \in [Cmd -> Results \cup {None}]
      /\ told \in [Cmd -> SUBSET Results]
  BY DEF Typed, TypeOK, DashTypeOK, MemoryTypeOK
<1>b. pc \in Executing => cur \in Cmd /\ ~Remembered(cur)
  BY CurrentType DEF Typed, CurrentOK, Executing, MemInv
<1>n. \A c \in Cmd : Possible(c) \in Nat /\ Possible(c)' \in Nat
  BY <1>t DEF Possible
<1>0. pc # "outcome" /\ cur \in Cmd /\ ~Remembered(cur) /\ cur \notin forgotten => Possible(cur) = 0
  BY <1>n DEF MemInv, Consistent
(* What memory and Dash hold does not change, nor does what was asked for. *)
<1>u. ASSUME UNCHANGED <<told, applied, unreported, effects, orphans, forgotten>>,
             pc = "outcome" => pc' = "outcome" /\ cur' = cur /\ res' = res,
             pc' \in Executing => ~Remembered(cur')
      PROVE MemInv'
  <2>1. \A c \in Cmd : Possible(c)' = Possible(c)
    BY <1>u DEF Possible
  <2>2. pc' \in Executing => ~Remembered(cur)'
    BY <1>u DEF Remembered
  <2>3. forgotten' = forgotten \cup {}
    BY <1>u
  <2> QED BY <1>u, <1>n, <2>1, <2>2, <2>3, MemFrame
<1>w. ASSUME UNCHANGED <<pc, batch, res, told, applied, unreported, effects, orphans, forgotten>>
      PROVE MemInv'
  <2>1. cur' = cur
    BY <1>w DEF cur
  <2> QED BY <1>w, <1>u, <1>b, <2>1
<1>1. ASSUME NEW d \in Cmd, OrphanPerformed(d) PROVE MemInv'
  <2>1. /\ orphans[d] > 0 /\ orphans' = [orphans EXCEPT ![d] = @ - 1]
        /\ \/ effects' = effects
           \/ effects' = [effects EXCEPT ![d] = @ + 1]
        /\ UNCHANGED <<told, applied, unreported, forgotten, pc, batch, res>>
    BY <1>1 DEF OrphanPerformed, Perform, dash, memory, local, history
  <2>2. \A c \in Cmd : Possible(c)' <= Possible(c)
    BY <2>1, <1>t DEF Possible
  <2>3. cur' = cur /\ (pc' \in Executing => ~Remembered(cur)')
    BY <2>1, <1>b DEF cur, Remembered
  <2>4. forgotten' = forgotten \cup {}
    BY <2>1
  <2> QED BY <1>n, <2>1, <2>2, <2>3, <2>4, MemFrame
<1>2. CASE IntentAppended
  <2>1. cur' = cur
    BY <1>2 DEF IntentAppended, local, cur
  <2> QED BY <1>2, <2>1, <1>b, <1>u DEF IntentAppended, Executing, dash, memory, local, surface, history
<1>3. CASE IntentFails
  <2>1. "audit_unavailable" \in Results /\ pc \in Executing /\ pc # "outcome"
    BY <1>3 DEF IntentFails, Results, Executing
  <2> QED BY <1>3, <2>1, <1>b, <1>0, MemFinish DEF IntentFails, dash, surface, history
<1>4. CASE SendPerformed
  <2>1. /\ cur \in Cmd /\ cur' = cur /\ pc = "send" /\ pc' = "outcome" /\ res' = "ok"
        /\ \/ effects' = effects
           \/ effects' = [effects EXCEPT ![cur] = @ + 1]
        /\ UNCHANGED <<told, applied, unreported, forgotten, orphans>>
    BY <1>4, <1>b DEF SendPerformed, Perform, Executing, dash, memory, history, cur
  <2>2. \A c \in Cmd : Possible(c)' <= Possible(c) + (IF c = cur THEN 1 ELSE 0)
    BY <2>1, <1>t DEF Possible
  <2> QED BY <1>n, <2>1, <2>2, MemSend
<1>5. CASE SendRefused
  <2>1. cur' = cur
    BY <1>5 DEF SendRefused, cur
  <2> QED BY <1>5, <2>1, <1>b, <1>u DEF SendRefused, Executing, dash, memory, surface, history
<1>6. CASE SendUnanswered
  <2>1. /\ cur \in Cmd /\ cur' = cur /\ pc = "send" /\ pc' = "outcome" /\ res' = "unreachable"
        /\ orphans' = [orphans EXCEPT ![cur] = @ + 1]
        /\ UNCHANGED <<told, applied, unreported, forgotten, effects>>
    BY <1>6, <1>b DEF SendUnanswered, Orphan, Executing, dash, memory, history, cur
  <2>2. \A c \in Cmd : Possible(c)' <= Possible(c) + (IF c = cur THEN 1 ELSE 0)
    BY <2>1, <1>t DEF Possible
  <2> QED BY <1>n, <2>1, <2>2, MemSend
<1>7. CASE OutcomeAppended
  <2>1. cur \in Cmd /\ ~Remembered(cur) /\ res \in Replies /\ res \in Results
    BY <1>7, <1>b DEF OutcomeAppended, Executing, Typed, CurrentOK, Replies, Results
  <2>2. cur \notin forgotten /\ Possible(cur) > 0 => res \notin Refusals
    BY <2>1 DEF MemInv, Consistent, Replies, Refusals
  <2> QED BY <1>7, <2>1, <2>2, MemFinish DEF OutcomeAppended, dash, surface, history
<1>8. CASE OutcomeFails
  <2>1. "unknown" \in Results /\ "unknown" \notin Refusals /\ pc \in Executing
    BY <1>8 DEF OutcomeFails, Results, Refusals, Executing
  <2> QED BY <1>8, <2>1, <1>b, MemFinish DEF OutcomeFails, dash, surface, history
<1>9. CASE EndBatch
  <2> DEFINE gone == {order[i] : i \in 1..Surplus}
  <2>1. /\ forgotten' = forgotten \cup gone /\ pc = "take" /\ pc' = "report"
        /\ applied' = [c \in Cmd |-> IF c \in gone THEN None ELSE applied[c]]
        /\ UNCHANGED <<told, unreported, effects, orphans>>
    BY <1>9 DEF EndBatch, dash, surface
  <2>2. \A c \in Cmd : Possible(c)' = Possible(c)
    BY <2>1 DEF Possible
  <2>3. pc' \notin Executing
    BY <2>1 DEF Executing
  <2> HIDE DEF gone
  <2> QED BY <1>n, <2>1, <2>2, <2>3, MemFrame
<1>10. ASSUME NEW S \in SUBSET Unreported, NEW T \in SUBSET Unreported,
              DashRecords(S), Acknowledge(T), pc = "report", pc' = "idle",
              UNCHANGED <<applied, effects, orphans, forgotten>>
       PROVE MemInv'
  <2>1. \A c \in Cmd : Possible(c)' = Possible(c)
    BY <1>10 DEF Possible
  <2>2. \A c \in Cmd :
          /\ told'[c] \subseteq told[c] \cup (IF unreported[c] = None THEN {} ELSE {unreported[c]})
          /\ unreported'[c] \in {None, unreported[c], applied[c]}
    BY <1>10, <1>m DEF DashRecords, Acknowledge, Unreported
  <2>3. forgotten' = forgotten \cup {} /\ pc' \notin Executing
    BY <1>10 DEF Executing
  <2> QED BY <1>10, <1>n, <2>1, <2>2, <2>3, MemFrame
<1>11. CASE Report
  BY <1>11, <1>10 DEF Report, surface, history
<1>12. CASE ReportFails
  BY <1>12, <1>10 DEF ReportFails, surface, history
<1>13. CASE RoundAborted
  <2>1. /\ forgotten' = forgotten \cup InFlight /\ pc \in {"lookup", "send"} /\ pc' = "idle"
        /\ UNCHANGED <<told, applied, unreported, effects>>
        /\ \/ pc = "send" /\ orphans' = [orphans EXCEPT ![cur] = @ + 1]
           \/ UNCHANGED orphans
    BY <1>13 DEF RoundAborted, Orphan, dash, memory
  <2>2. \A c \in Cmd \ InFlight : Possible(c)' = Possible(c)
    BY <2>1, <1>t DEF Possible, InFlight
  <2>3. pc' \notin Executing
    BY <2>1 DEF Executing
  <2> QED BY <1>n, <2>1, <2>2, <2>3, MemFrame
<1>14. CASE Crash
  <2> DEFINE S == InFlight \cup {c \in Cmd : Remembered(c)}
  <2>1. /\ forgotten' = forgotten \cup S /\ pc' = "idle"
        /\ applied' = [c \in Cmd |-> None] /\ unreported' = [c \in Cmd |-> None]
        /\ UNCHANGED <<told, effects>>
        /\ \/ pc = "send" /\ orphans' = [orphans EXCEPT ![cur] = @ + 1]
           \/ UNCHANGED orphans
    BY <1>14 DEF Crash, Orphan, dash
  <2>2. \A c \in Cmd \ S : Possible(c)' = Possible(c)
    BY <2>1, <1>t DEF Possible, InFlight
  <2>3. \A c \in Cmd \ S : applied[c] = None /\ ~(pc = "outcome" /\ cur = c)
    BY DEF Remembered, InFlight
  <2>4. pc' \notin Executing
    BY <2>1 DEF Executing
  <2> HIDE DEF S
  <2> QED BY <1>n, <2>1, <2>2, <2>3, <2>4, MemFrame
<1>15. CASE Tick
  BY <1>15, <1>w DEF Tick, dash, memory, local, surface, history
<1>16. ASSUME NEW d \in Cmd, Submit(d) PROVE MemInv'
  BY <1>16, <1>w DEF Submit, memory, local, surface, history
<1>17. ASSUME NEW h \in Hold, EphorDecides(h) PROVE MemInv'
  BY <1>17, <1>w DEF EphorDecides, dash, memory, local, history
<1>18. CASE Poll
  BY <1>18, <1>u DEF Poll, Executing, dash, memory, surface, history
<1>19. CASE PollRepeats
  BY <1>19, <1>u DEF PollRepeats, Executing, dash, memory, surface, history
<1>20. CASE TakeKnown
  <2>1. /\ pc = "take" /\ pc' = "take" /\ cur \in Cmd
        /\ unreported' = [unreported EXCEPT ![cur] = IF @ = None THEN applied[cur] ELSE @]
        /\ UNCHANGED <<told, applied, effects, orphans, forgotten>>
    BY <1>20, CurrentType DEF TakeKnown, dash, surface, history
  <2>2. \A c \in Cmd : Possible(c)' = Possible(c)
                       /\ unreported'[c] \in {None, unreported[c], applied[c]}
    BY <2>1, <1>m DEF Possible
  <2>3. forgotten' = forgotten \cup {} /\ pc' \notin Executing
    BY <2>1 DEF Executing
  <2> QED BY <1>n, <2>1, <2>2, <2>3, MemFrame
<1>21. CASE TakeUnaddressable \/ TakeUnhashable
  BY <1>21, <1>u DEF TakeUnaddressable, TakeUnhashable, Executing, dash, memory, surface, history
<1>22. CASE TakeMalformed
  <2>1. cur \in Cmd /\ "bad" \in Results /\ pc = "take" /\ ~Remembered(cur)
    BY <1>22, CurrentType DEF TakeMalformed, Results
  <2> QED BY <1>22, <2>1, <1>0, <1>n, MemFinish DEF TakeMalformed, dash, surface, history
<1>23. CASE TakeNew
  <2>1. cur' = cur
    BY <1>23 DEF TakeNew, cur
  <2> QED BY <1>23, <2>1, <1>u DEF TakeNew, dash, memory, surface, history
<1>24. CASE LookupAgrees
  <2>1. cur' = cur
    BY <1>24 DEF LookupAgrees, local, cur
  <2> QED BY <1>24, <2>1, <1>b, <1>u DEF LookupAgrees, Executing, dash, memory, surface, history
<1>25. CASE LookupObjects
  <2>1. Objection(cur) \in Results /\ pc \in Executing /\ pc # "outcome"
    BY <1>25 DEF LookupObjects, Objection, Results, None, Executing
  <2> QED BY <1>25, <2>1, <1>b, <1>0, MemFinish DEF LookupObjects, dash, surface, history
<1>26. CASE LookupFails
  <2>1. "unreachable" \in Results /\ pc \in Executing /\ pc # "outcome"
    BY <1>26 DEF LookupFails, Results, Executing
  <2> QED BY <1>26, <2>1, <1>b, <1>0, MemFinish DEF LookupFails, dash, surface, history
<1>27. CASE UNCHANGED vars
  BY <1>27, <1>w DEF vars, dash, memory, local, surface, history
<1> QED
  BY <1>1, <1>2, <1>3, <1>4, <1>5, <1>6, <1>7, <1>8, <1>9, <1>11, <1>12, <1>13,
     <1>14, <1>15, <1>16, <1>17, <1>18, <1>19, <1>20, <1>21, <1>22, <1>23, <1>24,
     <1>25, <1>26, <1>27
  DEF Next, Round, Execute, Failure, World

(* A pusher that has done nothing remembers nothing.                       *)
LEMMA MemInit == Init => MemInv
BY DEF Init, MemInv, Consistent, Possible, Remembered, Executing

(* The pusher's memory says what is so, always.                            *)
THEOREM MemAlways == Spec => []MemInv
BY TypedInit, TypedStep, MemInit, MemStep, PTL DEF Spec

(* A decision that Dash sends again is not carried out again, unless the   *)
(* pusher forgot it (take_commands, "if cid in self.applied").             *)
THEOREM AppliedOnce == Spec => []AppliedOnceUnlessForgotten
<1>1. Typed /\ MemInv => AppliedOnceUnlessForgotten
  <2> SUFFICES ASSUME Typed, MemInv, NEW c \in Cmd \ forgotten, Possible(c) > 1 PROVE FALSE
    BY DEF AppliedOnceUnlessForgotten
  <2>1. Possible(c) <= 1 /\ Possible(c) \in Nat
    BY DEF MemInv, Consistent, Possible, Typed, TypeOK, SurfaceTypeOK
  <2> QED BY <2>1
<1> QED BY TypedInit, TypedStep, MemAlways, <1>1, PTL DEF Spec

(* Dash hears of a refusal only if nothing happened (apply_command's error *)
(* results, told by report).                                               *)
THEOREM RefusedIsTrue == Spec => []RefusalsAreTrue
<1>1. Typed /\ MemInv => RefusalsAreTrue
  <2> SUFFICES ASSUME Typed, MemInv, NEW c \in Cmd \ forgotten,
                      told[c] \cap Refusals # {}
               PROVE  effects[c] = 0
    BY DEF RefusalsAreTrue
  <2>1. Consistent(c) /\ effects[c] \in Nat /\ orphans[c] \in Nat
    BY DEF MemInv, Typed, TypeOK, SurfaceTypeOK
  <2>2. applied[c] \in Refusals /\ Remembered(c)
    BY <2>1 DEF Consistent, Remembered, Refusals, None
  <2>3. ~(effects[c] + orphans[c] > 0)
    BY <2>1, <2>2 DEF Consistent, Possible
  <2> QED BY <2>1, <2>3
<1> QED BY TypedInit, TypedStep, MemAlways, <1>1, PTL DEF Spec

(* A result reported again is the result reported before, as long as the   *)
(* pusher has not forgotten it (report, take_commands).                    *)
THEOREM ReportsNeverDiffer == Spec => []ReportsAgree
<1>1. MemInv => ReportsAgree
  BY DEF MemInv, Consistent, ReportsAgree
<1> QED BY MemAlways, <1>1, PTL

-----------------------------------------------------------------------------
(* A hold that somebody decided is not pending, so that no lookup finds it *)
(* so: what the command under way finds decided when its call is made was  *)
(* decided since its lookup.                                               *)
TurnInv ==
  /\ \A h \in Hold : decider[h] # "nobody" => status[h] # "pending"
  /\ pc \in {"intent", "send"} /\ Kind[cur] # "review" /\ decider[Target[cur]] # "nobody" =>
       Target[cur] \in raced

(* No reviewer, lost reply or restart breaks it (apply_command's lookup).  *)
LEMMA TurnStep == Typed /\ TurnInv /\ [Next]_vars => TurnInv'
<1> SUFFICES ASSUME Typed, TurnInv, [Next]_vars PROVE TurnInv'
  OBVIOUS
<1>t. /\ decider \in [Hold -> Cmd \cup {"nobody", "ephor"}]
      /\ status \in [Hold -> {"pending", "approved", "denied"}]
  BY DEF Typed, TypeOK, SurfaceTypeOK
<1>a. Target \in [Cmd -> Hold]
  BY DecisionsAssumption
<1>b. pc \in {"lookup", "intent", "send", "outcome"} => cur \in Cmd
  BY CurrentType DEF Typed, CurrentOK
(* A step that leaves the surfaces alone, of no command that has passed    *)
(* its lookup or of the same.                                              *)
<1>u. ASSUME UNCHANGED <<decider, status, raced>>,
             pc' \in {"intent", "send"} => \/ pc \in {"intent", "send"} /\ cur' = cur
                                           \/ Kind[cur'] = "review"
      PROVE TurnInv'
  BY <1>u DEF TurnInv
<1>w. ASSUME UNCHANGED <<pc, batch, decider, status, raced>>
      PROVE TurnInv'
  <2>1. cur' = cur
    BY <1>w DEF cur
  <2> QED BY <1>w, <2>1, <1>u
(* A hold is decided: by now that is after the last lookup.                *)
<1>e. ASSUME NEW g \in Hold, NEW d, NEW v \in {"approved", "denied"},
             decider' = [decider EXCEPT ![g] = d], status' = [status EXCEPT ![g] = v],
             raced' = raced \cup {g},
             pc' \in {"intent", "send"} => pc \in {"intent", "send"} /\ cur' = cur
      PROVE TurnInv'
  <2>1. \A h \in Hold : decider'[h] # "nobody" => status'[h] # "pending"
    BY <1>e, <1>t DEF TurnInv
  <2>2. ASSUME pc' \in {"intent", "send"}, Kind[cur'] # "review",
               decider'[Target[cur']] # "nobody"
        PROVE  Target[cur'] \in raced'
    <3>1. Target[cur] \in Hold /\ cur' = cur /\ pc \in {"intent", "send"}
      BY <2>2, <1>e, <1>a, <1>b
    <3>2. CASE Target[cur] = g
      BY <3>1, <3>2, <1>e
    <3>3. CASE Target[cur] # g
      BY <3>1, <3>3, <2>2, <1>e, <1>t DEF TurnInv
    <3> QED BY <3>2, <3>3
  <2> QED BY <2>1, <2>2 DEF TurnInv
<1>p. ASSUME NEW d \in Cmd, Perform(d),
             pc' \in {"intent", "send"} => pc \in {"intent", "send"} /\ cur' = cur
      PROVE TurnInv'
  <2>1. CASE UNCHANGED <<decider, status, raced>>
    BY <2>1, <1>p, <1>u
  <2>2. CASE ~UNCHANGED <<decider, status, raced>>
    <3>1. /\ Verdict(d) \in {"approved", "denied"} /\ Target[d] \in Hold
          /\ decider' = [decider EXCEPT ![Target[d]] = d]
          /\ status' = [status EXCEPT ![Target[d]] = Verdict(d)]
          /\ raced' = raced \cup {Target[d]}
      BY <2>2, <1>p, <1>a DEF Perform, Verdict
    <3> QED BY <3>1, <1>p, <1>e
  <2> QED BY <2>1, <2>2
<1>1. ASSUME NEW d \in Cmd, OrphanPerformed(d) PROVE TurnInv'
  <2>1. Perform(d) /\ pc' = pc /\ cur' = cur
    BY <1>1 DEF OrphanPerformed, local, cur
  <2> QED BY <2>1, <1>p
<1>2. CASE SendPerformed
  <2>1. cur \in Cmd /\ Perform(cur) /\ pc' = "outcome"
    BY <1>2, <1>b DEF SendPerformed
  <2> QED BY <2>1, <1>p
<1>3. ASSUME NEW g \in Hold, EphorDecides(g) PROVE TurnInv'
  <2>1. PICK v \in {"approved", "denied"} : status' = [status EXCEPT ![g] = v]
    BY <1>3 DEF EphorDecides
  <2>2. /\ decider' = [decider EXCEPT ![g] = "ephor"] /\ raced' = raced \cup {g}
        /\ pc' = pc /\ cur' = cur
    BY <1>3 DEF EphorDecides, local, cur
  <2> QED BY <2>1, <2>2, <1>e
<1>4. CASE LookupAgrees
  <2>1. /\ cur \in Cmd /\ cur' = cur /\ status[Target[cur]] = "pending"
        /\ UNCHANGED <<decider, status>>
    BY <1>4, <1>b DEF LookupAgrees, Objection, None, surface, local, cur
  <2>2. decider[Target[cur]] = "nobody"
    BY <2>1, <1>a DEF TurnInv
  <2> QED BY <2>1, <2>2 DEF TurnInv
<1>5. CASE TakeNew
  <2>1. cur' = cur
    BY <1>5 DEF TakeNew, cur
  <2> QED BY <1>5, <2>1, <1>u DEF TakeNew, surface, history
<1>6. CASE IntentAppended
  <2>1. cur' = cur
    BY <1>6 DEF IntentAppended, local, cur
  <2> QED BY <1>6, <2>1, <1>u DEF IntentAppended, surface, history
<1>7. CASE SendRefused \/ SendUnanswered \/ RoundAborted \/ Crash
  BY <1>7, <1>u DEF SendRefused, SendUnanswered, RoundAborted, Crash, surface, history
<1>8. CASE IntentFails \/ OutcomeAppended \/ OutcomeFails \/ LookupObjects \/ LookupFails
            \/ TakeMalformed
  BY <1>8, <1>u DEF IntentFails, OutcomeAppended, OutcomeFails, LookupObjects, LookupFails,
                    TakeMalformed, Finish, surface, history
<1>9. CASE TakeKnown \/ TakeUnaddressable \/ TakeUnhashable
  BY <1>9, <1>u DEF TakeKnown, TakeUnaddressable, TakeUnhashable, surface, history
<1>10. CASE Poll \/ PollRepeats
  BY <1>10, <1>u DEF Poll, PollRepeats, surface, history
<1>11. CASE EndBatch \/ Report \/ ReportFails
  BY <1>11, <1>u DEF EndBatch, Report, ReportFails, surface, history
<1>12. CASE Tick
  BY <1>12, <1>w DEF Tick, surface, history, local
<1>13. ASSUME NEW d \in Cmd, Submit(d) PROVE TurnInv'
  BY <1>13, <1>w DEF Submit, surface, history, local
<1>14. CASE UNCHANGED vars
  BY <1>14, <1>w DEF vars, surface, history, local
<1> QED
  BY <1>1, <1>2, <1>3, <1>4, <1>5, <1>6, <1>7, <1>8, <1>9, <1>10, <1>11, <1>12, <1>13,
     <1>14
  DEF Next, Round, Execute, Failure, World

(* Nobody has decided anything at the start.                               *)
LEMMA TurnInit == Init => TurnInv
BY DEF Init, TurnInv

(* A decision, whoever took it, is overturned only by a request that the   *)
(* gateway had given up on, or by a command whose lookup was before it     *)
(* (apply_command refuses a hold that is "not_pending").                   *)
THEOREM NothingIsOverturned == Spec => NoOverturn
<1> DEFINE Excused(h) ==
      \E c \in Cmd : decider'[h] = c /\ (CarriedOutLate(c) \/ DecidedSinceLookup(c, h))
<1> DEFINE A == \A h \in Hold : decider[h] # "nobody" /\ decider'[h] # decider[h] => Excused(h)
<1>1. Typed /\ TurnInv /\ [Next]_vars => [A]_vars
  <2> SUFFICES ASSUME Typed, TurnInv, Next,
                      NEW h \in Hold, decider[h] # "nobody", decider'[h] # decider[h]
               PROVE  Excused(h)
    OBVIOUS
  <2>t. /\ decider \in [Hold -> Cmd \cup {"nobody", "ephor"}] /\ Target \in [Cmd -> Hold]
        /\ orphans \in [Cmd -> Nat]
    BY DecisionsAssumption DEF Typed, TypeOK, SurfaceTypeOK
  <2>p. ASSUME NEW d \in Cmd, Perform(d)
        PROVE  Target[d] = h /\ Kind[d] \in {"approve", "deny"} /\ decider'[h] = d
    BY <2>p, <2>t DEF Perform
  <2>1. ASSUME NEW d \in Cmd, OrphanPerformed(d) PROVE Excused(h)
    <3>1. orphans'[d] < orphans[d] /\ Perform(d)
      BY <2>1, <2>t DEF OrphanPerformed
    <3> QED BY <3>1, <2>p DEF CarriedOutLate
  <2>2. CASE SendPerformed
    <3>1. cur \in Cmd /\ Perform(cur) /\ pc = "send"
      BY <2>2, CurrentType DEF SendPerformed, Typed, CurrentOK
    <3>2. Target[cur] = h /\ Kind[cur] # "review" /\ decider'[h] = cur
      BY <3>1, <2>p
    <3>3. h \in raced
      BY <3>1, <3>2 DEF TurnInv
    <3> QED BY <3>1, <3>2, <3>3 DEF DecidedSinceLookup
  <2>3. ~ \E g \in Hold : EphorDecides(g)
    <3> SUFFICES ASSUME NEW g \in Hold, EphorDecides(g) PROVE FALSE
      OBVIOUS
    <3>1. h = g /\ status[h] = "pending"
      BY <2>t DEF EphorDecides
    <3> QED BY <3>1 DEF TurnInv
  <2>4. decider' # decider
    OBVIOUS
  <2>5. ~ \/ Poll \/ TakeKnown \/ TakeUnaddressable \/ TakeUnhashable \/ TakeMalformed
          \/ TakeNew \/ LookupAgrees \/ LookupObjects \/ LookupFails
    BY <2>4 DEF Poll, TakeKnown, TakeUnaddressable, TakeUnhashable, TakeMalformed, TakeNew,
                LookupAgrees, LookupObjects, LookupFails, surface
  <2>6. ~ \/ IntentAppended \/ IntentFails \/ SendRefused \/ SendUnanswered
          \/ OutcomeAppended \/ OutcomeFails
    BY <2>4 DEF IntentAppended, IntentFails, SendRefused, SendUnanswered,
                OutcomeAppended, OutcomeFails, surface
  <2>7. ~ \/ EndBatch \/ Report \/ ReportFails \/ PollRepeats \/ RoundAborted \/ Crash
          \/ Tick \/ \E c \in Cmd : Submit(c)
    BY <2>4 DEF EndBatch, Report, ReportFails, PollRepeats, RoundAborted, Crash,
                Tick, Submit, surface
  <2> QED BY <2>1, <2>2, <2>3, <2>5, <2>6, <2>7
          DEF Next, Round, Execute, Failure, World
<1>2. NoOverturn <=> [][A]_vars
  BY DEF NoOverturn
<1> QED BY TypedInit, TypedStep, TurnInit, TurnStep, <1>1, <1>2, PTL DEF Spec

-----------------------------------------------------------------------------
(* Every decision is answered.  EveryDecisionReported also rests on the    *)
(* fairness of the pusher and on failures that come to an end; what        *)
(* follows is the rest of its argument, for any queue and any bounds: a    *)
(* round ends after a bounded number of calls, and without a failure it    *)
(* tells Dash a result for each addressable command that it took, or       *)
(* leaves it queued when the id of one before it raises.                   *)

(* What is left of a round: at most five calls for each command and two    *)
(* more for the end of the batch and the report.                           *)
CallsLeft ==
  CASE pc = "idle" -> 0 [] pc = "report" -> 1
    [] pc = "take" -> 5 * Len(batch) + 2 [] pc = "lookup" -> 5 * Len(batch) + 1
    [] pc = "intent" -> 5 * Len(batch) [] pc = "send" -> 5 * Len(batch) - 1
    [] OTHER -> 5 * Len(batch) - 2

CallsBounded == CallsLeft \in 0 .. 5 * MaxCommands + 2

(* Whatever the pusher does in a round brings the end of it nearer, and    *)
(* nothing else in the system sets it back.                                *)
RoundsEnd ==
  [][pc # "idle" => /\ Round \/ Failure => CallsLeft' < CallsLeft
                    /\ ~(Round \/ Failure) => UNCHANGED <<pc, batch>>]_vars

(* How a command leaves the batch when no call fails: with a result to     *)
(* report; as one that has no id to report it under; or with everything    *)
(* behind it, when its id raises, all of which Dash still has queued.      *)
Answered(c)  == unreported'[c] # None
Anonymous(c) == Form[c] = "no_id"
Raised(c)    == /\ Form[c] = "unhashable" /\ batch' = <<>>
                /\ \A i \in 2..Len(batch) : batch[i] \in queue'

(* A command leaves the batch in one of these ways, and a result is        *)
(* dropped when Dash has it, unless a call fails or the gateway dies.      *)
NothingIsDropped ==
  [][faults' = faults =>
       /\ batch # <<>> /\ batch' # batch => Answered(cur) \/ Anonymous(cur) \/ Raised(cur)
       /\ \A c \in Cmd : unreported[c] # None =>
            unreported'[c] # None \/ unreported[c] \in told'[c]]_vars

(* Nothing is left of the batch when the results are reported, and only    *)
(* the first of the commands in it may be one that Dash has a result of.   *)
BatchInv ==
  /\ Len(batch) <= MaxCommands
  /\ pc \in {"idle", "report"} => batch = <<>>
  /\ \A i \in 2..Len(batch) : batch[i] \in queue

(* Dash lists at most as many commands as it was asked for.                *)
LEMMA ListingLength ==
  ASSUME queue \subseteq Cmd, NEW n \in Nat, NEW s \in Listing(n)
  PROVE  Len(s) <= n
<1> DEFINE k == IF Cardinality(queue) < n THEN Cardinality(queue) ELSE n
<1>1. Cardinality(queue) \in Nat
  BY FS_Subset, FS_CardinalityType, DecisionsAssumption
<1>2. k \in Nat /\ k <= n
  BY <1>1
<1>3. s \in [1..k -> queue]
  BY DEF Listing
<1>4. Len(s) = k
  BY <1>2, <1>3
<1> QED BY <1>2, <1>4

(* ... and only commands that are queued.                                  *)
LEMMA ListingQueued ==
  ASSUME queue \subseteq Cmd, NEW n \in Nat, NEW s \in Listing(n)
  PROVE  \A i \in 1..Len(s) : s[i] \in queue
<1> DEFINE k == IF Cardinality(queue) < n THEN Cardinality(queue) ELSE n
<1>1. Cardinality(queue) \in Nat
  BY FS_Subset, FS_CardinalityType, DecisionsAssumption
<1>2. k \in Nat
  BY <1>1
<1>3. s \in [1..k -> queue]
  BY DEF Listing
<1>4. Len(s) = k
  BY <1>2, <1>3
<1> QED BY <1>3, <1>4

(* The batch of a step: a new one, the same, its tail, or none.            *)
LEMMA BatchStep ==
  ASSUME Typed, BatchInv, [Next]_vars
  PROVE  BatchInv'
<1>t. batch \in Seq(Cmd) /\ Len(batch) \in Nat /\ MaxCommands \in Nat /\ MaxCommands >= 1
  BY DecisionsAssumption DEF Typed, TypeOK, LocalTypeOK
<1>q. queue \subseteq Cmd
  BY DEF Typed, TypeOK, DashTypeOK
<1>b. pc \in {"lookup", "intent", "send", "outcome"} => batch # <<>>
  BY DEF Typed, CurrentOK
<1>k. batch # <<>> => Len(Tail(batch)) = Len(batch) - 1
  BY <1>t
(* The rest of the batch is what was behind its head.                      *)
<1>r. ASSUME batch # <<>>, batch' = Tail(batch), queue' = queue, pc' = "take"
      PROVE  BatchInv'
  <2>1. \A i \in 2..Len(Tail(batch)) : Tail(batch)[i] = batch[i + 1] /\ i + 1 \in 2..Len(batch)
    BY <1>r, <1>t, <1>k
  <2> QED BY <1>r, <1>t, <1>k, <2>1 DEF BatchInv
<1>f. ASSUME batch # <<>>, NEW r, Finish(r), UNCHANGED dash
      PROVE  BatchInv'
  BY <1>f, <1>r DEF Finish, dash
<1>u. ASSUME batch' = batch, queue \subseteq queue', pc' \in {"idle", "report"} => batch = <<>>
      PROVE  BatchInv'
  BY <1>u DEF BatchInv
(* With nothing in it, whatever Dash does.                                 *)
<1>e. ASSUME batch' = <<>> PROVE BatchInv'
  BY <1>e, <1>t DEF BatchInv
<1>1. CASE Poll
  <2>1. batch' \in Listing(MaxCommands) /\ pc' = "take" /\ queue' = queue
    BY <1>1 DEF Poll, dash
  <2>2. \A i \in 2..Len(batch') : batch'[i] \in queue
    BY <2>1, <1>t, <1>q, ListingQueued
  <2> QED BY <2>1, <2>2, <1>t, <1>q, ListingLength DEF BatchInv
<1>2. CASE PollRepeats
  <2>1. PICK c \in Seen \ queue, s \in Listing(MaxCommands - 1) : batch' = <<c>> \o s
    BY <1>2 DEF PollRepeats
  <2>2. MaxCommands - 1 \in Nat
    BY <1>t
  <2>3. s \in Seq(Cmd) /\ Len(s) <= MaxCommands - 1
    BY <2>2, <1>q, ListingType, ListingLength
  <2>4. Len(batch') <= MaxCommands
    BY <2>1, <2>3, <1>t
  <2>5. \A i \in 1..Len(s) : s[i] \in queue
    BY <2>2, <1>q, ListingQueued
  <2>6. c \in Cmd
    BY <1>q DEF Seen
  <2>7. \A i \in 2..Len(batch') : i - 1 \in 1..Len(s) /\ batch'[i] = s[i - 1]
    BY <2>1, <2>3, <2>6
  <2>8. \A i \in 2..Len(batch') : batch'[i] \in queue
    BY <2>5, <2>7
  <2> QED BY <1>2, <2>4, <2>8 DEF PollRepeats, BatchInv, dash
<1>3. CASE TakeKnown \/ TakeUnaddressable
  BY <1>3, <1>r DEF TakeKnown, TakeUnaddressable, dash
<1>12. CASE TakeUnhashable
  BY <1>12, <1>e DEF TakeUnhashable
<1>4. CASE TakeMalformed
  BY <1>4, <1>f DEF TakeMalformed
<1>5. CASE LookupObjects \/ LookupFails \/ IntentFails \/ OutcomeAppended \/ OutcomeFails
  BY <1>5, <1>b, <1>f DEF LookupObjects, LookupFails, IntentFails, OutcomeAppended,
                          OutcomeFails
<1>6. CASE TakeNew \/ LookupAgrees \/ IntentAppended
  BY <1>6, <1>u DEF TakeNew, LookupAgrees, IntentAppended, local, dash
<1>7. CASE SendPerformed \/ SendRefused \/ SendUnanswered
  BY <1>7, <1>u DEF SendPerformed, SendRefused, SendUnanswered, dash
<1>8. CASE EndBatch
  BY <1>8, <1>u DEF EndBatch, local, dash
<1>9. CASE Report \/ ReportFails
  BY <1>9, <1>e DEF Report, ReportFails, local, BatchInv
<1>10. CASE RoundAborted \/ Crash
  BY <1>10, <1>e DEF RoundAborted, Crash
<1>11. CASE Tick \/ (\E c \in Cmd : Submit(c) \/ OrphanPerformed(c))
              \/ (\E h \in Hold : EphorDecides(h)) \/ UNCHANGED vars
  BY <1>11, <1>u DEF Tick, Submit, OrphanPerformed, EphorDecides, vars, local, dash, BatchInv
<1> QED
  BY <1>1, <1>2, <1>3, <1>4, <1>5, <1>6, <1>7, <1>8, <1>9, <1>10, <1>11, <1>12
  DEF Next, Round, Execute, Failure, World

(* No round has begun.                                                     *)
LEMMA BatchInit == Init => BatchInv
BY DecisionsAssumption DEF Init, BatchInv

(* With the types, which the batch's bound needs.                          *)
LEMMA BatchAlways == Spec => [](Typed /\ BatchInv)
BY TypedInit, TypedStep, BatchInit, BatchStep, PTL DEF Spec

(* Each call of a round is its last, or one of them.                       *)
LEMMA CallsGoDown ==
  ASSUME Typed, BatchInv, pc # "idle", Round \/ Failure
  PROVE  CallsLeft' < CallsLeft
<1>t. batch \in Seq(Cmd) /\ Len(batch) \in Nat
  BY DEF Typed, TypeOK, LocalTypeOK
<1>b. pc \in {"lookup", "intent", "send", "outcome"} => batch # <<>>
  BY DEF Typed, CurrentOK
<1>k. batch # <<>> => Len(batch) >= 1 /\ Len(Tail(batch)) = Len(batch) - 1
  BY <1>t
<1>f. ASSUME batch # <<>>, NEW r, Finish(r), pc \in {"take", "lookup", "intent", "outcome"}
      PROVE  CallsLeft' < CallsLeft
  BY <1>f, <1>t, <1>k DEF Finish, CallsLeft
<1>1. CASE TakeKnown \/ TakeUnaddressable
  BY <1>1, <1>t, <1>k DEF TakeKnown, TakeUnaddressable, CallsLeft
<1>2. CASE TakeMalformed \/ LookupObjects \/ LookupFails \/ IntentFails
             \/ OutcomeAppended \/ OutcomeFails
  BY <1>2, <1>b, <1>f DEF TakeMalformed, LookupObjects, LookupFails, IntentFails,
                          OutcomeAppended, OutcomeFails
<1>3. CASE TakeNew \/ LookupAgrees \/ IntentAppended
  BY <1>3, <1>t DEF TakeNew, LookupAgrees, IntentAppended, local, CallsLeft
<1>4. CASE SendPerformed \/ SendRefused \/ SendUnanswered
  BY <1>4, <1>t DEF SendPerformed, SendRefused, SendUnanswered, CallsLeft
<1>5. CASE EndBatch
  BY <1>5, <1>t DEF EndBatch, CallsLeft
<1>6. CASE Report \/ ReportFails
  BY <1>6 DEF Report, ReportFails, CallsLeft
<1>7. CASE TakeUnhashable \/ RoundAborted \/ Crash
  <2>1. CallsLeft > 0
    BY <1>t, <1>b, <1>k DEF CallsLeft, Typed, TypeOK, LocalTypeOK
  <2>2. CallsLeft' = 0
    BY <1>7 DEF TakeUnhashable, RoundAborted, Crash, CallsLeft
  <2> QED BY <2>1, <2>2
<1> QED
  BY <1>1, <1>2, <1>3, <1>4, <1>5, <1>6, <1>7 DEF Round, Execute, Failure, Poll, PollRepeats

(* A round of take_commands and report (gateway.py:2177-2215) always comes *)
(* to its end: five calls for each of at most MAX_COMMANDS decisions, and  *)
(* two more, whatever fails and whatever else goes on meanwhile.           *)
THEOREM RoundsAreBounded == Spec => []CallsBounded /\ RoundsEnd
<1>1. Typed /\ BatchInv => CallsBounded
  <2> SUFFICES ASSUME Typed, BatchInv PROVE CallsBounded
    OBVIOUS
  <2>1. /\ Len(batch) \in Nat /\ Len(batch) <= MaxCommands /\ MaxCommands \in Nat
        /\ pc \in {"lookup", "intent", "send", "outcome"} => Len(batch) >= 1
    BY DecisionsAssumption DEF Typed, TypeOK, LocalTypeOK, CurrentOK, BatchInv
  <2> QED BY <2>1 DEF CallsBounded, CallsLeft, Typed, TypeOK, LocalTypeOK
<1>2. Typed /\ BatchInv /\ [Next]_vars =>
        [pc # "idle" => /\ Round \/ Failure => CallsLeft' < CallsLeft
                        /\ ~(Round \/ Failure) => UNCHANGED <<pc, batch>>]_vars
  <2>1. World => UNCHANGED <<pc, batch>>
    BY DEF World, Tick, Submit, OrphanPerformed, EphorDecides, local
  <2> QED BY <2>1, CallsGoDown DEF Next
<1> QED BY <1>1, <1>2, BatchAlways, PTL DEF Spec, RoundsEnd

(* What is taken is answered, and what is answered is reported             *)
(* (gateway.py:2177-2215: each way through take_commands sets a result,    *)
(* and report keeps what Dash has not acknowledged), but for an id that    *)
(* raises: the commands it takes with it are still queued at Dash.         *)
THEOREM TakenIsReported == Spec => NothingIsDropped
<1> DEFINE A == faults' = faults =>
       /\ batch # <<>> /\ batch' # batch => Answered(cur) \/ Anonymous(cur) \/ Raised(cur)
       /\ \A c \in Cmd : unreported[c] # None =>
            unreported'[c] # None \/ unreported[c] \in told'[c]
<1>1. Typed /\ BatchInv /\ [Next]_vars => [A]_vars
  <2> SUFFICES ASSUME Typed, BatchInv, Next, faults' = faults
               PROVE  A
    BY DEF vars
  <2>t. /\ unreported \in [Cmd -> Results \cup {None}] /\ applied \in [Cmd -> Results \cup {None}]
        /\ told \in [Cmd -> SUBSET Results] /\ faults \in Nat /\ None \notin Results
    BY DEF Typed, TypeOK, MemoryTypeOK, DashTypeOK, LocalTypeOK, Results, None
  <2>b. batch # <<>> => cur \in Cmd
    BY CurrentType
  <2>c. pc \in {"lookup", "outcome"} => batch # <<>> /\ (pc = "outcome" => res \in Results)
    BY DEF Typed, CurrentOK, Replies, Results
  <2>f. ASSUME batch # <<>>, NEW r \in Results, Finish(r) PROVE A
    BY <2>f, <2>b, <2>t DEF Finish, Answered
  <2>u. ASSUME UNCHANGED <<batch, unreported>> PROVE A
    BY <2>u
  <2>1. CASE Poll
    <3>1. batch = <<>> /\ unreported' = unreported
      BY <2>1 DEF Poll, BatchInv, memory
    <3> QED BY <3>1
  <2>2. CASE TakeKnown
    BY <2>2, <2>b, <2>t DEF TakeKnown, Remembered, Answered
  <2>3. CASE TakeUnaddressable
    BY <2>3 DEF TakeUnaddressable, memory, Anonymous
  <2>11. CASE TakeUnhashable
    BY <2>11 DEF TakeUnhashable, memory, dash, Raised, BatchInv
  <2>4. CASE TakeMalformed
    BY <2>4, <2>f DEF TakeMalformed, Results
  <2>5. CASE LookupObjects
    <3>1. Objection(cur) \in Results
      BY <2>5 DEF LookupObjects, Objection, Results, None
    <3> QED BY <2>5, <2>c, <2>f, <3>1 DEF LookupObjects
  <2>6. CASE OutcomeAppended
    BY <2>6, <2>c, <2>f DEF OutcomeAppended
  <2>7. CASE TakeNew \/ LookupAgrees \/ IntentAppended \/ SendPerformed \/ SendRefused
               \/ EndBatch
    BY <2>7, <2>u DEF TakeNew, LookupAgrees, IntentAppended, SendPerformed, SendRefused,
                      EndBatch, local, memory
  <2>8. CASE Report
    BY <2>8, <2>t DEF Report, DashRecords, Acknowledge, Unreported, local
  <2>9. CASE World
    BY <2>9, <2>u DEF World, Tick, Submit, OrphanPerformed, EphorDecides, local, memory
  <2>10. Failure => SendRefused
    BY <2>t DEF Failure, Fault, PollRepeats, LookupFails, IntentFails, SendUnanswered,
                OutcomeFails, ReportFails, RoundAborted, Crash
  <2> QED
    BY <2>1, <2>2, <2>3, <2>4, <2>5, <2>6, <2>7, <2>8, <2>9, <2>10, <2>11
    DEF Next, Round, Execute
<1> QED BY <1>1, BatchAlways, PTL DEF Spec, NothingIsDropped
=============================================================================
