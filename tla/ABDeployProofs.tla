--------------------------- MODULE ABDeployProofs ---------------------------
(***************************************************************************)
(* For any images, any number of runs and any number of faults:            *)
(* ABDeploy's safety properties, from one inductive invariant.  The lock   *)
(* leaves one run at a time, so what that run read stays true until it     *)
(* acts on it; the rest says what is known at each step of the run.        *)
(***************************************************************************)
EXTENDS ABDeploy, TLAPS

(* recover found no record and is about to end.                            *)
Idles(r) == pc[r] = "finish" /\ mode[r] = "recover" /\ want[r] = NoImage

(* What a run knows at its step, beside holding the lock.                  *)
OnTrack(r) ==
  /\ lock = {r}
  /\ pc[r] \in {"seed", "arm", "keep", "promote"} => mode[r] = "activate"
  /\ pc[r] = "record" => mode[r] \in {"activate", "rollback"}
  /\ pc[r] = "disarm" => mode[r] = "revert"
  /\ \/ mode[r] = "activate" /\ pc[r] \notin {"seed", "record", "arm"}
     \/ mode[r] = "revert" /\ pc[r] \in {"pin", "disarm"}
     => armed[r] # NoImage
  /\ want[r] \in Image \/ Idles(r)
  /\ mode[r] # "activate" => want[r] \in verified \/ Idles(r)
  /\ pc[r] # "seed" /\ mode[r] \in {"activate", "revert", "rollback"} =>
       base[r] \in verified

(* What the files say at that step.                                        *)
FilesAt(r) ==
  /\ mode[r] # "trap" /\ pc[r] \notin {"seed", "record", "clear", "finish"} =>
       pending # NoImage
  /\ mode[r] # "trap" /\ mode[r] # "recover" /\ pc[r] \notin {"seed", "clear", "finish"} =>
       good = base[r]
  /\ mode[r] = "revert" => good = base[r] /\ want[r] = base[r]
  /\ pc[r] \in {"disarm", "restart", "verify", "keep", "promote", "clear", "finish"} =>
       pin = want[r] \/ Idles(r)
  /\ pc[r] \in {"keep", "promote", "clear", "finish"} =>
       (checked = pin /\ pin \in verified) \/ Idles(r)
  /\ pc[r] = "finish" => pending = NoImage

RunInv == \A r \in Run : /\ armed[r] \in verified \cup {NoImage}
                         /\ pc[r] # "idle" => OnTrack(r) /\ FilesAt(r)

IInv == TypeOK /\ BaselinesVerified /\ UnverifiedIsRecorded /\ RunInv

-----------------------------------------------------------------------------
(* No run has begun, and there is no B, no record and no earlier B.        *)
LEMMA InitHolds == Init => IInv
BY ABDeployAssumption
   DEF Init, IInv, TypeOK, BaselinesVerified, UnverifiedIsRecorded, RunInv, ImageOrNone,
       Modes, Steps

(* While one run has begun and not ended, every other one is idle.         *)
LEMMA OthersIdle ==
  ASSUME RunInv, NEW r \in Run, pc[r] # "idle"
  PROVE  lock = {r} /\ \A s \in Run : s # r => pc[s] = "idle"
BY DEF RunInv, OnTrack

(* What the three commands give Begin, and that a run may start with it.   *)
LEMMA BeginKeeps ==
  ASSUME IInv, NEW r \in Run, NEW m \in {"activate", "rollback", "recover"},
         NEW image \in Image, NEW old \in ImageOrNone, NEW step \in {"seed", "record", "pin"},
         Begin(r, m, image, old, step),
         step = "seed" => m = "activate",
         step = "record" => old \in verified /\ m # "recover",
         step = "pin" => m = "recover" /\ pending # NoImage,
         m # "activate" => image \in verified,
         step = "record" => good = old
  PROVE  IInv'
<1>1. \A s \in Run : pc[s] = "idle"
  BY DEF IInv, RunInv, OnTrack, Begin
<1>2. TypeOK'
  BY DEF IInv, TypeOK, ImageOrNone, Modes, Steps, Begin, Goto, files
<1>3. BaselinesVerified' /\ UnverifiedIsRecorded'
  BY DEF IInv, BaselinesVerified, UnverifiedIsRecorded, Begin, files
<1>4. RunInv'
  <2> SUFFICES ASSUME NEW s \in Run
               PROVE  (armed[s] \in verified \cup {NoImage}
                       /\ (pc[s] # "idle" => OnTrack(s) /\ FilesAt(s)))'
    BY DEF RunInv
  <2>1. armed'[s] \in verified' \cup {NoImage}
    BY DEF IInv, RunInv, Begin
  <2>2. CASE s # r
    BY <1>1, <2>1, <2>2 DEF IInv, TypeOK, Begin, Goto
  <2>3. CASE s = r
    BY <1>1, <2>1, <2>3 DEF IInv, TypeOK, Begin, Goto, OnTrack, FilesAt, files
  <2> QED BY <2>2, <2>3
<1> QED BY <1>2, <1>3, <1>4 DEF IInv

(* Without a record recover writes nothing.                                *)
LEMMA RecoverNothingKeeps ==
  ASSUME IInv, NEW r \in Run, RecoverNothing(r)
  PROVE  IInv'
<1> USE DEF RecoverNothing, Begin
<1>1. \A s \in Run : pc[s] = "idle"
  BY DEF IInv, RunInv, OnTrack
<1>2. TypeOK'
  BY DEF IInv, TypeOK, ImageOrNone, Modes, Steps, Goto, files
<1>3. BaselinesVerified' /\ UnverifiedIsRecorded'
  BY DEF IInv, BaselinesVerified, UnverifiedIsRecorded, files
<1>4. RunInv'
  BY <1>1 DEF IInv, TypeOK, RunInv, Goto, OnTrack, FilesAt, Idles, files
<1> QED BY <1>2, <1>3, <1>4 DEF IInv

(* activate, rollback and recover start from a file they have just read.   *)
LEMMA CommandKeeps ==
  ASSUME IInv, NEW r \in Run, Command(r)
  PROVE  IInv'
<1>1. ASSUME NEW image \in Image, Activate(r, image)
      PROVE  IInv'
  <2>1. CASE good = NoImage
    BY <1>1, <2>1, BeginKeeps DEF Activate, ImageOrNone
  <2>2. CASE good # NoImage
    BY <1>1, <2>2, BeginKeeps DEF Activate, ImageOrNone, IInv, TypeOK, BaselinesVerified
  <2> QED BY <2>1, <2>2
<1>2. CASE Rollback(r)
  <2>1. good \in verified /\ good \in Image
    BY <1>2, ABDeployAssumption DEF Rollback, IInv, TypeOK, BaselinesVerified
  <2> QED BY <1>2, <2>1, BeginKeeps DEF Rollback, ImageOrNone
<1>3. CASE Recover(r)
  <2>1. pending \in verified /\ pending \in Image /\ pending # NoImage
    BY <1>3, ABDeployAssumption DEF Recover, IInv, TypeOK, BaselinesVerified
  <2> QED BY <1>3, <2>1, BeginKeeps DEF Recover, ImageOrNone
<1> QED BY <1>1, <1>2, <1>3, RecoverNothingKeeps DEF Command

(* The seed has verified; if preflight refuses it, the run ends.           *)
LEMMA SeedGoodKeeps ==
  ASSUME IInv, NEW r \in Run, SeedGood(r)
  PROVE  IInv'
<1>1. TypeOK'
  BY ABDeployAssumption
  DEF IInv, TypeOK, ImageOrNone, Modes, Steps, SeedGood, Exit, At, Goto, Passes
<1>2. BaselinesVerified' /\ UnverifiedIsRecorded'
  BY ABDeployAssumption, OthersIdle
  DEF IInv, TypeOK, BaselinesVerified, UnverifiedIsRecorded, RunInv, OnTrack, FilesAt, Idles,
      ImageOrNone, SeedGood, Exit, At, Goto, Passes
<1>3. RunInv'
  BY ABDeployAssumption, OthersIdle
  DEF IInv, TypeOK, BaselinesVerified, RunInv, OnTrack, FilesAt, Idles, ImageOrNone,
      Modes, Steps, SeedGood, Exit, At, Goto, Passes
<1> QED BY <1>1, <1>2, <1>3 DEF IInv

(* Without a verified image to go back to, the run ends.                   *)
LEMMA SeedRefusedKeeps ==
  ASSUME IInv, NEW r \in Run, SeedRefused(r)
  PROVE  IInv'
<1>1. TypeOK'
  BY ABDeployAssumption
  DEF IInv, TypeOK, ImageOrNone, Modes, Steps, SeedRefused, Exit, At, Goto, Fault, Passes, files
<1>2. BaselinesVerified' /\ UnverifiedIsRecorded'
  BY ABDeployAssumption, OthersIdle
  DEF IInv, TypeOK, BaselinesVerified, UnverifiedIsRecorded, RunInv, OnTrack, FilesAt, Idles,
      ImageOrNone, SeedRefused, Exit, At, Goto, Fault, Passes, files
<1>3. RunInv'
  BY ABDeployAssumption, OthersIdle
  DEF IInv, TypeOK, BaselinesVerified, RunInv, OnTrack, FilesAt, Idles, ImageOrNone,
      Modes, Steps, SeedRefused, Exit, At, Goto, Fault, Passes, files
<1> QED BY <1>1, <1>2, <1>3 DEF IInv

(* What is recorded is the B of the run, which verified.                   *)
LEMMA RecordPendingKeeps ==
  ASSUME IInv, NEW r \in Run, RecordPending(r)
  PROVE  IInv'
<1>1. TypeOK'
  BY ABDeployAssumption
  DEF IInv, TypeOK, ImageOrNone, Modes, Steps, RecordPending, At, Goto, files, locals
<1>2. BaselinesVerified' /\ UnverifiedIsRecorded'
  BY ABDeployAssumption, OthersIdle
  DEF IInv, TypeOK, BaselinesVerified, UnverifiedIsRecorded, RunInv, OnTrack, FilesAt, Idles,
      ImageOrNone, RecordPending, At, Goto, files, locals
<1>3. RunInv'
  BY ABDeployAssumption, OthersIdle
  DEF IInv, TypeOK, BaselinesVerified, RunInv, OnTrack, FilesAt, Idles, ImageOrNone,
      Modes, Steps, RecordPending, At, Goto, files, locals
<1> QED BY <1>1, <1>2, <1>3 DEF IInv

(* The trap is given that B too.                                           *)
LEMMA ArmKeeps ==
  ASSUME IInv, NEW r \in Run, Arm(r)
  PROVE  IInv'
<1>1. TypeOK'
  BY ABDeployAssumption
  DEF IInv, TypeOK, ImageOrNone, Modes, Steps, Arm, At, Goto, files, locals
<1>2. BaselinesVerified' /\ UnverifiedIsRecorded'
  BY ABDeployAssumption, OthersIdle
  DEF IInv, TypeOK, BaselinesVerified, UnverifiedIsRecorded, RunInv, OnTrack, FilesAt, Idles,
      ImageOrNone, Arm, At, Goto, files, locals
<1>3. RunInv'
  BY ABDeployAssumption, OthersIdle
  DEF IInv, TypeOK, BaselinesVerified, RunInv, OnTrack, FilesAt, Idles, ImageOrNone,
      Modes, Steps, Arm, At, Goto, files, locals
<1> QED BY <1>1, <1>2, <1>3 DEF IInv

(* A candidate is pinned after the record; any other pin verified before.  *)
LEMMA WritePinKeeps ==
  ASSUME IInv, NEW r \in Run, WritePin(r)
  PROVE  IInv'
<1>1. TypeOK'
  BY ABDeployAssumption
  DEF IInv, TypeOK, RunInv, OnTrack, Idles, ImageOrNone, Modes, Steps, WritePin, At, Goto, files, locals
<1>2. BaselinesVerified' /\ UnverifiedIsRecorded'
  BY ABDeployAssumption, OthersIdle
  DEF IInv, TypeOK, BaselinesVerified, UnverifiedIsRecorded, RunInv, OnTrack, FilesAt, Idles,
      ImageOrNone, WritePin, At, Goto, files, locals
<1>3. RunInv'
  BY ABDeployAssumption, OthersIdle
  DEF IInv, TypeOK, BaselinesVerified, RunInv, OnTrack, FilesAt, Idles, ImageOrNone,
      Modes, Steps, WritePin, At, Goto, files, locals
<1> QED BY <1>1, <1>2, <1>3 DEF IInv

(* The trap is off only when B is pinned.                                  *)
LEMMA DisarmKeeps ==
  ASSUME IInv, NEW r \in Run, Disarm(r)
  PROVE  IInv'
<1>1. TypeOK'
  BY ABDeployAssumption
  DEF IInv, TypeOK, ImageOrNone, Modes, Steps, Disarm, At, Goto, files, locals
<1>2. BaselinesVerified' /\ UnverifiedIsRecorded'
  BY ABDeployAssumption, OthersIdle
  DEF IInv, TypeOK, BaselinesVerified, UnverifiedIsRecorded, RunInv, OnTrack, FilesAt, Idles,
      ImageOrNone, Disarm, At, Goto, files, locals
<1>3. RunInv'
  BY ABDeployAssumption, OthersIdle
  DEF IInv, TypeOK, BaselinesVerified, RunInv, OnTrack, FilesAt, Idles, ImageOrNone,
      Modes, Steps, Disarm, At, Goto, files, locals
<1> QED BY <1>1, <1>2, <1>3 DEF IInv

(* A restart changes no file.                                              *)
LEMMA RestartKeeps ==
  ASSUME IInv, NEW r \in Run, Restart(r)
  PROVE  IInv'
<1>1. TypeOK'
  BY ABDeployAssumption
  DEF IInv, TypeOK, ImageOrNone, Modes, Steps, Restart, At, Goto, files, locals
<1>2. BaselinesVerified' /\ UnverifiedIsRecorded'
  BY ABDeployAssumption, OthersIdle
  DEF IInv, TypeOK, BaselinesVerified, UnverifiedIsRecorded, RunInv, OnTrack, FilesAt, Idles,
      ImageOrNone, Restart, At, Goto, files, locals
<1>3. RunInv'
  BY ABDeployAssumption, OthersIdle
  DEF IInv, TypeOK, BaselinesVerified, RunInv, OnTrack, FilesAt, Idles, ImageOrNone,
      Modes, Steps, Restart, At, Goto, files, locals
<1> QED BY <1>1, <1>2, <1>3 DEF IInv

(* A failed restart turns an activation into a revert to B.                *)
LEMMA RestartFailsKeeps ==
  ASSUME IInv, NEW r \in Run, RestartFails(r)
  PROVE  IInv'
<1>1. TypeOK'
  BY ABDeployAssumption
  DEF IInv, TypeOK, ImageOrNone, Modes, Steps, RestartFails, Fails, Exit, At, Goto, Fault, files, locals
<1>2. BaselinesVerified' /\ UnverifiedIsRecorded'
  BY ABDeployAssumption, OthersIdle
  DEF IInv, TypeOK, BaselinesVerified, UnverifiedIsRecorded, RunInv, OnTrack, FilesAt, Idles,
      ImageOrNone, RestartFails, Fails, Exit, At, Goto, Fault, files, locals
<1>3. RunInv'
  BY ABDeployAssumption, OthersIdle
  DEF IInv, TypeOK, BaselinesVerified, RunInv, OnTrack, FilesAt, Idles, ImageOrNone,
      Modes, Steps, RestartFails, Fails, Exit, At, Goto, Fault, files, locals
<1> QED BY <1>1, <1>2, <1>3 DEF IInv

(* What verified is the pin that the run wrote.                            *)
LEMMA VerifyPassesKeeps ==
  ASSUME IInv, NEW r \in Run, VerifyPasses(r)
  PROVE  IInv'
<1>1. TypeOK'
  BY ABDeployAssumption
  DEF IInv, TypeOK, ImageOrNone, Modes, Steps, VerifyPasses, At, Goto, Passes, files, locals
<1>2. BaselinesVerified' /\ UnverifiedIsRecorded'
  BY ABDeployAssumption, OthersIdle
  DEF IInv, TypeOK, BaselinesVerified, UnverifiedIsRecorded, RunInv, OnTrack, FilesAt, Idles,
      ImageOrNone, VerifyPasses, At, Goto, Passes, files, locals
<1>3. RunInv'
  BY ABDeployAssumption, OthersIdle
  DEF IInv, TypeOK, BaselinesVerified, RunInv, OnTrack, FilesAt, Idles, ImageOrNone,
      Modes, Steps, VerifyPasses, At, Goto, Passes, files, locals
<1> QED BY <1>1, <1>2, <1>3 DEF IInv

(* A failed verification turns an activation into a revert to B.           *)
LEMMA VerifyFailsKeeps ==
  ASSUME IInv, NEW r \in Run, VerifyFails(r)
  PROVE  IInv'
<1>1. TypeOK'
  BY ABDeployAssumption
  DEF IInv, TypeOK, ImageOrNone, Modes, Steps, VerifyFails, Fails, Exit, At, Goto, Fault, Passes, files
<1>2. BaselinesVerified' /\ UnverifiedIsRecorded'
  BY ABDeployAssumption, OthersIdle
  DEF IInv, TypeOK, BaselinesVerified, UnverifiedIsRecorded, RunInv, OnTrack, FilesAt, Idles,
      ImageOrNone, VerifyFails, Fails, Exit, At, Goto, Fault, Passes, files
<1>3. RunInv'
  BY ABDeployAssumption, OthersIdle
  DEF IInv, TypeOK, BaselinesVerified, RunInv, OnTrack, FilesAt, Idles, ImageOrNone,
      Modes, Steps, VerifyFails, Fails, Exit, At, Goto, Fault, Passes, files
<1> QED BY <1>1, <1>2, <1>3 DEF IInv

(* The earlier B verified when it became B.                                *)
LEMMA KeepPreviousKeeps ==
  ASSUME IInv, NEW r \in Run, KeepPrevious(r)
  PROVE  IInv'
<1>1. TypeOK'
  BY ABDeployAssumption
  DEF IInv, TypeOK, ImageOrNone, Modes, Steps, KeepPrevious, At, Goto, files, locals
<1>2. BaselinesVerified' /\ UnverifiedIsRecorded'
  BY ABDeployAssumption, OthersIdle
  DEF IInv, TypeOK, BaselinesVerified, UnverifiedIsRecorded, RunInv, OnTrack, FilesAt, Idles,
      ImageOrNone, KeepPrevious, At, Goto, files, locals
<1>3. RunInv'
  BY ABDeployAssumption, OthersIdle
  DEF IInv, TypeOK, BaselinesVerified, RunInv, OnTrack, FilesAt, Idles, ImageOrNone,
      Modes, Steps, KeepPrevious, At, Goto, files, locals
<1> QED BY <1>1, <1>2, <1>3 DEF IInv

(* The new B is the pin that verified in this run.                         *)
LEMMA PromoteKeeps ==
  ASSUME IInv, NEW r \in Run, Promote(r)
  PROVE  IInv'
<1>1. TypeOK'
  BY ABDeployAssumption
  DEF IInv, TypeOK, ImageOrNone, Modes, Steps, Promote, At, Goto, files, locals
<1>2. BaselinesVerified' /\ UnverifiedIsRecorded'
  BY ABDeployAssumption, OthersIdle
  DEF IInv, TypeOK, BaselinesVerified, UnverifiedIsRecorded, RunInv, OnTrack, FilesAt, Idles,
      ImageOrNone, Promote, At, Goto, files, locals
<1>3. RunInv'
  BY ABDeployAssumption, OthersIdle
  DEF IInv, TypeOK, BaselinesVerified, RunInv, OnTrack, FilesAt, Idles, ImageOrNone,
      Modes, Steps, Promote, At, Goto, files, locals
<1> QED BY <1>1, <1>2, <1>3 DEF IInv

(* The pin has verified, so nothing has to be announced.                   *)
LEMMA ClearPendingKeeps ==
  ASSUME IInv, NEW r \in Run, ClearPending(r)
  PROVE  IInv'
<1>1. TypeOK'
  BY ABDeployAssumption
  DEF IInv, TypeOK, ImageOrNone, Modes, Steps, ClearPending, At, Goto, files, locals
<1>2. BaselinesVerified' /\ UnverifiedIsRecorded'
  BY ABDeployAssumption, OthersIdle
  DEF IInv, TypeOK, BaselinesVerified, UnverifiedIsRecorded, RunInv, OnTrack, FilesAt, Idles,
      ImageOrNone, ClearPending, At, Goto, files, locals
<1>3. RunInv'
  BY ABDeployAssumption, OthersIdle
  DEF IInv, TypeOK, BaselinesVerified, RunInv, OnTrack, FilesAt, Idles, ImageOrNone,
      Modes, Steps, ClearPending, At, Goto, files, locals
<1> QED BY <1>1, <1>2, <1>3 DEF IInv

(* The end of a run frees the lock and changes no file.                    *)
LEMMA FinishKeeps ==
  ASSUME IInv, NEW r \in Run, Finish(r)
  PROVE  IInv'
<1>1. TypeOK'
  BY ABDeployAssumption
  DEF IInv, TypeOK, ImageOrNone, Modes, Steps, Finish, Exit, At, Goto, files
<1>2. BaselinesVerified' /\ UnverifiedIsRecorded'
  BY ABDeployAssumption, OthersIdle
  DEF IInv, TypeOK, BaselinesVerified, UnverifiedIsRecorded, RunInv, OnTrack, FilesAt, Idles,
      ImageOrNone, Finish, Exit, At, Goto, files
<1>3. RunInv'
  BY ABDeployAssumption, OthersIdle
  DEF IInv, TypeOK, BaselinesVerified, RunInv, OnTrack, FilesAt, Idles, ImageOrNone,
      Modes, Steps, Finish, Exit, At, Goto, files
<1> QED BY <1>1, <1>2, <1>3 DEF IInv

(* The trap goes back to an image that verified.                           *)
LEMMA TrappedKeeps ==
  ASSUME IInv, NEW r \in Run, ~At(r, "idle"), NEW rc \in {1, 130, 143}, Trapped(r, rc), Fault,
         UNCHANGED <<files, running>>,
         \/ UNCHANGED <<checked, verified>>
         \/ pc[r] = "seed" /\ checked' = pin /\ verified' = verified \cup {pin}
  PROVE  IInv'
<1>1. TypeOK'
  BY ABDeployAssumption
  DEF IInv, TypeOK, ImageOrNone, Modes, Steps, Trapped, Exit, At, Goto, Fault, files
<1>2. BaselinesVerified' /\ UnverifiedIsRecorded'
  BY ABDeployAssumption, OthersIdle
  DEF IInv, TypeOK, BaselinesVerified, UnverifiedIsRecorded, ImageOrNone, files
<1>3. RunInv'
  <2> SUFFICES ASSUME NEW s \in Run
               PROVE  (armed[s] \in verified \cup {NoImage}
                       /\ (pc[s] # "idle" => OnTrack(s) /\ FilesAt(s)))'
    BY DEF RunInv
  <2>1. armed'[s] \in verified' \cup {NoImage}
    BY DEF IInv, TypeOK, RunInv, Trapped, Exit
  <2>2. CASE s # r
    BY <2>1, <2>2, OthersIdle DEF IInv, TypeOK, Trapped, Exit, At, Goto
  <2>3. CASE s = r
    BY <2>1, <2>3, OthersIdle
    DEF IInv, TypeOK, ImageOrNone, RunInv, OnTrack, FilesAt, Idles, Trapped, Exit, At, Goto, files
  <2> QED BY <2>2, <2>3
<1> QED BY <1>1, <1>2, <1>3 DEF IInv

(* A signal, or a command that fails, leaves the files as they are.        *)
LEMMA InterruptKeeps ==
  ASSUME IInv, NEW r \in Run, Interrupt(r) \/ CommandFails(r)
  PROVE  IInv'
<1>1. CASE Interrupt(r)
  BY <1>1, TrappedKeeps DEF Interrupt
<1>2. CASE CommandFails(r)
  <2>1. ~At(r, "idle")
    BY <1>2 DEF CommandFails, At
  <2> QED BY <1>2, <2>1, TrappedKeeps DEF CommandFails, At
<1> QED BY <1>1, <1>2

(* So does a run that is killed, or that fails in its trap.                *)
LEMMA KillKeeps ==
  ASSUME IInv, NEW r \in Run, Kill(r) \/ TrapFails(r)
  PROVE  IInv'
<1>1. TypeOK'
  BY ABDeployAssumption
  DEF IInv, TypeOK, ImageOrNone, Modes, Steps, Kill, TrapFails, Exit, At, Goto, Fault, files
<1>2. BaselinesVerified' /\ UnverifiedIsRecorded'
  BY ABDeployAssumption, OthersIdle
  DEF IInv, TypeOK, BaselinesVerified, UnverifiedIsRecorded, RunInv, OnTrack, FilesAt, Idles,
      ImageOrNone, Kill, TrapFails, Exit, At, Goto, Fault, files
<1>3. RunInv'
  BY ABDeployAssumption, OthersIdle
  DEF IInv, TypeOK, BaselinesVerified, RunInv, OnTrack, FilesAt, Idles, ImageOrNone,
      Modes, Steps, Kill, TrapFails, Exit, At, Goto, Fault, files
<1> QED BY <1>1, <1>2, <1>3 DEF IInv

(* No run is left, and no file changed.                                    *)
LEMMA PowerLossKeeps ==
  ASSUME IInv, PowerLoss
  PROVE  IInv'
<1>1. TypeOK'
  BY DEF IInv, TypeOK, ImageOrNone, Modes, Steps, PowerLoss, Fault, files
<1>2. BaselinesVerified' /\ UnverifiedIsRecorded'
  BY DEF IInv, BaselinesVerified, UnverifiedIsRecorded, PowerLoss, files
<1>3. RunInv'
  BY DEF RunInv, PowerLoss
<1> QED BY <1>1, <1>2, <1>3 DEF IInv

(* systemd changes no file, and a stuttering step changes nothing.         *)
LEMMA RespawnKeeps ==
  ASSUME IInv, Respawn \/ UNCHANGED vars
  PROVE  IInv'
BY DEF IInv, TypeOK, ImageOrNone, BaselinesVerified, UnverifiedIsRecorded, RunInv, OnTrack,
       FilesAt, Idles, Respawn, files, locals, vars

(* Every step of the system keeps the invariant.                           *)
LEMMA StepKeeps ==
  ASSUME IInv, [Next]_vars
  PROVE  IInv'
<1>1. ASSUME NEW r \in Run, Step(r)
      PROVE  IInv'
  BY <1>1, SeedGoodKeeps, SeedRefusedKeeps, RecordPendingKeeps, ArmKeeps, WritePinKeeps,
     DisarmKeeps, RestartKeeps, RestartFailsKeeps, VerifyPassesKeeps, VerifyFailsKeeps,
     KeepPreviousKeeps, PromoteKeeps, ClearPendingKeeps, FinishKeeps DEF Step
<1>2. ASSUME NEW r \in Run, Command(r) \/ Break(r)
      PROVE  IInv'
  BY <1>2, CommandKeeps, InterruptKeeps, KillKeeps DEF Break
<1> QED BY <1>1, <1>2, PowerLossKeeps, RespawnKeeps DEF Next

(* Every state a deployment can be in satisfies the inductive invariant.   *)
THEOREM Inductive == Spec => []IInv
<1>1. Init => IInv
  BY InitHolds
<1>2. IInv /\ [Next]_vars => IInv'
  BY StepKeeps
<1> QED BY <1>1, <1>2, PTL DEF Spec

-----------------------------------------------------------------------------
(* The variables of the script range over images, steps and exit codes.    *)
THEOREM TypeCorrect == Spec => []TypeOK
<1>1. IInv => TypeOK
  BY DEF IInv
<1> QED BY <1>1, Inductive, PTL

(* "B, the last verified-good image, written only after a verification     *)
(* passes" (rebekah-ab:4): every image kept to go back to once verified.   *)
THEOREM BaselinesAreGood == Spec => []BaselinesVerified
<1>1. IInv => BaselinesVerified
  BY DEF IInv
<1> QED BY <1>1, Inductive, PTL

(* Once there is a B, the script can be killed anywhere: a pin that never  *)
(* verified has a pending record beside it (record_pending, line 225,      *)
(* comes before write_pin, line 228).                                      *)
THEOREM CrashesAreRecorded == Spec => []UnverifiedIsRecorded
<1>1. IInv => UnverifiedIsRecorded
  BY DEF IInv
<1> QED BY <1>1, Inductive, PTL

(* Only "rm -f pending" (lines 240, 257, 278, 310, 331) clears the record, *)
(* and each of them follows a verification of the pin that is in force.    *)
LEMMA StepClearsVerified ==
  ASSUME IInv, [Next]_vars, pending # NoImage, pending' = NoImage
  PROVE  checked = pin
<1>1. PICK r \in Run : Command(r) \/ Step(r) \/ Break(r)
  BY DEF Next, PowerLoss, Respawn, files, vars
<1>2. CASE RecordPending(r)
  BY <1>2, ABDeployAssumption
  DEF RecordPending, At, IInv, TypeOK, RunInv, OnTrack
<1>3. CASE ClearPending(r)
  BY <1>3 DEF ClearPending, At, IInv, RunInv, FilesAt, Idles
<1> QED
  BY <1>1, <1>2, <1>3
  DEF Command, Activate, Rollback, Recover, RecoverNothing, Begin, Step, SeedGood,
      SeedRefused, Arm, WritePin, Disarm, Restart, RestartFails, VerifyPasses, VerifyFails,
      KeepPrevious, Promote, Finish, Break, Interrupt, CommandFails, TrapFails, Kill, files

(* The record goes last, after the pin in force has been verified ("only   *)
(* clears the record after successful verification", README.md).           *)
THEOREM RecordClearedLast == Spec => ClearedOnlyVerified
<1>1. IInv /\ [Next]_vars =>
        [pending # NoImage /\ pending' = NoImage => checked = pin]_vars
  BY StepClearsVerified
<1> QED BY <1>1, Inductive, PTL DEF Spec, ClearedOnlyVerified

(* While a run goes on, every step is its own, but for the loss of power   *)
(* and what systemd does.                                                  *)
LEMMA ActsAlone ==
  ASSUME Next, NEW r \in Run, pc[r] # "idle", ~PowerLoss, ~Respawn,
         lock = {r}, \A s \in Run : s # r => pc[s] = "idle"
  PROVE  Step(r) \/ Break(r)
BY DEF Next, Command, Activate, Rollback, Recover, RecoverNothing, Begin, Step, At, SeedGood,
       SeedRefused, RecordPending, Arm, WritePin, Disarm, Restart, RestartFails,
       VerifyPasses, VerifyFails, KeepPrevious, Promote, ClearPending, Finish, Break,
       Interrupt, CommandFails, TrapFails, Kill

(* A run that ends with 0 or 1 ends in its last step, after the record was *)
(* cleared, or in a command that failed: then the record is still there,   *)
(* or it could be missing because the pin had passed verification.         *)
LEMMA StepExitsTruly ==
  ASSUME IInv, [Next]_vars, NEW r \in Run, Ends(r)
  PROVE  /\ code'[r] = 0 => Settled(r) \/ FoundNothing(r)
         /\ code'[r] = 1 => Settled(r) \/ BrokeOff(r)
         /\ code'[r] = 1 /\ mode[r] = "revert" => pin = good
<1>1. OnTrack(r) /\ FilesAt(r) /\ \A s \in Run : s # r => pc[s] = "idle"
  BY OthersIdle DEF IInv, RunInv, Ends
<1>2. CASE PowerLoss
  BY <1>2 DEF PowerLoss, Ends
<1>3. ASSUME ~PowerLoss
      PROVE  Step(r) \/ Break(r)
  BY <1>1, <1>3, ActsAlone DEF Ends, OnTrack, Respawn, vars
<1>4. CASE Finish(r)
  BY <1>1, <1>4
  DEF Finish, Exit, At, IInv, TypeOK, FilesAt, Idles, Settled, FoundNothing, Ends
<1>5. CASE CommandFails(r)
  <2>1. code'[r] = 1 /\ armed[r] = NoImage
    BY <1>5 DEF CommandFails, Trapped, Exit, Goto, IInv, TypeOK, Ends
  <2>2. pc[r] \in {"seed", "record", "pin", "keep", "promote", "clear"} /\ mode[r] # "trap"
    BY <1>5 DEF CommandFails
  <2>3. pending # NoImage \/ pin \in verified'
    <3>1. CASE pc[r] = "seed"
      BY <1>5, <3>1 DEF CommandFails, At
    <3>2. CASE pc[r] = "record"
      <4>1. base[r] \in verified /\ good = base[r]
        BY <1>1, <3>2 DEF OnTrack, FilesAt
      <4>2. good # NoImage
        BY <4>1, ABDeployAssumption DEF IInv, TypeOK
      <4> QED BY <1>5, <3>2, <4>2 DEF CommandFails, At, IInv, UnverifiedIsRecorded
    <3>3. CASE pc[r] \in {"pin", "keep", "promote"}
      BY <1>1, <2>2, <3>3 DEF FilesAt
    <3>4. CASE pc[r] = "clear"
      BY <1>1, <1>5, <3>4 DEF CommandFails, At, FilesAt, Idles
    <3> QED BY <2>2, <3>1, <3>2, <3>3, <3>4
  <2>4. mode[r] = "revert" => pin = good
    BY <1>1, <2>1, <2>2 DEF OnTrack, FilesAt, Idles
  <2> QED BY <1>5, <2>1, <2>3, <2>4 DEF BrokeOff
<1>6. CASE TrapFails(r)
  BY <1>1, <1>6
  DEF TrapFails, At, Exit, Goto, FilesAt, Idles, BrokeOff, Fault, IInv, TypeOK, Ends
<1>7. CASE Interrupt(r) \/ Kill(r)
  BY <1>7 DEF Interrupt, Trapped, Kill, Exit, Goto, IInv, TypeOK, Ends
<1> QED
  BY <1>2, <1>3, <1>4, <1>5, <1>6, <1>7
  DEF IInv, TypeOK, Ends, Step, Break, At, Goto, Exit, Fails, SeedGood, SeedRefused,
      RecordPending, Arm, WritePin, Disarm, Restart, RestartFails, VerifyPasses,
      VerifyFails, KeepPrevious, Promote, ClearPending

(* What the exit status of a run says of the pin and of the record is true *)
(* when the run ends: 0 and 1 as in deploy/podman/README.md, and a 1 that  *)
(* only comes from a command that failed leaves the record, or a pin that  *)
(* had passed verification.                                                *)
THEOREM ExitCodesAreTrue == Spec => ExitTellsTruth
<1>1. IInv /\ [Next]_vars =>
        [\A r \in Run : Ends(r) =>
           /\ code'[r] = 0 => Settled(r) \/ FoundNothing(r)
           /\ code'[r] = 1 => Settled(r) \/ BrokeOff(r)
           /\ code'[r] = 1 /\ mode[r] = "revert" => pin = good]_vars
  BY StepExitsTruly
<1> QED BY <1>1, Inductive, PTL DEF Spec, ExitTellsTruth

-----------------------------------------------------------------------------
(* A deployment that was interrupted gets settled.  EventuallySettled also *)
(* rests on the fairness of the script and of the operator, and on faults  *)
(* that come to an end; what follows is the rest of its argument, for all  *)
(* values of the constants: recover is not refused, it does what it says   *)
(* unless something fails again, and no run goes on for ever.              *)

(* Only images that preflight accepts and that work are ever recorded.     *)
Ahead(r) ==
  /\ r \in lock <=> pc[r] # "idle"
  /\ pc[r] \notin {"idle", "seed"} /\ mode[r] \in {"activate", "revert", "rollback"} =>
       base[r] \in Loaded
  /\ pc[r] = "verify" /\ mode[r] \in {"recover", "trap"} => running = pin

AheadInv ==
  /\ verified \subseteq Works
  /\ pending \in Loaded \cup {NoImage}
  /\ \A r \in Run : Ahead(r)

(* With a record and no run, nothing keeps recover from starting, and the  *)
(* image it goes back to is one that works.                                *)
RecoverReady ==
  pending # NoImage /\ Active = {} => lock = {} /\ pending \in Loaded \cap Works

(* recover and the EXIT trap end with the pin in force verified and the    *)
(* record gone, unless they fail or are interrupted themselves.            *)
RestoreWorks ==
  [][\A r \in Run : Ends(r) /\ mode[r] \in {"recover", "trap"} =>
       \/ faults' = faults + 1
       \/ /\ Settled(r) \/ FoundNothing(r)
          /\ code'[r] = IF mode[r] = "recover" THEN 0 ELSE code[r]]_vars

(* How many steps a run has before it at most: those of its procedure, and *)
(* of the procedures that can take over from that one.                     *)
StepsFrom(step) ==
  CASE step = "finish" -> 1 [] step = "clear" -> 2 [] step = "promote" -> 3
    [] step = "keep" -> 4 [] step = "verify" -> 5 [] step = "restart" -> 6
    [] step = "disarm" -> 7 [] step = "pin" -> 8 [] step = "arm" -> 9
    [] step = "record" -> 10 [] OTHER -> 11
TakenOver(m) == CASE m = "activate" -> 16 [] m = "trap" -> 0 [] OTHER -> 8
Left(r) == IF pc[r] = "idle" THEN 0 ELSE StepsFrom(pc[r]) + TakenOver(mode[r])

(* Every step of the system brings the run nearer to its end, but for      *)
(* systemd's, which replaces the container.                                *)
NearerTheEnd == [][\A r \in Active : Left(r)' < Left(r) \/ Respawn]_vars
RunsBounded == \A r \in Run : Left(r) \in 0 .. 27

(* Nothing is recorded at the start.                                       *)
LEMMA AheadAtFirst == Init => AheadInv
BY DEF Init, AheadInv, Ahead

(* activate and rollback start with a B that preflight accepts.            *)
LEMMA CommandKeepsAhead ==
  ASSUME IInv, AheadInv, NEW r \in Run, Command(r)
  PROVE  AheadInv'
<1> USE DEF IInv, TypeOK, AheadInv, Ahead, Begin, At, Goto, files
<1>1. ASSUME NEW image \in Image, Activate(r, image) PROVE AheadInv'
  BY <1>1 DEF Activate
<1>2. CASE Rollback(r)
  BY <1>2 DEF Rollback
<1>3. CASE Recover(r)
  BY <1>3 DEF Recover
<1>4. CASE RecoverNothing(r)
  BY <1>4 DEF RecoverNothing
<1> QED
  BY <1>1, <1>2, <1>3, <1>4 DEF Command

(* Only a verification adds to the verified, and only record_pending to    *)
(* the record: the B of the run, which was accepted when the run began.    *)
LEMMA StepKeepsAhead ==
  ASSUME IInv, AheadInv, NEW r \in Run, Step(r)
  PROVE  AheadInv'
<1>1. pc[r] # "idle"
  BY DEF Step, SeedGood, SeedRefused, RecordPending, Arm, WritePin, Disarm, Restart,
         RestartFails, VerifyPasses, VerifyFails, KeepPrevious, Promote, ClearPending,
         Finish, At
<1>2. lock = {r} /\ (\A q \in Run : q # r => pc[q] = "idle") /\ OnTrack(r) /\ FilesAt(r)
  BY <1>1, OthersIdle DEF IInv, RunInv
<1> USE <1>1, <1>2 DEF IInv, TypeOK, AheadInv, Ahead, OnTrack, FilesAt, Idles, At, Goto, files,
                       locals
<1>3. CASE SeedGood(r)
  BY <1>3 DEF SeedGood, Exit, Passes
<1>4. CASE SeedRefused(r)
  BY <1>4 DEF SeedRefused, Exit
<1>5. CASE RecordPending(r)
  BY <1>5 DEF RecordPending
<1>6. CASE Arm(r)
  BY <1>6 DEF Arm
<1>7. CASE WritePin(r)
  BY <1>7 DEF WritePin
<1>8. CASE Disarm(r)
  BY <1>8 DEF Disarm
<1>9. CASE Restart(r)
  BY <1>9 DEF Restart
<1>10. CASE RestartFails(r)
  BY <1>10 DEF RestartFails, Fails, Exit
<1>11. CASE VerifyPasses(r)
  BY <1>11 DEF VerifyPasses, Passes
<1>12. CASE VerifyFails(r)
  BY <1>12 DEF VerifyFails, Fails, Exit
<1>13. CASE KeepPrevious(r)
  BY <1>13 DEF KeepPrevious
<1>14. CASE Promote(r)
  BY <1>14 DEF Promote
<1>15. CASE ClearPending(r)
  BY <1>15 DEF ClearPending
<1>16. CASE Finish(r)
  BY <1>16 DEF Finish, Exit
<1> QED
  BY <1>3, <1>4, <1>5, <1>6, <1>7, <1>8, <1>9, <1>10, <1>11, <1>12,
     <1>13, <1>14, <1>15, <1>16 DEF Step

(* A run that is interrupted or killed, or whose command fails, writes     *)
(* nothing, and systemd starts what is pinned.                             *)
LEMMA BreaksKeepAhead ==
  ASSUME IInv, AheadInv,
         (\E r \in Run : Break(r)) \/ PowerLoss \/ Respawn \/ UNCHANGED vars
  PROVE  AheadInv'
<1> USE DEF IInv, TypeOK, AheadInv, Ahead, files, locals
<1>1. ASSUME NEW r \in Run, Interrupt(r) PROVE AheadInv'
  BY <1>1 DEF Interrupt, Trapped, Exit, Goto, At
<1>2. ASSUME NEW r \in Run, Kill(r) \/ TrapFails(r) PROVE AheadInv'
  BY <1>2 DEF Kill, TrapFails, Exit, Goto, At
<1>6. ASSUME NEW r \in Run, CommandFails(r) PROVE AheadInv'
  BY <1>6 DEF CommandFails, Trapped, Passes, Exit, Goto, At
<1>3. CASE PowerLoss
  BY <1>3 DEF PowerLoss
<1>4. CASE Respawn
  BY <1>4 DEF Respawn
<1>5. CASE UNCHANGED vars
  BY <1>5 DEF vars
<1> QED
  BY <1>1, <1>2, <1>3, <1>4, <1>5, <1>6 DEF Break

(* The two invariants together.                                            *)
LEMMA BothInvariants == Spec => [](IInv /\ AheadInv)
<1>1. IInv /\ AheadInv /\ [Next]_vars => AheadInv'
  BY CommandKeepsAhead, StepKeepsAhead, BreaksKeepAhead DEF Next
<1> QED
  BY AheadAtFirst, <1>1, Inductive, PTL DEF Spec

(* "A pending rollback record survives an interrupted deployment", and     *)
(* recover (rebekah-ab:325) can always take it up: while the images that   *)
(* preflight accepted stay loaded, it is refused neither by the lock nor   *)
(* by preflight, and the image works.                                      *)
THEOREM RecoverNeverRefused == Spec => []RecoverReady
<1>1. IInv /\ AheadInv => RecoverReady
  BY DEF IInv, TypeOK, AheadInv, Ahead, BaselinesVerified, RecoverReady, Active
<1> QED
  BY <1>1, BothInvariants, PTL

(* A run ends by its last step or by a failure; verify sees the image that *)
(* was pinned, since nothing but the script's own restart and systemd's    *)
(* start one.                                                              *)
LEMMA RestoreEnds ==
  ASSUME IInv, AheadInv, [Next]_vars, NEW r \in Run,
         Ends(r), mode[r] \in {"recover", "trap"}
  PROVE  \/ faults' = faults + 1
         \/ /\ Settled(r) \/ FoundNothing(r)
            /\ code'[r] = IF mode[r] = "recover" THEN 0 ELSE code[r]
<1>1. OnTrack(r) /\ FilesAt(r) /\ Ahead(r) /\ \A s \in Run : s # r => pc[s] = "idle"
  BY OthersIdle DEF IInv, RunInv, AheadInv, Ends
<1>2. CASE PowerLoss
  BY <1>2 DEF PowerLoss, Fault
<1>3. ASSUME ~PowerLoss
      PROVE  Step(r) \/ Break(r)
  BY <1>1, <1>3, ActsAlone DEF Ends, OnTrack, Respawn, vars
<1>4. CASE Break(r) \/ RestartFails(r)
  BY <1>4 DEF Break, Interrupt, CommandFails, TrapFails, Kill, RestartFails, Fault
<1>5. CASE VerifyFails(r)
  <2>1. Passes(want[r])
    BY <1>1, <1>5
    DEF VerifyFails, At, Passes, OnTrack, FilesAt, Idles, Ahead, AheadInv
  <2> QED
    BY <1>5, <2>1 DEF VerifyFails, Fault
<1>6. CASE Finish(r)
  BY <1>1, <1>6 DEF Finish, Exit, At, FilesAt, Idles, Settled, FoundNothing, IInv, TypeOK
<1> QED
  BY <1>1, <1>2, <1>3, <1>4, <1>5, <1>6
  DEF IInv, TypeOK, OnTrack, Ends, Step, At, Goto, SeedGood, SeedRefused, RecordPending,
      Arm, WritePin, Disarm, Restart, VerifyPasses, KeepPrevious, Promote, ClearPending

(* recover and the trap settle the deployment (rebekah-ab:325 and the trap *)
(* at line 302): a run of theirs that ends without a failure of its own    *)
(* leaves the restored pin verified and the record removed; the trap keeps *)
(* the status that it was entered with.                                    *)
THEOREM RestoresSettle == Spec => RestoreWorks
<1>1. IInv /\ AheadInv /\ [Next]_vars =>
        [\A r \in Run : Ends(r) /\ mode[r] \in {"recover", "trap"} =>
           \/ faults' = faults + 1
           \/ /\ Settled(r) \/ FoundNothing(r)
              /\ code'[r] = IF mode[r] = "recover" THEN 0 ELSE code[r]]_vars
  BY RestoreEnds
<1> QED
  BY <1>1, BothInvariants, PTL DEF Spec, RestoreWorks

(* A step goes to a later step of its procedure, or to another procedure   *)
(* that cannot come back.                                                  *)
LEMMA StepsComeNearer ==
  ASSUME IInv, NEW r \in Active, Step(r) \/ Break(r) \/ PowerLoss
  PROVE  Left(r)' < Left(r)
<1>1. r \in Run /\ pc[r] # "idle" /\ OnTrack(r)
  BY DEF Active, IInv, RunInv
<1> USE <1>1 DEF IInv, TypeOK, Modes, Steps, OnTrack, At, Goto, locals, Left, StepsFrom,
                 TakenOver
<1>2. CASE SeedGood(r)
  BY <1>2 DEF SeedGood, Exit, Passes
<1>3. CASE SeedRefused(r)
  BY <1>3 DEF SeedRefused, Exit
<1>4. CASE RecordPending(r)
  BY <1>4 DEF RecordPending
<1>5. CASE Arm(r)
  BY <1>5 DEF Arm
<1>6. CASE WritePin(r)
  BY <1>6 DEF WritePin
<1>7. CASE Disarm(r)
  BY <1>7 DEF Disarm
<1>8. CASE Restart(r)
  BY <1>8 DEF Restart
<1>9. CASE RestartFails(r)
  BY <1>9 DEF RestartFails, Fails, Exit
<1>10. CASE VerifyPasses(r)
  BY <1>10 DEF VerifyPasses, Passes
<1>11. CASE VerifyFails(r)
  BY <1>11 DEF VerifyFails, Fails, Exit
<1>12. CASE KeepPrevious(r)
  BY <1>12 DEF KeepPrevious
<1>13. CASE Promote(r)
  BY <1>13 DEF Promote
<1>14. CASE ClearPending(r)
  BY <1>14 DEF ClearPending
<1>15. CASE Finish(r)
  BY <1>15 DEF Finish, Exit
<1>16. CASE Interrupt(r)
  BY <1>16 DEF Interrupt, Trapped, Exit
<1>17. CASE Kill(r) \/ TrapFails(r)
  BY <1>17 DEF Kill, TrapFails, Exit
<1>19. CASE CommandFails(r)
  BY <1>19 DEF CommandFails, Trapped, Exit
<1>18. CASE PowerLoss
  BY <1>18 DEF PowerLoss
<1> QED
  BY <1>2, <1>3, <1>4, <1>5, <1>6, <1>7, <1>8, <1>9, <1>10, <1>11, <1>12,
     <1>13, <1>14, <1>15, <1>16, <1>17, <1>18, <1>19 DEF Step, Break

(* The script has no loop that could keep it from its end: at most 27      *)
(* steps of a run are left at any moment, and every step of the system,    *)
(* but for a container that systemd replaces, takes one of them away.      *)
THEOREM RunsEnd == Spec => NearerTheEnd /\ []RunsBounded
<1>1. IInv /\ [Next]_vars => [\A r \in Active : Left(r)' < Left(r) \/ Respawn]_vars
  <2> SUFFICES ASSUME IInv, Next, NEW r \in Active, ~Respawn
               PROVE  Left(r)' < Left(r)
    OBVIOUS
  <2>1. r \in Run /\ lock = {r} /\ \A s \in Run : s # r => pc[s] = "idle"
    BY OthersIdle DEF Active, IInv
  <2>2. Step(r) \/ Break(r) \/ PowerLoss
    BY <2>1, ActsAlone DEF Active
  <2> QED
    BY <2>2, StepsComeNearer
<1>2. IInv => RunsBounded
  BY DEF IInv, TypeOK, Modes, Steps, RunsBounded, Left, StepsFrom, TakenOver
<1> QED
  BY <1>1, <1>2, Inductive, PTL DEF Spec, NearerTheEnd
=============================================================================
