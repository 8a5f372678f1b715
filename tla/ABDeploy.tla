------------------------------ MODULE ABDeploy ------------------------------
(***************************************************************************)
(* Verified activation and rollback of an instance:                        *)
(* deploy/podman/rebekah-ab.                                               *)
(*                                                                         *)
(* The script moves the image pin in the EnvironmentFile, restarts the     *)
(* unit and verifies what runs.  Four files carry its state: the pin (A),  *)
(* last-good-image (B), previous-good-image and pending-rollback-image,    *)
(* the record of a deployment that has not finished.  Each is replaced by  *)
(* a rename, so a write is one step.  A run of the script can be killed,   *)
(* or the host lose power, between any two steps; INT, TERM or, under      *)
(* "set -e", a failing command instead runs the EXIT trap, which restores  *)
(* $recovery_pin if it is set and keeps the exit status.                   *)
(*                                                                         *)
(* activate, the revert inside it, rollback, recover and the trap all      *)
(* write a pin, restart, verify and clear the record; mode says which of   *)
(* them a run is in, because they differ in what they do in between.       *)
(*                                                                         *)
(* Simplifications.  Preflight (lines 118-128) is the choice of candidates *)
(* in Loaded.  wait_ready and verify are one step.  The renames of one run *)
(* reach the disk in order.  Only the script moves the pin.  A command     *)
(* that fails under "set -e" exits with 1 and has changed no file.         *)
(***************************************************************************)
EXTENDS Naturals

CONSTANTS
  Run,        \* runs of the script
  Image,      \* image ids
  Works,      \* the images that pass verification when they run
  Loaded,     \* the images that preflight accepts
  FirstPin,   \* the pin the operator installed
  NoImage,    \* no image: an absent file, an unset variable, no container
  MaxFaults   \* bound on kills, signals, failed commands and false alarms

ASSUME ABDeployAssumption ==
  /\ Works \subseteq Image /\ Loaded \subseteq Image
  /\ FirstPin \in Image
  /\ NoImage \notin Image
  /\ MaxFaults \in Nat

ImageOrNone == Image \cup {NoImage}

VARIABLES
  pin,       \* REBEKAH_IMAGE in the EnvironmentFile
  good,      \* last-good-image
  previous,  \* previous-good-image
  pending,   \* pending-rollback-image
  running,   \* the image of the container
  lock,      \* the runs that hold ab.lock
  pc,        \* pc[r]: the next step of run r
  mode,      \* mode[r]: the procedure r is in
  want,      \* want[r]: the image r is installing
  base,      \* base[r]: $good as do_activate read it
  armed,     \* armed[r]: $recovery_pin
  code,      \* code[r]: r's last exit status; in the trap, $rc
  checked,   \* history: the image verified since the last pin or restart
  verified,  \* history: every image that ever passed verification
  faults     \* history: failures so far

files == <<pin, good, previous, pending>>
locals == <<mode, want, base, armed>>
vars == <<files, running, lock, pc, locals, code, checked, verified, faults>>

Modes == {"activate", "revert", "rollback", "recover", "trap"}
Steps == {"idle", "seed", "record", "arm", "pin", "disarm", "restart", "verify",
          "keep", "promote", "clear", "finish"}

Init ==
  /\ pin = FirstPin
  /\ good = NoImage /\ previous = NoImage /\ pending = NoImage
  /\ running \in {FirstPin, NoImage}
  /\ lock = {}
  /\ pc = [r \in Run |-> "idle"]
  /\ mode = [r \in Run |-> "activate"]
  /\ want = [r \in Run |-> NoImage]
  /\ base = [r \in Run |-> NoImage]
  /\ armed = [r \in Run |-> NoImage]
  /\ code = [r \in Run |-> 0]
  /\ checked = NoImage
  /\ verified = {}
  /\ faults = 0

Fault == /\ faults < MaxFaults
         /\ faults' = faults + 1

At(r, step)   == pc[r] = step
Goto(r, step) == pc' = [pc EXCEPT ![r] = step]

(* A lock file in place of flock: it outlives the run.  For a mutant.      *)
ExitLeavingLock(r, rc) ==
  /\ Goto(r, "idle")
  /\ armed' = [armed EXCEPT ![r] = NoImage]
  /\ want' = [want EXCEPT ![r] = NoImage]
  /\ base' = [base EXCEPT ![r] = NoImage]
  /\ mode' = [mode EXCEPT ![r] = "activate"]
  /\ code' = [code EXCEPT ![r] = rc]
  /\ UNCHANGED lock

(* The run ends: its variables are gone and its lock is free.              *)
Exit(r, rc) ==
  /\ Goto(r, "idle")
  /\ lock' = lock \ {r}
  /\ armed' = [armed EXCEPT ![r] = NoImage]
  /\ want' = [want EXCEPT ![r] = NoImage]
  /\ base' = [base EXCEPT ![r] = NoImage]
  /\ mode' = [mode EXCEPT ![r] = "activate"]
  /\ code' = [code EXCEPT ![r] = rc]

-----------------------------------------------------------------------------
(* The commands.  Only mutations take the lock, without waiting for it.    *)

Begin(r, m, image, old, step) ==
  /\ At(r, "idle")
  /\ lock = {}
  /\ lock' = {r}
  /\ mode' = [mode EXCEPT ![r] = m]
  /\ want' = [want EXCEPT ![r] = image]
  /\ base' = [base EXCEPT ![r] = old]
  /\ Goto(r, step)
  /\ UNCHANGED <<files, running, armed, code, checked, verified, faults>>

(* activate IMAGE: refused while a deployment is incomplete; without a B   *)
(* the running image is verified first.                                    *)
Activate(r, image) ==
  /\ pending = NoImage
  /\ image \in Loaded
  /\ IF good = NoImage
       THEN Begin(r, "activate", image, NoImage, "seed")
       ELSE good \in Loaded /\ Begin(r, "activate", image, good, "record")

Rollback(r) ==
  /\ good \in Loaded
  /\ Begin(r, "rollback", good, good, "record")

Recover(r) ==
  /\ pending \in Loaded
  /\ Begin(r, "recover", pending, NoImage, "pin")

(* "no incomplete deployment": there is nothing to do, which is a success. *)
RecoverNothing(r) ==
  /\ pending = NoImage
  /\ Begin(r, "recover", NoImage, NoImage, "finish")

-----------------------------------------------------------------------------
(* The steps of a run.                                                     *)

(* verify compares the running image with the pin asked for.               *)
Passes(image) == running = image /\ image \in Works

(* B is seeded with whatever is pinned.  For a mutant.                     *)
SeedGoodUnverified(r) ==
  /\ At(r, "seed")
  /\ good' = pin
  /\ base' = [base EXCEPT ![r] = pin]
  /\ Goto(r, "record")
  /\ UNCHANGED <<pin, previous, pending, running, lock, mode, want, armed, code,
                 checked, verified, faults>>

(* The first activation: B is seeded only with an image that verifies; the *)
(* run ends there if preflight would refuse to go back to it.              *)
SeedGood(r) ==
  /\ At(r, "seed")
  /\ Passes(pin)
  /\ good' = pin
  /\ checked' = pin
  /\ verified' = verified \cup {pin}
  /\ IF pin \in Loaded
       THEN /\ base' = [base EXCEPT ![r] = pin]
            /\ Goto(r, "record")
            /\ UNCHANGED <<lock, mode, want, armed, code>>
       ELSE Exit(r, 2)
  /\ UNCHANGED <<pin, previous, pending, running, faults>>

SeedRefused(r) ==
  /\ At(r, "seed")
  /\ IF Passes(pin) THEN Fault ELSE UNCHANGED faults
  /\ Exit(r, 2)
  /\ UNCHANGED <<files, running, checked, verified>>

(* The pin moves with nothing written down.  For a mutant.                 *)
RecordNothing(r) ==
  /\ At(r, "record")
  /\ Goto(r, IF mode[r] = "activate" THEN "arm" ELSE "pin")
  /\ UNCHANGED <<files, running, lock, locals, code, checked, verified, faults>>

(* record_pending: B is written down before the pin moves.                 *)
RecordPending(r) ==
  /\ At(r, "record")
  /\ pending' = base[r]
  /\ Goto(r, IF mode[r] = "activate" THEN "arm" ELSE "pin")
  /\ UNCHANGED <<pin, good, previous, running, lock, locals, code, checked,
                 verified, faults>>

Arm(r) ==
  /\ At(r, "arm")
  /\ armed' = [armed EXCEPT ![r] = base[r]]
  /\ Goto(r, "pin")
  /\ UNCHANGED <<files, running, lock, mode, want, base, code, checked, verified, faults>>

WritePin(r) ==
  /\ At(r, "pin")
  /\ pin' = want[r]
  /\ checked' = NoImage
  /\ Goto(r, IF mode[r] = "revert" THEN "disarm" ELSE "restart")
  /\ UNCHANGED <<good, previous, pending, running, lock, locals, code, verified, faults>>

(* recovery_pin="" once B is pinned again.                                 *)
Disarm(r) ==
  /\ At(r, "disarm")
  /\ armed' = [armed EXCEPT ![r] = NoImage]
  /\ Goto(r, "restart")
  /\ UNCHANGED <<files, running, lock, mode, want, base, code, checked, verified, faults>>

Restart(r) ==
  /\ At(r, "restart")
  /\ running' = pin
  /\ checked' = NoImage
  /\ Goto(r, "verify")
  /\ UNCHANGED <<files, lock, locals, code, verified, faults>>

(* Both images failed and the run says B is back.  For a mutant.           *)
FailsAsReverted(r) ==
  IF mode[r] = "activate"
    THEN /\ mode' = [mode EXCEPT ![r] = "revert"]
         /\ want' = [want EXCEPT ![r] = base[r]]
         /\ Goto(r, "pin")
         /\ UNCHANGED <<lock, base, armed, code>>
    ELSE Exit(r, 1)

(* What a failed restart or verification leads to.                         *)
Fails(r) ==
  IF mode[r] = "activate"
    THEN /\ mode' = [mode EXCEPT ![r] = "revert"]
         /\ want' = [want EXCEPT ![r] = base[r]]
         /\ Goto(r, "pin")
         /\ UNCHANGED <<lock, base, armed, code>>
    ELSE Exit(r, 3)

(* systemctl fails; the old container may be gone.  A revert or a rollback *)
(* goes on to verify all the same ("restart || true").                     *)
RestartFails(r) ==
  /\ At(r, "restart")
  /\ Fault
  /\ running' \in {running, NoImage}
  /\ checked' = NoImage
  /\ IF mode[r] \in {"revert", "rollback"}
       THEN Goto(r, "verify") /\ UNCHANGED <<lock, locals, code>>
       ELSE Fails(r)
  /\ UNCHANGED <<files, verified>>

VerifyPasses(r) ==
  /\ At(r, "verify")
  /\ Passes(want[r])
  /\ checked' = running
  /\ verified' = verified \cup {running}
  /\ Goto(r, IF mode[r] # "activate" THEN "clear"
             ELSE IF want[r] # base[r] THEN "keep" ELSE "promote")
  /\ UNCHANGED <<files, running, lock, locals, code, faults>>

VerifyFails(r) ==
  /\ At(r, "verify")
  /\ IF Passes(want[r]) THEN Fault ELSE UNCHANGED faults
  /\ Fails(r)
  /\ UNCHANGED <<files, running, checked, verified>>

KeepPrevious(r) ==
  /\ At(r, "keep")
  /\ previous' = base[r]
  /\ Goto(r, "promote")
  /\ UNCHANGED <<pin, good, pending, running, lock, locals, code, checked,
                 verified, faults>>

Promote(r) ==
  /\ At(r, "promote")
  /\ good' = want[r]
  /\ Goto(r, "clear")
  /\ UNCHANGED <<pin, previous, pending, running, lock, locals, code, checked,
                 verified, faults>>

ClearPending(r) ==
  /\ At(r, "clear")
  /\ pending' = NoImage
  /\ Goto(r, "finish")
  /\ UNCHANGED <<pin, good, previous, running, lock, locals, code, checked,
                 verified, faults>>

(* recovery_pin="" and return: 1 says that the candidate was reverted, and *)
(* the trap ends with the status that it was entered with.                 *)
Finish(r) ==
  /\ At(r, "finish")
  /\ Exit(r, CASE mode[r] = "revert" -> 1 [] mode[r] = "trap" -> code[r] [] OTHER -> 0)
  /\ UNCHANGED <<files, running, checked, verified, faults>>

-----------------------------------------------------------------------------
(* What interrupts a run.                                                  *)

(* The EXIT trap restores $recovery_pin, if it is set, and keeps rc.       *)
Trapped(r, rc) ==
  IF armed[r] # NoImage
    THEN /\ mode' = [mode EXCEPT ![r] = "trap"]
         /\ want' = [want EXCEPT ![r] = armed[r]]
         /\ code' = [code EXCEPT ![r] = rc]
         /\ Goto(r, "pin")
         /\ UNCHANGED <<lock, base, armed>>
    ELSE Exit(r, rc)

(* INT or TERM.  The trap runs once: it resets the others first.           *)
Interrupt(r) ==
  /\ ~At(r, "idle")
  /\ mode[r] # "trap"
  /\ Fault
  /\ \E rc \in {130, 143} : Trapped(r, rc)
  /\ UNCHANGED <<files, running, checked, verified>>

(* A command fails outside a condition, where "set -e" is in force: the    *)
(* seed's write_good after its verification, the backup or the record, a   *)
(* write of the pin or of a baseline, the rm of the record.                *)
CommandFails(r) ==
  /\ pc[r] \in {"seed", "record", "pin", "keep", "promote", "clear"}
  /\ At(r, "seed") => Passes(pin)
  /\ mode[r] # "trap"
  /\ Fault
  /\ Trapped(r, 1)
  /\ IF At(r, "seed") THEN checked' = pin /\ verified' = verified \cup {pin}
                      ELSE UNCHANGED <<checked, verified>>
  /\ UNCHANGED <<files, running>>

(* The same in the trap: its write of the pin is part of the condition     *)
(* whose failure is 3, its rm is not.                                      *)
TrapFails(r) ==
  /\ mode[r] = "trap"
  /\ Fault
  /\ \/ At(r, "pin") /\ Exit(r, 3)
     \/ At(r, "clear") /\ Exit(r, 1)
  /\ UNCHANGED <<files, running, checked, verified>>

(* SIGKILL, or a second signal while the trap runs.                        *)
Kill(r) ==
  /\ ~At(r, "idle")
  /\ Fault
  /\ Exit(r, 137)
  /\ UNCHANGED <<files, running, checked, verified>>

(* Every run is gone; systemd starts the pinned image at boot.             *)
PowerLoss ==
  /\ Fault
  /\ lock' = {}
  /\ pc' = [r \in Run |-> "idle"]
  /\ mode' = [r \in Run |-> "activate"]
  /\ want' = [r \in Run |-> NoImage]
  /\ base' = [r \in Run |-> NoImage]
  /\ armed' = [r \in Run |-> NoImage]
  /\ code' = [r \in Run |-> IF pc[r] = "idle" THEN code[r] ELSE 137]
  /\ running' = pin
  /\ UNCHANGED <<files, checked, verified>>

(* systemd replaces a container that died: it runs what is pinned now.     *)
Respawn ==
  /\ running' = pin
  /\ UNCHANGED <<files, lock, pc, locals, code, checked, verified, faults>>

-----------------------------------------------------------------------------
Command(r) ==
  \/ \E image \in Image : Activate(r, image)
  \/ Rollback(r)
  \/ Recover(r) \/ RecoverNothing(r)

Break(r) == Interrupt(r) \/ CommandFails(r) \/ TrapFails(r) \/ Kill(r)

Step(r) ==
  \/ SeedGood(r) \/ SeedRefused(r)
  \/ RecordPending(r) \/ Arm(r)
  \/ WritePin(r) \/ Disarm(r)
  \/ Restart(r) \/ RestartFails(r)
  \/ VerifyPasses(r) \/ VerifyFails(r)
  \/ KeepPrevious(r) \/ Promote(r)
  \/ ClearPending(r) \/ Finish(r)

Next ==
  \/ \E r \in Run : Command(r) \/ Step(r) \/ Break(r)
  \/ PowerLoss
  \/ Respawn

(* A run that is not interrupted goes on, every wait of it is bounded, and *)
(* an operator who finds an incomplete deployment runs recover.            *)
Fairness ==
  /\ \A r \in Run : WF_vars(Step(r))
  /\ \A r \in Run : SF_vars(Recover(r))

Spec == Init /\ [][Next]_vars /\ Fairness

TypeOK ==
  /\ pin \in Image
  /\ good \in ImageOrNone /\ previous \in ImageOrNone /\ pending \in ImageOrNone
  /\ running \in ImageOrNone /\ checked \in ImageOrNone
  /\ lock \subseteq Run
  /\ pc \in [Run -> Steps]
  /\ mode \in [Run -> Modes]
  /\ want \in [Run -> ImageOrNone]
  /\ base \in [Run -> ImageOrNone]
  /\ armed \in [Run -> ImageOrNone]
  /\ code \in [Run -> {0, 1, 2, 3, 130, 137, 143}]
  /\ verified \subseteq Image
  /\ faults \in Nat

Active == {r \in Run : pc[r] # "idle"}

(* "B, the last verified-good image, written only after a verification     *)
(* passes" (rebekah-ab:4), and so are the images kept to go back to.       *)
BaselinesVerified == {good, previous, pending} \subseteq verified \cup {NoImage}

(* Once there is a B, a pin that never verified is announced by the        *)
(* pending record at every moment the script can be killed, so that        *)
(* activate is refused and recover has something to restore.               *)
UnverifiedIsRecorded == good # NoImage /\ pin \notin verified => pending # NoImage

(* The record is cleared only when the pinned image has been verified      *)
(* since it was pinned ("only clears the record after successful           *)
(* verification", README.md of deploy/podman).                             *)
ClearedOnlyVerified ==
  [][pending # NoImage /\ pending' = NoImage => checked = pin]_vars

(* The run ends with the image that it wants pinned, verified since then,  *)
(* and no record left.                                                     *)
Ends(r)    == pc[r] # "idle" /\ pc'[r] = "idle"
Settled(r) == pin = want[r] /\ checked = pin /\ pending = NoImage

(* recover had nothing to do.                                              *)
FoundNothing(r) == mode[r] = "recover" /\ want[r] = NoImage /\ pending = NoImage

(* A command of the run failed: the record is there for recover, or what   *)
(* is pinned is an image that had passed verification.                     *)
BrokeOff(r) == /\ CommandFails(r) \/ TrapFails(r)
               /\ pending # NoImage \/ pin \in verified'

(* Exit status: 0, the wanted image is pinned and verified, or recover     *)
(* found no deployment to complete; 1, B is pinned again and verified      *)
(* (README.md of deploy/podman), or a command failed under "set -e"        *)
(* (rebekah-ab:23).  An image that failed is never reported as either.     *)
ExitTellsTruth ==
  [][\A r \in Run : Ends(r) =>
       /\ code'[r] = 0 => Settled(r) \/ FoundNothing(r)
       /\ code'[r] = 1 => Settled(r) \/ BrokeOff(r)
       /\ code'[r] = 1 /\ mode[r] = "revert" => pin = good]_vars

(* A deployment that was interrupted and not verified leaves the pending   *)
(* record behind ("A pending rollback record survives an interrupted       *)
(* deployment", README.md of deploy/podman).                               *)
InterruptionIsRecorded ==
  Active = {} /\ good # NoImage /\ checked # pin => pending # NoImage

(* Once failures end and the images to go back to still work, every        *)
(* incomplete deployment is completed or restored.                         *)
EventuallySettled == pending # NoImage ~> pending = NoImage
=============================================================================
