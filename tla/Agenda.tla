------------------------------- MODULE Agenda -------------------------------
(***************************************************************************)
(* The Daily Agenda as the gateway reads it: v1_daily_agenda and the       *)
(* helpers it calls, lines 722 to 954 of nix/gateway.py, and the generator *)
(* on the host whose three files it reads.                                 *)
(*                                                                         *)
(* The generator (not in the repository) replaces one file after the other *)
(* (docs/DAILY-AGENDA.md:14), in any order, may stop in between, and may   *)
(* publish the same evidence again under a new manifest.  The reader opens *)
(* the manifest, then the snapshot, then the editorial, and projects what  *)
(* it holds; files change between any two of these steps.                  *)
(*                                                                         *)
(* Simplifications.                                                        *)
(*  - A file is its content; equal contents have equal sizes and SHA-256.  *)
(*  - What is wrong inside a file is a property of the edition: Readable   *)
(*    says the JSON and the schemas are those the reader knows, Sound that *)
(*    the times agree and every record projects within the bounds.         *)
(*  - A file that is missing, no regular file or too large is Nothing.     *)
(***************************************************************************)
EXTENDS Naturals

CONSTANTS
  Edition,      \* what the generator publishes, each with a manifest
  SnapshotOf,   \* the content of an edition's snapshot.json
  EditorialOf,  \* the content of its editorial.json
  Observed,     \* when the evidence in a snapshot was collected
  Generated,    \* when an edition was rendered
  Contract,     \* an edition's generator_contract, "none" before there were any
  Contracts,    \* AGENDA_CONTRACTS
  Readable,     \* the editions of the known schemas
  Sound,        \* those among them that project
  Slack,        \* the 300 seconds a host's clock may be ahead
  MaxEvidence,  \* AGENDA_MAX_AGE
  MaxNow,       \* bound on the clock
  MaxFaults     \* bound on unfinished editions and damaged files

Nothing == "nothing"

Snapshot == {SnapshotOf[e] : e \in Edition}
Editorial == {EditorialOf[e] : e \in Edition}

ASSUME AgendaAssumption ==
  /\ Nothing \notin Edition \cup Snapshot \cup Editorial
  /\ Observed \in [Snapshot -> Nat] /\ Generated \in [Edition -> Nat]
  /\ Sound \subseteq Readable /\ Readable \subseteq Edition
  /\ \A e \in Sound : Observed[SnapshotOf[e]] <= Generated[e]
  /\ {Slack, MaxEvidence, MaxNow, MaxFaults} \subseteq Nat

File == {"manifest", "snapshot", "editorial"}

VARIABLES
  configured,\* cfg.daily_agenda_dir is set; if not, no generator matters
  disk,      \* the directory the generator writes and the gateway mounts
  making,    \* the edition being written
  todo,      \* its files not yet replaced
  now,       \* the clock
  reader,    \* where v1_daily_agenda is: the file it reads next
  manifest, snapshot, editorial, \* what it has read
  answer,    \* what it returned
  offered,   \* history: editions whose manifest was there during this read
  disturbed, \* history: a file or the clock changed since the read began
  faults     \* history: generators that stopped, files that were damaged

host == <<configured, disk, making, todo>>
read == <<reader, manifest, snapshot, editorial, answer>>
agendaVars == <<configured, disk, making, todo, now, reader, manifest, snapshot, editorial,
                answer, offered, disturbed, faults>>

ContentOf(e, f) ==
  [manifest |-> e, snapshot |-> SnapshotOf[e], editorial |-> EditorialOf[e]][f]

Unavailable == [status |-> "unavailable", manifest |-> Nothing,
                snapshot |-> Nothing, editorial |-> Nothing, stale |-> TRUE]
Mismatch == [Unavailable EXCEPT !.status = "contract-mismatch"]
NotConfigured == [Unavailable EXCEPT !.status = "not-configured"]

AgendaInit ==
  /\ configured \in BOOLEAN
  /\ disk = [f \in File |-> Nothing]
  /\ making = Nothing /\ todo = {} /\ now = 0
  /\ reader = "idle"
  /\ manifest = Nothing /\ snapshot = Nothing /\ editorial = Nothing
  /\ answer = Unavailable
  /\ offered = {} /\ disturbed = FALSE /\ faults = 0

-----------------------------------------------------------------------------
(* The host.                                                               *)

Generate(e) ==
  /\ configured /\ todo = {}
  /\ making' = e /\ todo' = File
  /\ UNCHANGED <<configured, disk, now, read, offered, disturbed, faults>>

FileBecomes(f, c) ==
  /\ disk' = [disk EXCEPT ![f] = c]
  /\ offered' = IF reader = "idle" THEN {} ELSE offered \cup ({disk'["manifest"]} \cap Edition)
  /\ disturbed' = (disturbed \/ disk' # disk)
  /\ UNCHANGED <<configured, now, read>>

Replace(f) ==
  /\ f \in todo
  /\ FileBecomes(f, ContentOf(making, f))
  /\ todo' = todo \ {f}
  /\ making' = IF todo' = {} THEN Nothing ELSE making
  /\ UNCHANGED faults

GeneratorStops ==
  /\ todo # {} /\ faults < MaxFaults
  /\ todo' = {} /\ making' = Nothing /\ faults' = faults + 1
  /\ UNCHANGED <<configured, disk, now, read, offered, disturbed>>

Damage(f) ==
  /\ disk[f] # Nothing /\ faults < MaxFaults
  /\ FileBecomes(f, Nothing)
  /\ faults' = faults + 1
  /\ UNCHANGED <<making, todo>>

AgendaTick ==
  /\ now < MaxNow
  /\ now' = now + 1 /\ disturbed' = TRUE
  /\ UNCHANGED <<host, read, offered, faults>>

-----------------------------------------------------------------------------
(* v1_daily_agenda.                                                        *)

Return(a) ==
  /\ answer' = a /\ reader' = "idle" /\ offered' = {}
  /\ manifest' = Nothing /\ snapshot' = Nothing /\ editorial' = Nothing

Reads == UNCHANGED <<host, now, disturbed, faults>>

BeginRead ==
  /\ reader = "idle"
  /\ reader' = "manifest"
  /\ offered' = {disk["manifest"]} \cap Edition /\ disturbed' = FALSE
  /\ UNCHANGED <<host, now, manifest, snapshot, editorial, answer, faults>>

ReadManifest ==
  /\ reader = "manifest"
  /\ \/ /\ ~configured
        /\ Return(NotConfigured)
     \/ /\ configured /\ disk["manifest"] = Nothing
        /\ Return(Unavailable)
     \/ /\ configured /\ disk["manifest"] # Nothing
        /\ manifest' = disk["manifest"] /\ reader' = "snapshot"
        /\ UNCHANGED <<snapshot, editorial, answer, offered>>
  /\ Reads

(* Fault: a file that can be read is taken for the manifest's.             *)
IntactIfThere(f) == disk[f] # Nothing

(* The bytes read are those the manifest names.                            *)
Intact(f) == disk[f] = ContentOf(manifest, f)

ReadSnapshot ==
  /\ reader = "snapshot"
  /\ \/ /\ ~Intact("snapshot")
        /\ Return(Unavailable)
     \/ /\ Intact("snapshot")
        /\ snapshot' = disk["snapshot"] /\ reader' = "editorial"
        /\ UNCHANGED <<manifest, editorial, answer, offered>>
  /\ Reads

ReadEditorial ==
  /\ reader = "editorial"
  /\ \/ /\ ~Intact("editorial")
        /\ Return(Unavailable)
     \/ /\ Intact("editorial")
        /\ editorial' = disk["editorial"] /\ reader' = "project"
        /\ UNCHANGED <<manifest, snapshot, answer, offered>>
  /\ Reads

(* Fault: an edition from before there were contracts is not served.       *)
UnderstoodIfNamed(e) == Contract[e] \in Contracts

Understood(e) == Contract[e] \in Contracts \cup {"none"}

Ahead(e, t) == Observed[SnapshotOf[e]] > t + Slack \/ Generated[e] > t + Slack

(* Fault: what does not project is refused before the contract is looked at. *)
ProjectionChecksDataFirst ==
  IF manifest \notin Sound \/ Ahead(manifest, now) THEN Unavailable
  ELSE IF ~Understood(manifest) THEN Mismatch
  ELSE [status |-> "ready", manifest |-> manifest, snapshot |-> snapshot,
        editorial |-> editorial, stale |-> now > Observed[snapshot] + MaxEvidence]

(* Schemas first, then the contract, then everything the data must say.    *)
Projection ==
  IF manifest \notin Readable THEN Unavailable
  ELSE IF ~Understood(manifest) THEN Mismatch
  ELSE IF manifest \notin Sound \/ Ahead(manifest, now) THEN Unavailable
  ELSE [status |-> "ready", manifest |-> manifest, snapshot |-> snapshot,
        editorial |-> editorial, stale |-> now > Observed[snapshot] + MaxEvidence]

Project ==
  /\ reader = "project"
  /\ Return(Projection)
  /\ Reads

AgendaRead == ReadManifest \/ ReadSnapshot \/ ReadEditorial \/ Project

HostStep ==
  \/ \E e \in Edition : Generate(e)
  \/ \E f \in File : Replace(f) \/ Damage(f)
  \/ GeneratorStops

AgendaNext == HostStep \/ AgendaTick \/ BeginRead \/ AgendaRead

AgendaSpec == AgendaInit /\ [][AgendaNext]_agendaVars

-----------------------------------------------------------------------------
(* Properties.                                                             *)

Part(S) == S \cup {Nothing}

Refusals == {"not-configured", "unavailable", "contract-mismatch"}
Answers ==
  [status : Refusals \cup {"ready"}, manifest : Part(Edition),
   snapshot : Part(Snapshot), editorial : Part(Editorial), stale : BOOLEAN]

(* Types.                                                                  *)
AgendaTypeOK ==
  /\ configured \in BOOLEAN
  /\ disk["manifest"] \in Part(Edition) /\ disk["snapshot"] \in Part(Snapshot)
  /\ disk["editorial"] \in Part(Editorial) /\ DOMAIN disk = File
  /\ making \in Part(Edition) /\ todo \subseteq File /\ (making = Nothing <=> todo = {})
  /\ now \in 0..MaxNow
  /\ reader \in File \cup {"idle", "project"}
  /\ manifest \in Part(Edition) /\ snapshot \in Part(Snapshot) /\ editorial \in Part(Editorial)
  /\ answer \in Answers
  /\ offered \subseteq Edition /\ disturbed \in BOOLEAN /\ faults \in 0..MaxFaults

(* A read that shows an edition shows all three parts of one edition, one   *)
(* that was on offer while it ran, however the files changed meanwhile.    *)
Source == INSTANCE EditionSource WITH
  offer    <- disk["manifest"],
  seen     <- offered,
  reading  <- reader # "idle",
  answer   <- IF answer.status # "ready" THEN answer.status
              ELSE IF /\ answer.snapshot = SnapshotOf[answer.manifest]
                      /\ answer.editorial = EditorialOf[answer.manifest]
                   THEN answer.manifest ELSE Nothing
WholeEditions == Source!Spec

Whole(e) == \A f \in File : disk[f] = ContentOf(e, f)
InPlace == {e \in Edition : Whole(e)}
Supported(e) == Contract[e] \in {"none"} \cup Contracts

(* A read that nothing disturbed, and nothing since, says of the edition    *)
(* there what is to be said of it: that its contract is unknown, as long as its   *)
(* schemas are known, before anything else; that it is there, and stale by  *)
(* the age of its evidence, however late it was rendered; else nothing.    *)
AnswerFits ==
  reader = "idle" /\ ~disturbed /\ configured =>
    /\ answer.status = "contract-mismatch"
         <=> \E e \in InPlace \cap Readable : ~Supported(e)
    /\ answer.status = "ready"
         <=> \E e \in InPlace \cap Sound : Supported(e) /\ ~Ahead(e, now)
    /\ answer.status = "ready" =>
         /\ answer.manifest = disk["manifest"]
         /\ answer.stale <=> now > Observed[disk["snapshot"]] + MaxEvidence
=============================================================================
