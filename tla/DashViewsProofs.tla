-------------------------- MODULE DashViewsProofs --------------------------
(***************************************************************************)
(* What the pusher's views show, for any holds, gates, editions, sizes and *)
(* limits: the agenda's view is one whole edition, and the one to be shown *)
(* if nothing disturbed the read; a view that is not stale misses no hold  *)
(* it has room for; what was decided before the round is not in it; large  *)
(* optional views keep nothing else away.                                  *)
(*                                                                         *)
(* First the agenda alone, for AgendaSpec: Agenda implements EditionSource, *)
(* from an invariant that says what the reader knows of what it has read   *)
(* so far.  Then the round: its invariant relates what is shown to the     *)
(* surfaces read so far, and is conditional in the way the promise is: as  *)
(* long as every surface has answered and the view has room for every hold *)
(* there is, what was pending ever since the round began on those surfaces *)
(* is in it.                                                               *)
(***************************************************************************)
EXTENDS DashViews, FiniteSetTheorems, TLAPS

(* What has been read.                                                     *)
KnowsWhat ==
  /\ reader \in {"snapshot", "editorial", "project"} => manifest \in offered
  /\ reader \in {"editorial", "project"} => snapshot = SnapshotOf[manifest]
  /\ reader = "project" => editorial = EditorialOf[manifest]
  /\ reader = "idle" => offered = {}
  /\ reader # "idle" => {disk["manifest"]} \cap Edition \subseteq offered
  /\ answer.status = "ready" => answer.manifest \in Edition

AgendaInv == AgendaTypeOK /\ KnowsWhat

-----------------------------------------------------------------------------
(* Facts about the data.                                                   *)

(* The files of an edition.                                                *)
LEMMA Contents ==
  ASSUME NEW e
  PROVE  /\ ContentOf(e, "manifest") = e
         /\ ContentOf(e, "snapshot") = SnapshotOf[e]
         /\ ContentOf(e, "editorial") = EditorialOf[e]
  BY DEF ContentOf

(* What the sets of parts contain.                                         *)
LEMMA PartsOfEditions ==
  /\ \A e \in Edition : SnapshotOf[e] \in Snapshot /\ EditorialOf[e] \in Editorial
  /\ Edition \subseteq Part(Edition) /\ Snapshot \subseteq Part(Snapshot)
  /\ Editorial \subseteq Part(Editorial)
  /\ Nothing \in Part(Edition) /\ Nothing \in Part(Snapshot) /\ Nothing \in Part(Editorial)
  BY DEF Snapshot, Editorial, Part

(* The answers that carry no edition.                                      *)
LEMMA RefusalsAreAnswers ==
  /\ Unavailable \in Answers /\ Unavailable.status = "unavailable"
  /\ Mismatch \in Answers /\ Mismatch.status = "contract-mismatch"
  /\ NotConfigured \in Answers /\ NotConfigured.status = "not-configured"
  BY PartsOfEditions DEF Unavailable, Mismatch, NotConfigured, Answers, Refusals

(* What the projection says: a refusal, or what was read.                  *)
LEMMA Projects ==
  ASSUME AgendaTypeOK, manifest \in Edition, snapshot \in Snapshot
  PROVE  /\ Projection \in Answers
         /\ \/ Projection.status \in Refusals
            \/ /\ Projection.status = "ready" /\ Projection.manifest = manifest
               /\ Projection.snapshot = snapshot /\ Projection.editorial = editorial
<1>1. CASE Projection \in {Unavailable, Mismatch}
  BY <1>1, RefusalsAreAnswers DEF Refusals
<1>2. CASE Projection \notin {Unavailable, Mismatch}
  <2> DEFINE late == now > Observed[snapshot] + MaxEvidence
  <2>1. Projection = [status |-> "ready", manifest |-> manifest, snapshot |-> snapshot,
                      editorial |-> editorial, stale |-> late]
    BY <1>2 DEF Projection
  <2>2. late \in BOOLEAN
    OBVIOUS
  <2> HIDE DEF late
  <2>3. manifest \in Part(Edition) /\ snapshot \in Part(Snapshot) /\ editorial \in Part(Editorial)
    BY DEF AgendaTypeOK
  <2> QED
    BY <2>1, <2>2, <2>3 DEF Answers
<1> QED
  BY <1>1, <1>2

-----------------------------------------------------------------------------
(* The steps.                                                              *)

(* Before the first read.                                                  *)
LEMMA AgendaInitInv == AgendaInit => AgendaInv
<1> SUFFICES ASSUME AgendaInit PROVE AgendaInv
  OBVIOUS
<1>1. /\ DOMAIN disk = File /\ disk["manifest"] = Nothing
      /\ disk["snapshot"] = Nothing /\ disk["editorial"] = Nothing
  BY DEF AgendaInit, File
<1>2. 0 \in 0..MaxNow /\ 0 \in 0..MaxFaults
  BY AgendaAssumption
<1>3. AgendaTypeOK
  BY <1>1, <1>2, RefusalsAreAnswers, PartsOfEditions DEF AgendaInit, AgendaTypeOK
<1> QED
  BY <1>1, <1>3, RefusalsAreAnswers DEF AgendaInit, AgendaInv, KnowsWhat

(* A file gets a content it can have, or is damaged.                       *)
LEMMA FilesStayTyped ==
  ASSUME AgendaTypeOK, NEW f \in File, NEW c, FileBecomes(f, c),
         c = Nothing \/ \E e \in Edition : c = ContentOf(e, f)
  PROVE  /\ disk'["manifest"] \in Part(Edition) /\ disk'["snapshot"] \in Part(Snapshot)
         /\ disk'["editorial"] \in Part(Editorial) /\ DOMAIN disk' = File
         /\ offered' \subseteq Edition /\ disturbed' \in BOOLEAN
<1>1. DOMAIN disk' = File /\ disk' = [disk EXCEPT ![f] = c]
  BY DEF FileBecomes, AgendaTypeOK
<1>2. f = "manifest" => c \in Part(Edition)
  BY Contents, PartsOfEditions
<1>3. f = "snapshot" => c \in Part(Snapshot)
  BY Contents, PartsOfEditions
<1>4. f = "editorial" => c \in Part(Editorial)
  BY Contents, PartsOfEditions
<1>5. offered' \subseteq Edition /\ disturbed' \in BOOLEAN
  BY DEF FileBecomes, AgendaTypeOK
<1> QED
  BY <1>1, <1>2, <1>3, <1>4, <1>5 DEF AgendaTypeOK, File

(* The generator's steps, and damage.                                      *)
LEMMA HostStepInv ==
  ASSUME AgendaInv, HostStep
  PROVE  AgendaInv'
<1>t. AgendaTypeOK /\ KnowsWhat
  BY DEF AgendaInv
<1>1. ASSUME NEW e \in Edition, Generate(e) PROVE AgendaInv'
  <2>1. e # Nothing /\ File # {} /\ e \in Part(Edition)
    BY AgendaAssumption, PartsOfEditions DEF File
  <2> QED
    BY <1>1, <1>t, <2>1 DEF Generate, read, AgendaInv, AgendaTypeOK, KnowsWhat
<1>2. ASSUME NEW f \in File, NEW c, FileBecomes(f, c),
             c = Nothing \/ \E e \in Edition : c = ContentOf(e, f),
             making' \in Part(Edition), todo' \subseteq File,
             making' = Nothing <=> todo' = {}, faults' \in 0..MaxFaults
      PROVE  AgendaInv'
  <2>1. /\ disk'["manifest"] \in Part(Edition) /\ disk'["snapshot"] \in Part(Snapshot)
        /\ disk'["editorial"] \in Part(Editorial) /\ DOMAIN disk' = File
        /\ offered' \subseteq Edition /\ disturbed' \in BOOLEAN
    BY <1>2, <1>t, FilesStayTyped
  <2>2. /\ UNCHANGED <<configured, now, reader, manifest, snapshot, editorial, answer>>
        /\ reader # "idle" => offered \subseteq offered'
        /\ reader = "idle" => offered' = {}
        /\ reader # "idle" => {disk'["manifest"]} \cap Edition \subseteq offered'
    BY <1>2 DEF FileBecomes, read
  <2>3. AgendaTypeOK'
    BY <1>2, <1>t, <2>1, <2>2 DEF AgendaTypeOK
  <2> QED
    BY <1>t, <2>2, <2>3 DEF AgendaInv, KnowsWhat
<1>3. ASSUME NEW f \in File, Replace(f) PROVE AgendaInv'
  <2>1. making \in Edition
    BY <1>3, <1>t DEF Replace, AgendaTypeOK, Part
  <2>2. /\ making' \in Part(Edition) /\ todo' \subseteq File
        /\ (making' = Nothing <=> todo' = {}) /\ faults' \in 0..MaxFaults
    BY <1>3, <1>t, <2>1, PartsOfEditions, AgendaAssumption DEF Replace, AgendaTypeOK
  <2> QED
    BY <1>3, <2>1, <2>2, <1>2 DEF Replace
<1>4. ASSUME NEW f \in File, Damage(f) PROVE AgendaInv'
  <2>1. /\ making' \in Part(Edition) /\ todo' \subseteq File
        /\ (making' = Nothing <=> todo' = {}) /\ faults' \in 0..MaxFaults
    BY <1>4, <1>t, AgendaAssumption DEF Damage, AgendaTypeOK
  <2> QED
    BY <1>4, <2>1, <1>2 DEF Damage
<1>5. CASE GeneratorStops
  BY <1>5, <1>t, PartsOfEditions, AgendaAssumption
     DEF GeneratorStops, read, AgendaInv, AgendaTypeOK, KnowsWhat
<1> QED
  BY <1>1, <1>3, <1>4, <1>5 DEF HostStep

(* A read that ends has an answer, and nothing is left of it.              *)
LEMMA ReturnInv ==
  ASSUME AgendaInv, NEW a \in Answers, a.status = "ready" => a.manifest \in Edition,
         Return(a), Reads
  PROVE  AgendaInv'
  BY PartsOfEditions DEF Return, Reads, host, AgendaInv, AgendaTypeOK, KnowsWhat

(* The reader's steps.                                                     *)
LEMMA ReadStepInv ==
  ASSUME AgendaInv, BeginRead \/ AgendaRead
  PROVE  AgendaInv'
<1>t. AgendaTypeOK /\ KnowsWhat
  BY DEF AgendaInv
<1>1. CASE BeginRead
  BY <1>1, <1>t DEF BeginRead, host, AgendaInv, AgendaTypeOK, KnowsWhat, File
<1>2. CASE ReadManifest
  <2>1. CASE \E a \in {Unavailable, NotConfigured} : Return(a)
    BY <1>2, <2>1, ReturnInv, RefusalsAreAnswers DEF ReadManifest
  <2>2. CASE /\ disk["manifest"] # Nothing
             /\ manifest' = disk["manifest"] /\ reader' = "snapshot"
             /\ UNCHANGED <<snapshot, editorial, answer, offered>>
    <3>1. disk["manifest"] \in offered
      BY <1>2, <1>t, <2>2 DEF ReadManifest, AgendaTypeOK, KnowsWhat, Part
    <3> QED
      BY <1>2, <1>t, <2>2, <3>1
         DEF ReadManifest, Reads, host, AgendaInv, AgendaTypeOK, KnowsWhat, File
  <2> QED
    BY <1>2, <2>1, <2>2 DEF ReadManifest
<1>m. reader \in {"snapshot", "editorial", "project"} => manifest \in Edition
  BY <1>t DEF AgendaTypeOK, KnowsWhat
<1>3. CASE ReadSnapshot
  <2>1. CASE Return(Unavailable)
    BY <1>3, <2>1, ReturnInv, RefusalsAreAnswers DEF ReadSnapshot
  <2>2. CASE /\ Intact("snapshot")
             /\ snapshot' = disk["snapshot"] /\ reader' = "editorial"
             /\ UNCHANGED <<manifest, editorial, answer, offered>>
    <3>1. snapshot' = SnapshotOf[manifest] /\ snapshot' \in Part(Snapshot)
      BY <1>3, <1>m, <2>2, Contents, PartsOfEditions DEF Intact, ReadSnapshot
    <3> QED
      BY <1>3, <1>t, <2>2, <3>1
         DEF ReadSnapshot, Reads, host, AgendaInv, AgendaTypeOK, KnowsWhat, File
  <2> QED
    BY <1>3, <2>1, <2>2 DEF ReadSnapshot
<1>4. CASE ReadEditorial
  <2>1. CASE Return(Unavailable)
    BY <1>4, <2>1, ReturnInv, RefusalsAreAnswers DEF ReadEditorial
  <2>2. CASE /\ Intact("editorial")
             /\ editorial' = disk["editorial"] /\ reader' = "project"
             /\ UNCHANGED <<manifest, snapshot, answer, offered>>
    <3>1. editorial' = EditorialOf[manifest] /\ editorial' \in Part(Editorial)
      BY <1>4, <1>m, <2>2, Contents, PartsOfEditions DEF Intact, ReadEditorial
    <3> QED
      BY <1>4, <1>t, <2>2, <3>1
         DEF ReadEditorial, Reads, host, AgendaInv, AgendaTypeOK, KnowsWhat, File
  <2> QED
    BY <1>4, <2>1, <2>2 DEF ReadEditorial
<1>5. CASE Project
  <2>1. manifest \in Edition /\ snapshot \in Snapshot
    BY <1>5, <1>m, <1>t, PartsOfEditions DEF Project, KnowsWhat
  <2> QED
    BY <1>5, <1>t, <2>1, Projects, ReturnInv DEF Project, Refusals
<1> QED
  BY <1>1, <1>2, <1>3, <1>4, <1>5 DEF AgendaRead

(* Every step of the agenda's reader and of its world keeps the invariant. *)
LEMMA AgendaStepInv ==
  ASSUME AgendaInv, [AgendaNext]_agendaVars
  PROVE  AgendaInv'
<1>1. CASE AgendaTick
  BY <1>1, AgendaAssumption
     DEF AgendaTick, host, read, AgendaInv, AgendaTypeOK, KnowsWhat
<1>2. CASE UNCHANGED agendaVars
  BY <1>2 DEF agendaVars, AgendaInv, AgendaTypeOK, KnowsWhat
<1> QED
  BY <1>1, <1>2, HostStepInv, ReadStepInv DEF AgendaNext

(* The inductive invariant of the reader.                                  *)
THEOREM AgendaInductive == AgendaSpec => []AgendaInv
<1>1. AgendaInit => AgendaInv
  BY AgendaInitInv
<1>2. AgendaInv /\ [AgendaNext]_agendaVars => AgendaInv'
  BY AgendaStepInv
<1> QED
  BY <1>1, <1>2, PTL DEF AgendaSpec

-----------------------------------------------------------------------------
(* The refinement.                                                         *)

(* What EditionSource sees of an answer.                                   *)
Shown(a) ==
  IF a.status # "ready" THEN a.status
  ELSE IF /\ a.snapshot = SnapshotOf[a.manifest]
          /\ a.editorial = EditorialOf[a.manifest]
       THEN a.manifest ELSE Nothing

(* A refusal is shown as itself.                                           *)
LEMMA RefusalsAreShown ==
  \A a \in {Unavailable, Mismatch, NotConfigured} : Shown(a) \in Refusals
  BY RefusalsAreAnswers DEF Shown, Refusals

(* The initial states.                                                     *)
LEMMA SourceInit == AgendaInit => Source!Init
<1> SUFFICES ASSUME AgendaInit PROVE Source!Init
  OBVIOUS
<1>1. disk["manifest"] = Nothing /\ offered = {} /\ ~(reader # "idle") /\ answer = Unavailable
  BY DEF AgendaInit, File
<1>2. Shown(answer) \in Refusals
  BY <1>1, RefusalsAreShown
<1> QED
  BY <1>1, <1>2, AgendaAssumption DEF Source!Init, Shown

(* Each step is one of EditionSource's, or none of its business.           *)
LEMMA SourceStep ==
  ASSUME AgendaInv, [AgendaNext]_agendaVars
  PROVE  [Source!Next]_(Source!vars)
<1>t. AgendaTypeOK /\ KnowsWhat
  BY DEF AgendaInv
<1>1. ASSUME UNCHANGED <<disk, offered, reader, answer>> PROVE UNCHANGED Source!vars
  BY <1>1 DEF Source!vars
<1>2. ASSUME NEW f \in File, NEW c, FileBecomes(f, c) PROVE Source!Next
  <2>1. offered' = IF reader # "idle" THEN offered \cup ({disk'["manifest"]} \cap Edition) ELSE {}
    BY <1>2 DEF FileBecomes
  <2>2. UNCHANGED <<reader, answer>>
    BY <1>2 DEF FileBecomes, read
  <2> QED
    BY <2>1, <2>2 DEF Source!Next, Source!Change
<1>3. CASE BeginRead
  BY <1>3 DEF BeginRead, host, Source!Next, Source!Begin
<1>4. ASSUME NEW a, Return(a), Reads, reader # "idle", Shown(a) \in offered \cup Refusals
      PROVE  Source!Next
  <2>1. Shown(answer)' = Shown(a) /\ reader' = "idle" /\ offered' = {} /\ disk' = disk
    BY <1>4 DEF Return, Reads, host, Shown
  <2> QED
    BY <1>4, <2>1 DEF Source!Next, Source!End, Shown
<1>5. ASSUME reader \in File, UNCHANGED <<answer, offered>>, Reads, reader' # "idle"
      PROVE  UNCHANGED Source!vars
  BY <1>5 DEF Source!vars, Reads, host, File
<1>6. CASE ReadManifest
  BY <1>6, <1>4, <1>5, RefusalsAreShown DEF ReadManifest, File
<1>7. CASE ReadSnapshot \/ ReadEditorial
  BY <1>7, <1>4, <1>5, RefusalsAreShown DEF ReadSnapshot, ReadEditorial, File
<1>8. CASE Project
  <2>1. /\ manifest \in offered /\ manifest \in Edition /\ snapshot = SnapshotOf[manifest]
        /\ editorial = EditorialOf[manifest]
    BY <1>8, <1>t DEF Project, KnowsWhat, AgendaTypeOK
  <2>2. snapshot \in Snapshot
    BY <2>1, PartsOfEditions
  <2>3. \/ Projection.status \in Refusals
        \/ /\ Projection.status = "ready" /\ Projection.manifest = manifest
           /\ Projection.snapshot = snapshot /\ Projection.editorial = editorial
    BY <1>t, <2>1, <2>2, Projects
  <2>4. Shown(Projection) \in offered \cup Refusals
    BY <2>1, <2>3 DEF Shown, Refusals
  <2> QED
    BY <1>8, <1>4, <2>4 DEF Project
<1>9. CASE HostStep
  <2>1. CASE \E e \in Edition : Generate(e)
    BY <2>1, <1>1 DEF Generate, read
  <2>2. CASE GeneratorStops
    BY <2>2, <1>1 DEF GeneratorStops, read
  <2>3. CASE \E f \in File : Replace(f) \/ Damage(f)
    BY <2>3, <1>2 DEF Replace, Damage
  <2> QED
    BY <1>9, <2>1, <2>2, <2>3 DEF HostStep
<1>10. CASE AgendaTick
  BY <1>10, <1>1 DEF AgendaTick, host, read
<1>11. CASE UNCHANGED agendaVars
  BY <1>11, <1>1 DEF agendaVars
<1> QED
  BY <1>3, <1>6, <1>7, <1>8, <1>9, <1>10, <1>11 DEF AgendaNext, AgendaRead

(* Agenda implements EditionSource: whatever the generator does to the      *)
(* files, a read shows one whole edition that was on offer, or none.       *)
THEOREM EditionsAreWhole == AgendaSpec => WholeEditions
<1>1. AgendaInit => Source!Init
  BY SourceInit
<1>2. AgendaInv /\ [AgendaNext]_agendaVars => [Source!Next]_(Source!vars)
  BY SourceStep
<1> QED
  BY <1>1, <1>2, AgendaInductive, PTL DEF AgendaSpec, WholeEditions, Source!Spec

-----------------------------------------------------------------------------
(* An undisturbed read fits what is there.                                 *)

(* While nothing disturbs the read, what it has read is still there.       *)
SeesWhatIs ==
  ~disturbed =>
    /\ reader \in {"snapshot", "editorial", "project"} =>
         configured /\ manifest = disk["manifest"]
    /\ reader \in {"editorial", "project"} => disk["snapshot"] = SnapshotOf[manifest]
    /\ reader = "project" => disk["editorial"] = EditorialOf[manifest]

FitInv == AgendaInv /\ SeesWhatIs /\ AnswerFits

(* An edition in place is the one whose manifest is there.                 *)
LEMMA InPlaceIs ==
  ASSUME NEW e \in InPlace
  PROVE  /\ e \in Edition /\ disk["manifest"] = e /\ disk["snapshot"] = SnapshotOf[e]
         /\ disk["editorial"] = EditorialOf[e]
  BY Contents DEF InPlace, Whole, File

(* A read that ends without an edition, with none in place.                *)
LEMMA RefusalFits ==
  ASSUME AgendaInv', Return(Unavailable), UNCHANGED disk, InPlace = {}
  PROVE  SeesWhatIs' /\ AnswerFits'
<1>1. InPlace' = {} /\ answer' = Unavailable /\ reader' = "idle"
  BY DEF Return, InPlace, Whole
<1> QED
  BY <1>1, RefusalsAreAnswers DEF SeesWhatIs, AnswerFits

(* The projection of the edition in place is what is to be said of it.     *)
LEMMA ProjectionFits ==
  ASSUME FitInv, Project, AgendaInv'
  PROVE  SeesWhatIs' /\ AnswerFits'
<1>1. reader' = "idle" /\ answer' = Projection /\ UNCHANGED <<disk, now, configured, disturbed>>
  BY DEF Project, Return, Reads, host
<1>2. SeesWhatIs'
  BY <1>1 DEF SeesWhatIs
<1>3. SUFFICES ASSUME ~disturbed PROVE AnswerFits'
  BY <1>1, <1>2 DEF AnswerFits
<1>4. /\ manifest = disk["manifest"] /\ manifest \in Edition
      /\ disk["snapshot"] = SnapshotOf[manifest] /\ disk["editorial"] = EditorialOf[manifest]
      /\ snapshot = SnapshotOf[manifest]
  BY <1>3 DEF FitInv, SeesWhatIs, AgendaInv, KnowsWhat, AgendaTypeOK, Project
<1>5. InPlace = {manifest}
  <2>1. manifest \in InPlace
    BY <1>4, Contents DEF InPlace, Whole, File
  <2> QED
    BY <1>4, <2>1, InPlaceIs
<1>6. InPlace' = {manifest} /\ Sound \subseteq Readable
  BY <1>1, <1>5, AgendaAssumption DEF InPlace, Whole
<1>7. Supported(manifest) = Understood(manifest)
  BY DEF Supported, Understood
<1>u. Unavailable.status = "unavailable" /\ Mismatch.status = "contract-mismatch"
  BY RefusalsAreAnswers
<1>8. CASE manifest \notin Readable
  <2>1. answer'.status = "unavailable"
    BY <1>1, <1>8, <1>u DEF Projection
  <2> QED
    BY <1>6, <1>8, <2>1 DEF AnswerFits
<1>9. CASE manifest \in Readable /\ ~Understood(manifest)
  <2>1. answer'.status = "contract-mismatch"
    BY <1>1, <1>9, <1>u DEF Projection
  <2> QED
    BY <1>6, <1>7, <1>9, <2>1 DEF AnswerFits
<1>10. CASE /\ manifest \in Readable /\ Understood(manifest)
            /\ manifest \notin Sound \/ Ahead(manifest, now)
  <2>1. answer'.status = "unavailable"
    BY <1>1, <1>10, <1>u DEF Projection
  <2>2. manifest \notin Sound \/ Ahead(manifest, now')
    BY <1>1, <1>10
  <2> QED
    BY <1>6, <1>7, <1>10, <2>1, <2>2 DEF AnswerFits
<1>11. CASE /\ manifest \in Sound /\ manifest \in Readable /\ Understood(manifest)
            /\ ~Ahead(manifest, now)
  <2> DEFINE late == now > Observed[snapshot] + MaxEvidence
  <2>1. answer' = [status |-> "ready", manifest |-> manifest, snapshot |-> snapshot,
                   editorial |-> editorial, stale |-> late]
    BY <1>1, <1>11 DEF Projection
  <2>2. answer'.status = "ready" /\ answer'.stale = late /\ answer'.manifest = manifest
    BY <2>1
  <2>3. late = (now' > Observed[disk'["snapshot"]] + MaxEvidence)
    BY <1>1, <1>4
  <2> HIDE DEF late
  <2>4. manifest \in Sound /\ Supported(manifest) /\ ~Ahead(manifest, now')
    BY <1>1, <1>7, <1>11
  <2> QED
    BY <1>1, <1>4, <1>6, <2>2, <2>3, <2>4 DEF AnswerFits
<1> QED
  BY <1>6, <1>8, <1>9, <1>10, <1>11

(* Every step keeps it.                                                    *)
LEMMA FitStepInv ==
  ASSUME FitInv, [AgendaNext]_agendaVars
  PROVE  FitInv'
<1>1. AgendaInv'
  BY AgendaStepInv DEF FitInv
<1>2. ASSUME UNCHANGED <<configured, now, read>>, disturbed' = (disturbed \/ disk' # disk)
      PROVE  SeesWhatIs' /\ AnswerFits'
  <2>1. CASE disk' # disk \/ disturbed
    BY <1>2, <2>1 DEF SeesWhatIs, AnswerFits
  <2>2. CASE disk' = disk /\ ~disturbed
    <3>1. UNCHANGED InPlace
      BY <2>2 DEF InPlace, Whole
    <3> QED
      BY <1>2, <2>2, <3>1 DEF FitInv, read, SeesWhatIs, AnswerFits
  <2> QED
    BY <2>1, <2>2
<1>3. CASE HostStep
  <2>1. CASE \E f \in File : Replace(f) \/ Damage(f)
    BY <1>1, <1>2, <2>1 DEF Replace, Damage, FileBecomes, FitInv
  <2>2. CASE GeneratorStops \/ \E e \in Edition : Generate(e)
    <3>1. UNCHANGED <<configured, now, read, disturbed, disk>> /\ disturbed \in BOOLEAN
      BY <2>2 DEF GeneratorStops, Generate, FitInv, AgendaInv, AgendaTypeOK
    <3> QED
      BY <1>1, <1>2, <3>1 DEF FitInv
  <2> QED
    BY <1>3, <2>1, <2>2 DEF HostStep
<1>4. CASE AgendaTick
  BY <1>1, <1>4 DEF AgendaTick, FitInv, SeesWhatIs, AnswerFits
<1>5. CASE BeginRead
  BY <1>1, <1>5 DEF BeginRead, FitInv, SeesWhatIs, AnswerFits
<1>6. CASE ReadManifest
  <2>1. CASE ~configured /\ Return(NotConfigured)
    BY <1>1, <1>6, <2>1 DEF ReadManifest, Reads, host, Return, FitInv, SeesWhatIs, AnswerFits
  <2>2. CASE disk["manifest"] = Nothing /\ Return(Unavailable)
    <3>1. InPlace = {}
      BY <2>2, InPlaceIs, AgendaAssumption
    <3> QED
      BY <1>1, <1>6, <2>2, <3>1, RefusalFits DEF ReadManifest, Reads, host, FitInv
  <2>3. CASE configured /\ manifest' = disk["manifest"] /\ reader' = "snapshot"
    BY <1>1, <1>6, <2>3 DEF ReadManifest, Reads, host, FitInv, SeesWhatIs, AnswerFits
  <2> QED
    BY <1>6, <2>1, <2>2, <2>3 DEF ReadManifest
<1>7. ASSUME UNCHANGED <<disk, disturbed>>, Return(Unavailable),
             reader \in {"snapshot", "editorial"}, ~Intact(reader)
      PROVE  FitInv'
  <2>1. CASE disturbed
    BY <1>1, <1>7, <2>1 DEF Return, FitInv, SeesWhatIs, AnswerFits
  <2>2. CASE ~disturbed
    <3>1. manifest = disk["manifest"]
      BY <1>7, <2>2 DEF FitInv, SeesWhatIs
    <3>2. InPlace = {}
      BY <1>7, <3>1, InPlaceIs, Contents DEF Intact
    <3> QED
      BY <1>1, <1>7, <3>2, RefusalFits DEF FitInv
  <2> QED
    BY <2>1, <2>2
<1>8. CASE ReadSnapshot
  <2>1. CASE ~Intact("snapshot") /\ Return(Unavailable)
    BY <1>7, <1>8, <2>1 DEF ReadSnapshot, Reads, host
  <2>2. CASE Intact("snapshot") /\ reader' = "editorial" /\ manifest' = manifest
    BY <1>1, <1>8, <2>2, Contents
       DEF ReadSnapshot, Reads, host, Intact, FitInv, SeesWhatIs, AnswerFits
  <2> QED
    BY <1>8, <2>1, <2>2 DEF ReadSnapshot
<1>9. CASE ReadEditorial
  <2>1. CASE ~Intact("editorial") /\ Return(Unavailable)
    BY <1>7, <1>9, <2>1 DEF ReadEditorial, Reads, host
  <2>2. CASE Intact("editorial") /\ reader' = "project" /\ manifest' = manifest
    BY <1>1, <1>9, <2>2, Contents
       DEF ReadEditorial, Reads, host, Intact, FitInv, SeesWhatIs, AnswerFits
  <2> QED
    BY <1>9, <2>1, <2>2 DEF ReadEditorial
<1>10. CASE Project
  BY <1>1, <1>10, ProjectionFits DEF FitInv
<1>11. CASE UNCHANGED agendaVars
  BY <1>1, <1>2, <1>11 DEF agendaVars, read, FitInv, AgendaInv, AgendaTypeOK
<1> QED
  BY <1>3, <1>4, <1>5, <1>6, <1>8, <1>9, <1>10, <1>11 DEF AgendaNext, AgendaRead

(* A read that nothing disturbed says of the edition in place what is to be *)
(* said of it, in the order the documentation promises.                    *)
THEOREM AnswersFit == AgendaSpec => []AnswerFits
<1>1. AgendaInit => FitInv
  <2> SUFFICES ASSUME AgendaInit PROVE FitInv
    OBVIOUS
  <2>1. InPlace = {}
    <3>1. disk["manifest"] = Nothing
      BY DEF AgendaInit, File
    <3> QED
      BY <3>1, InPlaceIs, AgendaAssumption
  <2> QED
    BY <2>1, AgendaInitInv, RefusalsAreAnswers DEF AgendaInit, FitInv, SeesWhatIs, AnswerFits
<1>2. FitInv /\ [AgendaNext]_agendaVars => FitInv'
  BY FitStepInv
<1>3. FitInv => AnswerFits
  BY DEF FitInv
<1> QED
  BY <1>1, <1>2, <1>3, PTL DEF AgendaSpec

-----------------------------------------------------------------------------
(* The round.                                                              *)

Held == {h \in Hold : status[h] # "none"}

AfterOversight == {"agenda", "reading", "frog", "envelope", "pushed"}

(* The surfaces read so far.                                               *)
ReadSurfaces ==
  IF step \in {"rest", "bridge"} THEN {}
  ELSE {"bridge"} \cup {Gates[i] : i \in 1..gate}

(* Where the round is.                                                     *)
RoundInv ==
  /\ ~enabled => Held = {} /\ step \notin {"bridge", "gates"}
  /\ step \in {"rest", "bridge"} => gate = 0 /\ items = {}
  /\ step = "gates" => gate < Len(Gates)
  /\ enabled /\ step \in AfterOversight => gate = Len(Gates)

(* What the history says of the holds.                                     *)
HistoryInv ==
  /\ step = "rest" => always = {} /\ ever = {}
  /\ always \subseteq Pending
  /\ step # "rest" => Pending \subseteq ever

(* What is shown is held by the surfaces read, and all of it that was       *)
(* there, if they answered and there is room.                              *)
ShownInv ==
  /\ items \subseteq ever
  /\ \A h \in items : h \in Held /\ SurfaceOf[h] \in ReadSurfaces
  /\ ~stale /\ Cardinality(Held) <= Limit =>
       \A h \in always : SurfaceOf[h] \in ReadSurfaces => h \in items

(* The agenda goes into the push if it fits beside the rest.               *)
GaveWay ==
  step = "pushed" =>
    agenda = IF size + AgendaTakes(answer) <= Cap THEN answer ELSE Unavailable

Yields == OptionalYields /\ GaveWay

ViewsInv ==
  AgendaInv /\ TypeOK /\ RoundInv /\ HistoryInv /\ ShownInv /\ Yields

-----------------------------------------------------------------------------
(* Facts about the data.                                                   *)

(* Sets of holds are finite.                                               *)
LEMMA HoldsAreFinite ==
  ASSUME NEW S, S \subseteq Hold
  PROVE  /\ IsFiniteSet(S) /\ Cardinality(S) \in Nat
         /\ \A T \in SUBSET S : IsFiniteSet(T) /\ Cardinality(T) \in Nat
                                /\ Cardinality(T) <= Cardinality(S)
                                /\ (Cardinality(S) = Cardinality(T) => S = T)
<1>1. IsFiniteSet(Hold) /\ S \in SUBSET Hold
  BY DashViewsAssumption
<1>2. IsFiniteSet(S)
  BY <1>1, FS_Subset
<1> QED
  BY <1>2, FS_Subset, FS_CardinalityType

(* The first n of a set: no more than n of them, and all if there is room.  *)
LEMMA FirstsOf ==
  ASSUME NEW n \in Nat, NEW S, S \subseteq Hold, NEW T \in Firsts(n, S)
  PROVE  /\ T \subseteq S /\ Cardinality(T) <= n
         /\ Cardinality(S) <= n => T = S
<1>1. Cardinality(S) \in Nat
  BY HoldsAreFinite
<1>2. T \in SUBSET S /\ Cardinality(T) = (IF n < Cardinality(S) THEN n ELSE Cardinality(S))
  BY DEF Firsts, kSubset
<1>3. Cardinality(T) \in Nat /\ (Cardinality(S) = Cardinality(T) => S = T)
  BY <1>2, HoldsAreFinite
<1> QED
  BY <1>1, <1>2, <1>3

(* Two sets of holds that have none in common.                             *)
LEMMA DisjointHolds ==
  ASSUME NEW S, S \subseteq Hold, NEW T, T \subseteq Hold, S \cap T = {}
  PROVE  Cardinality(S \cup T) = Cardinality(S) + Cardinality(T)
<1>1. IsFiniteSet(S) /\ IsFiniteSet(T) /\ Cardinality(S) \in Nat /\ Cardinality(T) \in Nat
  BY HoldsAreFinite
<1>2. Cardinality(S \cap T) = 0
  BY FS_EmptySet
<1>3. Cardinality(S \cup T) = Cardinality(S) + Cardinality(T) - Cardinality(S \cap T)
  BY <1>1, FS_Union
<1> QED
  BY <1>1, <1>2, <1>3

(* With every surface read, no hold is left.                               *)
LEMMA EverySurfaceRead ==
  ASSUME TypeOK, RoundInv, enabled, step \in AfterOversight, NEW h \in Hold
  PROVE  SurfaceOf[h] \in ReadSurfaces
  BY DashViewsAssumption DEF RoundInv, ReadSurfaces, AfterOversight

-----------------------------------------------------------------------------
(* The initial states.                                                     *)
LEMMA ViewsInitInv == Init => ViewsInv
<1> SUFFICES ASSUME Init PROVE ViewsInv
  OBVIOUS
<1>1. AgendaInv
  BY AgendaInitInv DEF Init
<1>2. reader = "idle" /\ answer = Unavailable /\ agenda = Unavailable /\ Held = {} /\ Pending = {}
  BY DEF Init, AgendaInit, Held, Pending
<1>3. Len(Gates) \in Nat /\ Limit \in Nat /\ Cardinality({}) = 0
  BY DashViewsAssumption, FS_EmptySet
<1>4. 0 \in 0..Len(Gates) /\ Cardinality(items) <= Limit
  BY <1>3 DEF Init
<1>5. TypeOK
  BY <1>1, <1>2, <1>4, RefusalsAreAnswers DEF Init, TypeOK, AgendaInv
<1>6. RoundInv /\ HistoryInv /\ ShownInv /\ Yields
  BY <1>2 DEF Init, RoundInv, HistoryInv, ShownInv, Yields, OptionalYields, GaveWay, AfterOversight
<1> QED
  BY <1>1, <1>5, <1>6 DEF ViewsInv

-----------------------------------------------------------------------------
(* The world's steps.                                                      *)

(* Nothing of the pusher's round, of Ephor or of the answer changes.       *)
LEMMA StillInv ==
  ASSUME ViewsInv, Still, AgendaInv', answer' = answer, reader' = reader
  PROVE  ViewsInv'
<1>1. TypeOK'
  BY DEF ViewsInv, AgendaInv, TypeOK, Still, oversight, others, history
<1>2. RoundInv' /\ HistoryInv' /\ ShownInv'
  BY DEF ViewsInv, RoundInv, HistoryInv, ShownInv, Still, oversight, others, history,
         Held, Pending, ReadSurfaces
<1>3. Yields'
  BY DEF ViewsInv, Yields, OptionalYields, GaveWay, Still, oversight, others, Fits, FrogTakes, AgendaTakes
<1> QED
  BY <1>1, <1>2, <1>3 DEF ViewsInv

(* The generator, damage and the clock leave the answer alone.             *)
LEMMA WorldOfAgenda ==
  ASSUME ViewsInv, (HostStep /\ Still) \/ (AgendaTick /\ Still)
  PROVE  ViewsInv'
<1>1. answer' = answer /\ reader' = reader
  BY DEF HostStep, Generate, Replace, Damage, GeneratorStops, FileBecomes, AgendaTick, read
<1>2. AgendaInv'
  BY AgendaStepInv DEF ViewsInv, AgendaNext
<1> QED
  BY <1>1, <1>2, StillInv

(* A hold is requested or decided.                                         *)
LEMMA HoldSteps ==
  ASSUME ViewsInv, NEW h \in Hold, HoldRequested(h) \/ HoldDecided(h)
  PROVE  ViewsInv'
<1> USE DEF ViewsInv
<1>1. PICK s \in {"pending", "decided"} :
        /\ Becomes(h, s)
        /\ s = "pending" => /\ enabled /\ status[h] = "none" /\ always' = always
                            /\ ever' = IF step = "rest" THEN ever ELSE ever \cup {h}
        /\ s = "decided" => status[h] = "pending" /\ always' = always \ {h} /\ ever' = ever
  BY DEF HoldRequested, HoldDecided
<1>2. UNCHANGED <<agendaVars, enabled, step, oversight, others>>
  BY <1>1 DEF Becomes
<1>3. AgendaInv'
  BY <1>2, AgendaStepInv
<1>4. /\ status' \in [Hold -> {"none", "pending", "decided"}]
      /\ status'[h] = s /\ \A k \in Hold \ {h} : status'[k] = status[k]
  BY <1>1 DEF Becomes, TypeOK
<1>5. TypeOK'
  <2>1. always' \subseteq ever' /\ ever' \subseteq Hold
    BY <1>1 DEF TypeOK
  <2>2. UNCHANGED <<reader, enabled, step, gate, items, stale, frog, size, agenda>>
    BY <1>2 DEF agendaVars, oversight, others
  <2> QED
    BY <1>3, <1>4, <2>1, <2>2 DEF TypeOK, AgendaInv
<1>6. Held' = Held \cup {h} /\ UNCHANGED <<enabled, step, gate, items, stale>>
  BY <1>1, <1>2, <1>4 DEF Held, oversight
<1>7. /\ s = "pending" => Pending' = Pending \cup {h}
      /\ s = "decided" => Pending' = Pending \ {h}
  BY <1>1, <1>4 DEF Pending
<1>8. RoundInv'
  <2>1. enabled
    BY <1>1 DEF RoundInv, Held
  <2> QED
    BY <1>6, <2>1 DEF RoundInv
<1>9. HistoryInv'
  BY <1>1, <1>6, <1>7 DEF HistoryInv, Pending
<1>10. ShownInv'
  <2>1. Held \subseteq Held' /\ Held' \subseteq Hold
    BY <1>6 DEF Held
  <2>2. Cardinality(Held) \in Nat /\ Cardinality(Held') \in Nat
        /\ Cardinality(Held) <= Cardinality(Held')
    BY <2>1, HoldsAreFinite
  <2>3. Cardinality(Held') <= Limit => Cardinality(Held) <= Limit
    BY <2>2, DashViewsAssumption
  <2>4. ReadSurfaces' = ReadSurfaces /\ always' \subseteq always /\ ever \subseteq ever'
    BY <1>1, <1>6 DEF ReadSurfaces
  <2> QED
    BY <1>6, <2>1, <2>3, <2>4 DEF ShownInv
<1>11. Yields'
  BY <1>2 DEF Yields, OptionalYields, GaveWay, agendaVars, others, Fits, FrogTakes, AgendaTakes
<1> QED
  BY <1>3, <1>5, <1>8, <1>9, <1>10, <1>11

-----------------------------------------------------------------------------
(* The round's steps.                                                      *)

(* Steps that read no surface and do not end the round.                    *)
LEMMA ShownStays ==
  ASSUME ViewsInv, UNCHANGED <<oversight, enabled, status, history>>,
         \/ step = "agenda" /\ step' \in AfterOversight
         \/ step \in AfterOversight /\ step' \in AfterOversight
  PROVE  RoundInv' /\ HistoryInv' /\ ShownInv'
<1> USE DEF ViewsInv
<1>1. UNCHANGED <<Held, Pending, ReadSurfaces>>
  BY DEF Held, Pending, ReadSurfaces, AfterOversight, oversight
<1> QED
  BY <1>1 DEF RoundInv, HistoryInv, ShownInv, AfterOversight, oversight, history

(* The round begins.                                                       *)
LEMMA FetchKanbanInv ==
  ASSUME ViewsInv, FetchKanban
  PROVE  ViewsInv'
<1> USE DEF ViewsInv
<1>1. AgendaInv'
  BY AgendaStepInv DEF FetchKanban
<1>2. UNCHANGED <<agendaVars, enabled, status, oversight, frog, agenda>>
      /\ step = "rest" /\ step' = (IF enabled THEN "bridge" ELSE "agenda")
      /\ size' \in WorkSize /\ always' = Pending /\ ever' = Pending
  BY DEF FetchKanban
<1>3. UNCHANGED <<Held, Pending>> /\ Pending \subseteq Held /\ Pending \subseteq Hold
  BY <1>2 DEF Held, Pending
<1>4. reader' = "idle"
  BY <1>2 DEF TypeOK, agendaVars
<1>5. TypeOK'
  BY <1>1, <1>2, <1>3, <1>4 DEF TypeOK, AgendaInv, oversight
<1>6. items = {} /\ gate = 0 /\ UNCHANGED <<gate, items, stale>>
  BY <1>2 DEF RoundInv, oversight
<1>7. RoundInv'
  BY <1>2, <1>3, <1>6 DEF RoundInv, AfterOversight
<1>8. HistoryInv' /\ ShownInv'
  <2>1. enabled => ReadSurfaces' = {}
    BY <1>2 DEF ReadSurfaces
  <2>2. ~enabled => always' = {}
    BY <1>2, <1>3 DEF RoundInv
  <2> QED
    BY <1>2, <1>3, <1>6, <2>1, <2>2 DEF HistoryInv, ShownInv
<1>9. Yields'
  BY <1>2 DEF Yields, OptionalYields, GaveWay
<1> QED
  BY <1>1, <1>5, <1>7, <1>8, <1>9

(* A surface is read: what it shows is pending, held by it, no more than    *)
(* there is room for, and everything of it if there is room for all.       *)
LEMMA SurfaceRead ==
  ASSUME ViewsInv, NEW s, NEW new,
         UNCHANGED <<agendaVars, enabled, status, history, others>>,
         step \in {"bridge", "gates"}, step' = AfterGates,
         gate' \in 0..Len(Gates),
         ReadSurfaces' = ReadSurfaces \cup {s}, s \notin ReadSurfaces,
         items' = items \cup new, new \subseteq HeldBy(s) \cap Pending,
         Cardinality(new) <= Limit - Cardinality(items),
         stale' \in BOOLEAN, ~stale' => ~stale,
         ~stale' /\ Cardinality(HeldBy(s)) <= Limit
                 /\ Cardinality(HeldBy(s) \cap Pending) <= Limit - Cardinality(items)
           => HeldBy(s) \cap Pending \subseteq new
  PROVE  ViewsInv'
<1> USE DEF ViewsInv
<1>a. AgendaInv'
  BY AgendaStepInv
<1>1. UNCHANGED <<Held, Pending, always, ever, enabled, reader>>
  BY DEF Held, Pending, history, agendaVars
<1>2. /\ HeldBy(s) \subseteq Held /\ Held \subseteq Hold /\ items \subseteq Hold
      /\ Pending \subseteq Hold /\ new \subseteq Hold /\ items \subseteq Held
  BY DEF HeldBy, Held, Pending, TypeOK, ShownInv
<1>3. items \cap (HeldBy(s) \cap Pending) = {}
  BY DEF ShownInv, HeldBy
<1>4. Cardinality(items') = Cardinality(items) + Cardinality(new)
  BY <1>2, <1>3, DisjointHolds
<1>5. Cardinality(items) \in Nat /\ Cardinality(new) \in Nat /\ Limit \in Nat
  BY <1>2, HoldsAreFinite, DashViewsAssumption
<1>6. step' \in {"gates", "agenda"} /\ (step' = "gates" <=> gate' < Len(Gates))
  BY DEF AfterGates
<1>7. TypeOK'
  <2>1. items' \subseteq Hold /\ Cardinality(items') <= Limit
    BY <1>2, <1>4, <1>5
  <2>2. reader' = "idle" /\ UNCHANGED <<enabled, status, frog, size, agenda>>
    BY DEF TypeOK, agendaVars, others
  <2> QED
    BY <1>a, <1>1, <1>6, <2>1, <2>2 DEF TypeOK, AgendaInv
<1>8. RoundInv'
  <2>1. Len(Gates) \in Nat /\ enabled
    BY DashViewsAssumption DEF RoundInv
  <2> QED
    BY <1>1, <1>6, <2>1 DEF RoundInv, AfterOversight
<1>9. HistoryInv'
  BY <1>1, <1>6 DEF HistoryInv
<1>10. ShownInv'
  <2>1. items' \subseteq ever'
    BY <1>1 DEF ShownInv, HistoryInv
  <2>2. \A h \in items' : h \in Held' /\ SurfaceOf[h] \in ReadSurfaces'
    BY <1>1, <1>2 DEF ShownInv, HeldBy
  <2>3. ASSUME ~stale', Cardinality(Held) <= Limit PROVE HeldBy(s) \cap Pending \subseteq new
    <3> DEFINE both == items \cup (HeldBy(s) \cap Pending)
    <3>1. HeldBy(s) \in SUBSET Held /\ both \in SUBSET Held
      BY <1>2
    <3>2. Cardinality(HeldBy(s)) <= Cardinality(Held) /\ Cardinality(both) <= Cardinality(Held)
          /\ Cardinality(HeldBy(s)) \in Nat /\ Cardinality(both) \in Nat
          /\ Cardinality(Held) \in Nat
      BY <1>2, <3>1, HoldsAreFinite
    <3>3. HeldBy(s) \cap Pending \subseteq Hold
      BY <1>2
    <3>4. Cardinality(both) = Cardinality(items) + Cardinality(HeldBy(s) \cap Pending)
          /\ Cardinality(HeldBy(s) \cap Pending) \in Nat
      BY <1>2, <1>3, <3>3, DisjointHolds, HoldsAreFinite
    <3>5. Cardinality(HeldBy(s)) <= Limit
          /\ Cardinality(HeldBy(s) \cap Pending) <= Limit - Cardinality(items)
      BY <1>5, <2>3, <3>2, <3>4
    <3> QED
      BY <2>3, <3>5
  <2>4. \A h \in always : SurfaceOf[h] = s => h \in HeldBy(s) \cap Pending
    BY DEF HistoryInv, HeldBy, Pending
  <2>5. ASSUME ~stale', Cardinality(Held') <= Limit, NEW h \in always',
               SurfaceOf[h] \in ReadSurfaces'
        PROVE  h \in items'
    <3>1. ~stale /\ Cardinality(Held) <= Limit /\ h \in always
      BY <1>1, <2>5
    <3>2. CASE SurfaceOf[h] = s
      BY <2>3, <2>4, <2>5, <3>1, <3>2
    <3>3. CASE SurfaceOf[h] \in ReadSurfaces
      BY <3>1, <3>3 DEF ShownInv
    <3> QED
      BY <2>5, <3>2, <3>3
  <2> QED
    BY <2>1, <2>2, <2>5 DEF ShownInv
<1>11. Yields'
  BY <1>6 DEF Yields, OptionalYields, GaveWay
<1> QED
  BY <1>a, <1>7, <1>8, <1>9, <1>10, <1>11

(* The bridge is read, or does not answer.                                 *)
LEMMA BridgeInv ==
  ASSUME ViewsInv, BridgeLists
  PROVE  ViewsInv'
<1> USE DEF ViewsInv
<1>1. step = "bridge" /\ gate = 0 /\ items = {} /\ gate' = gate /\ ReadSurfaces = {}
  BY DEF BridgeLists, RoundInv, ReadSurfaces
<1>2. step' = AfterGates /\ UNCHANGED <<agendaVars, enabled, status, history, others>>
  BY DEF BridgeLists, Goes
<1>3. step' \in {"gates", "agenda"}
  BY <1>2 DEF AfterGates
<1>4. ReadSurfaces' = ReadSurfaces \cup {"bridge"}
  BY <1>1, <1>3 DEF ReadSurfaces
<1>5. Cardinality({}) = 0 /\ gate' \in 0..Len(Gates) /\ Limit \in Nat /\ stale \in BOOLEAN
      /\ HeldBy("bridge") \cap Pending \subseteq Hold
  BY <1>1, FS_EmptySet, DashViewsAssumption DEF TypeOK, Pending
<1>6. ASSUME items' \in Firsts(Limit, HeldBy("bridge") \cap Pending), stale' = stale
      PROVE  ViewsInv'
  <2>1. /\ items' \subseteq HeldBy("bridge") \cap Pending /\ Cardinality(items') <= Limit
        /\ Cardinality(HeldBy("bridge") \cap Pending) <= Limit
             => items' = HeldBy("bridge") \cap Pending
    BY <1>5, <1>6, FirstsOf
  <2>2. Limit - Cardinality(items) = Limit /\ items' = items \cup items'
    BY <1>1, <1>5
  <2> QED
    BY <1>1, <1>2, <1>4, <1>5, <1>6, <2>1, <2>2, SurfaceRead
<1>7. ASSUME stale' = TRUE, items' = items
      PROVE  ViewsInv'
  <2>1. items' = items \cup {} /\ Cardinality({}) <= Limit - Cardinality(items)
    BY <1>1, <1>5, <1>7
  <2> QED
    BY <1>1, <1>2, <1>4, <1>5, <1>7, <2>1, SurfaceRead
<1> QED
  BY <1>6, <1>7 DEF BridgeLists

(* A gate is read, or does not answer.                                     *)
LEMMA GateInv ==
  ASSUME ViewsInv, GateLists \/ GateFails
  PROVE  ViewsInv'
<1> USE DEF ViewsInv
<1>1. step = "gates" /\ gate < Len(Gates) /\ gate \in Nat /\ gate' = gate + 1 /\ Len(Gates) \in Nat
  BY DashViewsAssumption DEF GateLists, GateFails, RoundInv, TypeOK
<1>2. step' = AfterGates /\ UNCHANGED <<agendaVars, enabled, status, history, others>>
  BY DEF GateLists, GateFails, Goes
<1>3. step' \in {"gates", "agenda"} /\ gate' \in 0..Len(Gates)
  BY <1>1, <1>2 DEF AfterGates
<1> DEFINE s == Gates[gate']
<1>4. ReadSurfaces' = ReadSurfaces \cup {s}
  <2>1. 1..gate' = (1..gate) \cup {gate'}
    BY <1>1
  <2>2. {Gates[i] : i \in 1..gate'} = {Gates[i] : i \in 1..gate} \cup {s}
    BY <2>1
  <2> QED
    BY <1>1, <1>3, <2>2 DEF ReadSurfaces
<1>5. s \notin ReadSurfaces
  BY <1>1, <1>3, DashViewsAssumption DEF ReadSurfaces
<1>6. Limit \in Nat /\ stale \in BOOLEAN /\ Cardinality(items) \in Nat
      /\ Limit - Cardinality(items) \in Nat /\ HeldBy(s) \subseteq Hold
  <2>1. items \subseteq Hold /\ Cardinality(items) <= Limit /\ stale \in BOOLEAN /\ HeldBy(s) \subseteq Hold
    BY DEF TypeOK, HeldBy
  <2> QED
    BY <2>1, HoldsAreFinite, DashViewsAssumption
<1> HIDE DEF s
<1>7. ASSUME NEW listed \in Firsts(Limit, HeldBy(s)), NEW kept \in Kept(listed),
             items' = items \cup kept, stale' = stale
      PROVE  ViewsInv'
  <2>1. listed \subseteq HeldBy(s) /\ (Cardinality(HeldBy(s)) <= Limit => listed = HeldBy(s))
    BY <1>6, FirstsOf
  <2>2. listed \cap Pending \subseteq Hold
    BY <1>6, <2>1
  <2>3. /\ kept \subseteq listed \cap Pending /\ Cardinality(kept) <= Limit - Cardinality(items)
        /\ Cardinality(listed \cap Pending) <= Limit - Cardinality(items) => kept = listed \cap Pending
    BY <1>6, <2>2, FirstsOf DEF Kept
  <2> QED
    BY <1>1, <1>2, <1>3, <1>4, <1>5, <1>6, <1>7, <2>1, <2>3, SurfaceRead
<1>8. ASSUME stale' = TRUE, items' = items
      PROVE  ViewsInv'
  <2>1. items' = items \cup {} /\ Cardinality({}) <= Limit - Cardinality(items)
    BY <1>6, <1>8, FS_EmptySet
  <2> QED
    BY <1>1, <1>2, <1>3, <1>4, <1>5, <1>6, <1>8, <2>1, SurfaceRead
<1> QED
  BY <1>7, <1>8 DEF GateLists, GateFails, s

(* The agenda is read.                                                     *)
LEMMA AgendaReadInv ==
  ASSUME ViewsInv, AgendaBegins \/ AgendaReads
  PROVE  ViewsInv'
<1> USE DEF ViewsInv
<1>1. AgendaInv'
  BY AgendaStepInv DEF AgendaBegins, AgendaReads, AgendaNext
<1>2. /\ UNCHANGED <<oversight, others, enabled, status, history>>
      /\ step \in AfterOversight /\ step' \in {"reading", "frog"}
      /\ reader' # "idle" => step' = "reading"
  BY DEF AgendaBegins, AgendaReads, Goes, AfterOversight
<1>3. TypeOK'
  BY <1>1, <1>2 DEF TypeOK, AgendaInv, oversight, others, history
<1>4. RoundInv' /\ HistoryInv' /\ ShownInv'
  BY <1>2, ShownStays DEF AfterOversight
<1>5. Yields'
  BY <1>2 DEF Yields, OptionalYields, GaveWay
<1> QED
  BY <1>1, <1>3, <1>4, <1>5

(* Frog's view is read.                                                    *)
LEMMA FrogInv ==
  ASSUME ViewsInv, FrogListed
  PROVE  ViewsInv'
<1> USE DEF ViewsInv
<1>1. AgendaInv'
  BY AgendaStepInv DEF FrogListed
<1>2. /\ UNCHANGED <<agendaVars, oversight, size, agenda, enabled, status, history>>
      /\ step = "frog" /\ step' = "envelope"
      /\ frog' \in {"disabled", "unavailable", "stale", "ready"}
  BY DashViewsAssumption DEF FrogListed, Goes, Frog
<1>3. TypeOK'
  BY <1>1, <1>2 DEF TypeOK, AgendaInv, oversight, history, agendaVars
<1>4. RoundInv' /\ HistoryInv' /\ ShownInv'
  BY <1>2, ShownStays DEF AfterOversight
<1>5. Yields'
  BY <1>2 DEF Yields, OptionalYields, GaveWay
<1> QED
  BY <1>1, <1>3, <1>4, <1>5

(* The views are made to fit.                                              *)
LEMMA EnvelopeInv ==
  ASSUME ViewsInv, Envelope
  PROVE  ViewsInv'
<1> USE DEF ViewsInv
<1>1. AgendaInv'
  BY AgendaStepInv DEF Envelope
<1>2. /\ UNCHANGED <<agendaVars, oversight, size, enabled, status, history>>
      /\ step = "envelope" /\ step' = "pushed"
      /\ frog' \in {frog, "unavailable"} /\ agenda' \in {answer, Unavailable}
  BY DEF Envelope, Goes
<1>3. TypeOK'
  BY <1>1, <1>2, RefusalsAreAnswers
     DEF TypeOK, AgendaInv, AgendaTypeOK, oversight, history, agendaVars
<1>4. RoundInv' /\ HistoryInv' /\ ShownInv'
  BY <1>2, ShownStays DEF AfterOversight
<1>5. Yields'
  <2>1. \A a : AgendaTakes(a) = IF a.status = "ready" THEN SizeOf[a.manifest] ELSE 0
    BY DEF AgendaTakes
  <2>2. AgendaTakes(answer) \in Nat /\ AgendaTakes(Unavailable) = 0
    BY <2>1, DashViewsAssumption, RefusalsAreAnswers DEF AgendaInv, KnowsWhat
  <2>3. FrogTakes(frog) \in Nat /\ FrogTakes("unavailable") = 0
    BY DashViewsAssumption DEF FrogTakes
  <2>4. size \in Nat /\ Cap \in Nat
    BY DashViewsAssumption DEF TypeOK
  <2>5. answer' = answer /\ size' = size
    BY <1>2 DEF agendaVars
  <2>6. /\ frog' = IF size + FrogTakes(frog) + AgendaTakes(answer) <= Cap
                   THEN frog ELSE "unavailable"
        /\ agenda' = IF size + FrogTakes(frog') + AgendaTakes(answer) <= Cap
                     THEN answer ELSE Unavailable
    BY DEF Envelope, Fits
  <2>7. size <= Cap => size + FrogTakes(frog') + AgendaTakes(agenda') <= Cap
    BY <2>2, <2>3, <2>4, <2>6
  <2>8. agenda' # answer => size + AgendaTakes(answer) > Cap
    BY <2>2, <2>3, <2>4, <2>6
  <2>g. agenda' = IF size + AgendaTakes(answer) <= Cap THEN answer ELSE Unavailable
    BY <2>2, <2>3, <2>4, <2>6
  <2>9. Fits(frog, agenda)' = (size + FrogTakes(frog') + AgendaTakes(agenda') <= Cap)
        /\ AgendaTakes(answer)' = AgendaTakes(answer)
    BY <2>5 DEF Fits, FrogTakes, AgendaTakes
  <2> QED
    BY <2>5, <2>7, <2>8, <2>9, <2>g DEF Yields, OptionalYields, GaveWay
<1> QED
  BY <1>1, <1>3, <1>4, <1>5

(* The round ends.                                                         *)
LEMMA RoundEndsInv ==
  ASSUME ViewsInv, RoundEnds
  PROVE  ViewsInv'
<1> USE DEF ViewsInv
<1>1. AgendaInv'
  BY AgendaStepInv DEF RoundEnds
<1>2. Cardinality({}) = 0 /\ Limit \in Nat /\ Len(Gates) \in Nat
  BY FS_EmptySet, DashViewsAssumption
<1>3. reader' = "idle" /\ UNCHANGED <<enabled, status>>
  BY DEF RoundEnds, TypeOK, agendaVars
<1>e. items' = {} /\ Cardinality(items') <= Limit /\ gate' = 0 /\ gate' \in 0..Len(Gates)
  BY <1>2 DEF RoundEnds
<1>4. TypeOK'
  BY <1>1, <1>3, <1>e, RefusalsAreAnswers DEF RoundEnds, TypeOK, AgendaInv
<1>5. RoundInv' /\ HistoryInv' /\ ShownInv' /\ Yields'
  BY DEF RoundEnds, RoundInv, HistoryInv, ShownInv, Yields, OptionalYields, GaveWay, AfterOversight, Held
<1> QED
  BY <1>1, <1>4, <1>5

(* Every step keeps the invariant.                                         *)
LEMMA ViewsStepInv ==
  ASSUME ViewsInv, [Next]_viewsVars
  PROVE  ViewsInv'
<1>1. CASE UNCHANGED viewsVars
  <2>1. answer' = answer /\ reader' = reader /\ Still /\ UNCHANGED agendaVars
    BY <1>1 DEF viewsVars, agendaVars, Still
  <2>2. AgendaInv'
    BY <2>1, AgendaStepInv DEF ViewsInv
  <2> QED
    BY <2>1, <2>2, StillInv
<1>2. CASE Round
  BY <1>2, FetchKanbanInv, BridgeInv, GateInv, AgendaReadInv, FrogInv, EnvelopeInv, RoundEndsInv
     DEF Round
<1>3. CASE World
  BY <1>3, WorldOfAgenda, HoldSteps DEF World
<1> QED
  BY <1>1, <1>2, <1>3 DEF Next

(* The inductive invariant.                                                *)
THEOREM ViewsInductive == Spec => []ViewsInv
<1>1. Init => ViewsInv
  BY ViewsInitInv
<1>2. ViewsInv /\ [Next]_viewsVars => ViewsInv'
  BY ViewsStepInv
<1> QED
  BY <1>1, <1>2, PTL DEF Spec

-----------------------------------------------------------------------------
(* What follows.                                                           *)

(* Types.                                                                  *)
THEOREM ViewsTypes == Spec => []TypeOK
<1>1. ViewsInv => TypeOK
  BY DEF ViewsInv
<1> QED
  BY <1>1, ViewsInductive, PTL

(* A reviewer who is shown a view that does not call itself stale misses    *)
(* no hold that was there during the whole round.                          *)
THEOREM NothingIsMissed == Spec => []PendingIsShown
<1>1. ViewsInv => PendingIsShown
  <2> SUFFICES ASSUME ViewsInv, step = "pushed", ~stale, Cardinality(Held) <= Limit,
                      NEW h \in always
               PROVE  h \in items
    BY DEF PendingIsShown, Held
  <2>1. h \in Hold /\ h \in Held
    BY DEF ViewsInv, HistoryInv, Pending, Held
  <2>2. enabled
    BY <2>1 DEF ViewsInv, RoundInv
  <2>3. SurfaceOf[h] \in ReadSurfaces
    BY <2>1, <2>2, EverySurfaceRead DEF ViewsInv, AfterOversight
  <2> QED
    BY <2>3 DEF ViewsInv, ShownInv
<1> QED
  BY <1>1, ViewsInductive, PTL

(* What was decided before the round began is not shown.                   *)
THEOREM NothingIsOutdated == Spec => []ShownWasPending
<1>1. ViewsInv => ShownWasPending
  BY DEF ViewsInv, ShownInv, ShownWasPending
<1> QED
  BY <1>1, ViewsInductive, PTL

(* Large optional views keep nothing else from Dash.                       *)
THEOREM LargeViewsYield == Spec => []OptionalYields
<1>1. ViewsInv => OptionalYields
  BY DEF ViewsInv, Yields
<1> QED
  BY <1>1, ViewsInductive, PTL

(* The pusher's rounds and the rest of the system do to the agenda only     *)
(* what Agenda allows.                                                     *)
LEMMA AgendaOfViews == Spec => AgendaSpec
<1>1. Init => AgendaInit
  BY DEF Init
<1>2. [Next]_viewsVars => [AgendaNext]_agendaVars
  <2> SUFFICES ASSUME [Next]_viewsVars PROVE [AgendaNext]_agendaVars
    OBVIOUS
  <2>1. CASE UNCHANGED viewsVars
    BY <2>1 DEF viewsVars
  <2>2. CASE Round
    BY <2>2 DEF Round, FetchKanban, BridgeLists, GateLists, GateFails, AgendaBegins,
                AgendaReads, FrogListed, Envelope, RoundEnds, AgendaNext
  <2>3. CASE World
    BY <2>3 DEF World, HoldRequested, HoldDecided, Becomes, AgendaNext
  <2> QED
    BY <2>1, <2>2, <2>3 DEF Next
<1> QED
  BY <1>1, <1>2, PTL DEF Spec, AgendaSpec

(* What a round reads of the agenda is one whole edition, or none.         *)
THEOREM PushedEditionsAreWhole == Spec => WholeEditions
  BY AgendaOfViews, EditionsAreWhole

(* The same of what the round pushes, once the envelope has looked at the   *)
(* sizes: of an undisturbed round the agenda is the edition in place if it *)
(* projects and has room, and else says why there is none.                 *)
THEOREM PushedAgendaFits == Spec => []PushedFits
<1>1. ViewsInv /\ AnswerFits => PushedFits
  <2> SUFFICES ASSUME ViewsInv, AnswerFits, step = "pushed", ~disturbed, configured
               PROVE  PushedFits
    BY DEF PushedFits
  <2>1. reader = "idle" /\ size \in Nat /\ Cap \in Nat
    BY DashViewsAssumption DEF ViewsInv, TypeOK
  <2>2. agenda = IF size + AgendaTakes(answer) <= Cap THEN answer ELSE Unavailable
    BY DEF ViewsInv, Yields, GaveWay
  <2>3. \A e \in InPlace : e = disk["manifest"] /\ e \in Edition /\ SizeOf[e] \in Nat
    BY InPlaceIs, DashViewsAssumption
  <2>4. Unavailable.status = "unavailable"
    BY RefusalsAreAnswers
  <2>5. /\ answer.status = "contract-mismatch"
             <=> \E e \in InPlace \cap Readable : ~Supported(e)
        /\ answer.status = "ready"
             <=> \E e \in InPlace \cap Sound : Supported(e) /\ ~Ahead(e, now)
        /\ answer.status = "ready" =>
             /\ answer.manifest = disk["manifest"]
             /\ answer.stale <=> now > Observed[disk["snapshot"]] + MaxEvidence
    BY <2>1 DEF AnswerFits
  <2>6. CASE answer.status = "ready"
    <3>1. PICK e \in InPlace \cap Sound : Supported(e) /\ ~Ahead(e, now)
      BY <2>5, <2>6
    <3>2. AgendaTakes(answer) = SizeOf[e] /\ \A d \in InPlace : d = e
      BY <2>3, <2>5, <2>6, <3>1 DEF AgendaTakes
    <3>3. ~\E d \in InPlace \cap Readable : ~Supported(d)
      BY <2>5, <2>6
    <3>4. CASE size + SizeOf[e] <= Cap
      <4>1. agenda = answer
        BY <2>2, <3>2, <3>4
      <4> QED BY <2>5, <2>6, <3>1, <3>3, <3>4, <4>1 DEF PushedFits
    <3>5. CASE ~(size + SizeOf[e] <= Cap)
      <4>1. agenda = Unavailable
        BY <2>2, <3>2, <3>5
      <4> QED BY <2>4, <3>2, <3>3, <3>5, <4>1 DEF PushedFits
    <3> QED BY <3>4, <3>5
  <2>7. CASE answer.status # "ready"
    <3>1. AgendaTakes(answer) = 0 /\ size + 0 = size
      BY <2>1, <2>7 DEF AgendaTakes
    <3>2. agenda.status # "ready"
      BY <2>2, <2>4, <2>7
    <3>3. agenda.status = "contract-mismatch" <=> size <= Cap /\ answer.status = "contract-mismatch"
      BY <2>2, <2>4, <3>1
    <3> QED BY <2>5, <2>7, <3>2, <3>3 DEF PushedFits
  <2> QED BY <2>6, <2>7
<1>2. Spec => []AnswerFits
  BY AgendaOfViews, AnswersFit
<1> QED BY <1>1, <1>2, ViewsInductive, PTL

-----------------------------------------------------------------------------
(* A round comes to its end.                                               *)

(* Between the agenda's first file and its answer the reader is at work.   *)
MidRead == step = "reading" => reader # "idle"

(* The steps of DashPusher.views and of the push that are still to come, at *)
(* most: one per file and the projection of an agenda that is being read.  *)
ReadsLeft ==
  CASE reader = "manifest" -> 4
    [] reader = "snapshot" -> 3
    [] reader = "editorial" -> 2
    [] reader = "project" -> 1
    [] reader = "idle" -> 0

ViewsLeft ==
  CASE step = "rest" -> 0
    [] step = "pushed" -> 1
    [] step = "envelope" -> 2
    [] step = "frog" -> 3
    [] step = "reading" -> 3 + ReadsLeft
    [] step = "agenda" -> 8
    [] step = "gates" -> 8 + (Len(Gates) - gate)
    [] step = "bridge" -> 9 + Len(Gates)

(* A round reads each source once: the kanban, the bridge, every gate, the *)
(* agenda's three files, Frog.                                             *)
ViewsBounded == ViewsLeft \in 0..(Len(Gates) + 9)

(* Whatever a source answers, the round is a step nearer to its end; what  *)
(* Ephor, the generator and the clock do meanwhile sends it nowhere back.  *)
ViewsEnd ==
  [][/\ step # "rest" /\ Round => ViewsLeft' < ViewsLeft
     /\ World => ViewsLeft' = ViewsLeft]_viewsVars

LEMMA MidReadInit == Init => MidRead
  BY DEF Init, MidRead

(* Every step of the round lowers what is left of it.                      *)
LEMMA RoundGoesOn ==
  ASSUME ViewsInv, MidRead, Round
  PROVE  MidRead' /\ (step # "rest" => ViewsLeft' < ViewsLeft)
<1>1. Len(Gates) \in Nat /\ gate \in 0..Len(Gates) /\ (step = "gates" => gate < Len(Gates))
  BY DashViewsAssumption DEF ViewsInv, TypeOK, RoundInv
<1>2. CASE FetchKanban
  BY <1>2 DEF FetchKanban, MidRead
<1>3. CASE BridgeLists
  BY <1>1, <1>3 DEF ViewsInv, RoundInv, BridgeLists, Goes, AfterGates, MidRead, ViewsLeft
<1>4. CASE GateLists \/ GateFails
  BY <1>1, <1>4 DEF GateLists, GateFails, Goes, AfterGates, MidRead, ViewsLeft
<1>5. CASE AgendaBegins
  BY <1>5 DEF AgendaBegins, BeginRead, Goes, MidRead, ViewsLeft, ReadsLeft
<1>6. CASE AgendaReads
  <2>1. step = "reading" /\ step' = IF reader' = "idle" THEN "frog" ELSE "reading"
    BY <1>6 DEF AgendaReads, Goes
  <2>2. ReadsLeft \in Nat /\ ReadsLeft' \in Nat /\ ReadsLeft' < ReadsLeft
    BY <1>6 DEF AgendaReads, AgendaRead, ReadManifest, ReadSnapshot, ReadEditorial, Project,
                Return, ReadsLeft
  <2> QED
    BY <2>1, <2>2 DEF MidRead, ViewsLeft
<1>7. CASE FrogListed \/ Envelope \/ RoundEnds
  BY <1>7 DEF FrogListed, Envelope, RoundEnds, Goes, MidRead, ViewsLeft
<1> QED
  BY <1>2, <1>3, <1>4, <1>5, <1>6, <1>7 DEF Round

(* The world's steps leave the round where it is.                          *)
LEMMA WorldLeavesRound ==
  ASSUME World
  PROVE  step' = step /\ gate' = gate /\ reader' = reader
<1>1. CASE \E h \in Hold : HoldRequested(h) \/ HoldDecided(h)
  BY <1>1 DEF HoldRequested, HoldDecided, Becomes, agendaVars, oversight
<1>2. CASE HostStep /\ Still
  BY <1>2 DEF HostStep, Generate, Replace, Damage, FileBecomes, GeneratorStops, read,
              Still, oversight
<1>3. CASE AgendaTick /\ Still
  BY <1>3 DEF AgendaTick, read, Still, oversight
<1> QED
  BY <1>1, <1>2, <1>3 DEF World

(* The invariant of a round with the reader's place.                       *)
LEMMA MidReadInductive == Spec => [](ViewsInv /\ MidRead)
<1>1. ViewsInv /\ MidRead /\ [Next]_viewsVars => MidRead'
  <2>1. ASSUME ViewsInv, MidRead, UNCHANGED viewsVars PROVE MidRead'
    BY <2>1 DEF viewsVars, agendaVars, MidRead
  <2>2. ASSUME ViewsInv, MidRead, World PROVE MidRead'
    BY <2>2, WorldLeavesRound DEF MidRead
  <2> QED
    BY <2>1, <2>2, RoundGoesOn DEF Next
<1> QED
  BY <1>1, MidReadInit, ViewsInductive, PTL DEF Spec

(* DashPusher.views and the push after it (gateway.py:2149-2175, 2267)     *)
(* always come to their end, in at most ten steps more than there are      *)
(* gates, whatever the sources answer and whatever changes meanwhile.      *)
THEOREM ViewsRoundsEnd == Spec => []ViewsBounded /\ ViewsEnd
<1>1. ViewsInv /\ MidRead => ViewsBounded
  <2> SUFFICES ASSUME ViewsInv, MidRead PROVE ViewsBounded
    OBVIOUS
  <2>1. Len(Gates) \in Nat /\ gate \in 0..Len(Gates)
    BY DashViewsAssumption DEF ViewsInv, TypeOK
  <2>2. ReadsLeft \in 0..4
    BY DEF ViewsInv, AgendaInv, AgendaTypeOK, File, ReadsLeft
  <2>3. step \in {"rest", "bridge", "gates", "agenda", "reading", "frog", "envelope", "pushed"}
    BY DEF ViewsInv, TypeOK
  <2> QED
    BY <2>1, <2>2, <2>3 DEF ViewsBounded, ViewsLeft
<1>2. ViewsInv /\ MidRead /\ [Next]_viewsVars =>
        [/\ step # "rest" /\ Round => ViewsLeft' < ViewsLeft
         /\ World => ViewsLeft' = ViewsLeft]_viewsVars
  <2>1. ASSUME World PROVE ViewsLeft' = ViewsLeft
    BY <2>1, WorldLeavesRound DEF ViewsLeft, ReadsLeft
  <2> QED
    BY <2>1, RoundGoesOn
<1> QED
  BY <1>1, <1>2, MidReadInductive, PTL DEF Spec, ViewsEnd
=============================================================================
