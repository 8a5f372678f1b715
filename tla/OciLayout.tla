----------------------------- MODULE OciLayout -----------------------------
(***************************************************************************)
(* One OCI image layout on disk and the tools that use it: handoffs are    *)
(* published into it (tools/oci_handoff.py), an image is acquired from a   *)
(* registry to be it (tools/oci_registry_acquire.py, with the connection   *)
(* and the manifest fetch of tools/oci_registry_probe.py), and what is     *)
(* there is judged by verify and by inspect (tools/oci_inspect.py).        *)
(*                                                                         *)
(* A publisher writes in place: write_bytes empties the file, then fills   *)
(* it.  An acquirer writes in a stage directory of its own next to the     *)
(* destination and renames it.  Every process may be killed at any point,  *)
(* and every file operation of another one may come between two of its.    *)
(*                                                                         *)
(* Simplifications.                                                        *)
(*  - A blob is its digest, and is whole or torn: what is in the file has  *)
(*    that digest, or not.                                                 *)
(*  - A record is valid or not, an image is one acquire accepts (type,     *)
(*    schema, descriptors that agree, sizes) or not, a reply is the one    *)
(*    asked for or not.                                                    *)
(*  - The subject of an image is one of the manifests that may be indexed  *)
(*    here or none of them, and describes it or not.                       *)
(*  - Symbolic links and sizes are left out; an index has passed inspect's *)
(*    limit of descriptors long before that of its size.                   *)
(***************************************************************************)
EXTENDS Naturals, Sequences, FiniteSets

CONSTANTS
  Publisher, Acquirer,
  Record, Valid,   \* what a publisher is given, and what validate accepts
  PayloadOf,       \* the blob of a record
  ManifestOf,      \* the manifest of a record's handoff
  Config,          \* the blob {}, the config of every handoff
  Image, ImageOf,  \* the manifests an acquirer is asked for, and by whom
  PartsOf,         \* the blobs an image's manifest names
  Acceptable,      \* the images acquire accepts
  SubjectOf,       \* the manifest that is the subject of an image, or NoSubject
  NoSubject,
  Malformed,       \* the images whose subject is not a descriptor
  Misdescribed,    \* those whose subject has another size or type than it says
  MaxDescriptors,  \* MAX_DESCRIPTORS of inspect
  MaxKills         \* bound on the processes killed

Process == Publisher \cup Acquirer
Handoff == {ManifestOf[r] : r \in Record}
Manifest == Handoff \cup Image

(* The blobs a manifest names, and itself.                                 *)
Needs(m) ==
  {m} \cup (IF m \in Image THEN PartsOf[m]
            ELSE UNION {{PayloadOf[r], Config} : r \in {s \in Record : ManifestOf[s] = m}})

Blob == UNION {Needs(m) : m \in Manifest}

ASSUME OciLayoutAssumption ==
  /\ Publisher \cap Acquirer = {} /\ "dest" \notin Process
  /\ Valid \subseteq Record /\ Acceptable \subseteq Image
  /\ ImageOf \in [Acquirer -> Image] /\ Handoff \cap Image = {}
  /\ \A r, s \in Record : ManifestOf[r] = ManifestOf[s] => r = s
  /\ NoSubject \notin Manifest /\ SubjectOf \in [Image -> Manifest \cup {NoSubject}]
  /\ \A i \in Image : SubjectOf[i] # i    \* a digest of what contains it
  /\ Malformed \subseteq Image /\ Misdescribed \subseteq Image
  /\ MaxDescriptors \in Nat \ {0}
  /\ MaxKills \in Nat

VARIABLES
  given,    \* the record each publisher is given
  dir,      \* the destination and the acquirers' stages, see Dir
  pc,       \* where each process is
  file,     \* and, in a write, whether the file is closed, checked or open
  index,    \* the list of manifests a publisher writes back
  fetched,  \* the blobs an acquirer holds
  met,      \* history: publishers that had the index at the same time
  killed    \* history: processes that were killed

vars == <<given, dir, pc, file, index, fetched, met, killed>>

(* "empty" is a file emptied and not yet filled.                           *)
Json == {"none", "empty", "torn", "ok"}
Dir == [state : {"absent", "bare", "used"},  \* bare: nothing is in it
        whole : SUBSET Blob, torn : SUBSET Blob,
        layout : Json, index : Json, names : Seq(Manifest)]

NoDir == [state |-> "absent", whole |-> {}, torn |-> {},
          layout |-> "none", index |-> "none", names |-> << >>]

dest == dir["dest"]

Init ==
  /\ given \in [Publisher -> Record]
  /\ dir = [d \in Acquirer \cup {"dest"} |-> NoDir]
  /\ pc = [x \in Process |-> "start"]
  /\ file = [p \in Publisher |-> "closed"]
  /\ index = [p \in Publisher |-> << >>]
  /\ fetched = [a \in Acquirer |-> {}]
  /\ met = {} /\ killed = {}

Goes(x, from, to) ==
  /\ pc[x] = from /\ x \notin killed
  /\ pc' = [pc EXCEPT ![x] = to]
  /\ UNCHANGED <<given, killed>>

Becomes(d, content) == dir' = [dir EXCEPT ![d] = content]
File(p, from, to) == file[p] = from /\ file' = [file EXCEPT ![p] = to]

-----------------------------------------------------------------------------
(* publish.                                                                *)

Mine(p) == ManifestOf[given[p]]
Writes(p) == [payload |-> PayloadOf[given[p]], config |-> Config, manifest |-> Mine(p)]
Blobs == {"payload", "config", "manifest"}

(* Fault: the config is taken to be there.                                 *)
AfterWithoutConfig(at) ==
  [payload |-> "manifest", config |-> "manifest", manifest |-> "layout"][at]

(* Everything a handoff needs is written before the index names it.        *)
After(at) == [payload |-> "config", config |-> "manifest", manifest |-> "layout"][at]

Validate(p) ==
  /\ IF given[p] \in Valid
     THEN /\ Goes(p, "start", "payload")
          /\ Becomes("dest", [dest EXCEPT !.state = IF @ = "absent" THEN "bare" ELSE @])
     ELSE Goes(p, "start", "failed") /\ UNCHANGED dir
  /\ UNCHANGED <<file, index, fetched, met>>

(* blob: its directory is made, and what is there must be what is written. *)
CheckBlob(p, at) ==
  /\ IF Writes(p)[at] \in dest.torn
     THEN Goes(p, at, "failed") /\ UNCHANGED file
     ELSE Goes(p, at, at) /\ File(p, "closed", "checked")
  /\ file[p] = "closed"
  /\ Becomes("dest", [dest EXCEPT !.state = "used"])
  /\ UNCHANGED <<index, fetched, met>>

(* It is written again even if it is there and right.                      *)
EmptyBlob(p, at) ==
  /\ Goes(p, at, at) /\ File(p, "checked", "open")
  /\ Becomes("dest", [dest EXCEPT !.whole = @ \ {Writes(p)[at]}, !.torn = @ \cup {Writes(p)[at]}])
  /\ UNCHANGED <<index, fetched, met>>

FillBlob(p, at) ==
  /\ Goes(p, at, After(at)) /\ File(p, "open", "closed")
  /\ Becomes("dest", [dest EXCEPT !.whole = @ \cup {Writes(p)[at]}, !.torn = @ \ {Writes(p)[at]}])
  /\ UNCHANGED <<index, fetched, met>>

CheckLayout(p) ==
  /\ Goes(p, "layout", IF dest.layout \in {"none", "ok"} THEN "index" ELSE "failed")
  /\ UNCHANGED <<dir, file, index, fetched, met>>

(* Those that will write back what they read.                              *)
HaveIndex == {p \in Publisher : pc[p] \in {"write layout", "write index"}}

Named(list) == {list[i] : i \in DOMAIN list}

(* Fault: a handoff published again is listed again.                       *)
WithAgain(list, m) == Append(list, m)

With(list, m) == IF m \in Named(list) THEN list ELSE Append(list, m)

(* Fault: the index is begun anew.                                         *)
ReadIndexNever(p) ==
  /\ Goes(p, "index", "write layout")
  /\ index' = [index EXCEPT ![p] = With(<< >>, Mine(p))]
  /\ UNCHANGED <<dir, file, fetched, met>>

ReadIndex(p) ==
  /\ \/ /\ dest.index \in {"empty", "torn"}
        /\ Goes(p, "index", "failed")
        /\ UNCHANGED <<index, met>>
     \/ /\ dest.index \in {"none", "ok"}
        /\ Goes(p, "index", "write layout")
        /\ index' = [index EXCEPT ![p] = With(dest.names, Mine(p))]
        /\ met' = IF HaveIndex \subseteq killed THEN met ELSE met \cup HaveIndex \cup {p}
  /\ UNCHANGED <<dir, file, fetched>>

EmptyLayout(p) ==
  /\ Goes(p, "write layout", "write layout") /\ File(p, "closed", "open")
  /\ Becomes("dest", [dest EXCEPT !.layout = "empty"])
  /\ UNCHANGED <<index, fetched, met>>

FillLayout(p) ==
  /\ Goes(p, "write layout", "write index") /\ File(p, "open", "closed")
  /\ Becomes("dest", [dest EXCEPT !.layout = "ok"])
  /\ UNCHANGED <<index, fetched, met>>

EmptyIndex(p) ==
  /\ Goes(p, "write index", "write index") /\ File(p, "closed", "open")
  /\ Becomes("dest", [dest EXCEPT !.index = "empty", !.names = << >>])
  /\ UNCHANGED <<index, fetched, met>>

(* Over what another publisher filled meanwhile: if that was longer, its   *)
(* end remains.                                                            *)
FillIndex(p) ==
  /\ Goes(p, "write index", "done") /\ File(p, "open", "closed")
  /\ \/ Becomes("dest", [dest EXCEPT !.index = "ok", !.names = index[p]])
     \/ /\ dest.index # "empty"
        /\ Becomes("dest", [dest EXCEPT !.index = "torn", !.names = << >>])
  /\ UNCHANGED <<index, fetched, met>>

Publish(p) ==
  \/ Validate(p)
  \/ \E at \in Blobs : CheckBlob(p, at) \/ EmptyBlob(p, at) \/ FillBlob(p, at)
  \/ CheckLayout(p) \/ ReadIndex(p)
  \/ EmptyLayout(p) \/ FillLayout(p) \/ EmptyIndex(p) \/ FillIndex(p)

-----------------------------------------------------------------------------
(* acquire.                                                                *)

(* What a request brings: nothing (no connection to a public address, a    *)
(* status other than 200, a length that cannot be right), other bytes than *)
(* were asked for, or those.                                               *)
Reply == {"none", "other", "right"}

(* Fault: the bytes are taken as they come.                                *)
AcceptedIfAny(reply) == reply # "none"

Accepted(reply) == reply = "right"

AskManifest(a) ==
  /\ Goes(a, "start", IF dest.state = "absent" THEN "manifest" ELSE "failed")
  /\ UNCHANGED <<dir, file, index, fetched, met>>

FetchManifest(a) ==
  /\ \E reply \in Reply :
       Goes(a, "manifest", IF reply = "right" /\ ImageOf[a] \in Acceptable THEN "blobs" ELSE "failed")
  /\ UNCHANGED <<dir, file, index, fetched, met>>

Wanted(a) == PartsOf[ImageOf[a]] \ {f.blob : f \in fetched[a]}

FetchBlob(a) ==
  /\ \E b \in Wanted(a), reply \in Reply :
       IF Accepted(reply)
       THEN /\ Goes(a, "blobs", "blobs")
            /\ fetched' = [fetched EXCEPT ![a] = @ \cup {[blob |-> b, right |-> reply = "right"]}]
       ELSE Goes(a, "blobs", "failed") /\ UNCHANGED fetched
  /\ UNCHANGED <<dir, file, index, met>>

(* mkdtemp.                                                                *)
MakeStage(a) ==
  /\ Wanted(a) = {}
  /\ Goes(a, "blobs", "stage")
  /\ Becomes(a, [NoDir EXCEPT !.state = "used"])
  /\ UNCHANGED <<file, index, fetched, met>>

Held(a) == fetched[a] \cup {[blob |-> ImageOf[a], right |-> TRUE]}

StageBlob(a) ==
  /\ Goes(a, "stage", "stage")
  /\ \E f \in Held(a) :
       /\ f.blob \notin dir[a].whole \cup dir[a].torn
       /\ Becomes(a, IF f.right THEN [dir[a] EXCEPT !.whole = @ \cup {f.blob}]
                                ELSE [dir[a] EXCEPT !.torn = @ \cup {f.blob}])
  /\ UNCHANGED <<file, index, fetched, met>>

(* oci-layout and index.json.                                              *)
StageIndex(a) ==
  /\ {f.blob : f \in Held(a)} \subseteq dir[a].whole \cup dir[a].torn
  /\ Goes(a, "stage", "recheck")
  /\ Becomes(a, [dir[a] EXCEPT !.layout = "ok", !.index = "ok", !.names = <<ImageOf[a]>>])
  /\ UNCHANGED <<file, index, fetched, met>>

Fails(a, from) ==
  /\ Goes(a, from, "failed")
  /\ Becomes(a, NoDir)
  /\ UNCHANGED <<file, index, fetched, met>>

StageFails(a) == \E from \in {"stage", "recheck", "rename"} : Fails(a, from)

Recheck(a) ==
  /\ dest.state = "absent"
  /\ Goes(a, "recheck", "rename")
  /\ UNCHANGED <<dir, file, index, fetched, met>>

RecheckFails(a) ==
  /\ dest.state # "absent"
  /\ Fails(a, "recheck")

(* rename replaces a directory if nothing is in it; else it fails.         *)
Rename(a) ==
  /\ dest.state # "used"
  /\ Goes(a, "rename", "done")
  /\ dir' = [dir EXCEPT !["dest"] = dir[a], ![a] = NoDir]
  /\ UNCHANGED <<file, index, fetched, met>>

Acquire(a) ==
  \/ AskManifest(a) \/ FetchManifest(a) \/ FetchBlob(a) \/ MakeStage(a)
  \/ StageBlob(a) \/ StageIndex(a) \/ StageFails(a)
  \/ Recheck(a) \/ RecheckFails(a) \/ Rename(a)

-----------------------------------------------------------------------------
(* verify and inspect, of a layout nobody is writing.                      *)

Readable(d, m) == Needs(m) \subseteq d.whole

(* A handoff has no subject.  acquire does not look at an image's, inspect *)
(* wants a descriptor, and the right one if the subject is indexed here.   *)
SubjectFits(d, m) ==
  m \in Image => m \notin Malformed /\ (SubjectOf[m] \in Named(d.names) => m \notin Misdescribed)

(* It also refuses subjects that go round in a circle: there is never more *)
(* than one manifest with a subject here, and no digest is its own subject. *)
Inspects(d) ==
  /\ d.state # "absent" /\ d.layout = "ok" /\ d.index = "ok"
  /\ Len(d.names) <= MaxDescriptors
  /\ \A m \in Named(d.names) : Readable(d, m) /\ SubjectFits(d, m)
  /\ \A i, j \in DOMAIN d.names : d.names[i] = d.names[j] => i = j

Verifies(d) ==
  /\ d.index = "ok"
  /\ Cardinality({i \in DOMAIN d.names : d.names[i] \in Handoff}) = 1
  /\ \A m \in Named(d.names) \cap Handoff :
       Readable(d, m) /\ \E r \in Valid : ManifestOf[r] = m

-----------------------------------------------------------------------------
Kill(x) ==
  /\ x \notin killed /\ pc[x] \notin {"start", "done", "failed"}
  /\ Cardinality(killed) < MaxKills
  /\ killed' = killed \cup {x}
  /\ UNCHANGED <<given, dir, pc, file, index, fetched, met>>

Next ==
  \/ \E p \in Publisher : Publish(p)
  \/ \E a \in Acquirer : Acquire(a)
  \/ \E x \in Process : Kill(x)

Spec == Init /\ [][Next]_vars

-----------------------------------------------------------------------------
(* Properties.                                                             *)

(* Types.                                                                  *)
TypeOK ==
  /\ given \in [Publisher -> Record]
  /\ dir \in [Acquirer \cup {"dest"} -> Dir]
  /\ DOMAIN pc = Process
  /\ \A p \in Publisher : pc[p] \in {"start", "layout", "index", "write layout",
                                  "write index", "done", "failed"} \cup Blobs
  /\ \A a \in Acquirer : pc[a] \in {"start", "manifest", "blobs", "stage", "recheck",
                                 "rename", "done", "failed"}
  /\ file \in [Publisher -> {"closed", "checked", "open"}]
  /\ index \in [Publisher -> Seq(Manifest)]
  /\ DOMAIN fetched = Acquirer
  /\ \A a \in Acquirer : fetched[a] \subseteq [blob : PartsOf[ImageOf[a]], right : BOOLEAN]
  /\ met \subseteq Publisher /\ killed \subseteq Process

Open(p, at) == pc[p] = at /\ file[p] = "open"

(* Whoever can read the index finds each blob it leads to, unless that very *)
(* blob is being written again, or the one writing it was killed.          *)
IndexLeadsSomewhere ==
  \A m \in Named(dest.names), b \in Blob :
    b \in Needs(m) \ dest.whole =>
      \E p \in Publisher, at \in Blobs : Open(p, at) /\ Writes(p)[at] = b

(* The image with all its blobs and nothing else.                          *)
IsAll(d, i) ==
  /\ d.layout = "ok" /\ d.index = "ok" /\ d.names = <<i>>
  /\ d.whole = Needs(i) /\ d.torn = {}

(* Acquiring is all or nothing, whenever it is killed and whoever else      *)
(* acquires: as long as nobody publishes a valid record, the destination   *)
(* is not there or is one acquirer's image, whole, which inspect accepts   *)
(* but for a subject that acquire passed unseen (oci_inspect.py:69); an    *)
(* acquirer that is through has no stage.                                  *)
AcquiredWhole ==
  /\ (\A p \in Publisher : pc[p] = "start" \/ given[p] \notin Valid) =>
       \/ dest.state = "absent"
       \/ \E a \in Acquirer :
            /\ pc[a] = "done" /\ IsAll(dest, ImageOf[a])
            /\ Inspects(dest) <=> ImageOf[a] \notin Malformed
  /\ \A a \in Acquirer : pc[a] \in {"done", "failed"} => dir[a].state = "absent"

(* Nobody else takes away what one put there: a manifest once indexed is   *)
(* in every index that can be read, for all but those that wrote the index *)
(* back at the same time.  The index cannot be read only while a publisher *)
(* is writing it (oci_handoff.py:81), and for ever if that one is killed   *)
(* there or was not alone: then every entry is lost, and publish fails.    *)
HandoffStays ==
  /\ dest.index = "ok" =>
       /\ \A p \in Publisher \ met : pc[p] = "done" => Mine(p) \in Named(dest.names)
       /\ \A a \in Acquirer : pc[a] = "done" => ImageOf[a] \in Named(dest.names)
  /\ (\E x \in Process : pc[x] = "done") /\ dest.index # "ok" =>
       \/ dest.index = "empty" /\ \E q \in Publisher : Open(q, "write index")
       \/ dest.index = "torn" /\ met # {}

Published == {Mine(p) : p \in {q \in Publisher : pc[q] = "done"}}
Acquired  == {ImageOf[a] : a \in {b \in Acquirer : pc[b] = "done"}}

(* When publishers did not have the index at the same time and nobody was   *)
(* killed, what they leave is a layout that verify accepts if exactly one  *)
(* handoff is in it, and inspect if there are no more manifests than it    *)
(* allows (publish counts none) and the acquired one's subject fits,       *)
(* however their other writes were mixed.                                  *)
LeftInOrder ==
  /\ met = {} /\ killed = {} /\ dest.state = "used"
  /\ \A p \in Publisher : pc[p] \in {"start", "done", "failed"}
  => /\ Verifies(dest) <=> Cardinality(Published) = 1
     /\ Inspects(dest) <=>
          /\ Cardinality(Published \cup Acquired) <= MaxDescriptors
          /\ \A i \in Acquired :
               i \notin Malformed /\ (SubjectOf[i] \in Published => i \notin Misdescribed)
=============================================================================
