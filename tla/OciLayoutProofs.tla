-------------------------- MODULE OciLayoutProofs --------------------------
(***************************************************************************)
(* What the OCI tools leave on disk, for any publishers, acquirers,        *)
(* records and images, and any processes killed.                           *)
(*                                                                         *)
(* The invariant follows what each process knows of the destination.  The  *)
(* blobs a publisher has filled are whole or being filled again; the list  *)
(* it writes back names what is so backed, and what others completed; and  *)
(* from its first blob on the directory is used, so that no stage can be   *)
(* renamed over it.  A stage holds what its acquirer verified.             *)
(***************************************************************************)
EXTENDS OciLayout, FiniteSetTheorems, TLAPS

PublisherPcs == {"start", "layout", "index", "write layout", "write index",
                 "done", "failed"} \cup Blobs
AcquirerPcs == {"start", "manifest", "blobs", "stage", "recheck", "rename", "done",
                "failed"}

(* A blob is whole, or one that is just filling it has it open.            *)
Backed(b) ==
  b \in dest.whole \/ \E q \in Publisher, at \in Blobs : Open(q, at) /\ Writes(q)[at] = b
AllBacked(M) == \A m \in M : \A b \in Needs(m) : Backed(b)

Written == {"layout", "index", "write layout", "write index", "done"}

(* What a publisher knows of the destination.                              *)
PublisherInv(p) ==
  /\ pc[p] \notin {"start", "failed"} => given[p] \in Valid
  /\ pc[p] = "start" => file[p] = "closed"
  /\ pc[p] \in {"config", "manifest"} \cup Written => Backed(PayloadOf[given[p]])
  /\ pc[p] \in {"manifest"} \cup Written => Backed(Config)
  /\ pc[p] \in Written => Backed(Mine(p))
  /\ pc[p] \in {"config", "manifest"} \cup Written => dest.state = "used"
  /\ pc[p] = "payload" /\ file[p] # "closed" => dest.state = "used"
  /\ p \in HaveIndex => Mine(p) \in Named(index[p]) /\ AllBacked(Named(index[p]))

(* What an acquirer has verified.                                          *)
AcquirerInv(a) ==
  /\ \A f \in fetched[a] : f.right
  /\ pc[a] \in {"start", "manifest", "blobs", "done", "failed"} => dir[a] = NoDir
  /\ pc[a] \in {"stage", "recheck", "rename"} =>
       /\ Wanted(a) = {} /\ dir[a].state = "used"
       /\ dir[a].torn = {} /\ dir[a].whole \subseteq Needs(ImageOf[a])
  /\ pc[a] \in {"recheck", "rename"} => IsAll(dir[a], ImageOf[a])

(* These manifests include all that were completed.                        *)
Complete(M) ==
  /\ \A p \in Publisher \ met : pc[p] = "done" => Mine(p) \in M
  /\ \A a \in Acquirer : pc[a] = "done" => ImageOf[a] \in M

WritingBack == HaveIndex \ killed

StaysInv ==
  /\ dest.index = "ok" => Complete(Named(dest.names))
  /\ dest.index = "none" => Complete({})
  /\ \A q \in WritingBack : Complete(Named(index[q]))
  /\ \A p, q \in WritingBack : p # q => p \in met
  /\ \A a \in Acquirer : pc[a] = "done" => dest.state = "used"
  /\ \A a, c \in Acquirer : pc[a] = "done" /\ pc[c] = "done" => a = c

(* Nobody has begun to publish.                                            *)
Quiet == \A p \in Publisher : pc[p] = "start" \/ given[p] \notin Valid
Fresh ==
  Quiet => \/ dest.state = "absent"
           \/ \E a \in Acquirer : pc[a] = "done" /\ IsAll(dest, ImageOf[a])

IInv ==
  /\ TypeOK
  /\ \A p \in Publisher : PublisherInv(p)
  /\ \A a \in Acquirer : AcquirerInv(a)
  /\ AllBacked(Named(dest.names))
  /\ StaysInv
  /\ Fresh

(* TypeOK, in groups.                                                      *)
DirOK == dir \in [Acquirer \cup {"dest"} -> Dir]
PcOK ==
  /\ DOMAIN pc = Process
  /\ \A p \in Publisher : pc[p] \in PublisherPcs
  /\ \A a \in Acquirer : pc[a] \in AcquirerPcs
FilesOK ==
  /\ file \in [Publisher -> {"closed", "checked", "open"}]
  /\ index \in [Publisher -> Seq(Manifest)]
FetchedOK ==
  /\ DOMAIN fetched = Acquirer
  /\ \A a \in Acquirer : fetched[a] \subseteq [blob : PartsOf[ImageOf[a]], right : BOOLEAN]
HistoryOK == met \subseteq Publisher /\ killed \subseteq Process

(* The groups are the type invariant, before and after a step.             *)
LEMMA TypeGroups ==
  TypeOK <=> /\ given \in [Publisher -> Record]
             /\ DirOK /\ PcOK /\ FilesOK /\ FetchedOK /\ HistoryOK
  BY DEF TypeOK, DirOK, PcOK, FilesOK, FetchedOK, HistoryOK, PublisherPcs, AcquirerPcs

(* The same groups, a step later.                                          *)
LEMMA TypeGroupsNext ==
  ASSUME given' \in [Publisher -> Record], DirOK', PcOK', FilesOK', FetchedOK', HistoryOK'
  PROVE  TypeOK'
  BY DEF TypeOK, DirOK, PcOK, FilesOK, FetchedOK, HistoryOK, PublisherPcs, AcquirerPcs

-----------------------------------------------------------------------------
(* Facts about the data.                                                   *)

(* Listing a manifest once makes a list that names it as well.             *)
LEMMA WithNames ==
  ASSUME NEW S, NEW list \in Seq(S), NEW m \in S
  PROVE  With(list, m) \in Seq(S) /\ Named(With(list, m)) = Named(list) \cup {m}
<1>1. CASE m \in Named(list)
  BY <1>1 DEF With
<1>2. CASE m \notin Named(list)
  <2>1. With(list, m) = Append(list, m)
    BY <1>2 DEF With
  <2>2. /\ Append(list, m) \in Seq(S) /\ DOMAIN Append(list, m) = 1..Len(list) + 1
        /\ DOMAIN list = 1..Len(list) /\ Len(list) \in Nat
        /\ \A i \in 1..Len(list) : Append(list, m)[i] = list[i]
        /\ Append(list, m)[Len(list) + 1] = m
    OBVIOUS
  <2> HIDE DEF With
  <2>3. Named(Append(list, m)) = Named(list) \cup {m}
    <3>1. ASSUME NEW x \in Named(Append(list, m)) PROVE x \in Named(list) \cup {m}
      BY <2>2, <3>1 DEF Named
    <3>2. ASSUME NEW x \in Named(list) PROVE x \in Named(Append(list, m))
      <4>1. PICK i \in 1..Len(list) : x = list[i]
        BY <2>2, <3>2 DEF Named
      <4>2. i \in 1..Len(list) + 1 /\ Append(list, m)[i] = x
        BY <2>2, <4>1
      <4> QED
        BY <2>2, <4>2 DEF Named
    <3>3. m \in Named(Append(list, m))
      BY <2>2 DEF Named
    <3> QED
      BY <3>1, <3>2, <3>3
  <2> QED
    BY <2>1, <2>2, <2>3
<1> QED
  BY <1>1, <1>2

(* A list of none names none, and a list of one names it.                  *)
LEMMA ShortNames ==
  /\ Named(<< >>) = {}
  /\ \A m : Named(<<m>>) = {m} /\ DOMAIN <<m>> = {1}
  BY DEF Named

(* Handoffs share nothing but the config; no handoff is an image.          *)
LEMMA NeedsOfHandoff ==
  ASSUME NEW r \in Record
  PROVE  /\ Needs(ManifestOf[r]) = {ManifestOf[r], PayloadOf[r], Config}
         /\ ManifestOf[r] \in Manifest
  BY OciLayoutAssumption DEF Needs, Handoff, Manifest

(* What an image needs is itself and the blobs it names.                   *)
LEMMA NeedsOfImage ==
  ASSUME NEW i \in Image
  PROVE  Needs(i) = {i} \cup PartsOf[i] /\ i \in Manifest
  BY OciLayoutAssumption DEF Needs, Handoff, Manifest

(* What a manifest needs is among the blobs.                               *)
LEMMA NeedsAreBlobs ==
  ASSUME NEW m \in Manifest PROVE Needs(m) \subseteq Blob
  BY DEF Blob

(* What a publisher writes is a blob.                                      *)
LEMMA WritesBlobs ==
  ASSUME given \in [Publisher -> Record], NEW p \in Publisher, NEW at \in Blobs
  PROVE  Writes(p)[at] \in Blob /\ Mine(p) \in Manifest
<1>1. given[p] \in Record
  OBVIOUS
<1>2. Needs(Mine(p)) = {Mine(p), PayloadOf[given[p]], Config} /\ Mine(p) \in Manifest
  BY <1>1, NeedsOfHandoff DEF Mine
<1>3. Writes(p)[at] \in Needs(Mine(p))
  BY <1>2 DEF Writes, Blobs
<1> QED
  BY <1>2, <1>3, NeedsAreBlobs

(* The order of a publisher's blobs.                                       *)
LEMMA Afters ==
  /\ After("payload") = "config" /\ After("config") = "manifest"
  /\ After("manifest") = "layout"
  BY DEF After

(* The names of a process tell what it is.                                 *)
LEMMA Apart ==
  /\ \A p \in Publisher : p \in Process /\ p \notin Acquirer
  /\ \A a \in Acquirer : a \in Process /\ a \notin Publisher /\ a # "dest"
  BY OciLayoutAssumption DEF Process

-----------------------------------------------------------------------------
(* Types.                                                                  *)

(* A directory that is changed in a field stays a directory.               *)
LEMMA DirFields ==
  ASSUME NEW d \in Dir
  PROVE  /\ \A s \in {"absent", "bare", "used"} : [d EXCEPT !.state = s] \in Dir
         /\ \A W, T \in SUBSET Blob : [d EXCEPT !.whole = W, !.torn = T] \in Dir
         /\ \A W \in SUBSET Blob : [d EXCEPT !.whole = W] \in Dir
         /\ \A T \in SUBSET Blob : [d EXCEPT !.torn = T] \in Dir
         /\ \A j \in Json : [d EXCEPT !.layout = j] \in Dir
         /\ \A j \in Json, n \in Seq(Manifest) :
              /\ [d EXCEPT !.index = j, !.names = n] \in Dir
              /\ [d EXCEPT !.layout = "ok", !.index = j, !.names = n] \in Dir
  BY DEF Dir, Json

(* A directory that is not there.                                          *)
LEMMA NoDirType == NoDir \in Dir
  BY DEF NoDir, Dir, Json

(* At the start nothing is there.                                          *)
LEMMA InitTypes == Init => TypeOK
<1> SUFFICES ASSUME Init PROVE TypeOK
  OBVIOUS
<1>1. DirOK
  BY NoDirType DEF Init, DirOK
<1>2. PcOK
  BY Apart DEF Init, PcOK, PublisherPcs, AcquirerPcs
<1>3. FilesOK /\ FetchedOK /\ HistoryOK
  BY DEF Init, FilesOK, FetchedOK, HistoryOK
<1> QED
  BY <1>1, <1>2, <1>3, TypeGroups DEF Init

(* A step of a process changes its own place only.                         *)
LEMMA GoesPublisher ==
  ASSUME PcOK, NEW p \in Publisher, NEW from, NEW to \in PublisherPcs, Goes(p, from, to)
  PROVE  /\ PcOK' /\ pc[p] = from /\ pc'[p] = to /\ p \notin killed
         /\ \A x \in Process : x # p => pc'[x] = pc[x]
         /\ UNCHANGED <<given, killed>>
  BY Apart DEF PcOK, Goes

(* A step of an acquirer moves that acquirer alone.                        *)
LEMMA GoesAcquirer ==
  ASSUME PcOK, NEW a \in Acquirer, NEW from, NEW to \in AcquirerPcs, Goes(a, from, to)
  PROVE  /\ PcOK' /\ pc[a] = from /\ pc'[a] = to /\ a \notin killed
         /\ \A x \in Process : x # a => pc'[x] = pc[x]
         /\ UNCHANGED <<given, killed>>
  BY Apart DEF PcOK, Goes

(* And the directory it writes in.                                         *)
LEMMA BecomesDir ==
  ASSUME DirOK, NEW d \in Acquirer \cup {"dest"}, NEW content \in Dir, Becomes(d, content)
  PROVE  /\ DirOK' /\ dir'[d] = content
         /\ \A e \in Acquirer \cup {"dest"} : e # d => dir'[e] = dir[e]
  BY DEF DirOK, Becomes

(* A file operation changes the file of its publisher alone.               *)
LEMMA FileStep ==
  ASSUME FilesOK, NEW p \in Publisher, NEW from, NEW to \in {"closed", "checked", "open"},
         File(p, from, to), index' = index
  PROVE  /\ FilesOK' /\ file[p] = from /\ file'[p] = to
         /\ \A q \in Publisher : q # p => file'[q] = file[q]
  BY DEF FilesOK, File

(* What one step of publish does, action by action.                        *)
PublisherStays(p) ==
  /\ \A x \in Process : x # p => pc'[x] = pc[x]
  /\ \A q \in Publisher : q # p => file'[q] = file[q] /\ index'[q] = index[q]
  /\ \A a \in Acquirer : dir'[a] = dir[a]
  /\ p \notin killed
  /\ UNCHANGED <<given, fetched, killed>>

(* The destination is changed in these fields.                             *)
DestIs(content) == dir'["dest"] = content /\ content \in Dir

(* A publisher's step keeps the types and moves no other process.          *)
LEMMA PublishSteps ==
  ASSUME TypeOK, NEW p \in Publisher, Publish(p)
  PROVE  TypeOK' /\ PublisherStays(p)
<1> USE Apart
<1>t. /\ given \in [Publisher -> Record]
      /\ DirOK /\ PcOK /\ FilesOK /\ FetchedOK /\ HistoryOK
  BY TypeGroups
<1>d. dest \in Dir /\ "dest" \in Acquirer \cup {"dest"}
  BY <1>t DEF DirOK, dest
<1>k. /\ dest.whole \in SUBSET Blob /\ dest.torn \in SUBSET Blob
      /\ dest.names \in Seq(Manifest) /\ dest.state \in {"absent", "bare", "used"}
  BY <1>d DEF Dir
<1>n. {"empty", "torn", "ok"} \subseteq Json /\ << >> \in Seq(Manifest)
  BY DEF Json
<1>f. /\ index \in [Publisher -> Seq(Manifest)]
      /\ file \in [Publisher -> {"closed", "checked", "open"}]
  BY <1>t DEF FilesOK
<1>1. CASE Validate(p)
  <2>1. PcOK' /\ PublisherStays(p)
    <3>1. CASE Goes(p, "start", "payload")
      BY <1>1, <1>t, <3>1, GoesPublisher, <1>d, BecomesDir, DirFields, <1>k
         DEF Validate, PublisherStays, PublisherPcs, Blobs, Becomes, DirOK
    <3>2. CASE Goes(p, "start", "failed") /\ UNCHANGED dir
      BY <1>1, <1>t, <3>2, GoesPublisher DEF Validate, PublisherStays, PublisherPcs
    <3> QED
      BY <1>1, <3>1, <3>2 DEF Validate
  <2>2. DirOK'
    <3>1. CASE UNCHANGED dir
      BY <3>1, <1>t DEF DirOK
    <3>2. CASE Becomes("dest", [dest EXCEPT !.state = IF @ = "absent" THEN "bare" ELSE @])
      BY <3>2, <1>t, <1>d, <1>k, BecomesDir, DirFields
    <3> QED
      BY <1>1, <3>1, <3>2 DEF Validate
  <2> QED
    BY <1>1, <1>t, <2>1, <2>2, TypeGroupsNext
       DEF Validate, Goes, FilesOK, FetchedOK, HistoryOK, PublisherStays
<1>2. ASSUME NEW at \in Blobs, CheckBlob(p, at) PROVE TypeOK' /\ PublisherStays(p)
  <2>1. /\ PcOK' /\ (\A x \in Process : x # p => pc'[x] = pc[x]) /\ p \notin killed
        /\ UNCHANGED <<given, killed>>
    <3>1. at \in PublisherPcs /\ "failed" \in PublisherPcs
      BY <1>2 DEF PublisherPcs
    <3> QED
      BY <1>2, <1>t, <3>1, GoesPublisher DEF CheckBlob
  <2>2. FilesOK' /\ \A q \in Publisher : q # p => file'[q] = file[q]
    BY <1>2, <1>t, FileStep DEF CheckBlob, FilesOK
  <2>3. DirOK' /\ \A e \in Acquirer : dir'[e] = dir[e]
    BY <1>2, <1>t, <1>d, BecomesDir, DirFields DEF CheckBlob
  <2> QED
    BY <1>2, <1>t, <2>1, <2>2, <2>3, TypeGroupsNext
       DEF CheckBlob, FetchedOK, HistoryOK, PublisherStays
<1>3. ASSUME NEW at \in Blobs, EmptyBlob(p, at) \/ FillBlob(p, at)
      PROVE  TypeOK' /\ PublisherStays(p)
  <2>1. /\ PcOK' /\ (\A x \in Process : x # p => pc'[x] = pc[x]) /\ p \notin killed
        /\ UNCHANGED <<given, killed>>
    <3>1. at \in PublisherPcs /\ After(at) \in PublisherPcs
      BY <1>3, Afters DEF PublisherPcs, Blobs
    <3> QED
      BY <1>3, <1>t, <3>1, GoesPublisher DEF EmptyBlob, FillBlob
  <2>2. FilesOK' /\ \A q \in Publisher : q # p => file'[q] = file[q]
    BY <1>3, <1>t, FileStep DEF EmptyBlob, FillBlob
  <2>3. DirOK' /\ \A e \in Acquirer : dir'[e] = dir[e]
    <3>1. Writes(p)[at] \in Blob
      BY <1>3, <1>t, WritesBlobs
    <3>2. /\ [dest EXCEPT !.whole = @ \cup {Writes(p)[at]}, !.torn = @ \ {Writes(p)[at]}] \in Dir
          /\ [dest EXCEPT !.whole = @ \ {Writes(p)[at]}, !.torn = @ \cup {Writes(p)[at]}] \in Dir
      BY <3>1, <1>d, <1>k, DirFields
    <3> QED
      BY <1>3, <1>t, <1>d, <3>2, BecomesDir DEF EmptyBlob, FillBlob
  <2> QED
    BY <1>3, <1>t, <2>1, <2>2, <2>3, TypeGroupsNext
       DEF EmptyBlob, FillBlob, FetchedOK, HistoryOK, PublisherStays
<1>4. CASE CheckLayout(p)
  <2>1. /\ PcOK' /\ (\A x \in Process : x # p => pc'[x] = pc[x]) /\ p \notin killed
        /\ UNCHANGED <<given, killed>>
    <3>1. {"index", "failed"} \subseteq PublisherPcs
      BY DEF PublisherPcs
    <3> QED
      BY <1>4, <1>t, <3>1, GoesPublisher DEF CheckLayout
  <2> QED
    BY <1>4, <1>t, <2>1, TypeGroupsNext
       DEF CheckLayout, DirOK, FilesOK, FetchedOK, HistoryOK, PublisherStays
<1>5. CASE ReadIndex(p)
  <2>1. /\ PcOK' /\ (\A x \in Process : x # p => pc'[x] = pc[x]) /\ p \notin killed
        /\ UNCHANGED <<given, killed>>
    <3>1. {"write layout", "failed"} \subseteq PublisherPcs
      BY DEF PublisherPcs
    <3> QED
      BY <1>5, <1>t, <3>1, GoesPublisher DEF ReadIndex
  <2>2. Mine(p) \in Manifest
    BY <1>t, WritesBlobs DEF Blobs
  <2>3. With(dest.names, Mine(p)) \in Seq(Manifest)
    BY <2>2, <1>k, WithNames
  <2>4. FilesOK' /\ \A q \in Publisher : q # p => index'[q] = index[q]
    BY <1>5, <2>3, <1>f DEF ReadIndex, FilesOK
  <2>5. met' \subseteq Publisher
    BY <1>5, <1>t DEF ReadIndex, HaveIndex, HistoryOK
  <2> QED
    BY <1>5, <1>t, <2>1, <2>4, <2>5, TypeGroupsNext
       DEF ReadIndex, DirOK, FetchedOK, HistoryOK, PublisherStays
<1>6. CASE EmptyLayout(p) \/ FillLayout(p) \/ EmptyIndex(p) \/ FillIndex(p)
  <2>1. /\ PcOK' /\ (\A x \in Process : x # p => pc'[x] = pc[x]) /\ p \notin killed
        /\ UNCHANGED <<given, killed>>
    <3>1. {"write layout", "write index", "done"} \subseteq PublisherPcs
      BY DEF PublisherPcs
    <3> QED
      BY <1>6, <1>t, <3>1, GoesPublisher DEF EmptyLayout, FillLayout, EmptyIndex, FillIndex
  <2>2. FilesOK' /\ \A q \in Publisher : q # p => file'[q] = file[q]
    BY <1>6, <1>t, FileStep DEF EmptyLayout, FillLayout, EmptyIndex, FillIndex
  <2>3. index[p] \in Seq(Manifest)
    BY <1>f
  <2>4. /\ \A j \in {"empty", "ok"} : [dest EXCEPT !.layout = j] \in Dir
        /\ \A j \in {"empty", "torn"} : [dest EXCEPT !.index = j, !.names = << >>] \in Dir
        /\ [dest EXCEPT !.index = "ok", !.names = index[p]] \in Dir
    BY <1>d, <1>n, <2>3, DirFields
  <2>5. DirOK' /\ \A e \in Acquirer : dir'[e] = dir[e]
    BY <1>6, <1>t, <1>d, <2>4, BecomesDir DEF EmptyLayout, FillLayout, EmptyIndex, FillIndex
  <2> QED
    BY <1>6, <1>t, <2>1, <2>2, <2>5, TypeGroupsNext
       DEF EmptyLayout, FillLayout, EmptyIndex, FillIndex, FetchedOK, HistoryOK, PublisherStays
<1> QED
  BY <1>1, <1>2, <1>3, <1>4, <1>5, <1>6 DEF Publish

(* What one step of acquire does: it leaves alone the others and, until it *)
(* renames, the destination.                                               *)
AcquirerStays(a) ==
  /\ \A x \in Process : x # a => pc'[x] = pc[x]
  /\ \A c \in Acquirer : c # a => dir'[c] = dir[c] /\ fetched'[c] = fetched[c]
  /\ a \notin killed
  /\ UNCHANGED <<given, file, index, met, killed>>

(* An acquirer's too, and only its rename changes the destination.         *)
LEMMA AcquireSteps ==
  ASSUME TypeOK, NEW a \in Acquirer, Acquire(a)
  PROVE  TypeOK' /\ AcquirerStays(a) /\ (Rename(a) \/ dest' = dest)
<1> USE Apart
<1>t. /\ given \in [Publisher -> Record]
      /\ DirOK /\ PcOK /\ FilesOK /\ FetchedOK /\ HistoryOK
  BY TypeGroups
<1>d. dir[a] \in Dir /\ dest \in Dir /\ a \in Acquirer \cup {"dest"} /\ a # "dest"
  BY <1>t DEF DirOK, dest
<1>k. dir[a].whole \in SUBSET Blob /\ dir[a].torn \in SUBSET Blob
  BY <1>d DEF Dir
<1>s. /\ {"absent", "used"} \subseteq {"absent", "bare", "used"} /\ "ok" \in Json
      /\ {"manifest", "failed", "blobs", "stage", "recheck", "rename", "done"}
           \subseteq AcquirerPcs
  BY DEF Json, AcquirerPcs
<1>i. ImageOf[a] \in Image /\ Needs(ImageOf[a]) \subseteq Blob /\ ImageOf[a] \in Manifest
  BY OciLayoutAssumption, NeedsOfImage, NeedsAreBlobs
<1>b. \A f \in Held(a) : f.blob \in Blob
  BY <1>i, <1>t, NeedsOfImage DEF Held, FetchedOK
<1>1. ASSUME AskManifest(a) \/ FetchManifest(a) \/ Recheck(a)
      PROVE  TypeOK' /\ AcquirerStays(a) /\ dest' = dest
  <2>1. PcOK' /\ (\A x \in Process : x # a => pc'[x] = pc[x]) /\ a \notin killed
        /\ UNCHANGED <<given, killed>>
    BY <1>1, <1>t, <1>s, GoesAcquirer DEF AskManifest, FetchManifest, Recheck
  <2>2. UNCHANGED <<dir, file, index, fetched, met>>
    BY <1>1 DEF AskManifest, FetchManifest, Recheck
  <2> QED
    BY <1>t, <2>1, <2>2, TypeGroupsNext
       DEF DirOK, FilesOK, FetchedOK, HistoryOK, AcquirerStays, dest
<1>2. ASSUME FetchBlob(a) PROVE TypeOK' /\ AcquirerStays(a) /\ dest' = dest
  <2>1. PcOK' /\ (\A x \in Process : x # a => pc'[x] = pc[x]) /\ a \notin killed
        /\ UNCHANGED <<given, killed>>
    BY <1>2, <1>t, <1>s, GoesAcquirer DEF FetchBlob
  <2>2. FetchedOK' /\ \A c \in Acquirer : c # a => fetched'[c] = fetched[c]
    <3>1. PICK b \in Wanted(a), reply \in Reply :
            \/ fetched' = [fetched EXCEPT ![a] = @ \cup {[blob |-> b, right |-> reply = "right"]}]
            \/ UNCHANGED fetched
      BY <1>2 DEF FetchBlob
    <3>2. b \in PartsOf[ImageOf[a]]
      BY <3>1 DEF Wanted
    <3>3. (reply = "right") \in BOOLEAN
      OBVIOUS
    <3>4. [blob |-> b, right |-> reply = "right"] \in [blob : PartsOf[ImageOf[a]], right : BOOLEAN]
      BY <3>2, <3>3
    <3>5. \E r \in [blob : PartsOf[ImageOf[a]], right : BOOLEAN] :
            \/ fetched' = [fetched EXCEPT ![a] = @ \cup {r}]
            \/ UNCHANGED fetched
      BY <3>1, <3>4
    <3> QED
      BY <3>5, <1>t DEF FetchedOK
  <2> QED
    BY <1>2, <1>t, <2>1, <2>2, TypeGroupsNext
       DEF FetchBlob, DirOK, FilesOK, HistoryOK, AcquirerStays, dest
<1>3. ASSUME NEW to \in {"stage", "recheck", "failed"}, NEW from, Goes(a, from, to),
             NEW content \in Dir, Becomes(a, content), UNCHANGED <<file, index, fetched, met>>
      PROVE  TypeOK' /\ AcquirerStays(a) /\ dest' = dest
  <2>1. PcOK' /\ (\A x \in Process : x # a => pc'[x] = pc[x]) /\ a \notin killed
        /\ UNCHANGED <<given, killed>>
    BY <1>3, <1>t, <1>s, GoesAcquirer
  <2>2. DirOK' /\ dest' = dest /\ \A c \in Acquirer : c # a => dir'[c] = dir[c]
    BY <1>3, <1>t, <1>d, BecomesDir DEF dest
  <2> QED
    BY <1>3, <1>t, <2>1, <2>2, TypeGroupsNext
       DEF FilesOK, FetchedOK, HistoryOK, AcquirerStays
<1>4. CASE MakeStage(a)
  <2>1. [NoDir EXCEPT !.state = "used"] \in Dir
    BY NoDirType, DirFields, <1>s
  <2> QED
    BY <1>4, <2>1, <1>3 DEF MakeStage
<1>5. CASE StageBlob(a)
  <2>1. PICK f \in Held(a) :
          Becomes(a, IF f.right THEN [dir[a] EXCEPT !.whole = @ \cup {f.blob}]
                               ELSE [dir[a] EXCEPT !.torn = @ \cup {f.blob}])
    BY <1>5 DEF StageBlob
  <2>2. /\ [dir[a] EXCEPT !.whole = @ \cup {f.blob}] \in Dir
        /\ [dir[a] EXCEPT !.torn = @ \cup {f.blob}] \in Dir
    BY <1>b, <1>k, <1>d, DirFields
  <2>3. \E content \in Dir : Becomes(a, content)
    BY <2>1, <2>2
  <2> QED
    BY <1>5, <2>3, <1>3 DEF StageBlob
<1>6. CASE StageIndex(a)
  <2>1. <<ImageOf[a]>> \in Seq(Manifest)
    BY <1>i
  <2>2. [dir[a] EXCEPT !.layout = "ok", !.index = "ok", !.names = <<ImageOf[a]>>] \in Dir
    BY <2>1, <1>d, <1>s, DirFields
  <2> QED
    BY <1>6, <2>2, <1>3 DEF StageIndex
<1>7. CASE StageFails(a) \/ RecheckFails(a)
  <2>1. PICK from : Fails(a, from)
    BY <1>7 DEF StageFails, RecheckFails
  <2> QED
    BY <2>1, NoDirType, <1>3 DEF Fails
<1>8. ASSUME Rename(a) PROVE TypeOK' /\ AcquirerStays(a)
  <2>1. PcOK' /\ (\A x \in Process : x # a => pc'[x] = pc[x]) /\ a \notin killed
        /\ UNCHANGED <<given, killed>>
    BY <1>8, <1>t, <1>s, GoesAcquirer DEF Rename
  <2>2. DirOK' /\ \A c \in Acquirer : c # a => dir'[c] = dir[c]
    BY <1>8, <1>t, <1>d, NoDirType DEF Rename, DirOK
  <2> QED
    BY <1>8, <1>t, <2>1, <2>2, TypeGroupsNext
       DEF Rename, FilesOK, FetchedOK, HistoryOK, AcquirerStays
<1> QED
  BY <1>1, <1>2, <1>4, <1>5, <1>6, <1>7, <1>8 DEF Acquire

(* A kill changes no file.                                                 *)
LEMMA KillSteps ==
  ASSUME TypeOK, NEW x \in Process, Kill(x) PROVE TypeOK'
  BY DEF TypeOK, Kill

(* The state of the tools and of what they write is well typed.            *)
THEOREM TypeCorrect == Spec => []TypeOK
<1>1. Init => TypeOK
  BY InitTypes
<1>2. TypeOK /\ [Next]_vars => TypeOK'
  <2> SUFFICES ASSUME TypeOK, [Next]_vars PROVE TypeOK'
    OBVIOUS
  <2>1. CASE UNCHANGED vars
    BY <2>1 DEF TypeOK, vars
  <2>2. CASE Next
    BY <2>2, PublishSteps, AcquireSteps, KillSteps DEF Next
  <2> QED
    BY <2>1, <2>2
<1> QED
  BY <1>1, <1>2, PTL DEF Spec

-----------------------------------------------------------------------------
(* What publish does to the destination.                                   *)

SameIndex == dest'.index = dest.index /\ dest'.names = dest.names
SameState == dest'.state = dest.state
SameWhole == dest'.whole = dest.whole

(* What each step of a publisher does to the destination.                  *)
LEMMA PublishDest ==
  ASSUME TypeOK, NEW p \in Publisher
  PROVE
    /\ Validate(p) => SameWhole /\ SameIndex /\ (dest.state = "used" => SameState)
    /\ CheckLayout(p) \/ ReadIndex(p) => dest' = dest
    /\ \A at \in Blobs :
         /\ CheckBlob(p, at) => SameWhole /\ SameIndex /\ dest'.state = "used"
         /\ EmptyBlob(p, at) =>
              dest'.whole = dest.whole \ {Writes(p)[at]} /\ SameIndex /\ SameState
         /\ FillBlob(p, at) =>
              dest'.whole = dest.whole \cup {Writes(p)[at]} /\ SameIndex /\ SameState
    /\ EmptyLayout(p) \/ FillLayout(p) => SameWhole /\ SameIndex /\ SameState
    /\ EmptyIndex(p) =>
         SameWhole /\ SameState /\ dest'.index = "empty" /\ dest'.names = << >>
    /\ FillIndex(p) =>
         /\ SameWhole /\ SameState
         /\ \/ dest'.index = "ok" /\ dest'.names = index[p]
            \/ dest'.index = "torn" /\ dest'.names = << >>
<1>d. dest \in Dir
  BY DEF TypeOK, dest
<1>1. \A c : Becomes("dest", c) => dest' = c
  BY DEF TypeOK, Becomes, dest
<1> USE DEF SameIndex, SameState, SameWhole
<1>3. ASSUME Validate(p) PROVE SameWhole /\ SameIndex /\ (dest.state = "used" => SameState)
  <2>1. dest' = dest \/ dest' = [dest EXCEPT !.state = IF @ = "absent" THEN "bare" ELSE @]
    BY <1>1, <1>3 DEF Validate, dest
  <2> QED
    BY <2>1, <1>d DEF Dir
<1>4. CheckLayout(p) \/ ReadIndex(p) => dest' = dest
  BY DEF CheckLayout, ReadIndex, dest
<1>5. ASSUME NEW at \in Blobs, CheckBlob(p, at)
      PROVE  SameWhole /\ SameIndex /\ dest'.state = "used"
  <2>1. dest' = [dest EXCEPT !.state = "used"]
    BY <1>1, <1>5 DEF CheckBlob
  <2> QED
    BY <2>1, <1>d DEF Dir
<1>6. ASSUME NEW at \in Blobs, EmptyBlob(p, at)
      PROVE  dest'.whole = dest.whole \ {Writes(p)[at]} /\ SameIndex /\ SameState
  <2>1. dest' = [dest EXCEPT !.whole = @ \ {Writes(p)[at]}, !.torn = @ \cup {Writes(p)[at]}]
    BY <1>1, <1>6 DEF EmptyBlob
  <2> QED
    BY <2>1, <1>d DEF Dir
<1>7. ASSUME NEW at \in Blobs, FillBlob(p, at)
      PROVE  dest'.whole = dest.whole \cup {Writes(p)[at]} /\ SameIndex /\ SameState
  <2>1. dest' = [dest EXCEPT !.whole = @ \cup {Writes(p)[at]}, !.torn = @ \ {Writes(p)[at]}]
    BY <1>1, <1>7 DEF FillBlob
  <2> QED
    BY <2>1, <1>d DEF Dir
<1>8. ASSUME EmptyLayout(p) \/ FillLayout(p) PROVE SameWhole /\ SameIndex /\ SameState
  <2>1. \E j : dest' = [dest EXCEPT !.layout = j]
    BY <1>1, <1>8 DEF EmptyLayout, FillLayout
  <2> QED
    BY <2>1, <1>d DEF Dir
<1>9. ASSUME EmptyIndex(p)
      PROVE  SameWhole /\ SameState /\ dest'.index = "empty" /\ dest'.names = << >>
  <2>1. dest' = [dest EXCEPT !.index = "empty", !.names = << >>]
    BY <1>1, <1>9 DEF EmptyIndex
  <2> QED
    BY <2>1, <1>d DEF Dir
<1>10. ASSUME FillIndex(p)
       PROVE  /\ SameWhole /\ SameState
              /\ \/ dest'.index = "ok" /\ dest'.names = index[p]
                 \/ dest'.index = "torn" /\ dest'.names = << >>
  <2>1. \/ dest' = [dest EXCEPT !.index = "ok", !.names = index[p]]
        \/ dest' = [dest EXCEPT !.index = "torn", !.names = << >>]
    BY <1>1, <1>10 DEF FillIndex
  <2> QED
    BY <2>1, <1>d DEF Dir
<1> QED
  BY <1>3, <1>4, <1>5, <1>6, <1>7, <1>8, <1>9, <1>10

(* Where the publisher that takes a step is, and goes.                     *)
LEMMA PublishMoves ==
  ASSUME TypeOK, NEW p \in Publisher
  PROVE
    /\ Validate(p) => pc[p] = "start" /\ file' = file /\ index' = index
         /\ \/ pc'[p] = "payload" /\ given[p] \in Valid
            \/ pc'[p] = "failed" /\ dest' = dest /\ given[p] \notin Valid
    /\ \A at \in Blobs :
         /\ CheckBlob(p, at) =>
              /\ pc[p] = at /\ file[p] = "closed" /\ index' = index
              /\ \/ pc'[p] = "failed" /\ file'[p] = "closed"
                 \/ pc'[p] = at /\ file'[p] = "checked"
         /\ EmptyBlob(p, at) =>
              pc[p] = at /\ file[p] = "checked" /\ pc'[p] = at /\ file'[p] = "open" /\ index' = index
         /\ FillBlob(p, at) =>
              pc[p] = at /\ file[p] = "open" /\ pc'[p] = After(at) /\ file'[p] = "closed" /\ index' = index
    /\ CheckLayout(p) => pc[p] = "layout" /\ pc'[p] \in {"index", "failed"} /\ index' = index
    /\ ReadIndex(p) => pc[p] = "index" /\ pc'[p] \in {"write layout", "failed"}
    /\ EmptyLayout(p) \/ FillLayout(p) =>
         pc[p] = "write layout" /\ pc'[p] \in {"write layout", "write index"} /\ index' = index
    /\ EmptyIndex(p) => pc[p] = "write index" /\ pc'[p] = "write index" /\ index' = index
    /\ FillIndex(p) => pc[p] = "write index" /\ pc'[p] = "done" /\ index' = index
<1> USE Apart
<1>1. pc[p] \in PublisherPcs /\ DOMAIN pc = Process /\ DOMAIN file = Publisher
  BY DEF TypeOK, PublisherPcs
<1>2. \A from, to : Goes(p, from, to) => pc[p] = from /\ pc'[p] = to
  BY <1>1 DEF Goes
<1>3. \A from, to : File(p, from, to) => file[p] = from /\ file'[p] = to
  BY <1>1 DEF File
<1>4. Validate(p) => pc[p] = "start" /\ file' = file /\ index' = index
         /\ \/ pc'[p] = "payload" /\ given[p] \in Valid
            \/ pc'[p] = "failed" /\ dest' = dest /\ given[p] \notin Valid
  BY <1>2 DEF Validate, dest
<1>5. ASSUME NEW at \in Blobs
      PROVE
         /\ CheckBlob(p, at) =>
              /\ pc[p] = at /\ file[p] = "closed" /\ index' = index
              /\ \/ pc'[p] = "failed" /\ file'[p] = "closed"
                 \/ pc'[p] = at /\ file'[p] = "checked"
         /\ EmptyBlob(p, at) =>
              pc[p] = at /\ file[p] = "checked" /\ pc'[p] = at /\ file'[p] = "open" /\ index' = index
         /\ FillBlob(p, at) =>
              pc[p] = at /\ file[p] = "open" /\ pc'[p] = After(at) /\ file'[p] = "closed" /\ index' = index
  BY <1>2, <1>3 DEF CheckBlob, EmptyBlob, FillBlob
<1>6. /\ CheckLayout(p) => pc[p] = "layout" /\ pc'[p] \in {"index", "failed"} /\ index' = index
      /\ ReadIndex(p) => pc[p] = "index" /\ pc'[p] \in {"write layout", "failed"}
  BY <1>2 DEF CheckLayout, ReadIndex
<1>7. EmptyLayout(p) \/ FillLayout(p) =>
         pc[p] = "write layout" /\ pc'[p] \in {"write layout", "write index"} /\ index' = index
  BY <1>2 DEF EmptyLayout, FillLayout
<1>8. /\ EmptyIndex(p) => pc[p] = "write index" /\ pc'[p] = "write index" /\ index' = index
      /\ FillIndex(p) => pc[p] = "write index" /\ pc'[p] = "done" /\ index' = index
  BY <1>2 DEF EmptyIndex, FillIndex
<1> QED
  BY <1>4, <1>5, <1>6, <1>7, <1>8

(* What was backed stays so, whichever blob is emptied or filled.          *)
LEMMA PublishKeepsBacked ==
  ASSUME TypeOK, NEW p \in Publisher, Publish(p), NEW b, Backed(b)
  PROVE  Backed(b)'
<1> USE Apart
<1>s. PublisherStays(p)
  BY PublishSteps
<1>w. \A q \in Publisher : Writes(q)' = Writes(q)
  BY <1>s DEF Writes, Mine, PublisherStays
<1>o. \A q \in Publisher, at \in Blobs : q # p /\ Open(q, at) => Open(q, at)'
  BY <1>s DEF Open, PublisherStays
<1>1. ASSUME NEW at \in Blobs, EmptyBlob(p, at) PROVE Backed(b)'
  <2>1. Open(p, at)'
    BY <1>1, PublishMoves DEF Open
  <2>2. dest'.whole = dest.whole \ {Writes(p)[at]}
    BY <1>1, PublishDest
  <2>3. CASE b = Writes(p)[at]
    BY <2>1, <2>3, <1>w DEF Backed
  <2>4. CASE b # Writes(p)[at] /\ b \in dest.whole
    BY <2>2, <2>4 DEF Backed
  <2>5. ASSUME NEW q \in Publisher, NEW on \in Blobs, Open(q, on), Writes(q)[on] = b, q # p
        PROVE  Backed(b)'
    BY <2>5, <1>o, <1>w DEF Backed
  <2>6. ~Open(p, "payload") /\ ~Open(p, "config") /\ ~Open(p, "manifest")
    BY <1>1, PublishMoves DEF Open
  <2> QED
    BY <2>3, <2>4, <2>5, <2>6 DEF Backed, Blobs
<1>2. ASSUME NEW at \in Blobs, FillBlob(p, at) PROVE Backed(b)'
  <2>1. pc[p] = at
    BY <1>2, PublishMoves
  <2>2. dest'.whole = dest.whole \cup {Writes(p)[at]}
    BY <1>2, PublishDest
  <2>3. CASE b \in dest.whole
    BY <2>2, <2>3 DEF Backed
  <2>4. ASSUME NEW q \in Publisher, NEW on \in Blobs, Open(q, on), Writes(q)[on] = b
        PROVE  Backed(b)'
    <3>1. CASE q = p
      BY <2>1, <2>2, <2>4, <3>1 DEF Open, Backed
    <3>2. CASE q # p
      BY <2>4, <3>2, <1>o, <1>w DEF Backed
    <3> QED
      BY <3>1, <3>2
  <2> QED
    BY <2>3, <2>4 DEF Backed
<1>3. ASSUME SameWhole, ~Open(p, "payload"), ~Open(p, "config"), ~Open(p, "manifest")
      PROVE  Backed(b)'
  <2>1. CASE b \in dest.whole
    BY <2>1, <1>3 DEF Backed, SameWhole
  <2>2. ASSUME NEW q \in Publisher, NEW on \in Blobs, Open(q, on), Writes(q)[on] = b
        PROVE  Backed(b)'
    BY <2>2, <1>3, <1>o, <1>w DEF Backed, Blobs
  <2> QED
    BY <2>1, <2>2 DEF Backed
<1>4. CASE Validate(p)
  BY <1>4, <1>3, PublishMoves, PublishDest DEF Open
<1>5. ASSUME NEW at \in Blobs, CheckBlob(p, at) PROVE Backed(b)'
  BY <1>5, <1>3, PublishMoves, PublishDest DEF Open
<1>6. CASE CheckLayout(p) \/ ReadIndex(p)
  BY <1>6, <1>3, PublishMoves, PublishDest DEF Open, SameWhole
<1>7. CASE EmptyLayout(p) \/ FillLayout(p) \/ EmptyIndex(p) \/ FillIndex(p)
  BY <1>7, <1>3, PublishMoves, PublishDest DEF Open
<1> QED
  BY <1>1, <1>2, <1>4, <1>5, <1>6, <1>7 DEF Publish

(* A directory that is used stays used.                                    *)
LEMMA PublishKeepsUsed ==
  ASSUME TypeOK, NEW p \in Publisher, Publish(p), dest.state = "used"
  PROVE  dest'.state = "used"
  BY PublishDest DEF Publish, SameState

(* What the other publishers know still holds.                             *)
LEMMA OthersKnow ==
  ASSUME TypeOK, NEW p \in Publisher, Publish(p), NEW q \in Publisher, q # p, PublisherInv(q)
  PROVE  PublisherInv(q)'
<1>1. /\ pc'[q] = pc[q] /\ file'[q] = file[q] /\ index'[q] = index[q] /\ given' = given
      /\ Mine(q)' = Mine(q)
  BY PublishSteps, Apart DEF PublisherStays, Mine
<1>2. \A b : Backed(b) => Backed(b)'
  BY PublishKeepsBacked
<1>3. AllBacked(Named(index[q])) => AllBacked(Named(index[q]))'
  BY <1>1, <1>2 DEF AllBacked, Named
<1>4. (q \in HaveIndex)' => q \in HaveIndex
  BY <1>1 DEF HaveIndex
<1>5. Named(index[q])' = Named(index[q])
  BY <1>1 DEF Named
<1> QED
  BY <1>1, <1>2, <1>3, <1>4, <1>5, PublishKeepsUsed DEF PublisherInv

(* The blobs a publisher writes, at their points.                          *)
LEMMA WritesAt ==
  ASSUME NEW p
  PROVE  /\ Writes(p)["payload"] = PayloadOf[given[p]]
         /\ Writes(p)["config"] = Config /\ Writes(p)["manifest"] = Mine(p)
  BY DEF Writes

(* What a publisher knows after a step of its own.                         *)
LEMMA ItselfKnows ==
  ASSUME TypeOK, NEW p \in Publisher, Publish(p), PublisherInv(p),
         AllBacked(Named(dest.names))
  PROVE  PublisherInv(p)'
<1> USE Apart
<1>s. given' = given /\ Mine(p)' = Mine(p)
  BY PublishSteps DEF PublisherStays, Mine
<1>b. \A b : Backed(b) => Backed(b)'
  BY PublishKeepsBacked
<1>u. dest.state = "used" => dest'.state = "used"
  BY PublishKeepsUsed
<1>i. index'[p] = index[p] =>
        /\ Named(index[p])' = Named(index[p])
        /\ AllBacked(Named(index[p])) => AllBacked(Named(index[p]))'
  BY <1>b DEF AllBacked, Named
<1> USE DEF HaveIndex
<1>1. CASE Validate(p)
  BY <1>1, <1>s, PublishMoves DEF PublisherInv, Written
<1>2. ASSUME NEW at \in Blobs, CheckBlob(p, at) PROVE PublisherInv(p)'
  <2>1. dest'.state = "used"
    BY <1>2, PublishDest
  <2>2. pc[p] = at /\ pc'[p] \in {at, "failed"}
    BY <1>2, PublishMoves
  <2> QED
    BY <2>1, <2>2, <1>s, <1>b DEF PublisherInv, Written, Blobs
<1>3. ASSUME NEW at \in Blobs, EmptyBlob(p, at) PROVE PublisherInv(p)'
  <2>1. pc[p] = at /\ pc'[p] = at /\ file[p] = "checked"
    BY <1>3, PublishMoves
  <2> QED
    BY <2>1, <1>s, <1>b, <1>u DEF PublisherInv, Written, Blobs
<1>4. ASSUME NEW at \in Blobs, FillBlob(p, at) PROVE PublisherInv(p)'
  <2>1. pc[p] = at /\ pc'[p] = After(at) /\ file[p] = "open"
    BY <1>4, PublishMoves
  <2>2. Writes(p)[at] \in dest'.whole
    BY <1>4, PublishDest
  <2>3. \A b : b = Writes(p)[at] => Backed(b)'
    BY <2>2 DEF Backed
  <2>4. dest'.state = "used"
    BY <2>1, <1>u DEF PublisherInv, Blobs
  <2>5. CASE at = "payload"
    BY <2>1, <2>3, <2>4, <2>5, <1>s, <1>b, Afters, WritesAt DEF PublisherInv, Written
  <2>6. CASE at = "config"
    BY <2>1, <2>3, <2>4, <2>6, <1>s, <1>b, Afters, WritesAt DEF PublisherInv, Written
  <2>7. CASE at = "manifest"
    BY <2>1, <2>3, <2>4, <2>7, <1>s, <1>b, Afters, WritesAt DEF PublisherInv, Written
  <2> QED
    BY <2>5, <2>6, <2>7 DEF Blobs
<1>5. CASE CheckLayout(p)
  <2>1. pc[p] = "layout" /\ pc'[p] \in {"index", "failed"}
    BY <1>5, PublishMoves
  <2> QED
    BY <2>1, <1>s, <1>b, <1>u DEF PublisherInv, Written
<1>6. CASE ReadIndex(p)
  <2>1. pc[p] = "index" /\ pc'[p] \in {"write layout", "failed"}
    BY <1>6, PublishMoves
  <2>2. CASE pc'[p] = "failed"
    BY <2>1, <2>2, <1>s, <1>b, <1>u DEF PublisherInv, Written
  <2>3. CASE pc'[p] = "write layout"
    <3>1. index'[p] = With(dest.names, Mine(p))
      <4>1. DOMAIN pc = Process /\ DOMAIN index = Publisher
        BY DEF TypeOK
      <4> QED
        BY <1>6, <2>3, <4>1 DEF ReadIndex, Goes
    <3>2. dest.names \in Seq(Manifest) /\ Mine(p) \in Manifest
      BY WritesBlobs DEF TypeOK, dest, Dir, Blobs
    <3>3. Named(index[p])' = Named(dest.names) \cup {Mine(p)}
      <4>1. Named(With(dest.names, Mine(p))) = Named(dest.names) \cup {Mine(p)}
        BY <3>2, WithNames
      <4> QED
        BY <3>1, <4>1 DEF Named
    <3>4. given[p] \in Record
      BY DEF TypeOK
    <3>5. Needs(Mine(p)) = {Mine(p), PayloadOf[given[p]], Config}
      BY <3>4, NeedsOfHandoff DEF Mine
    <3>6. \A b \in Needs(Mine(p)) : Backed(b)
      BY <2>1, <3>5 DEF PublisherInv, Written
    <3>7. AllBacked(Named(index[p]))'
      BY <3>3, <3>6, <1>b DEF AllBacked
    <3> QED
      BY <2>1, <2>3, <3>3, <3>7, <1>s, <1>b, <1>u DEF PublisherInv, Written
  <2> QED
    BY <2>1, <2>2, <2>3
<1>7. CASE EmptyLayout(p) \/ FillLayout(p)
  <2>1. /\ pc[p] = "write layout" /\ pc'[p] \in {"write layout", "write index"}
        /\ index'[p] = index[p]
    BY <1>7, PublishMoves
  <2> QED
    BY <2>1, <1>s, <1>b, <1>u, <1>i DEF PublisherInv, Written
<1>8. CASE EmptyIndex(p) \/ FillIndex(p)
  <2>1. /\ pc[p] = "write index" /\ pc'[p] \in {"write index", "done"}
        /\ index'[p] = index[p]
    BY <1>8, PublishMoves
  <2> QED
    BY <2>1, <1>s, <1>b, <1>u, <1>i DEF PublisherInv, Written
<1> QED
  BY <1>1, <1>2, <1>3, <1>4, <1>5, <1>6, <1>7, <1>8 DEF Publish

(* What the index names is backed after a step of publish.                 *)
LEMMA PublishIndexBacked ==
  ASSUME TypeOK, NEW p \in Publisher, Publish(p), PublisherInv(p),
         AllBacked(Named(dest.names))
  PROVE  AllBacked(Named(dest.names))'
<1>1. \A b : Backed(b) => Backed(b)'
  BY PublishKeepsBacked
<1>2. CASE SameIndex \/ dest'.names = << >>
  BY <1>1, <1>2, ShortNames DEF AllBacked, SameIndex, Named
<1>3. CASE FillIndex(p) /\ dest'.names = index[p]
  <2>1. p \in HaveIndex
    BY <1>3, PublishMoves DEF HaveIndex
  <2>2. AllBacked(Named(index[p]))
    BY <2>1 DEF PublisherInv
  <2>3. Named(dest.names)' = Named(index[p])
    BY <1>3 DEF Named
  <2> QED
    BY <1>1, <2>2, <2>3 DEF AllBacked
<1>4. CASE FillIndex(p)
  BY <1>2, <1>3, <1>4, PublishDest
<1> QED
  BY <1>2, <1>4, PublishDest DEF Publish, SameIndex

(* Publishing touches no stage.                                            *)
LEMMA PublishKeepsAcquirers ==
  ASSUME TypeOK, NEW p \in Publisher, Publish(p), NEW a \in Acquirer, AcquirerInv(a)
  PROVE  AcquirerInv(a)'
<1>1. pc'[a] = pc[a] /\ dir'[a] = dir[a] /\ fetched' = fetched
  BY PublishSteps, Apart DEF PublisherStays
<1> QED
  BY <1>1 DEF AcquirerInv, Wanted

(* Publishing ends the quiet.                                              *)
LEMMA PublishKeepsFresh ==
  ASSUME TypeOK, NEW p \in Publisher, Publish(p), PublisherInv(p), Fresh
  PROVE  Fresh'
<1> USE Apart
<1>1. /\ given' = given /\ \A q \in Publisher : q # p => pc'[q] = pc[q]
      /\ \A a \in Acquirer : pc'[a] = pc[a]
  BY PublishSteps DEF PublisherStays
<1>2. CASE Validate(p)
  <2>1. CASE dest' = dest
    BY <1>1, <1>2, <2>1, PublishMoves DEF Fresh, Quiet, IsAll
  <2>2. CASE pc'[p] = "payload" /\ given[p] \in Valid
    BY <1>1, <2>2 DEF Fresh, Quiet
  <2> QED
    BY <1>2, <2>1, <2>2, PublishMoves
<1>3. CASE ~Validate(p)
  <2>1. pc[p] \notin {"start", "failed"} /\ pc'[p] # "start"
    <3>1. \A at \in Blobs : After(at) # "start" /\ at # "start" /\ at # "failed"
      BY Afters DEF Blobs
    <3> QED
      BY <1>3, <3>1, PublishMoves DEF Publish
  <2>2. given[p] \in Valid
    BY <2>1 DEF PublisherInv
  <2> QED
    BY <1>1, <2>1, <2>2 DEF Fresh, Quiet
<1> QED
  BY <1>2, <1>3

(* Nothing completed gets lost by a step of publish.                       *)
LEMMA PublishKeepsStays ==
  ASSUME TypeOK, NEW p \in Publisher, Publish(p), PublisherInv(p), StaysInv
  PROVE  StaysInv'
<1> USE Apart
<1>s. /\ given' = given /\ killed' = killed /\ p \notin killed
      /\ \A x \in Process : x # p => pc'[x] = pc[x]
      /\ \A q \in Publisher : q # p => index'[q] = index[q]
      /\ \A q \in Publisher : Mine(q)' = Mine(q)
  BY PublishSteps DEF PublisherStays, Mine
<1>m. met \subseteq met'
  BY DEF Publish, Validate, CheckBlob, EmptyBlob, FillBlob, CheckLayout, ReadIndex,
         EmptyLayout, FillLayout, EmptyIndex, FillIndex
<1>u. \A a \in Acquirer : (pc'[a] = "done" => dest'.state = "used") /\ pc'[a] = pc[a]
  BY <1>s, PublishKeepsUsed DEF StaysInv
<1>1. CASE FillIndex(p)
  <2>1. pc[p] = "write index" /\ pc'[p] = "done" /\ index' = index
    BY <1>1, PublishMoves
  <2>2. p \in WritingBack /\ WritingBack' = WritingBack \ {p} /\ met' = met
    BY <1>1, <1>s, <2>1 DEF WritingBack, HaveIndex, FillIndex
  <2>3. Complete(Named(index[p])) /\ Mine(p) \in Named(index[p])
    BY <2>2 DEF StaysInv, PublisherInv, WritingBack
  <2>4. ASSUME NEW M, Complete(M), p \in met \/ Mine(p) \in M PROVE Complete(M)'
    BY <2>2, <2>4, <1>s, <1>u DEF Complete
  <2>5. ASSUME NEW q \in WritingBack' PROVE Complete(Named(index[q]))'
    <3>1. q \in WritingBack /\ q # p
      BY <2>2
    <3>2. p \in met /\ Complete(Named(index[q]))
      BY <3>1, <2>2 DEF StaysInv
    <3> QED
      BY <3>2, <2>1, <2>4
  <2>6. dest'.index = "ok" => Complete(Named(dest.names))'
    <3>1. dest'.index = "ok" => dest'.names = index[p]
      BY <1>1, PublishDest
    <3>2. Complete(Named(index[p]))'
      BY <2>1, <2>3, <2>4
    <3> QED
      BY <3>1, <3>2, <2>1
  <2>7. dest'.index # "none"
    BY <1>1, PublishDest
  <2> QED
    BY <2>2, <2>5, <2>6, <2>7, <1>u DEF StaysInv
<1>2. CASE ~FillIndex(p)
  <2>1. pc'[p] # "done" \/ pc'[p] = pc[p]
    <3>1. \A at \in Blobs : After(at) # "done" /\ at # "done"
      BY Afters DEF Blobs
    <3> QED
      BY <1>2, <3>1, PublishMoves DEF Publish
  <2>2. ASSUME NEW M, Complete(M) PROVE Complete(M)'
    BY <2>1, <2>2, <1>s, <1>u, <1>m DEF Complete
  <2>3. CASE ReadIndex(p)
    <3>1. pc[p] = "index" /\ pc'[p] \in {"write layout", "failed"} /\ dest' = dest
      BY <2>3, PublishMoves, PublishDest
    <3>2. CASE pc'[p] = "failed"
      <4>1. index' = index /\ met' = met
        <5>1. DOMAIN pc = Process
          BY DEF TypeOK
        <5> QED
          BY <2>3, <3>2, <5>1 DEF ReadIndex, Goes
      <4>2. WritingBack' \subseteq WritingBack
        BY <3>2, <1>s DEF WritingBack, HaveIndex
      <4> QED
        BY <4>1, <4>2, <3>1, <2>2, <1>u DEF StaysInv
    <3>3. CASE pc'[p] = "write layout"
      <4>1. /\ dest.index \in {"none", "ok"} /\ index'[p] = With(dest.names, Mine(p))
            /\ met' = IF HaveIndex \subseteq killed THEN met ELSE met \cup HaveIndex \cup {p}
        <5>1. DOMAIN pc = Process /\ DOMAIN index = Publisher
          BY DEF TypeOK
        <5> QED
          BY <2>3, <3>3, <5>1 DEF ReadIndex, Goes
      <4>2. WritingBack' = WritingBack \cup {p}
        BY <3>3, <1>s DEF WritingBack, HaveIndex
      <4>3. dest.names \in Seq(Manifest) /\ Mine(p) \in Manifest
        BY WritesBlobs DEF TypeOK, dest, Dir, Blobs
      <4>4. Named(With(dest.names, Mine(p))) = Named(dest.names) \cup {Mine(p)}
        BY <4>3, WithNames
      <4>5. Complete(Named(dest.names))
        BY <4>1 DEF StaysInv, Complete
      <4>6. Complete(Named(With(dest.names, Mine(p))))
        BY <4>4, <4>5 DEF Complete
      <4>7. ASSUME NEW q \in WritingBack' PROVE Complete(Named(index[q]))'
        <5>1. CASE q = p
          BY <5>1, <4>1, <4>6, <2>2
        <5>2. CASE q # p
          <6>1. q \in WritingBack /\ index'[q] = index[q]
            BY <5>2, <4>2, <1>s DEF WritingBack, HaveIndex
          <6> QED
            BY <6>1, <2>2 DEF StaysInv
        <5> QED
          BY <5>1, <5>2
      <4>8. ASSUME NEW q \in WritingBack', NEW r \in WritingBack', q # r PROVE q \in met'
        <5>1. CASE q \in WritingBack /\ r \in WritingBack
          BY <5>1, <4>8, <1>m DEF StaysInv
        <5>2. CASE q = p \/ r = p
          BY <5>2, <4>1, <4>2, <4>8 DEF WritingBack
        <5> QED
          BY <5>1, <5>2, <4>2
      <4> QED
        BY <4>7, <4>8, <3>1, <2>2, <1>u DEF StaysInv
    <3> QED
      BY <3>1, <3>2, <3>3
  <2>4. CASE ~ReadIndex(p)
    <3>1. index' = index /\ met' = met
      BY <1>2, <2>4
         DEF Publish, Validate, CheckBlob, EmptyBlob, FillBlob, CheckLayout,
             EmptyLayout, FillLayout, EmptyIndex
    <3>2. WritingBack' = WritingBack
      <4>1. p \in HaveIndex <=> (p \in HaveIndex)'
        <5>1. CASE EmptyLayout(p)
          BY <5>1 DEF EmptyLayout, Goes, HaveIndex, TypeOK
        <5>2. CASE FillLayout(p)
          BY <5>2 DEF FillLayout, Goes, HaveIndex, TypeOK
        <5>3. CASE EmptyIndex(p)
          BY <5>3, PublishMoves DEF HaveIndex
        <5>4. CASE Validate(p) \/ CheckLayout(p)
          BY <5>4, PublishMoves DEF HaveIndex
        <5>5. ASSUME NEW at \in Blobs, CheckBlob(p, at) \/ EmptyBlob(p, at) \/ FillBlob(p, at)
              PROVE  p \in HaveIndex <=> (p \in HaveIndex)'
          BY <5>5, PublishMoves, Afters DEF HaveIndex, Blobs
        <5> QED
          BY <1>2, <2>4, <5>1, <5>2, <5>3, <5>4, <5>5 DEF Publish
      <4> QED
        BY <4>1, <1>s DEF WritingBack, HaveIndex
    <3>3. \/ SameIndex
          \/ dest'.index = "empty"
      BY <1>2, <2>4, PublishDest DEF Publish, SameIndex
    <3> QED
      BY <3>1, <3>2, <3>3, <2>2, <1>u DEF StaysInv, SameIndex
  <2> QED
    BY <2>3, <2>4
<1> QED
  BY <1>1, <1>2

-----------------------------------------------------------------------------
(* acquire.                                                                *)

(* The invariant apart from the acquirers' part, carried over a step that  *)
(* leaves the destination and the publishers alone and completes nothing.  *)
Others ==
  /\ \A p \in Publisher : PublisherInv(p)
  /\ AllBacked(Named(dest.names))
  /\ StaysInv /\ Fresh

(* What the others rely on, when a step leaves them and the destination.   *)
LEMMA OthersStay ==
  ASSUME TypeOK, Others, dest' = dest,
         \A p \in Publisher : pc'[p] = pc[p],
         \A a \in Acquirer : pc'[a] = "done" <=> pc[a] = "done",
         UNCHANGED <<given, file, index, met>>, killed \subseteq killed'
  PROVE  Others'
<1>1. \A b : Backed(b)' <=> Backed(b)
  BY DEF Backed, Open, Writes, Mine
<1>2. ASSUME NEW p \in Publisher PROVE PublisherInv(p)'
  <2>1. /\ Mine(p)' = Mine(p) /\ ((p \in HaveIndex)' => p \in HaveIndex)
        /\ Named(index[p])' = Named(index[p])
    BY DEF Mine, HaveIndex, Named
  <2>2. PublisherInv(p)
    BY DEF Others
  <2>3. AllBacked(Named(index[p])) => AllBacked(Named(index[p]))'
    BY <1>1, <2>1 DEF AllBacked
  <2> QED
    BY <1>1, <2>1, <2>2, <2>3 DEF PublisherInv
<1>3. AllBacked(Named(dest.names))'
  BY <1>1 DEF AllBacked, Others
<1>4. \A M : Complete(M) => Complete(M)'
  BY DEF Complete, Mine
<1>5. WritingBack' \subseteq WritingBack
  BY DEF WritingBack, HaveIndex
<1>6. StaysInv'
  BY <1>4, <1>5 DEF Others, StaysInv
<1>7. Fresh'
  BY DEF Others, Fresh, Quiet, IsAll
<1> QED
  BY <1>2, <1>3, <1>6, <1>7 DEF Others

(* What an acquirer has verified, after a step of its own.                 *)
LEMMA AcquirerVerifies ==
  ASSUME TypeOK, NEW a \in Acquirer, Acquire(a), AcquirerInv(a)
  PROVE  AcquirerInv(a)'
<1> USE Apart
<1>d. dir[a] \in Dir /\ DOMAIN dir = Acquirer \cup {"dest"}
  BY DEF TypeOK
<1>g. \A from, to : Goes(a, from, to) => pc[a] = from /\ pc'[a] = to
  BY DEF TypeOK, Goes
<1>b. \A content : Becomes(a, content) => dir'[a] = content
  BY <1>d DEF Becomes
<1>i. ImageOf[a] \in Image /\ Needs(ImageOf[a]) = {ImageOf[a]} \cup PartsOf[ImageOf[a]]
  BY OciLayoutAssumption, NeedsOfImage
<1>1. CASE AskManifest(a) \/ FetchManifest(a)
  <2>1. pc[a] \in {"start", "manifest"} /\ pc'[a] \in {"manifest", "failed", "blobs"}
        /\ UNCHANGED <<dir, fetched>>
    BY <1>1, <1>g DEF AskManifest, FetchManifest
  <2> QED
    BY <2>1 DEF AcquirerInv, Wanted
<1>2. CASE FetchBlob(a)
  <2>1. PICK b \in Wanted(a), reply \in Reply :
          IF Accepted(reply)
          THEN /\ Goes(a, "blobs", "blobs")
               /\ fetched' = [fetched EXCEPT ![a] = @ \cup {[blob |-> b, right |-> reply = "right"]}]
          ELSE Goes(a, "blobs", "failed") /\ UNCHANGED fetched
    BY <1>2 DEF FetchBlob
  <2>2. pc[a] = "blobs" /\ pc'[a] \in {"blobs", "failed"} /\ dir' = dir
    BY <1>2, <1>g DEF FetchBlob
  <2>3. \A f \in fetched'[a] : f.right
    <3>1. CASE UNCHANGED fetched
      BY <3>1 DEF AcquirerInv
    <3>2. CASE Accepted(reply)
      <4>1. (reply = "right") = TRUE
        BY <3>2 DEF Accepted
      <4>2. fetched'[a] = fetched[a] \cup {[blob |-> b, right |-> TRUE]}
        BY <2>1, <3>2, <4>1 DEF TypeOK
      <4> QED
        BY <4>2 DEF AcquirerInv
    <3> QED
      BY <2>1, <3>1, <3>2
  <2> QED
    BY <2>2, <2>3 DEF AcquirerInv
<1>3. CASE MakeStage(a)
  <2>1. pc'[a] = "stage" /\ UNCHANGED fetched /\ Wanted(a) = {}
    BY <1>3, <1>g DEF MakeStage
  <2>2. dir'[a] = [NoDir EXCEPT !.state = "used"]
    BY <1>3, <1>b DEF MakeStage
  <2>3. dir'[a].torn = {} /\ dir'[a].state = "used" /\ dir'[a].whole = {}
    BY <2>2 DEF NoDir
  <2> QED
    BY <2>1, <2>3 DEF AcquirerInv, Wanted
<1>4. CASE StageBlob(a)
  <2>1. pc[a] = "stage" /\ pc'[a] = "stage" /\ UNCHANGED fetched
    BY <1>4, <1>g DEF StageBlob
  <2>2. PICK f \in Held(a) :
          Becomes(a, IF f.right THEN [dir[a] EXCEPT !.whole = @ \cup {f.blob}]
                               ELSE [dir[a] EXCEPT !.torn = @ \cup {f.blob}])
    BY <1>4 DEF StageBlob
  <2>3. f.right /\ f.blob \in Needs(ImageOf[a])
    <3>1. CASE f \in fetched[a]
      <4>1. f \in [blob : PartsOf[ImageOf[a]], right : BOOLEAN]
        BY <3>1 DEF TypeOK
      <4> QED
        BY <3>1, <4>1, <1>i DEF AcquirerInv
    <3>2. CASE f = [blob |-> ImageOf[a], right |-> TRUE]
      BY <3>2, <1>i
    <3> QED
      BY <3>1, <3>2 DEF Held
  <2>4. dir'[a] = [dir[a] EXCEPT !.whole = @ \cup {f.blob}]
    BY <2>2, <2>3, <1>b
  <2>5. /\ dir'[a].torn = dir[a].torn /\ dir'[a].state = dir[a].state
        /\ dir'[a].whole \subseteq Needs(ImageOf[a])
    BY <2>1, <2>3, <2>4, <1>d DEF Dir, AcquirerInv
  <2> QED
    BY <2>1, <2>5 DEF AcquirerInv, Wanted
<1>5. CASE StageIndex(a)
  <2>1. /\ pc[a] = "stage" /\ pc'[a] = "recheck" /\ UNCHANGED fetched
        /\ {f.blob : f \in Held(a)} \subseteq dir[a].whole \cup dir[a].torn
    BY <1>5, <1>g DEF StageIndex
  <2>2. dir'[a] = [dir[a] EXCEPT !.layout = "ok", !.index = "ok", !.names = <<ImageOf[a]>>]
    BY <1>5, <1>b DEF StageIndex
  <2>3. /\ dir'[a].torn = dir[a].torn /\ dir'[a].state = dir[a].state
        /\ dir'[a].whole = dir[a].whole
        /\ dir'[a].layout = "ok" /\ dir'[a].index = "ok" /\ dir'[a].names = <<ImageOf[a]>>
    BY <2>2, <1>d DEF Dir
  <2>4. Wanted(a) = {} /\ dir[a].torn = {} /\ dir[a].whole \subseteq Needs(ImageOf[a])
    BY <2>1 DEF AcquirerInv
  <2>5. PartsOf[ImageOf[a]] \subseteq {f.blob : f \in fetched[a]}
    BY <2>4 DEF Wanted
  <2>6. Needs(ImageOf[a]) \subseteq {f.blob : f \in Held(a)}
    <3>1. PartsOf[ImageOf[a]] \subseteq {f.blob : f \in Held(a)}
      BY <2>5 DEF Held
    <3>2. ImageOf[a] \in {f.blob : f \in Held(a)}
      <4>1. PICK f \in Held(a) : f = [blob |-> ImageOf[a], right |-> TRUE]
        BY DEF Held
      <4>2. f.blob = ImageOf[a]
        BY <4>1
      <4> QED
        BY <4>2
    <3> QED
      BY <3>1, <3>2, <1>i
  <2>7. IsAll(dir'[a], ImageOf[a])
    BY <2>1, <2>3, <2>4, <2>6 DEF IsAll
  <2> QED
    BY <2>1, <2>3, <2>4, <2>7 DEF AcquirerInv, Wanted, IsAll
<1>6. CASE StageFails(a) \/ RecheckFails(a)
  <2>1. PICK from : Fails(a, from)
    BY <1>6 DEF StageFails, RecheckFails
  <2>2. pc'[a] = "failed" /\ dir'[a] = NoDir /\ UNCHANGED fetched
    BY <2>1, <1>g, <1>b DEF Fails
  <2> QED
    BY <2>2 DEF AcquirerInv
<1>7. CASE Recheck(a)
  <2>1. pc[a] = "recheck" /\ pc'[a] = "rename" /\ UNCHANGED <<dir, fetched>>
    BY <1>7, <1>g DEF Recheck
  <2> QED
    BY <2>1 DEF AcquirerInv, Wanted
<1>8. CASE Rename(a)
  <2>1. pc'[a] = "done" /\ dir'[a] = NoDir /\ UNCHANGED fetched
    BY <1>8, <1>g, <1>d DEF Rename
  <2> QED
    BY <2>1 DEF AcquirerInv
<1> QED
  BY <1>1, <1>2, <1>3, <1>4, <1>5, <1>6, <1>7, <1>8 DEF Acquire

(* A stage is renamed only where nobody has written.                       *)
LEMMA RenameIsFirst ==
  ASSUME TypeOK, NEW a \in Acquirer, Rename(a), AcquirerInv(a), Others
  PROVE  Others'
<1> USE Apart
<1>s. AcquirerStays(a)
  BY AcquireSteps DEF Acquire
<1>1. /\ pc[a] = "rename" /\ pc'[a] = "done" /\ dest' = dir[a] /\ dest.state # "used"
  BY DEF Rename, Goes, TypeOK, dest
<1>2. /\ dir[a].state = "used" /\ Needs(ImageOf[a]) \subseteq dir[a].whole
      /\ dir[a].layout = "ok" /\ dir[a].index = "ok" /\ dir[a].names = <<ImageOf[a]>>
      /\ IsAll(dir[a], ImageOf[a])
  BY <1>1 DEF AcquirerInv, IsAll
<1>3. ASSUME NEW p \in Publisher
      PROVE  /\ pc[p] \in {"start", "failed"} \/ (pc[p] = "payload" /\ file[p] = "closed")
             /\ pc'[p] = pc[p] /\ file' = file /\ given' = given
  <2>1. PublisherInv(p) /\ pc[p] \in PublisherPcs
    BY DEF Others, TypeOK, PublisherPcs
  <2> QED
    BY <1>1, <1>s, <2>1 DEF PublisherInv, PublisherPcs, Written, Blobs, AcquirerStays
<1>4. \A p \in Publisher : PublisherInv(p)'
  <2>1. ASSUME NEW p \in Publisher PROVE PublisherInv(p)'
    <3>1. PublisherInv(p)
      BY DEF Others
    <3> QED
      BY <1>3, <3>1 DEF PublisherInv, HaveIndex, Written
  <2> QED
    BY <2>1
<1>5. Named(dest.names)' = {ImageOf[a]} /\ DOMAIN dest'.names = {1}
  BY <1>1, <1>2, ShortNames DEF Named
<1>6. AllBacked(Named(dest.names))'
  BY <1>1, <1>2, <1>5 DEF AllBacked, Backed
<1>7. ASSUME NEW c \in Acquirer, pc'[c] = "done" PROVE c = a
  BY <1>1, <1>7, <1>s DEF Others, StaysInv, AcquirerStays
<1>8. Complete({ImageOf[a]})'
  BY <1>3, <1>7 DEF Complete
<1>9. WritingBack' = {}
  BY <1>3 DEF WritingBack, HaveIndex
<1>10. StaysInv'
  BY <1>1, <1>2, <1>5, <1>7, <1>8, <1>9 DEF StaysInv
<1>11. \E c \in Acquirer : pc'[c] = "done" /\ IsAll(dest', ImageOf[c])
  BY <1>1, <1>2
<1> QED
  BY <1>4, <1>6, <1>10, <1>11 DEF Others, Fresh

(* A step of an acquirer keeps the invariant.                              *)
LEMMA AcquireKeepsInv ==
  ASSUME IInv, NEW a \in Acquirer, Acquire(a)
  PROVE  IInv'
<1> USE Apart
<1>1. TypeOK' /\ AcquirerStays(a) /\ (Rename(a) \/ dest' = dest)
  BY AcquireSteps DEF IInv
<1>2. ASSUME NEW c \in Acquirer PROVE AcquirerInv(c)'
  <2>1. CASE c = a
    BY <2>1, AcquirerVerifies DEF IInv
  <2>2. CASE c # a
    <3>1. pc'[c] = pc[c] /\ dir'[c] = dir[c] /\ fetched'[c] = fetched[c]
      BY <1>1, <2>2 DEF AcquirerStays
    <3> QED
      BY <3>1 DEF IInv, AcquirerInv, Wanted
  <2> QED
    BY <2>1, <2>2
<1>3. Others
  BY DEF IInv, Others
<1>4. CASE Rename(a)
  BY <1>1, <1>2, <1>3, <1>4, RenameIsFirst DEF IInv, Others
<1>5. CASE ~Rename(a)
  <2>1. pc[a] # "done" /\ pc'[a] # "done"
    BY <1>5 DEF IInv, TypeOK, Acquire, AskManifest, FetchManifest, FetchBlob, MakeStage,
                StageBlob, StageIndex, StageFails, Recheck, RecheckFails, Fails, Goes
  <2>2. Others'
    BY <1>1, <1>3, <1>5, <2>1, OthersStay DEF IInv, AcquirerStays
  <2> QED
    BY <1>1, <1>2, <2>2 DEF IInv, Others
<1> QED
  BY <1>4, <1>5

-----------------------------------------------------------------------------
(* The invariant, and what follows from it.                                *)

(* The invariant holds at the start.                                       *)
LEMMA InitInv == Init => IInv
<1> SUFFICES ASSUME Init PROVE IInv
  OBVIOUS
<1> USE Apart
<1>1. TypeOK
  BY InitTypes
<1>2. dest = NoDir /\ Named(dest.names) = {} /\ dest.index = "none" /\ dest.state = "absent"
  BY ShortNames DEF Init, dest, NoDir
<1>3. ASSUME NEW p \in Publisher PROVE PublisherInv(p)
  BY DEF Init, PublisherInv, Written, HaveIndex
<1>4. ASSUME NEW a \in Acquirer PROVE AcquirerInv(a)
  BY DEF Init, AcquirerInv
<1>5. StaysInv /\ Fresh
  BY <1>2 DEF Init, StaysInv, Fresh, Complete, WritingBack, HaveIndex
<1> QED
  BY <1>1, <1>2, <1>3, <1>4, <1>5 DEF IInv, AllBacked

(* A step of a publisher keeps the invariant.                              *)
LEMMA PublishKeepsInv ==
  ASSUME IInv, NEW p \in Publisher, Publish(p)
  PROVE  IInv'
<1>1. TypeOK'
  BY PublishSteps DEF IInv
<1>2. ASSUME NEW q \in Publisher PROVE PublisherInv(q)'
  BY OthersKnow, ItselfKnows DEF IInv
<1>3. \A a \in Acquirer : AcquirerInv(a)'
  BY PublishKeepsAcquirers DEF IInv
<1>4. AllBacked(Named(dest.names))' /\ StaysInv' /\ Fresh'
  BY PublishIndexBacked, PublishKeepsStays, PublishKeepsFresh DEF IInv
<1> QED
  BY <1>1, <1>2, <1>3, <1>4 DEF IInv

(* A killed process writes nothing any more.                               *)
LEMMA IdleKeepsInv ==
  ASSUME IInv, UNCHANGED <<given, dir, pc, file, index, fetched, met>>, TypeOK',
         killed \subseteq killed'
  PROVE  IInv'
<1>1. Others
  BY DEF IInv, Others
<1>2. Others'
  BY <1>1, OthersStay DEF IInv, dest
<1>3. \A a \in Acquirer : AcquirerInv(a)'
  BY DEF IInv, AcquirerInv, Wanted
<1> QED
  BY <1>2, <1>3 DEF IInv, Others

(* The inductive invariant holds.                                          *)
THEOREM Inductive == Spec => []IInv
<1>1. Init => IInv
  BY InitInv
<1>2. IInv /\ [Next]_vars => IInv'
  <2> SUFFICES ASSUME IInv, [Next]_vars PROVE IInv'
    OBVIOUS
  <2>1. CASE UNCHANGED vars
    <3>1. TypeOK'
      BY <2>1 DEF IInv, TypeOK, vars
    <3> QED
      BY <2>1, <3>1, IdleKeepsInv DEF vars
  <2>2. ASSUME NEW x \in Process, Kill(x) PROVE IInv'
    <3>1. TypeOK'
      BY <2>2, KillSteps DEF IInv
    <3> QED
      BY <2>2, <3>1, IdleKeepsInv DEF Kill
  <2> QED
    BY <2>1, <2>2, PublishKeepsInv, AcquireKeepsInv DEF Next
<1> QED
  BY <1>1, <1>2, PTL DEF Spec

(* Whoever can read the index finds each blob it leads to, unless that one  *)
(* is being written again or the one writing it was killed.                *)
THEOREM IndexLeads == Spec => []IndexLeadsSomewhere
<1>1. IInv => IndexLeadsSomewhere
  BY DEF IInv, AllBacked, Backed, IndexLeadsSomewhere
<1> QED
  BY <1>1, Inductive, PTL

(* A whole image is one inspect accepts, unless its subject is malformed.  *)
LEMMA AllInspects ==
  ASSUME NEW d, NEW i \in Image, IsAll(d, i), d.state # "absent"
  PROVE  Inspects(d) <=> i \notin Malformed
<1>1. /\ d.layout = "ok" /\ d.index = "ok" /\ Needs(i) \subseteq d.whole
      /\ d.names = <<i>>
  BY DEF IsAll
<1>2. /\ DOMAIN d.names = {1} /\ Len(d.names) = 1 /\ Named(d.names) = {i}
  BY <1>1, ShortNames
<1>3. Len(d.names) <= MaxDescriptors
  BY <1>2, OciLayoutAssumption
<1>4. SubjectOf[i] \notin Named(d.names)
  BY <1>2, OciLayoutAssumption
<1>5. SubjectFits(d, i) <=> i \notin Malformed
  BY <1>4 DEF SubjectFits
<1> QED
  BY <1>1, <1>2, <1>3, <1>5 DEF Inspects, Readable

(* Acquiring is all or nothing: as long as nobody publishes a valid record, *)
(* the destination is not there or is one acquirer's whole image and no    *)
(* more, and inspect refuses it only for a subject acquire never looks at. *)
THEOREM AllOrNothing == Spec => []AcquiredWhole
<1>1. IInv => AcquiredWhole
  <2> SUFFICES ASSUME IInv PROVE AcquiredWhole
    OBVIOUS
  <2>1. Quiet => \/ dest.state = "absent"
                 \/ \E a \in Acquirer :
                      /\ pc[a] = "done" /\ IsAll(dest, ImageOf[a])
                      /\ Inspects(dest) <=> ImageOf[a] \notin Malformed
    <3> SUFFICES ASSUME Quiet, dest.state # "absent"
                 PROVE  \E a \in Acquirer :
                          /\ pc[a] = "done" /\ IsAll(dest, ImageOf[a])
                          /\ Inspects(dest) <=> ImageOf[a] \notin Malformed
      OBVIOUS
    <3>1. PICK a \in Acquirer : pc[a] = "done" /\ IsAll(dest, ImageOf[a])
      BY DEF IInv, Fresh
    <3>2. ImageOf[a] \in Image
      BY OciLayoutAssumption
    <3> QED
      BY <3>1, <3>2, AllInspects
  <2>2. ASSUME NEW a \in Acquirer, pc[a] \in {"done", "failed"} PROVE dir[a].state = "absent"
    BY <2>2 DEF IInv, AcquirerInv, NoDir
  <2> QED
    BY <2>1, <2>2 DEF AcquiredWhole, Quiet
<1> QED
  BY <1>1, Inductive, PTL

-----------------------------------------------------------------------------
(* What is left when all are through.  A file that is not whole is one     *)
(* that somebody has open, the lists name each handoff once and only those *)
(* that were finished or are being so.  While no two have the index        *)
(* together, one that has emptied it is the last that may write it, killed *)
(* or not; and if none is killed, whoever fails does so for one that is    *)
(* still at work.                                                          *)

Finished == Published \cup Acquired
NoRepeats(list) == \A i, j \in DOMAIN list : list[i] = list[j] => i = j

OpenInv ==
  /\ \A b \in dest.torn : \E q \in Publisher, at \in Blobs : Open(q, at) /\ Writes(q)[at] = b
  /\ dest.layout # "torn"
  /\ dest.layout = "empty" => \E q \in Publisher : Open(q, "write layout")
  /\ dest.index = "empty" => \E q \in Publisher : Open(q, "write index")

LayoutInv ==
  /\ \A p \in Publisher : pc[p] \in {"write index", "done"} => dest.layout # "none"
  /\ \A a \in Acquirer : pc[a] = "done" => dest.layout # "none"
  /\ \A x \in Process : pc[x] = "done" => dest.index # "none"

ListInv ==
  /\ NoRepeats(dest.names)
  /\ \A p \in Publisher : NoRepeats(index[p])
  /\ Named(dest.names) \subseteq Finished
  /\ \A q \in HaveIndex : Named(index[q]) \subseteq Finished \cup {Mine(q)}

AtWork ==
  \/ \E p \in Publisher : pc[p] \notin {"start", "failed"}
  \/ \E a \in Acquirer : pc[a] = "done"

AloneInv ==
  met = {} =>
    /\ dest.index # "torn"
    /\ \A p \in Publisher : Open(p, "write index") =>
         dest.index = "empty" /\ HaveIndex \ {p} \subseteq killed
    /\ killed = {} /\ dest.state = "used" => AtWork

OrderInv == OpenInv /\ LayoutInv /\ ListInv /\ AloneInv

SameFiles == dest'.torn = dest.torn /\ dest'.layout = dest.layout

(* What each step of a publisher does to the files that may be half there. *)
LEMMA PublishFiles ==
  ASSUME TypeOK, NEW p \in Publisher
  PROVE
    /\ Validate(p) => SameFiles
    /\ \A at \in Blobs :
         /\ CheckBlob(p, at) =>
              SameFiles /\ (pc'[p] = "failed" => Writes(p)[at] \in dest.torn)
         /\ EmptyBlob(p, at) =>
              dest'.torn = dest.torn \cup {Writes(p)[at]} /\ dest'.layout = dest.layout
         /\ FillBlob(p, at) =>
              dest'.torn = dest.torn \ {Writes(p)[at]} /\ dest'.layout = dest.layout
    /\ EmptyLayout(p) =>
         /\ dest'.torn = dest.torn /\ dest'.layout = "empty"
         /\ file[p] = "closed" /\ file'[p] = "open" /\ pc'[p] = "write layout"
    /\ FillLayout(p) =>
         dest'.torn = dest.torn /\ dest'.layout = "ok" /\ file'[p] = "closed"
    /\ EmptyIndex(p) => SameFiles /\ file[p] = "closed" /\ file'[p] = "open"
    /\ FillIndex(p) =>
         /\ SameFiles /\ file[p] = "open"
         /\ dest'.index = "torn" => dest.index # "empty"
<1>d. dest \in Dir
  BY DEF TypeOK, dest
<1>b. \A c : Becomes("dest", c) => dest' = c
  BY DEF TypeOK, Becomes, dest
<1>g. \A from, to : Goes(p, from, to) => pc[p] = from /\ pc'[p] = to
  BY Apart DEF TypeOK, Goes
<1>f. \A from, to : File(p, from, to) => file[p] = from /\ file'[p] = to
  BY DEF TypeOK, File
<1> USE DEF SameFiles
<1>1. ASSUME Validate(p) PROVE SameFiles
  <2>1. dest' = dest \/ dest' = [dest EXCEPT !.state = IF @ = "absent" THEN "bare" ELSE @]
    BY <1>b, <1>1 DEF Validate, dest
  <2> QED
    BY <2>1, <1>d DEF Dir
<1>2. ASSUME NEW at \in Blobs, CheckBlob(p, at)
      PROVE  SameFiles /\ (pc'[p] = "failed" => Writes(p)[at] \in dest.torn)
  <2>1. dest' = [dest EXCEPT !.state = "used"]
    BY <1>b, <1>2 DEF CheckBlob
  <2>2. Writes(p)[at] \in dest.torn \/ pc'[p] = at
    BY <1>2, <1>g DEF CheckBlob
  <2> QED
    BY <2>1, <2>2, <1>d DEF Dir, Blobs
<1>3. ASSUME NEW at \in Blobs, EmptyBlob(p, at)
      PROVE  dest'.torn = dest.torn \cup {Writes(p)[at]} /\ dest'.layout = dest.layout
  <2>1. dest' = [dest EXCEPT !.whole = @ \ {Writes(p)[at]}, !.torn = @ \cup {Writes(p)[at]}]
    BY <1>b, <1>3 DEF EmptyBlob
  <2> QED
    BY <2>1, <1>d DEF Dir
<1>4. ASSUME NEW at \in Blobs, FillBlob(p, at)
      PROVE  dest'.torn = dest.torn \ {Writes(p)[at]} /\ dest'.layout = dest.layout
  <2>1. dest' = [dest EXCEPT !.whole = @ \cup {Writes(p)[at]}, !.torn = @ \ {Writes(p)[at]}]
    BY <1>b, <1>4 DEF FillBlob
  <2> QED
    BY <2>1, <1>d DEF Dir
<1>5. ASSUME EmptyLayout(p)
      PROVE  /\ dest'.torn = dest.torn /\ dest'.layout = "empty"
             /\ file[p] = "closed" /\ file'[p] = "open" /\ pc'[p] = "write layout"
  <2>1. dest' = [dest EXCEPT !.layout = "empty"]
    BY <1>b, <1>5 DEF EmptyLayout
  <2> QED
    BY <2>1, <1>d, <1>5, <1>f, <1>g DEF Dir, EmptyLayout
<1>6. ASSUME FillLayout(p)
      PROVE  dest'.torn = dest.torn /\ dest'.layout = "ok" /\ file'[p] = "closed"
  <2>1. dest' = [dest EXCEPT !.layout = "ok"]
    BY <1>b, <1>6 DEF FillLayout
  <2> QED
    BY <2>1, <1>d, <1>6, <1>f DEF Dir, FillLayout
<1>7. ASSUME EmptyIndex(p) PROVE SameFiles /\ file[p] = "closed" /\ file'[p] = "open"
  <2>1. dest' = [dest EXCEPT !.index = "empty", !.names = << >>]
    BY <1>b, <1>7 DEF EmptyIndex
  <2> QED
    BY <2>1, <1>d, <1>7, <1>f DEF Dir, EmptyIndex
<1>8. ASSUME FillIndex(p)
      PROVE  /\ SameFiles /\ file[p] = "open"
             /\ dest'.index = "torn" => dest.index # "empty"
  <2>1. \/ dest' = [dest EXCEPT !.index = "ok", !.names = index[p]]
        \/ /\ dest' = [dest EXCEPT !.index = "torn", !.names = << >>]
           /\ dest.index # "empty"
    BY <1>b, <1>8 DEF FillIndex
  <2> QED
    BY <2>1, <1>d, <1>8, <1>f DEF Dir, FillIndex
<1> QED
  BY <1>1, <1>2, <1>3, <1>4, <1>5, <1>6, <1>7, <1>8

(* The files other publishers have open stay open, and what they write is  *)
(* the same.                                                               *)
LEMMA OthersOpen ==
  ASSUME TypeOK, NEW p \in Publisher, Publish(p)
  PROVE  /\ \A q \in Publisher : \A at : q # p /\ Open(q, at) => Open(q, at)'
         /\ \A q \in Publisher : Writes(q)' = Writes(q) /\ Mine(q)' = Mine(q)
  BY PublishSteps, Apart DEF PublisherStays, Open, Writes, Mine

(* A file is torn or empty only while somebody has it open.                *)
LEMMA PublishKeepsOpen ==
  ASSUME TypeOK, NEW p \in Publisher, Publish(p), OpenInv
  PROVE  OpenInv'
<1> DEFINE In(x, b) == \E q \in Publisher, at \in Blobs : Open(q, at) /\ Writes(q)[at] = b /\ q # x
           Has(x, at) == \E q \in Publisher : Open(q, at) /\ q # x
<1>o. /\ \A q \in Publisher : \A at : q # p /\ Open(q, at) => Open(q, at)'
      /\ \A q \in Publisher : Writes(q)' = Writes(q)
  BY OthersOpen
<1>i. ASSUME NEW b, In(p, b)
      PROVE  (\E q \in Publisher, at \in Blobs : Open(q, at) /\ Writes(q)[at] = b)'
  <2>1. PICK q \in Publisher, at \in Blobs : Open(q, at) /\ Writes(q)[at] = b /\ q # p
    BY <1>i
  <2>2. Open(q, at)' /\ Writes(q)'[at] = b
    BY <2>1, <1>o
  <2> QED
    BY <2>2
<1>h. ASSUME NEW at, Has(p, at) PROVE \E q \in Publisher : Open(q, at)'
  BY <1>h, <1>o
(* p has no file open but this one, and it leaves the others as they are.  *)
<1>k. ASSUME NEW at, \A on : Open(p, on) => on = at
      PROVE  /\ \A b \in dest.torn : In(p, b) \/ (at \in Blobs /\ Writes(p)[at] = b)
             /\ dest.layout = "empty" => Has(p, "write layout") \/ at = "write layout"
             /\ dest.index = "empty" => Has(p, "write index") \/ at = "write index"
  <2>1. ASSUME NEW b \in dest.torn PROVE In(p, b) \/ (at \in Blobs /\ Writes(p)[at] = b)
    <3>1. PICK q \in Publisher, on \in Blobs : Open(q, on) /\ Writes(q)[on] = b
      BY DEF OpenInv
    <3>2. CASE q = p
      BY <3>1, <3>2, <1>k
    <3>3. CASE q # p
      BY <3>1, <3>3
    <3> QED
      BY <3>2, <3>3
  <2>2. dest.layout = "empty" => Has(p, "write layout") \/ at = "write layout"
    BY <1>k DEF OpenInv
  <2>3. dest.index = "empty" => Has(p, "write index") \/ at = "write index"
    BY <1>k DEF OpenInv
  <2> QED
    BY <2>1, <2>2, <2>3
<1>q. ASSUME \A b \in dest'.torn : In(p, b) \/ \E at \in Blobs : Open(p, at)' /\ Writes(p)[at] = b,
             dest'.layout \in {dest.layout, "ok", "empty"},
             dest'.layout = "empty" => Has(p, "write layout") \/ Open(p, "write layout")',
             dest'.index = "empty" => Has(p, "write index") \/ Open(p, "write index")'
      PROVE  OpenInv'
  <2>1. ASSUME NEW b \in dest'.torn
        PROVE  (\E q \in Publisher, at \in Blobs : Open(q, at) /\ Writes(q)[at] = b)'
    BY <1>q, <1>i, <1>o
  <2>2. dest'.layout # "torn"
    BY <1>q DEF OpenInv
  <2>3. dest'.layout = "empty" => \E q \in Publisher : Open(q, "write layout")'
    BY <1>q, <1>h
  <2>4. dest'.index = "empty" => \E q \in Publisher : Open(q, "write index")'
    BY <1>q, <1>h
  <2> QED
    BY <2>1, <2>2, <2>3, <2>4 DEF OpenInv
<1>b. /\ "none" \notin Blobs /\ "write layout" \notin Blobs /\ "write index" \notin Blobs
      /\ "start" \notin Blobs /\ "layout" \notin Blobs /\ "index" \notin Blobs
  BY DEF Blobs
<1> HIDE DEF In, Has
<1>1. ASSUME SameFiles, SameIndex \/ dest'.index # "empty", \A at : ~Open(p, at) PROVE OpenInv'
  <2>1. /\ \A b \in dest.torn : In(p, b)
        /\ dest.layout = "empty" => Has(p, "write layout")
        /\ dest.index = "empty" => Has(p, "write index")
    BY <1>1, <1>k, <1>b
  <2> QED
    BY <2>1, <1>1, <1>q DEF SameFiles, SameIndex
<1>2. CASE Validate(p)
  <2>1. CASE file[p] # "open"
    BY <2>1, <1>1, <1>2, PublishDest, PublishFiles DEF Open
  <2>2. \A at : Open(p, at) => at = "start"
    BY <1>2, PublishMoves DEF Open
  <2>3. /\ \A b \in dest.torn : In(p, b)
        /\ dest.layout = "empty" => Has(p, "write layout")
        /\ dest.index = "empty" => Has(p, "write index")
    BY <2>2, <1>k, <1>b
  <2> QED
    BY <2>3, <1>2, <1>q, PublishDest, PublishFiles DEF SameFiles, SameIndex
<1>3. ASSUME NEW at \in Blobs, CheckBlob(p, at) PROVE OpenInv'
  <2>1. \A on : ~Open(p, on)
    BY <1>3, PublishMoves DEF Open
  <2>2. SameFiles /\ SameIndex
    BY <1>3, PublishDest, PublishFiles
  <2> QED
    BY <2>1, <2>2, <1>1
<1>4. ASSUME NEW at \in Blobs, EmptyBlob(p, at) PROVE OpenInv'
  <2>1. (\A on : ~Open(p, on)) /\ Open(p, at)'
    BY <1>4, PublishMoves DEF Open
  <2>2. dest'.torn = dest.torn \cup {Writes(p)[at]} /\ dest'.layout = dest.layout
    BY <1>4, PublishFiles
  <2>3. SameIndex
    BY <1>4, PublishDest
  <2>4. /\ \A b \in dest.torn : In(p, b)
        /\ dest.layout = "empty" => Has(p, "write layout")
        /\ dest.index = "empty" => Has(p, "write index")
    BY <2>1, <1>k, <1>b
  <2>5. \A b \in dest'.torn : In(p, b) \/ \E on \in Blobs : Open(p, on)' /\ Writes(p)[on] = b
    BY <2>1, <2>2, <2>4
  <2> QED
    BY <2>2, <2>3, <2>4, <2>5, <1>q DEF SameIndex
<1>5. ASSUME NEW at \in Blobs, FillBlob(p, at) PROVE OpenInv'
  <2>1. \A on : Open(p, on) => on = at
    BY <1>5, PublishMoves DEF Open
  <2>2. dest'.torn = dest.torn \ {Writes(p)[at]} /\ dest'.layout = dest.layout
    BY <1>5, PublishFiles
  <2>3. SameIndex
    BY <1>5, PublishDest
  <2>4. /\ \A b \in dest.torn : In(p, b) \/ Writes(p)[at] = b
        /\ dest.layout = "empty" => Has(p, "write layout")
        /\ dest.index = "empty" => Has(p, "write index")
    BY <2>1, <1>k, <1>b
  <2> QED
    BY <2>2, <2>3, <2>4, <1>q DEF SameIndex
<1>6. CASE CheckLayout(p) \/ ReadIndex(p)
  <2>1. dest' = dest /\ \A on : Open(p, on) => on = pc[p]
    BY <1>6, PublishDest DEF Open
  <2>2. /\ \A b \in dest.torn : In(p, b)
        /\ dest.layout = "empty" => Has(p, "write layout")
        /\ dest.index = "empty" => Has(p, "write index")
    <3>1. pc[p] \in {"layout", "index"}
      BY <1>6, PublishMoves
    <3>2. CASE pc[p] = "layout"
      BY <2>1, <3>2, <1>k, <1>b
    <3>3. CASE pc[p] = "index"
      BY <2>1, <3>3, <1>k, <1>b
    <3> QED
      BY <3>1, <3>2, <3>3
  <2> QED
    BY <2>1, <2>2, <1>q
<1>7. CASE EmptyLayout(p) \/ FillLayout(p)
  <2>1. \A on : Open(p, on) => on = "write layout"
    BY <1>7, PublishMoves DEF Open
  <2>2. dest'.torn = dest.torn /\ SameIndex
    BY <1>7, PublishDest, PublishFiles
  <2>3. \/ dest'.layout = "ok"
        \/ dest'.layout = "empty" /\ Open(p, "write layout")'
    BY <1>7, PublishFiles DEF Open
  <2>4. /\ \A b \in dest.torn : In(p, b)
        /\ dest.index = "empty" => Has(p, "write index")
    BY <2>1, <1>k, <1>b
  <2> QED
    BY <2>2, <2>3, <2>4, <1>q DEF SameIndex
<1>8. CASE EmptyIndex(p) \/ FillIndex(p)
  <2>1. \A on : Open(p, on) => on = "write index"
    BY <1>8, PublishMoves DEF Open
  <2>2. SameFiles
    BY <1>8, PublishFiles
  <2>3. \/ dest'.index \in {"ok", "torn"}
        \/ dest'.index = "empty" /\ Open(p, "write index")'
    BY <1>8, PublishDest, PublishMoves, PublishFiles DEF Open
  <2>4. /\ \A b \in dest.torn : In(p, b)
        /\ dest.layout = "empty" => Has(p, "write layout")
    BY <2>1, <1>k, <1>b
  <2> QED
    BY <2>2, <2>3, <2>4, <1>q DEF SameFiles
<1> QED
  BY <1>2, <1>3, <1>4, <1>5, <1>6, <1>7, <1>8 DEF Publish

(* Whoever is through with the layout has left one.                        *)
LEMMA PublishKeepsLayout ==
  ASSUME TypeOK, NEW p \in Publisher, Publish(p), LayoutInv
  PROVE  LayoutInv'
<1>o. /\ \A q \in Publisher : q # p => pc'[q] = pc[q]
      /\ \A a \in Acquirer : pc'[a] = pc[a]
  BY PublishSteps, Apart DEF PublisherStays
<1>1. \/ dest'.layout \in {"empty", "ok"}
      \/ dest'.layout = dest.layout
  BY PublishFiles, PublishDest DEF Publish, SameFiles
<1>i. \/ dest'.index \in {"empty", "torn", "ok"}
      \/ dest'.index = dest.index /\ ~FillIndex(p)
  BY PublishDest DEF Publish, SameIndex
<1>d. ASSUME ~FillIndex(p) PROVE pc'[p] # "done"
  <2>1. \A at \in Blobs : at # "done" /\ After(at) # "done"
    BY Afters DEF Blobs
  <2> QED
    BY <1>d, <2>1, PublishMoves DEF Publish
<1>2. ASSUME pc'[p] \in {"write index", "done"} PROVE dest'.layout # "none"
  <2>1. CASE FillLayout(p)
    BY <2>1, PublishFiles
  <2>2. CASE ~FillLayout(p)
    <3>1. pc[p] \in {"write index", "done"}
      <4>1. \A at \in Blobs : at \notin {"write index", "done"} /\ After(at) \notin {"write index", "done"}
        BY Afters DEF Blobs
      <4> QED
        BY <1>2, <2>2, <4>1, PublishMoves, PublishFiles DEF Publish
    <3> QED
      BY <3>1, <1>1 DEF LayoutInv
  <2> QED
    BY <2>1, <2>2
<1>3. ASSUME NEW x \in Process, pc'[x] = "done" PROVE dest'.index # "none"
  <2>1. CASE dest'.index \in {"empty", "torn", "ok"}
    BY <2>1
  <2>2. CASE dest'.index = dest.index /\ ~FillIndex(p)
    <3>1. x # p /\ pc[x] = "done"
      BY <1>3, <2>2, <1>d, <1>o DEF Process
    <3> QED
      BY <2>2, <3>1 DEF LayoutInv
  <2> QED
    BY <1>i, <2>1, <2>2
<1> QED
  BY <1>o, <1>1, <1>2, <1>3 DEF LayoutInv

(* With lists nothing twice.                                               *)
LEMMA WithOnce ==
  ASSUME NEW S, NEW list \in Seq(S), NEW m \in S, NoRepeats(list)
  PROVE  NoRepeats(With(list, m))
<1>1. CASE m \in Named(list)
  BY <1>1 DEF With
<1>2. CASE m \notin Named(list)
  <2>1. With(list, m) = Append(list, m)
    BY <1>2 DEF With
  <2>2. /\ DOMAIN Append(list, m) = 1..Len(list) + 1
        /\ DOMAIN list = 1..Len(list) /\ Len(list) \in Nat
        /\ \A i \in 1..Len(list) : Append(list, m)[i] = list[i]
        /\ Append(list, m)[Len(list) + 1] = m
    OBVIOUS
  <2>3. \A i \in 1..Len(list) : list[i] # m
    BY <1>2, <2>2 DEF Named
  <2> HIDE DEF With
  <2>4. NoRepeats(Append(list, m))
    BY <2>2, <2>3 DEF NoRepeats
  <2> QED
    BY <2>1, <2>4
<1> QED
  BY <1>1, <1>2

(* Who has finished stays so, and who finishes is added.                   *)
LEMMA FinishedGrows ==
  ASSUME \A p \in Publisher : pc[p] = "done" => pc'[p] = "done",
         \A a \in Acquirer : pc[a] = "done" => pc'[a] = "done",
         \A p \in Publisher : Mine(p)' = Mine(p)
  PROVE  /\ Finished \subseteq Finished'
         /\ \A p \in Publisher : pc'[p] = "done" => Mine(p) \in Finished'
         /\ \A a \in Acquirer : pc'[a] = "done" => ImageOf[a] \in Finished'
  BY DEF Finished, Published, Acquired

(* The lists name each manifest once, and only what was finished.          *)
LEMMA PublishKeepsList ==
  ASSUME TypeOK, NEW p \in Publisher, Publish(p), ListInv
  PROVE  ListInv'
<1> USE Apart
<1>o. /\ \A q \in Publisher : q # p => pc'[q] = pc[q] /\ index'[q] = index[q]
      /\ \A q \in Publisher : Mine(q)' = Mine(q)
      /\ \A a \in Acquirer : pc'[a] = pc[a]
  BY PublishSteps, OthersOpen DEF PublisherStays
<1>d. pc[p] # "done"
  <2>1. "done" \notin Blobs
    BY DEF Blobs
  <2> QED
    BY <2>1, PublishMoves DEF Publish
<1>f. /\ Finished \subseteq Finished'
      /\ \A q \in Publisher : pc'[q] = "done" => Mine(q) \in Finished'
  BY <1>o, <1>d, FinishedGrows
<1>q. ASSUME NEW q \in HaveIndex', q # p
      PROVE  Named(index'[q]) \subseteq Finished' \cup {Mine(q)'}
  <2>1. q \in HaveIndex /\ index'[q] = index[q]
    BY <1>q, <1>o DEF HaveIndex
  <2> QED
    BY <2>1, <1>q, <1>o, <1>f DEF ListInv, HaveIndex
<1>r. ASSUME SameIndex \/ dest'.names = << >>
      PROVE  NoRepeats(dest'.names) /\ Named(dest'.names) \subseteq Finished'
  <2>1. CASE SameIndex
    BY <2>1, <1>f DEF ListInv, SameIndex
  <2>2. CASE dest'.names = << >>
    <3>1. NoRepeats(<< >>)
      BY DEF NoRepeats
    <3> QED
      BY <2>2, <3>1, ShortNames
  <2> QED
    BY <1>r, <2>1, <2>2
<1>s. ASSUME NoRepeats(dest'.names), Named(dest'.names) \subseteq Finished',
             NoRepeats(index'[p]),
             p \in HaveIndex' => Named(index'[p]) \subseteq Finished' \cup {Mine(p)}
      PROVE  ListInv'
  <2>1. \A q \in Publisher : NoRepeats(index'[q])
    BY <1>s, <1>o DEF ListInv
  <2>2. \A q \in HaveIndex' : Named(index'[q]) \subseteq Finished' \cup {Mine(q)'}
    BY <1>s, <1>q, <1>o
  <2>3. NoRepeats(dest.names)' /\ Named(dest.names)' \subseteq Finished'
    BY <1>s DEF NoRepeats, Named, Handoff
  <2> QED
    BY <2>1, <2>2, <2>3 DEF ListInv, NoRepeats, Named
<1>1. CASE ReadIndex(p)
  <2>1. dest.names \in Seq(Manifest) /\ Mine(p) \in Manifest
    BY WritesBlobs DEF TypeOK, dest, Dir, Blobs
  <2>2. SameIndex
    BY <1>1, PublishDest DEF SameIndex
  <2>3. \/ index' = index /\ pc'[p] = "failed"
        \/ index'[p] = With(dest.names, Mine(p))
    <3>1. DOMAIN pc = Process /\ DOMAIN index = Publisher
      BY DEF TypeOK
    <3> QED
      BY <1>1, <3>1 DEF ReadIndex, Goes
  <2>4. CASE index' = index /\ pc'[p] = "failed"
    <3>1. p \notin HaveIndex' /\ NoRepeats(index'[p])
      BY <2>4 DEF HaveIndex, ListInv
    <3> QED
      BY <2>2, <3>1, <1>r, <1>s
  <2>5. CASE index'[p] = With(dest.names, Mine(p))
    <3>1. NoRepeats(With(dest.names, Mine(p)))
      BY <2>1, WithOnce DEF ListInv
    <3>2. Named(With(dest.names, Mine(p))) = Named(dest.names) \cup {Mine(p)}
      BY <2>1, WithNames
    <3>3. Named(With(dest.names, Mine(p))) \subseteq Finished' \cup {Mine(p)}
      BY <3>2, <1>f DEF ListInv
    <3> QED
      BY <2>2, <2>5, <3>1, <3>3, <1>r, <1>s
  <2> QED
    BY <2>3, <2>4, <2>5
<1>2. ASSUME index' = index, (p \in HaveIndex)' => p \in HaveIndex
      PROVE  /\ NoRepeats(index'[p])
             /\ p \in HaveIndex' => Named(index'[p]) \subseteq Finished' \cup {Mine(p)}
  BY <1>2, <1>f DEF ListInv
<1>3. CASE FillIndex(p)
  <2>1. p \in HaveIndex /\ index' = index /\ p \notin HaveIndex' /\ Mine(p) \in Finished'
    BY <1>3, <1>f, PublishMoves DEF HaveIndex
  <2>2. NoRepeats(dest'.names) /\ Named(dest'.names) \subseteq Finished'
    <3>1. CASE dest'.names = index[p]
      BY <2>1, <3>1, <1>f DEF ListInv
    <3>2. CASE dest'.names = << >>
      BY <3>2, <1>r
    <3> QED
      BY <1>3, <3>1, <3>2, PublishDest
  <2> QED
    BY <2>1, <2>2, <1>2, <1>s
<1>4. CASE EmptyLayout(p) \/ FillLayout(p) \/ EmptyIndex(p)
  <2>1. p \in HaveIndex /\ index' = index
    BY <1>4, PublishMoves DEF HaveIndex
  <2>2. SameIndex \/ dest'.names = << >>
    BY <1>4, PublishDest
  <2> QED
    BY <2>1, <2>2, <1>2, <1>r, <1>s
<1>5. CASE Validate(p) \/ CheckLayout(p)
  <2>1. p \notin HaveIndex' /\ index' = index
    BY <1>5, PublishMoves DEF HaveIndex
  <2>2. SameIndex
    BY <1>5, PublishDest DEF SameIndex
  <2> QED
    BY <2>1, <2>2, <1>2, <1>r, <1>s
<1>6. ASSUME NEW at \in Blobs, CheckBlob(p, at) \/ EmptyBlob(p, at) \/ FillBlob(p, at)
      PROVE  ListInv'
  <2>1. p \notin HaveIndex' /\ index' = index
    BY <1>6, PublishMoves, Afters DEF HaveIndex, Blobs
  <2>2. SameIndex
    BY <1>6, PublishDest
  <2> QED
    BY <2>1, <2>2, <1>2, <1>r, <1>s
<1> QED
  BY <1>1, <1>3, <1>4, <1>5, <1>6 DEF Publish

(* While no two have the index together and none is killed, the index is   *)
(* not torn, and one that fails leaves another at work.                    *)
LEMMA PublishKeepsAlone ==
  ASSUME TypeOK, NEW p \in Publisher, Publish(p), OpenInv, StaysInv, AloneInv
  PROVE  AloneInv'
<1> USE Apart
<1>s. /\ killed' = killed
      /\ \A x \in Process : x # p => pc'[x] = pc[x]
      /\ \A q \in Publisher : q # p => file'[q] = file[q]
  BY PublishSteps DEF PublisherStays
<1>m. met \subseteq met'
  BY DEF Publish, Validate, CheckBlob, EmptyBlob, FillBlob, CheckLayout, ReadIndex,
         EmptyLayout, FillLayout, EmptyIndex, FillIndex
<1> DEFINE Last(q) == dest.index = "empty" /\ HaveIndex \ {q} \subseteq killed
<1> SUFFICES ASSUME met' = {}
             PROVE  /\ dest'.index # "torn"
                    /\ \A q \in Publisher : Open(q, "write index")' => Last(q)'
                    /\ killed' = {} /\ dest'.state = "used" => AtWork'
  BY DEF AloneInv
<1>a. /\ met = {}
      /\ dest.index # "torn"
      /\ \A q \in Publisher : Open(q, "write index") => Last(q)
      /\ killed = {} /\ dest.state = "used" => AtWork
  BY <1>s, <1>m DEF AloneInv
(* One that still has the index has it alone.                              *)
<1>h. p \in HaveIndex => /\ HaveIndex \ {p} \subseteq killed
                        /\ \A q \in Publisher : Open(q, "write index") => q = p
  <2> SUFFICES ASSUME p \in HaveIndex
               PROVE  /\ HaveIndex \ {p} \subseteq killed
                      /\ \A q \in Publisher : Open(q, "write index") => q = p
    OBVIOUS
  <2>1. p \notin killed
    BY PublishSteps DEF PublisherStays
  <2>2. ASSUME NEW q \in HaveIndex \ {p}, q \notin killed PROVE FALSE
    BY <2>1, <2>2, <1>a DEF StaysInv, WritingBack
  <2>3. ASSUME NEW q \in Publisher, Open(q, "write index") PROVE q = p
    BY <2>1, <2>3, <1>a
  <2> QED
    BY <2>2, <2>3
<1>1. /\ dest'.index # "torn"
      /\ \A q \in Publisher : Open(q, "write index")' => Last(q)'
  <2>1. ASSUME SameIndex, Open(p, "write index")' => Open(p, "write index"),
               (p \in HaveIndex)' => p \in HaveIndex \/ dest.index # "empty"
        PROVE  /\ dest'.index # "torn"
               /\ \A q \in Publisher : Open(q, "write index")' => Last(q)'
    <3>1. ASSUME NEW q \in Publisher, Open(q, "write index")' PROVE Last(q)'
      <4>1. Open(q, "write index")
        BY <2>1, <3>1, <1>s DEF Open
      <4>2. Last(q)
        BY <4>1, <1>a
      <4>3. HaveIndex' \subseteq HaveIndex
        BY <2>1, <4>2, <1>s DEF HaveIndex
      <4> QED
        BY <2>1, <4>2, <4>3, <1>s DEF SameIndex
    <3> QED
      BY <2>1, <3>1, <1>a DEF SameIndex
  <2>2. CASE EmptyIndex(p)
    <3>1. p \in HaveIndex /\ HaveIndex' = HaveIndex /\ dest'.index = "empty"
      BY <2>2, <1>s, PublishDest, PublishMoves DEF HaveIndex
    <3>2. \A q \in Publisher : Open(q, "write index")' => q = p
      BY <3>1, <1>h, <1>s DEF Open
    <3> QED
      BY <3>1, <3>2, <1>h, <1>s
  <2>3. CASE FillIndex(p)
    <3>1. Open(p, "write index") /\ p \in HaveIndex /\ pc'[p] = "done"
      BY <2>3, PublishMoves, PublishFiles DEF Open, HaveIndex
    <3>2. dest'.index # "torn"
      BY <2>3, <3>1, <1>a, PublishFiles
    <3>3. \A q \in Publisher : ~Open(q, "write index")'
      BY <3>1, <1>h, <1>s DEF Open
    <3> QED
      BY <3>2, <3>3
  <2>4. CASE FillLayout(p)
    <3>1. ~Open(p, "write index")' /\ SameIndex /\ p \in HaveIndex
      BY <2>4, PublishFiles, PublishDest, PublishMoves DEF Open, HaveIndex
    <3> QED
      BY <3>1, <2>1
  <2>5. CASE Validate(p) \/ CheckLayout(p) \/ ReadIndex(p) \/ EmptyLayout(p)
    <3>1. SameIndex /\ pc'[p] # "write index"
      BY <2>5, PublishMoves, PublishDest, PublishFiles DEF SameIndex
    <3>2. (p \in HaveIndex)' => p \in HaveIndex \/ dest.index # "empty"
      <4>1. CASE ReadIndex(p) /\ dest.index \in {"empty", "torn"}
        BY <4>1 DEF ReadIndex, Goes, HaveIndex, TypeOK
      <4>2. CASE ReadIndex(p) /\ dest.index \in {"none", "ok"}
        BY <4>2
      <4> QED
        BY <2>5, <4>1, <4>2, PublishMoves DEF ReadIndex, HaveIndex
    <3> QED
      BY <3>1, <3>2, <2>1 DEF Open
  <2>6. ASSUME NEW at \in Blobs, CheckBlob(p, at) \/ EmptyBlob(p, at) \/ FillBlob(p, at)
        PROVE  /\ dest'.index # "torn"
               /\ \A q \in Publisher : Open(q, "write index")' => Last(q)'
    <3>1. SameIndex /\ pc'[p] # "write index" /\ p \notin HaveIndex'
      BY <2>6, PublishMoves, PublishDest, Afters DEF Blobs, HaveIndex
    <3> QED
      BY <3>1, <2>1 DEF Open
  <2> QED
    BY <2>2, <2>3, <2>4, <2>5, <2>6 DEF Publish
<1>2. ASSUME killed' = {}, dest'.state = "used" PROVE AtWork'
  <2>1. CASE pc'[p] \notin {"start", "failed"}
    BY <2>1 DEF AtWork
  (* One that fails finds a file another one has open.                     *)
  <2>2. ASSUME NEW q \in Publisher, NEW at, Open(q, at), at \notin {"start", "failed"}, q # p
        PROVE  AtWork'
    BY <2>2, <1>s DEF AtWork, Open
  <2>3. ASSUME NEW at \in Blobs, CheckBlob(p, at), pc'[p] = "failed" PROVE AtWork'
    <3>1. Writes(p)[at] \in dest.torn /\ file[p] = "closed"
      BY <2>3, PublishFiles, PublishMoves
    <3>2. PICK q \in Publisher, on \in Blobs : Open(q, on)
      BY <3>1 DEF OpenInv
    <3>3. q # p /\ on \notin {"start", "failed"}
      BY <3>1, <3>2 DEF Open, Blobs
    <3> QED
      BY <3>2, <3>3, <2>2
  <2>4. CASE CheckLayout(p) /\ pc'[p] = "failed"
    <3>1. dest.layout \notin {"none", "ok"} /\ pc[p] = "layout"
      <4>1. pc'[p] = IF dest.layout \in {"none", "ok"} THEN "index" ELSE "failed"
        BY <2>4 DEF CheckLayout, Goes, TypeOK
      <4> QED
        BY <2>4, <4>1, PublishMoves
    <3>2. dest.layout = "empty"
      BY <3>1 DEF OpenInv, TypeOK, dest, Dir, Json
    <3>3. PICK q \in Publisher : Open(q, "write layout")
      BY <3>2 DEF OpenInv
    <3> QED
      BY <3>1, <3>3, <2>2 DEF Open
  <2>5. CASE ReadIndex(p) /\ pc'[p] = "failed"
    <3>1. dest.index \in {"empty", "torn"} /\ pc[p] = "index"
      BY <2>5, PublishMoves DEF ReadIndex, Goes, TypeOK
    <3>2. PICK q \in Publisher : Open(q, "write index")
      BY <3>1, <1>a DEF OpenInv
    <3> QED
      BY <3>1, <3>2, <2>2 DEF Open
  <2>6. CASE Validate(p) /\ pc'[p] = "failed"
    <3>1. dest' = dest /\ pc[p] = "start"
      BY <2>6, PublishMoves
    <3> QED
      BY <3>1, <1>2, <1>a, <1>s DEF AtWork
  <2>7. ASSUME NEW at \in Blobs, EmptyBlob(p, at) \/ FillBlob(p, at)
        PROVE  pc'[p] \notin {"start", "failed"}
    BY <2>7, PublishMoves, Afters DEF Blobs
  <2>8. CASE EmptyLayout(p) \/ FillLayout(p) \/ EmptyIndex(p) \/ FillIndex(p)
    BY <2>8, <2>1, PublishMoves
  <2>9. pc'[p] # "start"
    BY PublishMoves, Afters DEF Publish, Blobs
  <2> QED
    BY <2>1, <2>3, <2>4, <2>5, <2>6, <2>7, <2>8, <2>9 DEF Publish
<1> QED
  BY <1>1, <1>2

(* A step that leaves the destination and the publishers alone.            *)
LEMMA OrderStays ==
  ASSUME OrderInv, dest' = dest,
         \A p \in Publisher : pc'[p] = pc[p],
         \A a \in Acquirer : pc'[a] = "done" <=> pc[a] = "done",
         UNCHANGED <<given, file, index, met>>, killed \subseteq killed'
  PROVE  OrderInv'
<1>1. /\ Finished' = Finished /\ HaveIndex' = HaveIndex /\ AtWork' = AtWork
      /\ \A p \in Publisher : Mine(p)' = Mine(p) /\ Writes(p)' = Writes(p)
      /\ \A p \in Publisher : \A at : Open(p, at)' <=> Open(p, at)
  <2>1. \A p \in Publisher : Mine(p)' = Mine(p) /\ Writes(p)' = Writes(p)
    BY DEF Mine, Writes
  <2>2. Finished' = Finished
    BY <2>1 DEF Finished, Published, Acquired
  <2> QED
    BY <2>1, <2>2 DEF HaveIndex, AtWork, Open
<1>2. OpenInv'
  <2>1. ASSUME NEW b \in dest'.torn
        PROVE  \E q \in Publisher, at \in Blobs : Open(q, at)' /\ Writes(q)'[at] = b
    <3>1. PICK q \in Publisher, at \in Blobs : Open(q, at) /\ Writes(q)[at] = b
      BY DEF OrderInv, OpenInv
    <3> QED
      BY <3>1, <1>1
  <2>2. ASSUME NEW at, \E q \in Publisher : Open(q, at)
        PROVE  \E q \in Publisher : Open(q, at)'
    BY <2>2, <1>1
  <2>3. /\ dest'.layout # "torn"
        /\ dest'.layout = "empty" => \E q \in Publisher : Open(q, "write layout")'
        /\ dest'.index = "empty" => \E q \in Publisher : Open(q, "write index")'
    BY <2>2 DEF OrderInv, OpenInv
  <2> QED
    BY <2>1, <2>3 DEF OpenInv
<1>3. LayoutInv'
  BY DEF OrderInv, LayoutInv, Process
<1>4. ListInv'
  <2>1. NoRepeats(dest.names)' /\ Named(dest.names)' \subseteq Finished'
    BY <1>1 DEF OrderInv, ListInv, NoRepeats, Named
  <2>2. \A q \in Publisher : NoRepeats(index'[q])
    BY DEF OrderInv, ListInv
  <2>3. \A q \in HaveIndex' : Named(index'[q]) \subseteq Finished' \cup {Mine(q)'}
    BY <1>1 DEF OrderInv, ListInv, HaveIndex
  <2> QED
    BY <2>1, <2>2, <2>3 DEF ListInv, NoRepeats, Named
<1>5. AloneInv'
  BY <1>1 DEF OrderInv, AloneInv
<1> QED
  BY <1>2, <1>3, <1>4, <1>5 DEF OrderInv

(* A stage that is renamed is whole, and nobody has begun.                 *)
LEMMA RenameIsInOrder ==
  ASSUME IInv, OrderInv, NEW a \in Acquirer, Rename(a)
  PROVE  OrderInv'
<1> USE Apart
<1>s. AcquirerStays(a)
  BY AcquireSteps DEF Acquire, IInv
<1>1. /\ pc[a] = "rename" /\ pc'[a] = "done" /\ dest' = dir[a] /\ dest.state # "used"
  BY DEF Rename, Goes, IInv, TypeOK, dest
<1>2. /\ dir[a].torn = {} /\ dir[a].layout = "ok" /\ dir[a].index = "ok"
      /\ dir[a].names = <<ImageOf[a]>>
  BY <1>1 DEF IInv, AcquirerInv, IsAll
<1>3. ASSUME NEW p \in Publisher
      PROVE  /\ pc'[p] \in {"start", "failed", "payload"}
             /\ index'[p] = index[p]
  <2>1. PublisherInv(p) /\ pc[p] \in PublisherPcs
    BY DEF IInv, TypeOK, PublisherPcs
  <2> QED
    BY <1>1, <1>s, <2>1 DEF PublisherInv, PublisherPcs, Written, Blobs, AcquirerStays
<1>4. OpenInv'
  BY <1>1, <1>2 DEF OpenInv
<1>5. LayoutInv'
  BY <1>1, <1>2 DEF LayoutInv
<1>6. ListInv'
  <2>1. Named(<<ImageOf[a]>>) = {ImageOf[a]} /\ NoRepeats(<<ImageOf[a]>>)
    BY ShortNames DEF NoRepeats
  <2>2. ImageOf[a] \in Finished'
    BY <1>1 DEF Finished, Acquired
  <2>3. HaveIndex' = {}
    BY <1>3 DEF HaveIndex
  <2>4. NoRepeats(dest'.names) /\ Named(dest'.names) \subseteq Finished'
    BY <1>1, <1>2, <2>1, <2>2
  <2>5. \A p \in Publisher : NoRepeats(index'[p])
    BY <1>3 DEF OrderInv, ListInv
  <2> QED
    BY <2>3, <2>4, <2>5 DEF ListInv, NoRepeats, Named
<1>7. AloneInv'
  BY <1>1, <1>2, <1>3 DEF AloneInv, AtWork, Open
<1> QED
  BY <1>4, <1>5, <1>6, <1>7 DEF OrderInv

(* At the start nothing is there and nobody is at work.                    *)
LEMMA InitOrder == Init => OrderInv
<1> SUFFICES ASSUME Init PROVE OrderInv
  OBVIOUS
<1> USE Apart
<1>1. /\ dest = NoDir /\ dest.torn = {} /\ dest.layout = "none" /\ dest.index = "none"
      /\ dest.state = "absent" /\ dest.names = << >>
  BY DEF Init, dest, NoDir
<1>2. OpenInv /\ AloneInv
  BY <1>1 DEF Init, OpenInv, AloneInv, Open
<1>3. LayoutInv
  BY DEF Init, LayoutInv
<1>4. ListInv
  <2>1. NoRepeats(<< >>)
    BY DEF NoRepeats
  <2>2. HaveIndex = {}
    BY DEF Init, HaveIndex
  <2>3. \A p \in Publisher : index[p] = << >>
    BY DEF Init
  <2> QED
    BY <1>1, <2>1, <2>2, <2>3, ShortNames DEF ListInv
<1> QED
  BY <1>2, <1>3, <1>4 DEF OrderInv

(* The strengthened invariant holds.                                       *)
LEMMA InOrder == Spec => []OrderInv
<1>1. Init => OrderInv
  BY InitOrder
<1>2. IInv /\ OrderInv /\ [Next]_vars => OrderInv'
  <2> SUFFICES ASSUME IInv, OrderInv, [Next]_vars PROVE OrderInv'
    OBVIOUS
  <2>1. CASE UNCHANGED vars
    BY <2>1, OrderStays DEF vars, dest
  <2>2. ASSUME NEW x \in Process, Kill(x) PROVE OrderInv'
    BY <2>2, OrderStays DEF Kill, dest
  <2>3. ASSUME NEW p \in Publisher, Publish(p) PROVE OrderInv'
    BY <2>3, PublishKeepsOpen, PublishKeepsLayout, PublishKeepsList, PublishKeepsAlone
       DEF IInv, OrderInv
  <2>4. ASSUME NEW a \in Acquirer, Acquire(a) PROVE OrderInv'
    <3>1. CASE Rename(a)
      BY <3>1, RenameIsInOrder
    <3>2. CASE ~Rename(a)
      <4>1. AcquirerStays(a) /\ dest' = dest
        BY <2>4, <3>2, AcquireSteps DEF IInv
      <4>2. pc[a] # "done" /\ pc'[a] # "done"
        BY <2>4, <3>2, Apart
           DEF IInv, TypeOK, Acquire, AskManifest, FetchManifest, FetchBlob, MakeStage,
               StageBlob, StageIndex, StageFails, Recheck, RecheckFails, Fails, Goes
      <4> QED
        BY <4>1, <4>2, Apart, OrderStays DEF AcquirerStays
    <3> QED
      BY <3>1, <3>2
  <2> QED
    BY <2>1, <2>2, <2>3, <2>4 DEF Next
<1> QED
  BY <1>1, <1>2, Inductive, PTL DEF Spec

(* The positions of a list that name one of these, and what they name, are *)
(* one if the other is, when nothing is named twice.                       *)
LEMMA OneInList ==
  ASSUME NEW S, NEW list \in Seq(S), NoRepeats(list), NEW H
  PROVE  Cardinality({i \in DOMAIN list : list[i] \in H}) = 1
           <=> Cardinality(Named(list) \cap H) = 1
<1> DEFINE I == {i \in DOMAIN list : list[i] \in H}
           N == Named(list) \cap H
<1>1. IsFiniteSet(I) /\ IsFiniteSet(N)
  <2>1. IsFiniteSet(DOMAIN list)
    <3>1. DOMAIN list = 1..Len(list) /\ Len(list) \in Int /\ 1 \in Int
      OBVIOUS
    <3> QED
      BY <3>1, FS_Interval
  <2>2. I \in SUBSET DOMAIN list
    OBVIOUS
  <2>3. IsFiniteSet(I)
    BY <2>1, <2>2, FS_Subset
  <2>4. [i \in I |-> list[i]] \in Surjection(I, N)
    <3> DEFINE f == [i \in I |-> list[i]]
    <3>1. \A i \in I : list[i] \in N
      BY DEF Named
    <3>2. f \in [I -> N]
      BY <3>1
    <3>3. ASSUME NEW m \in N PROVE \E i \in I : f[i] = m
      <4>1. PICK i \in DOMAIN list : list[i] = m
        BY DEF Named
      <4>2. i \in I
        BY <4>1
      <4> QED
        BY <4>1, <4>2
    <3> QED
      BY <3>2, <3>3 DEF Surjection
  <2> QED
    BY <2>3, <2>4, FS_Surjection
<1>2. ASSUME NEW i, I = {i} PROVE N = {list[i]}
  <2>1. i \in I
    BY <1>2
  <2>2. \A m \in N : m = list[i]
    BY <1>2 DEF Named
  <2>3. list[i] \in N
    BY <2>1 DEF Named
  <2> QED
    BY <2>2, <2>3
<1>3. ASSUME NEW m, N = {m} PROVE \E i : I = {i}
  <2>1. PICK i \in DOMAIN list : list[i] = m
    BY <1>3 DEF Named
  <2>2. i \in I
    BY <1>3, <2>1
  <2>3. ASSUME NEW j \in I PROVE j = i
    <3>1. list[j] \in N
      BY DEF Named
    <3> QED
      BY <3>1, <1>3, <2>1 DEF NoRepeats
  <2> QED
    BY <2>2, <2>3
<1> HIDE DEF I, N
<1>4. (\E i : I = {i}) <=> (\E m : N = {m})
  BY <1>2, <1>3
<1>5. Cardinality(I) = 1 <=> Cardinality(N) = 1
  BY <1>1, <1>4, FS_Singleton
<1> QED
  BY <1>5 DEF I, N

(* When nobody is writing, each blob the index leads to is whole, the      *)
(* index is there and lists what was finished.                             *)
LEMMA AtRest ==
  ASSUME IInv, OrderInv, met = {}, killed = {}, dest.state = "used",
         \A p \in Publisher : pc[p] \in {"start", "done", "failed"}
  PROVE  /\ dest.layout = "ok" /\ dest.index = "ok"
         /\ \A m \in Named(dest.names) : Readable(dest, m)
         /\ NoRepeats(dest.names) /\ Named(dest.names) = Finished
<1>t. /\ dest.layout \in Json /\ dest.index \in Json
      /\ given \in [Publisher -> Record]
  BY DEF IInv, TypeOK, dest, Dir
<1>o. \A p \in Publisher : /\ ~Open(p, "write layout") /\ ~Open(p, "write index")
                          /\ \A at \in Blobs : ~Open(p, at)
  BY DEF Open, Blobs
<1>1. \E x \in Process : pc[x] = "done"
  BY Apart DEF OrderInv, AloneInv, AtWork
<1>2. dest.layout = "ok"
  <2>1. dest.layout # "none"
    BY <1>1 DEF OrderInv, LayoutInv, Process
  <2>2. dest.layout # "empty"
    BY <1>o DEF OrderInv, OpenInv
  <2> QED
    BY <2>1, <2>2, <1>t DEF OrderInv, OpenInv, Json
<1>3. dest.index = "ok"
  <2>1. dest.index # "none"
    BY <1>1 DEF OrderInv, LayoutInv
  <2>2. dest.index # "empty"
    BY <1>o DEF OrderInv, OpenInv
  <2> QED
    BY <2>1, <2>2, <1>t DEF OrderInv, AloneInv, Json
<1>4. \A m \in Named(dest.names) : Readable(dest, m)
  <2>1. \A b : Backed(b) => b \in dest.whole
    BY <1>o DEF Backed
  <2> QED
    BY <2>1 DEF IInv, AllBacked, Readable
<1>5. Named(dest.names) = Finished
  <2>1. Finished \subseteq Named(dest.names)
    BY <1>3 DEF IInv, StaysInv, Complete, Finished, Published, Acquired
  <2> QED
    BY <2>1 DEF OrderInv, ListInv
<1> QED
  BY <1>2, <1>3, <1>4, <1>5 DEF OrderInv, ListInv

(* A list that names nothing twice is as long as what it names is large.   *)
LEMMA LengthOfList ==
  ASSUME NEW S, NEW list \in Seq(S), NoRepeats(list)
  PROVE  Cardinality(Named(list)) = Len(list)
<1> DEFINE f == [i \in 1..Len(list) |-> list[i]]
<1>1. DOMAIN list = 1..Len(list) /\ Len(list) \in Nat
  OBVIOUS
<1>2. \A i \in 1..Len(list) : list[i] \in Named(list)
  BY <1>1 DEF Named
<1>3. f \in [1..Len(list) -> Named(list)]
  BY <1>2
<1>4. \A i, j \in 1..Len(list) : f[i] = f[j] => i = j
  BY <1>1 DEF NoRepeats
<1>5. \A m \in Named(list) : \E i \in 1..Len(list) : f[i] = m
  BY <1>1 DEF Named
<1> HIDE DEF f
<1>6. f \in Bijection(1..Len(list), Named(list))
  BY <1>3, <1>4, <1>5 DEF Bijection, Injection, IsInjective, Surjection
<1>7. ExistsBijection(1..Len(list), Named(list))
  BY <1>6 DEF ExistsBijection
<1> QED
  BY <1>1, <1>7, FS_CountingElements

(* Publishers that did not have the index at the same time, none of them   *)
(* killed, leave a layout that verify accepts if and only if exactly one   *)
(* handoff is in it, and inspect if and only if it has no more manifests   *)
(* than inspect allows and the subject of the acquired one fits.           *)
THEOREM LeftOrderly == Spec => []LeftInOrder
<1>1. IInv /\ OrderInv => LeftInOrder
  <2> SUFFICES ASSUME IInv, OrderInv, met = {}, killed = {}, dest.state = "used",
                      \A p \in Publisher : pc[p] \in {"start", "done", "failed"}
               PROVE  /\ Verifies(dest) <=> Cardinality(Published) = 1
                      /\ Inspects(dest) <=>
                           /\ Cardinality(Finished) <= MaxDescriptors
                           /\ \A i \in Acquired :
                                /\ i \notin Malformed
                                /\ SubjectOf[i] \in Published => i \notin Misdescribed
    BY DEF LeftInOrder, Finished
  <2>1. /\ dest.layout = "ok" /\ dest.index = "ok"
        /\ \A m \in Named(dest.names) : Readable(dest, m)
        /\ NoRepeats(dest.names) /\ Named(dest.names) = Finished
    BY AtRest
  <2>2. Published \subseteq Handoff /\ Acquired \subseteq Image
    <3>1. \A p \in Publisher : Mine(p) \in Handoff
      BY DEF IInv, TypeOK, Mine, Handoff
    <3>2. \A a \in Acquirer : ImageOf[a] \in Image
      BY OciLayoutAssumption
    <3> QED
      BY <3>1, <3>2 DEF Published, Acquired
  <2>3. dest.names \in Seq(Manifest)
    BY DEF IInv, TypeOK, dest, Dir
  <2>4. Verifies(dest) <=> Cardinality(Published) = 1
    <3>1. Named(dest.names) \cap Handoff = Published
      BY <2>1, <2>2, OciLayoutAssumption DEF Finished
    <3>2. Cardinality({i \in DOMAIN dest.names : dest.names[i] \in Handoff}) = 1
            <=> Cardinality(Published) = 1
      BY <2>1, <2>3, <3>1, OneInList
    <3>3. \A m \in Published : \E r \in Valid : ManifestOf[r] = m
      BY DEF Published, Mine, IInv, PublisherInv
    <3> QED
      BY <2>1, <3>1, <3>2, <3>3 DEF Verifies
  <2>5. Len(dest.names) = Cardinality(Finished)
    BY <2>1, <2>3, LengthOfList
  <2>6. ASSUME NEW i \in Acquired
        PROVE  SubjectFits(dest, i) <=>
                 /\ i \notin Malformed
                 /\ SubjectOf[i] \in Published => i \notin Misdescribed
    (* There is one acquired image, and it is not its own subject.         *)
    <3>1. \A j \in Acquired : j = i
      BY DEF IInv, StaysInv, Acquired
    <3>2. SubjectOf[i] \notin Acquired /\ i \in Image
      BY <2>2, <3>1, OciLayoutAssumption
    <3> QED
      BY <2>1, <3>2 DEF SubjectFits, Finished
  <2>7. \A m \in Published : SubjectFits(dest, m)
    BY <2>2, OciLayoutAssumption DEF SubjectFits
  <2>8. Inspects(dest) <=>
          /\ Cardinality(Finished) <= MaxDescriptors
          /\ \A i \in Acquired : SubjectFits(dest, i)
    BY <2>1, <2>5, <2>7 DEF Inspects, NoRepeats, Finished
  <2> QED
    BY <2>4, <2>6, <2>8
<1> QED
  BY <1>1, Inductive, InOrder, PTL

(* What was put into the layout is in every index that can be read, unless *)
(* its writers met; the index cannot be read only while one writes it, for *)
(* ever if that one was killed or not alone.                               *)
THEOREM NothingIsLost == Spec => []HandoffStays
<1>1. IInv /\ OrderInv => HandoffStays
  <2> SUFFICES ASSUME IInv, OrderInv PROVE HandoffStays
    OBVIOUS
  <2>1. dest.index = "ok" => Complete(Named(dest.names))
    BY DEF IInv, StaysInv
  <2>2. ASSUME \E x \in Process : pc[x] = "done", dest.index # "ok"
        PROVE  \/ dest.index = "empty" /\ \E q \in Publisher : Open(q, "write index")
               \/ dest.index = "torn" /\ met # {}
    <3>1. dest.index \in Json /\ dest.index # "none"
      BY <2>2 DEF IInv, TypeOK, dest, Dir, OrderInv, LayoutInv
    <3>2. CASE dest.index = "empty"
      BY <3>2 DEF OrderInv, OpenInv
    <3>3. CASE dest.index = "torn"
      BY <3>3 DEF OrderInv, AloneInv
    <3> QED
      BY <2>2, <3>1, <3>2, <3>3 DEF Json
  <2> QED
    BY <2>1, <2>2 DEF HandoffStays, Complete
<1> QED
  BY <1>1, Inductive, InOrder, PTL

=============================================================================
