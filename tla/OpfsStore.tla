------------------------------ MODULE OpfsStore -----------------------------
(* The blob store of a browser node (lib/midden/src/opfs_store): one actor  *)
(* over a flat directory of files.  A blob h has the files                  *)
(*   <<"data", h>>  its bytes, here the set of its chunks that are written, *)
(*   <<"obao", h>>  its outboard, here the chunks whose parents are written,*)
(*   <<"meta", h>>  while it is partial: the chunks its bitfield records.   *)
(* Nothing else says that a blob is complete: no meta file means complete.  *)
(*                                                                          *)
(* The actor handles one command at a time and yields at every await, where *)
(* its import tasks and the calls of midden/src/lib.rs go on; between two   *)
(* awaits only the death of the worker can cut it.  A download call holds   *)
(* its hash in protected_hashes, a finished import in active_tags, and the  *)
(* collector, which runs in the actor, reads both.                          *)
EXTENDS Naturals, FiniteSets

CONSTANTS
  Hashes,      \* the blobs
  Content,     \* the chunks of each
  Single,      \* the blobs of one chunk group, whose outboard is empty
  Children,    \* the blobs a tagged collection lists
  Downloads, DownloadOf,   \* download calls and what each one downloads
  Imports, ImportOf,       \* callers of import_blob and what each imports
  Tagged,      \* the blobs a client may tag
  Collects,    \* the store was given GcOptions
  MaxFaults,   \* bound: deaths of the worker and full disks a copy meets
  None

ASSUME BlobsAssumption ==
  /\ Content \in [Hashes -> SUBSET Nat]
  /\ \A h \in Hashes : Content[h] # {}
  /\ Single \subseteq Hashes
  /\ \A h \in Single : Cardinality(Content[h]) = 1
  /\ Children \in [Hashes -> SUBSET Hashes]
  /\ \A h \in Hashes : \A c \in Children[h] : Children[c] = {}
ASSUME CallsAssumption ==
  /\ DownloadOf \in [Downloads -> Hashes]
  /\ ImportOf \in [Imports -> Hashes]
  /\ Tagged \subseteq Hashes
  /\ Collects \in BOOLEAN
  /\ MaxFaults \in Nat
  /\ None \notin Hashes \cup Downloads \cup Imports

Kinds == {"data", "obao", "meta"}
Chunks == UNION {Content[h] : h \in Hashes}

VARIABLES
  files,      \* the files there are
  bytes,      \* what is in each, {} when it is not there or empty
  entry,      \* the actor's table: state and bitfield of each blob
  actor,      \* the command at hand and how far it is
  dl, want,   \* the download calls, and the chunks each has yet to receive
  imp,        \* the import calls
  protected, active,        \* protected_hashes and active_tags of the node
  tags, tagFile, acked,     \* tags in memory, in tags.json, and answered
  up, crashes, fulls        \* whether the worker runs; the bounds
vars == <<files, bytes, entry, actor, dl, want, imp, protected, active, tags,
          tagFile, acked, up, crashes, fulls>>
disk == <<files, bytes>>
calls == <<dl, want, imp, protected, active>>
manifest == <<tags, tagFile, acked>>
bounds == <<up, crashes, fulls>>

Idle == [at |-> "idle", on |-> None, for |-> None, live |-> {}]
NoEntry == [state |-> "none", field |-> {}]
Partial(field) == [state |-> "partial", field |-> field]
Complete(h) == [state |-> "complete", field |-> Content[h]]

Init ==
  /\ files = {} /\ bytes = [f \in Kinds \X Hashes |-> {}]
  /\ entry = [h \in Hashes |-> NoEntry]
  /\ actor = Idle
  /\ dl = [d \in Downloads |-> "idle"] /\ want = [d \in Downloads |-> {}]
  /\ imp = [i \in Imports |-> "idle"]
  /\ protected = {} /\ active = {}
  /\ tags = {} /\ tagFile = {} /\ acked = {}
  /\ up = TRUE /\ crashes = 0 /\ fulls = 0

IsAt(step) == up /\ actor.at = step
(* The stretches of an import without an await.                             *)
Unbroken == actor.at \in {"copying", "outboard"}
Running == up /\ ~Unbroken
Present(h) == entry[h].state # "none"
Filled(h) == entry[h].field = Content[h]

-----------------------------------------------------------------------------
(* Looking an entry up, or opening its files and making it.                 *)

Asking == {"local", "ask", "check"}

(* What a download call does with the bitfield it asked for: it looks what  *)
(* is missing, sends the missing ranges to be imported, and looks again     *)
(* before it reads.                                                         *)
Answer(d, field) ==
  LET missing == Content[DownloadOf[d]] \ field
      Turn(step) == dl' = [dl EXCEPT ![d] = step]
  IN \/ /\ dl[d] = "local"
        /\ want' = [want EXCEPT ![d] = missing]
        /\ Turn(IF missing = {} THEN "check" ELSE "ask")
     \/ /\ dl[d] = "ask"
        /\ Turn("recv") /\ UNCHANGED want
     \/ /\ dl[d] = "check"
        /\ Turn(IF missing = {} THEN "read" ELSE "await") /\ UNCHANGED want
     \/ /\ dl[d] \notin Asking
        /\ UNCHANGED <<dl, want>>

FindEntry(d) ==
  LET h == DownloadOf[d]
  IN /\ IsAt("idle") /\ dl[d] \in Asking
     /\ Present(h)
     /\ Answer(d, entry[h].field)
     /\ UNCHANGED <<disk, entry, actor, imp, protected, active, manifest, bounds>>

(* Mutant: the files are opened whether or not the table has the blob.      *)
OpenAnyData(d) ==
  LET h == DownloadOf[d]
  IN /\ IsAt("idle") /\ dl[d] \in Asking
     /\ files' = files \cup {<<"data", h>>}
     /\ actor' = [Idle EXCEPT !.at = "open obao", !.on = h, !.for = d]
     /\ UNCHANGED <<bytes, entry, calls, manifest, bounds>>

OpenData(d) ==
  LET h == DownloadOf[d]
  IN /\ IsAt("idle") /\ dl[d] \in Asking
     /\ ~Present(h)
     /\ files' = files \cup {<<"data", h>>}
     /\ actor' = [Idle EXCEPT !.at = "open obao", !.on = h, !.for = d]
     /\ UNCHANGED <<bytes, entry, calls, manifest, bounds>>

OpenObao ==
  /\ IsAt("open obao")
  /\ files' = files \cup {<<"obao", actor.on>>}
  /\ actor' = [actor EXCEPT !.at = "open meta"]
  /\ UNCHANGED <<bytes, entry, calls, manifest, bounds>>

(* A meta file that was there is resumed from, whatever else is there.      *)
OpenMeta ==
  LET h == actor.on
      d == actor.for
      field == bytes[<<"meta", h>>]
  IN /\ IsAt("open meta")
     /\ files' = files \cup {<<"meta", h>>}
     /\ entry' = [entry EXCEPT ![h] = Partial(field)]
     /\ Answer(d, field)
     /\ actor' = Idle
     /\ UNCHANGED <<bytes, imp, protected, active, manifest, bounds>>

-----------------------------------------------------------------------------
(* A download call of the node, and the task that imports its stream.       *)

Begin(d) ==
  /\ Running /\ dl[d] \in {"idle", "paused"}
  /\ protected' = protected \cup {DownloadOf[d]}
  /\ dl' = [dl EXCEPT ![d] = "local"]
  /\ UNCHANGED <<disk, entry, actor, want, imp, active, manifest, bounds>>

(* ProtectGuard::drop: the set does not count who holds a hash.             *)
Leave(d, as, held) ==
  /\ dl' = [dl EXCEPT ![d] = as]
  /\ want' = [want EXCEPT ![d] = {}]
  /\ protected' = held \ {DownloadOf[d]}
  /\ UNCHANGED <<imp, active>>

Receives(d) == Running /\ dl[d] = "recv"
MetaIsOpen(h) == <<"meta", h>> \in files

(* The parents of a leaf come before it.                                    *)
Parents(d, c) ==
  LET h == DownloadOf[d]
  IN /\ Receives(d) /\ c \in want[d]
     /\ entry[h].state = "partial" /\ h \notin Single
     /\ c \notin bytes[<<"obao", h>>]
     /\ bytes' = [bytes EXCEPT ![<<"obao", h>>] = @ \cup {c}]
     /\ UNCHANGED <<files, entry, actor, calls, manifest, bounds>>

WriteLeaf(h, c, recorded) ==
  /\ bytes' = [bytes EXCEPT ![<<"data", h>>] = @ \cup {c},
                            ![<<"meta", h>>] = recorded]
  /\ entry' = [entry EXCEPT ![h].field = @ \cup {c}]

(* Mutant: the first leaf finishes the blob.                                *)
LeafFinishes(d, c) ==
  LET h == DownloadOf[d]
  IN /\ Receives(d) /\ c \in want[d]
     /\ entry[h].state = "partial"
     /\ h \in Single \/ c \in bytes[<<"obao", h>>]
     /\ MetaIsOpen(h)
     /\ WriteLeaf(h, c, entry[h].field \cup {c})
     /\ want' = [want EXCEPT ![d] = @ \ {c}]
     /\ dl' = [dl EXCEPT ![d] = "finish"]
     /\ UNCHANGED <<files, actor, imp, protected, active, manifest, bounds>>

Leaf(d, c) ==
  LET h == DownloadOf[d]
  IN /\ Receives(d) /\ c \in want[d]
     /\ entry[h].state = "partial"
     /\ h \in Single \/ c \in bytes[<<"obao", h>>]
     /\ MetaIsOpen(h)
     /\ WriteLeaf(h, c, entry[h].field \cup {c})
     /\ want' = [want EXCEPT ![d] = @ \ {c}]
     /\ dl' = [dl EXCEPT ![d] = IF Filled(h)' THEN "finish" ELSE "recv"]
     /\ UNCHANGED <<files, actor, imp, protected, active, manifest, bounds>>

(* Mutant: the task writes to a meta file that was deleted.                 *)
LeafRecords(d, c) ==
  LET h == DownloadOf[d]
  IN /\ Receives(d) /\ c \in want[d]
     /\ entry[h].state = "partial"
     /\ h \in Single \/ c \in bytes[<<"obao", h>>]
     /\ ~MetaIsOpen(h)
     /\ WriteLeaf(h, c, entry[h].field \cup {c})
     /\ Leave(d, "idle", protected)
     /\ UNCHANGED <<files, actor, manifest, bounds>>

(* The handle of the meta file is closed once somebody deletes it: the leaf *)
(* is written and in the bitfield, the task ends with the error.            *)
LeafFails(d, c) ==
  LET h == DownloadOf[d]
  IN /\ Receives(d) /\ c \in want[d]
     /\ entry[h].state = "partial"
     /\ h \in Single \/ c \in bytes[<<"obao", h>>]
     /\ ~MetaIsOpen(h)
     /\ WriteLeaf(h, c, {})
     /\ Leave(d, "idle", protected)
     /\ UNCHANGED <<files, actor, manifest, bounds>>

SkipLeaf(d, c) ==
  /\ Receives(d) /\ c \in want[d]
  /\ entry[DownloadOf[d]].state = "complete"
  /\ want' = [want EXCEPT ![d] = @ \ {c}]
  /\ UNCHANGED <<disk, entry, actor, dl, imp, protected, active, manifest, bounds>>

(* finish_entry: the meta file goes, then an empty outboard, then the entry *)
(* turns complete.                                                          *)
DropMeta(d) ==
  LET f == <<"meta", DownloadOf[d]>>
  IN /\ Running /\ dl[d] = "finish"
     /\ files' = files \ {f} /\ bytes' = [bytes EXCEPT ![f] = {}]
     /\ dl' = [dl EXCEPT ![d] = "flip"]
     /\ UNCHANGED <<entry, actor, want, imp, protected, active, manifest, bounds>>

Flip(d) ==
  LET h == DownloadOf[d]
  IN /\ Running /\ dl[d] = "flip"
     /\ files' = IF bytes[<<"obao", h>>] = {} THEN files \ {<<"obao", h>>}
                                              ELSE files
     /\ entry' = [entry EXCEPT ![h] = Complete(h)]
     /\ dl' = [dl EXCEPT ![d] = "recv"]
     /\ UNCHANGED <<bytes, actor, want, imp, protected, active, manifest, bounds>>

StreamEnds(d) ==
  /\ Receives(d) /\ want[d] = {}
  /\ dl' = [dl EXCEPT ![d] = "check"]
  /\ UNCHANGED <<disk, entry, actor, want, imp, protected, active, manifest, bounds>>

(* await_completion watches the entry it was given.                         *)
Awaited(d) ==
  /\ Running /\ dl[d] = "await"
  /\ Filled(DownloadOf[d])
  /\ dl' = [dl EXCEPT ![d] = "read"]
  /\ UNCHANGED <<disk, entry, actor, want, imp, protected, active, manifest, bounds>>

ReadEnds(d) ==
  /\ Running /\ dl[d] = "read"
  /\ Leave(d, "idle", protected)
  /\ UNCHANGED <<disk, entry, actor, manifest, bounds>>

Fails(d) ==
  /\ Running /\ dl[d] \in {"local", "ask", "recv"}
  /\ Leave(d, "idle", protected)
  /\ UNCHANGED <<disk, entry, actor, manifest, bounds>>

(* Cancelling keeps the hash in protected_hashes, and then the guard of the *)
(* same call goes out of scope.                                             *)
Cancel(d) ==
  /\ Running /\ dl[d] \in {"local", "ask", "recv", "read"}
  /\ Leave(d, "paused", protected \cup {DownloadOf[d]})
  /\ UNCHANGED <<disk, entry, actor, manifest, bounds>>

(* Discarding a paused download takes its pin away.                         *)
Discard(d) ==
  /\ Running /\ dl[d] = "paused"
  /\ Leave(d, "idle", protected)
  /\ UNCHANGED <<disk, entry, actor, manifest, bounds>>

-----------------------------------------------------------------------------
(* Importing bytes: they are hashed from a temporary file and copied.       *)

StartImport(i) ==
  /\ Running /\ imp[i] = "idle"
  /\ imp' = [imp EXCEPT ![i] = IF ImportOf[i] \in active THEN "pinned" ELSE "asked"]
  /\ UNCHANGED <<disk, entry, actor, dl, want, protected, active, manifest, bounds>>

Imported(i) == imp' = [imp EXCEPT ![i] = "imported"]

Dedup(i) ==
  /\ IsAt("idle") /\ imp[i] = "asked"
  /\ entry[ImportOf[i]].state = "complete"
  /\ Imported(i)
  /\ UNCHANGED <<disk, entry, actor, dl, want, protected, active, manifest, bounds>>

OpenForCopy(i) ==
  LET h == ImportOf[i]
  IN /\ IsAt("idle") /\ imp[i] = "asked"
     /\ entry[h].state # "complete"
     /\ files' = files \cup {<<"data", h>>}
     /\ actor' = [Idle EXCEPT !.at = "opened", !.on = h, !.for = i]
     /\ UNCHANGED <<bytes, entry, calls, manifest, bounds>>

Truncate ==
  /\ IsAt("opened")
  /\ bytes' = [bytes EXCEPT ![<<"data", actor.on>>] = {}]
  /\ actor' = [actor EXCEPT !.at = "copying"]
  /\ UNCHANGED <<files, entry, calls, manifest, bounds>>

Copy ==
  LET h == actor.on
  IN /\ IsAt("copying")
     /\ bytes' = [bytes EXCEPT ![<<"data", h>>] = Content[h]]
     /\ actor' = [actor EXCEPT !.at = IF h \in Single THEN "written" ELSE "copied"]
     /\ UNCHANGED <<files, entry, calls, manifest, bounds>>

OpenOutboard ==
  LET f == <<"obao", actor.on>>
  IN /\ IsAt("copied")
     /\ files' = files \cup {f} /\ bytes' = [bytes EXCEPT ![f] = {}]
     /\ actor' = [actor EXCEPT !.at = "outboard"]
     /\ UNCHANGED <<entry, calls, manifest, bounds>>

CopyOutboard ==
  LET h == actor.on
  IN /\ IsAt("outboard")
     /\ bytes' = [bytes EXCEPT ![<<"obao", h>>] = Content[h]]
     /\ actor' = [actor EXCEPT !.at = "written"]
     /\ UNCHANGED <<files, entry, calls, manifest, bounds>>

DropStaleMeta ==
  LET f == <<"meta", actor.on>>
  IN /\ IsAt("written")
     /\ files' = files \ {f} /\ bytes' = [bytes EXCEPT ![f] = {}]
     /\ actor' = [actor EXCEPT !.at = "register"]
     /\ UNCHANGED <<entry, calls, manifest, bounds>>

Register ==
  /\ IsAt("register")
  /\ entry' = [entry EXCEPT ![actor.on] = Complete(actor.on)]
  /\ Imported(actor.for)
  /\ actor' = Idle
  /\ UNCHANGED <<disk, dl, want, protected, active, manifest, bounds>>

(* A write that fails, on a full disk, ends the import where it is.         *)
CopyFails ==
  /\ Unbroken /\ up /\ crashes + fulls < MaxFaults
  /\ imp' = [imp EXCEPT ![actor.for] = "idle"]
  /\ actor' = Idle
  /\ fulls' = fulls + 1
  /\ UNCHANGED <<disk, entry, dl, want, protected, active, manifest, up, crashes>>

(* The caller pins the blob when it gets the answer.                        *)
Pin(i) ==
  /\ Running /\ imp[i] = "imported"
  /\ active' = active \cup {ImportOf[i]}
  /\ imp' = [imp EXCEPT ![i] = "pinned"]
  /\ UNCHANGED <<disk, entry, actor, dl, want, protected, manifest, bounds>>

Release(i) ==
  /\ Running /\ imp[i] = "pinned"
  /\ active' = active \ {ImportOf[i]}
  /\ imp' = [imp EXCEPT ![i] = "idle"]
  /\ UNCHANGED <<disk, entry, actor, dl, want, protected, manifest, bounds>>

-----------------------------------------------------------------------------
(* Tags, and the collector.                                                 *)

SetTag(h) ==
  /\ IsAt("idle") /\ h \in Tagged \ tags
  /\ tags' = tags \cup {h}
  /\ actor' = [Idle EXCEPT !.at = "persist"]
  /\ UNCHANGED <<disk, entry, calls, tagFile, acked, bounds>>

DeleteTag(h) ==
  /\ IsAt("idle") /\ h \in tags
  /\ tags' = tags \ {h} /\ acked' = acked \ {h}
  /\ actor' = [Idle EXCEPT !.at = "persist"]
  /\ UNCHANGED <<disk, entry, calls, tagFile, bounds>>

EmptyManifest ==
  /\ IsAt("persist")
  /\ tagFile' = {}
  /\ actor' = [Idle EXCEPT !.at = "manifest"]
  /\ UNCHANGED <<disk, entry, calls, tags, acked, bounds>>

WriteManifest ==
  /\ IsAt("manifest")
  /\ tagFile' = tags /\ acked' = tags
  /\ actor' = Idle
  /\ UNCHANGED <<disk, entry, calls, tags, bounds>>

TaskIsActive == \E d \in Downloads : dl[d] \in {"recv", "finish", "flip"}

(* A tagged collection keeps its children, if its own bytes are complete,   *)
(* and unless the protect callback has named it already.                    *)
Named == protected \cup active
Expanded == {g \in tags \ Named : entry[g].state = "complete"}
Marked == tags \cup UNION {Children[g] : g \in Expanded}

(* Mutants: protected_hashes, or the tags, are left out.                    *)
MarkUnprotected ==
  /\ IsAt("idle") /\ Collects
  /\ ~TaskIsActive
  /\ actor' = [Idle EXCEPT !.at = "sweep", !.live = active \cup Marked]
  /\ UNCHANGED <<disk, entry, calls, manifest, bounds>>
MarkNamed ==
  /\ IsAt("idle") /\ Collects
  /\ ~TaskIsActive
  /\ actor' = [Idle EXCEPT !.at = "sweep", !.live = Named]
  /\ UNCHANGED <<disk, entry, calls, manifest, bounds>>

Mark ==
  /\ IsAt("idle") /\ Collects
  /\ ~TaskIsActive
  /\ actor' = [Idle EXCEPT !.at = "sweep", !.live = Named \cup Marked]
  /\ UNCHANGED <<disk, entry, calls, manifest, bounds>>

(* A call that watches the entry keeps watching the one that was removed.   *)
Sweep(h) ==
  LET f == <<"data", h>>
  IN /\ IsAt("sweep")
     /\ Present(h) /\ h \notin actor.live
     /\ entry' = [entry EXCEPT ![h] = NoEntry]
     /\ files' = files \ {f} /\ bytes' = [bytes EXCEPT ![f] = {}]
     /\ dl' = [d \in Downloads |->
                 IF dl[d] = "await" /\ DownloadOf[d] = h THEN "hung" ELSE dl[d]]
     /\ actor' = [actor EXCEPT !.at = "sweep obao", !.on = h]
     /\ UNCHANGED <<want, imp, protected, active, manifest, bounds>>

SweepObao ==
  LET f == <<"obao", actor.on>>
  IN /\ IsAt("sweep obao")
     /\ files' = files \ {f} /\ bytes' = [bytes EXCEPT ![f] = {}]
     /\ actor' = [actor EXCEPT !.at = "sweep meta"]
     /\ UNCHANGED <<entry, calls, manifest, bounds>>

(* Mutant: the meta file stays behind.                                      *)
SweepKeepsMeta ==
  /\ IsAt("sweep meta")
  /\ actor' = [actor EXCEPT !.at = "sweep", !.on = None]
  /\ UNCHANGED <<disk, entry, calls, manifest, bounds>>

SweepMeta ==
  LET f == <<"meta", actor.on>>
  IN /\ IsAt("sweep meta")
     /\ files' = files \ {f} /\ bytes' = [bytes EXCEPT ![f] = {}]
     /\ actor' = [actor EXCEPT !.at = "sweep", !.on = None]
     /\ UNCHANGED <<entry, calls, manifest, bounds>>

Swept ==
  /\ IsAt("sweep")
  /\ \A h \in Hashes : Present(h) => h \in actor.live
  /\ actor' = Idle
  /\ UNCHANGED <<disk, entry, calls, manifest, bounds>>

-----------------------------------------------------------------------------
(* The worker dies, wherever it is, with all it holds in memory.  A leaf    *)
(* that was being recorded may leave its meta file empty.                   *)
Crash ==
  /\ up /\ crashes + fulls < MaxFaults
  /\ up' = FALSE /\ crashes' = crashes + 1
  /\ \E torn \in SUBSET {DownloadOf[d] : d \in {e \in Downloads : dl[e] = "recv"}} :
       bytes' = [f \in DOMAIN bytes |->
                   IF f[1] = "meta" /\ f[2] \in torn THEN {} ELSE bytes[f]]
  /\ entry' = [h \in Hashes |-> NoEntry]
  /\ actor' = Idle
  /\ dl' = [d \in Downloads |-> "idle"] /\ want' = [d \in Downloads |-> {}]
  /\ imp' = [i \in Imports |-> "idle"]
  /\ protected' = {} /\ active' = {}
  /\ tags' = {}
  /\ UNCHANGED <<files, tagFile, acked, fulls>>

(* The scan: data with a meta file is partial, data without is complete.    *)
Scanned(h) ==
  IF <<"data", h>> \notin files THEN NoEntry
  ELSE IF <<"meta", h>> \in files THEN Partial(bytes[<<"meta", h>>])
  ELSE Complete(h)

Boot ==
  /\ ~up /\ up' = TRUE
  /\ entry' = [h \in Hashes |-> Scanned(h)]
  /\ files' = files \cup {<<"obao", h>> : h \in {g \in Hashes : Scanned(g).state = "partial"}}
  /\ tags' = tagFile
  /\ UNCHANGED <<bytes, actor, calls, tagFile, acked, crashes, fulls>>

-----------------------------------------------------------------------------
Handle(d) == FindEntry(d) \/ OpenData(d)
HandleImport(i) == Dedup(i) \/ OpenForCopy(i)
Work ==
  \/ OpenObao \/ OpenMeta \/ Truncate \/ Copy \/ OpenOutboard \/ CopyOutboard
  \/ DropStaleMeta \/ Register \/ EmptyManifest \/ WriteManifest
  \/ \E h \in Hashes : Sweep(h)
  \/ SweepObao \/ SweepMeta \/ Swept
Stream(d) ==
  \/ \E c \in Chunks : Parents(d, c) \/ Leaf(d, c) \/ LeafFails(d, c) \/ SkipLeaf(d, c)
  \/ DropMeta(d) \/ Flip(d) \/ StreamEnds(d)
Goes(d) == Handle(d) \/ Stream(d) \/ Awaited(d) \/ ReadEnds(d)
Client ==
  \/ \E d \in Downloads : Begin(d) \/ Fails(d) \/ Cancel(d) \/ Discard(d)
  \/ \E i \in Imports : StartImport(i) \/ Pin(i) \/ Release(i)

Next ==
  \/ Work \/ Client
  \/ \E d \in Downloads : Goes(d)
  \/ \E i \in Imports : HandleImport(i)
  \/ \E h \in Hashes : SetTag(h) \/ DeleteTag(h)
  \/ Mark \/ CopyFails \/ Crash \/ Boot

Spec == Init /\ [][Next]_vars

(* The executor runs woken tasks in order, and the actor takes commands     *)
(* from a channel in order; a stream brings its next item or its end.       *)
Fairness ==
  /\ WF_vars(Work)
  /\ \A d \in Downloads : SF_vars(Goes(d))
FairSpec == Spec /\ Fairness

-----------------------------------------------------------------------------
(* Properties.                                                              *)

Steps == {"idle", "open obao", "open meta", "opened", "copying", "copied",
          "outboard", "written", "register", "persist", "manifest", "sweep",
          "sweep obao", "sweep meta"}

(* Types; a file that is not there holds nothing.                           *)
TypeOK ==
  /\ files \subseteq Kinds \X Hashes
  /\ bytes \in [Kinds \X Hashes -> SUBSET Chunks]
  /\ \A f \in Kinds \X Hashes : /\ bytes[f] \subseteq Content[f[2]]
                                /\ f \notin files => bytes[f] = {}
  /\ entry \in [Hashes -> [state : {"none", "partial", "complete"}, field : SUBSET Chunks]]
  /\ actor \in [at : Steps, on : Hashes \cup {None},
                for : Downloads \cup Imports \cup {None}, live : SUBSET Hashes]
  /\ dl \in [Downloads -> Asking \cup {"idle", "recv", "finish", "flip", "await",
                                       "read", "paused", "hung"}]
  /\ want \in [Downloads -> SUBSET Chunks]
  /\ imp \in [Imports -> {"idle", "asked", "imported", "pinned"}]
  /\ protected \subseteq Hashes /\ active \subseteq Hashes
  /\ tags \subseteq Hashes /\ tagFile \subseteq Hashes /\ acked \subseteq Hashes
  /\ up \in BOOLEAN /\ crashes + fulls \in 0..MaxFaults

(* The files hold the whole blob, and its outboard if it has one.           *)
WholeOnDisk(h) ==
  /\ bytes[<<"data", h>>] = Content[h]
  /\ h \in Single \/ bytes[<<"obao", h>>] = Content[h]

(* Never a false complete (the header of actor.rs): what the table calls    *)
(* complete has all its bytes, whenever the actor yields, whichever of a    *)
(* copy and a stream of the same blob came first.                           *)
CompleteIsWhole ==
  ~Unbroken => \A h \in Hashes : entry[h].state = "complete" => WholeOnDisk(h)

(* A partial is valid (the same header): its bitfield claims no chunk that  *)
(* is not in the data file.                                                 *)
PartialIsValid ==
  ~Unbroken => \A h \in Hashes :
    entry[h].state = "partial" => entry[h].field \subseteq bytes[<<"data", h>>]

(* What the table says of a blob, or will say once the node is started      *)
(* again, is on disk: the chunks of its bitfield and their parents.         *)
Told(h) == IF up THEN entry[h] ELSE Scanned(h)
Intact(h) ==
  /\ Told(h).field \subseteq bytes[<<"data", h>>]
  /\ h \in Single \/ Told(h).field \subseteq bytes[<<"obao", h>>]
Spoiled == {h \in Hashes : ~Intact(h)}

(* What the next start of the node will find of a blob is what the table    *)
(* says now: nothing is known only in memory, and no file says more.  It    *)
(* need not be so of the blob that the actor has in hand.                   *)
Lasting(h) == up /\ h # actor.on => Scanned(h).field = entry[h].field
Damaged == {h \in Hashes : ~Intact(h) \/ ~Lasting(h)}

(* Never a false complete, a partial is valid (the header of actor.rs), as  *)
(* far as the scan makes it so: a death of the worker, or a disk that is    *)
(* full in the middle of a copy, damages at most the blob the actor has in  *)
(* hand, for this run and for the ones that find its files.                 *)
FaultsSpoilOne == ~Unbroken => Cardinality(Damaged) <= crashes + fulls

(* download_verified_streaming reads only what is there: nothing takes the  *)
(* blob away between the look at the bitfield and the end of the read, and  *)
(* its bytes are whole unless a fault has spoiled that blob.                *)
ReadersFind ==
  ~Unbroken => \A d \in Downloads : dl[d] = "read" =>
    /\ Present(DownloadOf[d])
    /\ WholeOnDisk(DownloadOf[d]) \/ DownloadOf[d] \in Spoiled

(* run_gc_cycle: a tagged blob is not swept, however downloads, imports,    *)
(* tags and cycles meet.                                                    *)
TaggedIsKept ==
  [][\A h \in tags : Present(h) /\ up' => Present(h)']_vars

(* A blob whose files are whole and without a meta file stays so across     *)
(* downloads and imports of it, crashes and restarts: nothing reopens it as *)
(* a partial or writes into it until the collector deletes it, but for an   *)
(* import that found it partial and copies all of it again.                     *)
Sealed(h) == <<"meta", h>> \notin files /\ WholeOnDisk(h)
SealedStays ==
  [][\A h \in Hashes : Sealed(h) =>
       \/ Sealed(h)'
       \/ <<"data", h>> \notin files'
       \/ actor'.at \in {"copying", "outboard"} /\ actor'.on = h]_vars

(* A call of download_verified_streaming ends: it is not left watching an   *)
(* entry nobody completes.                                                  *)
DownloadsEnd == \A d \in Downloads : dl[d] = "local" ~> dl[d] \in {"idle", "paused"}

-----------------------------------------------------------------------------
(* What comments of the source say and the code does not do *)

(* lib.rs, cancel_cleanup: on cancellation the partial stays protected so   *)
(* that the collector cannot sweep it before the user resumes.              *)
PausedIsProtected == \A d \in Downloads : dl[d] = "paused" => DownloadOf[d] \in protected

(* gc.rs: a cycle marks from tags and the protect callback, and expands     *)
(* collections: what a tagged and complete collection lists is not swept.   *)
ListedIsKept ==
  [][\A g \in tags : entry[g].state = "complete" /\ up' =>
       \A h \in Children[g] : Present(h) => Present(h)']_vars

(* lib.rs, protected_hashes: hashes being downloaded are protected.         *)
DownloadIsProtected ==
  \A d \in Downloads : dl[d] \notin {"idle", "paused"} => DownloadOf[d] \in protected

(* lib.rs, import_blob: the blob stays in the store as long as active_tags  *)
(* holds it.                                                                *)
PinnedIsStored == \A h \in active : entry[h].state = "complete"

(* actor.rs and mod.rs: tags persist in tags.json.                          *)
TagsPersist == up => acked \subseteq tags
=============================================================================
