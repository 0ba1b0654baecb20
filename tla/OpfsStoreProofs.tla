--------------------------- MODULE OpfsStoreProofs --------------------------
(***************************************************************************)
(* What the blob store keeps for any blobs, chunks, collections, download  *)
(* and import calls and tags, and any number of deaths of the worker.      *)
(***************************************************************************)
EXTENDS OpfsStore, FiniteSetTheorems, TLAPS

LEMMA ConstantFacts ==
  /\ \A h \in Hashes : Content[h] \in SUBSET Chunks /\ Content[h] # {}
  /\ \A d \in Downloads : DownloadOf[d] \in Hashes
  /\ \A i \in Imports : ImportOf[i] \in Hashes
  /\ \A h \in Hashes : Children[h] \subseteq Hashes
<1>1. \A h \in Hashes : Content[h] \in SUBSET Chunks
  BY DEF Chunks
<1>2. /\ \A h \in Hashes : Content[h] # {}
      /\ \A h \in Hashes : Children[h] \subseteq Hashes
  BY BlobsAssumption
<1>3. /\ \A d \in Downloads : DownloadOf[d] \in Hashes
      /\ \A i \in Imports : ImportOf[i] \in Hashes
  BY CallsAssumption
<1> QED
  BY <1>1, <1>2, <1>3

-----------------------------------------------------------------------------
(* The invariant of the tables and the files, deaths of the worker included. *)

(* A file that is not there holds nothing, and none holds a chunk of        *)
(* another blob.                                                            *)
DiskOK ==
  /\ files \subseteq Kinds \X Hashes
  /\ bytes \in [Kinds \X Hashes -> SUBSET Chunks]
  /\ \A k \in Kinds, h \in Hashes : /\ bytes[<<k, h>>] \subseteq Content[h]
                                    /\ <<k, h>> \notin files => bytes[<<k, h>>] = {}

(* A partial has its files, and a complete blob a full bitfield.            *)
EntryOK ==
  /\ entry \in [Hashes -> [state : {"none", "partial", "complete"}, field : SUBSET Chunks]]
  /\ \A h \in Hashes :
       /\ entry[h].field \subseteq Content[h]
       /\ entry[h].state = "partial" => <<"data", h>> \in files /\ <<"obao", h>> \in files
       /\ entry[h].state = "complete" => Filled(h)

Streaming == {"recv", "finish", "flip"}
DlSteps == Asking \cup Streaming \cup {"idle", "await", "read", "paused", "hung"}

(* A task that imports a stream has the entry it imports into.              *)
CallsOK ==
  /\ dl \in [Downloads -> DlSteps]
  /\ want \in [Downloads -> SUBSET Chunks]
  /\ \A d \in Downloads : /\ want[d] \subseteq Content[DownloadOf[d]]
                          /\ dl[d] \in Streaming => Present(DownloadOf[d])

PinsOK ==
  /\ imp \in [Imports -> {"idle", "asked", "imported", "pinned"}]
  /\ protected \subseteq Hashes /\ active \subseteq Hashes
  /\ tags \subseteq Hashes /\ tagFile \subseteq Hashes /\ acked \subseteq Hashes

BoundsOK ==
  /\ up \in BOOLEAN
  /\ crashes \in Nat /\ fulls \in Nat /\ crashes + fulls <= MaxFaults

Opening == {"open obao", "open meta"}
Copying == {"opened", "copying", "copied", "outboard", "written", "register"}
Sweeping == {"sweep obao", "sweep meta"}
ActorRecords ==
  [at : Steps, on : Hashes \cup {None},
   for : Downloads \cup Imports \cup {None}, live : SUBSET Hashes]

(* What the actor has established at each step of a command.                *)
ActorOK ==
  /\ actor \in ActorRecords
  /\ actor.at \in Opening =>
       /\ actor.for \in Downloads /\ actor.on = DownloadOf[actor.for]
       /\ ~Present(actor.on) /\ <<"data", actor.on>> \in files
  /\ actor.at = "open meta" => <<"obao", actor.on>> \in files
  /\ actor.at \in Copying =>
       actor.on \in Hashes /\ actor.for \in Imports /\ <<"data", actor.on>> \in files
  /\ actor.at \in {"copied", "outboard"} => actor.on \notin Single
  /\ actor.at = "outboard" => <<"obao", actor.on>> \in files
  /\ actor.at \in Sweeping =>
       actor.on \in Hashes /\ ~Present(actor.on) /\ <<"data", actor.on>> \notin files
  /\ actor.at \in Sweeping \cup {"sweep"} => ~TaskIsActive /\ tags \subseteq actor.live
  /\ ~up => actor = Idle /\ \A h \in Hashes : ~Present(h)

IInv == DiskOK /\ EntryOK /\ CallsOK /\ PinsOK /\ BoundsOK /\ ActorOK

LEMMA InvariantIsTyped == IInv => TypeOK
<1> SUFFICES ASSUME IInv PROVE TypeOK
  OBVIOUS
<1>1. \A f \in Kinds \X Hashes : /\ bytes[f] \subseteq Content[f[2]]
                                 /\ f \notin files => bytes[f] = {}
  BY DEF IInv, DiskOK
<1>2. crashes + fulls \in 0..MaxFaults
  BY CallsAssumption DEF IInv, BoundsOK
<1>3. dl \in [Downloads -> Asking \cup {"idle", "recv", "finish", "flip", "await",
                                        "read", "paused", "hung"}]
  BY DEF IInv, CallsOK, DlSteps, Streaming
<1> QED
  BY <1>1, <1>2, <1>3
  DEF IInv, DiskOK, EntryOK, CallsOK, PinsOK, BoundsOK, ActorOK, ActorRecords, TypeOK

LEMMA StartIsSound == Init => IInv
<1> SUFFICES ASSUME Init PROVE IInv
  OBVIOUS
<1>1. DiskOK /\ PinsOK
  BY DEF Init, DiskOK, PinsOK
<1>2. EntryOK
  BY DEF Init, EntryOK, NoEntry
<1>3. CallsOK
  BY DEF Init, CallsOK, DlSteps, Streaming
<1>4. BoundsOK
  BY CallsAssumption DEF Init, BoundsOK
<1>5. ActorOK
  BY DEF Init, ActorOK, ActorRecords, Idle, Opening, Copying, Sweeping, Steps
<1> QED
  BY <1>1, <1>2, <1>3, <1>4, <1>5 DEF IInv

(* Each part depends on few of the variables.                               *)
LEMMA PartsStay ==
  ASSUME IInv
  PROVE  /\ UNCHANGED disk => DiskOK'
         /\ UNCHANGED <<files, entry>> => EntryOK'
         /\ UNCHANGED <<entry, dl, want>> => CallsOK'
         /\ UNCHANGED <<imp, protected, active, manifest>> => PinsOK'
         /\ UNCHANGED bounds => BoundsOK'
<1>1. UNCHANGED disk => DiskOK'
  BY DEF IInv, DiskOK, disk
<1>2. UNCHANGED <<files, entry>> => EntryOK'
  BY DEF IInv, EntryOK, Filled
<1>3. UNCHANGED <<entry, dl, want>> => CallsOK'
  BY DEF IInv, CallsOK, Present
<1>4. UNCHANGED <<imp, protected, active, manifest>> => PinsOK'
  BY DEF IInv, PinsOK, manifest
<1>5. UNCHANGED bounds => BoundsOK'
  BY DEF IInv, BoundsOK, bounds
<1> QED
  BY <1>1, <1>2, <1>3, <1>4, <1>5

(* A file is written, made, or both; a file that is open is there.          *)
LEMMA WritingKeeps ==
  ASSUME DiskOK, NEW k \in Kinds, NEW h \in Hashes, NEW held \in SUBSET Content[h],
         bytes' = [bytes EXCEPT ![<<k, h>>] = held],
         files' \in {files, files \cup {<<k, h>>}},
         <<k, h>> \in files' \/ held = {}
  PROVE  DiskOK'
<1>1. <<k, h>> \in Kinds \X Hashes /\ held \in SUBSET Chunks
  BY ConstantFacts
<1>2. files' \subseteq Kinds \X Hashes /\ bytes' \in [Kinds \X Hashes -> SUBSET Chunks]
  BY <1>1 DEF DiskOK
<1>3. ASSUME NEW l \in Kinds, NEW g \in Hashes
      PROVE  /\ bytes'[<<l, g>>] \subseteq Content[g]
             /\ <<l, g>> \notin files' => bytes'[<<l, g>>] = {}
  <2>1. <<l, g>> \in Kinds \X Hashes
    OBVIOUS
  <2>2. CASE l = k /\ g = h
    BY <1>1, <2>2 DEF DiskOK
  <2>3. CASE <<l, g>> # <<k, h>>
    BY <2>1, <2>3 DEF DiskOK
  <2> QED BY <2>2, <2>3
<1> QED
  BY <1>2, <1>3 DEF DiskOK

LEMMA MakingKeeps ==
  ASSUME DiskOK, NEW k \in Kinds, NEW h \in Hashes,
         files' = files \cup {<<k, h>>}, UNCHANGED bytes
  PROVE  DiskOK'
  BY DEF DiskOK

(* The actor does not notice a call that takes no new task up.              *)
LEMMA ActorStays ==
  ASSUME IInv, UNCHANGED <<files, entry, tags, actor, up>>, TaskIsActive' => TaskIsActive
  PROVE  ActorOK'
<1>1. \A h \in Hashes : Present(h)' <=> Present(h)
  BY DEF Present
<1>2. actor.at \in Opening \cup Sweeping => Present(actor.on)' = Present(actor.on)
  BY DEF Present
<1> QED
  BY <1>1, <1>2 DEF IInv, ActorOK

(* An entry that is set; the files of the others stay.                      *)
LEMMA EntryKeeps ==
  ASSUME EntryOK, NEW h \in Hashes, NEW field \in SUBSET Content[h],
         NEW state \in {"none", "partial", "complete"},
         entry' = [entry EXCEPT ![h] = [state |-> state, field |-> field]],
         state = "partial" => <<"data", h>> \in files' /\ <<"obao", h>> \in files',
         state = "complete" => field = Content[h],
         \A f \in files \ files' : f[2] = h
  PROVE  EntryOK'
<1>1. entry' \in [Hashes -> [state : {"none", "partial", "complete"}, field : SUBSET Chunks]]
  BY ConstantFacts DEF EntryOK
<1>2. entry'[h].state = state /\ entry'[h].field = field
  BY DEF EntryOK
<1>3. \A g \in Hashes \ {h} : entry'[g] = entry[g]
  BY DEF EntryOK
<1>4. \A k \in Kinds, g \in Hashes \ {h} : <<k, g>> \in files => <<k, g>> \in files'
  OBVIOUS
<1> QED
  BY <1>1, <1>2, <1>3, <1>4 DEF EntryOK, Filled, Kinds

(* The bitfield reaches the call that asked for it.                         *)
LEMMA AnswerKeeps ==
  ASSUME IInv, NEW d \in Downloads, NEW field, Answer(d, field),
         Present(DownloadOf[d])', \A h \in Hashes : Present(h) => Present(h)'
  PROVE  CallsOK'
<1>1. dl' \in [Downloads -> DlSteps] /\ want' \in [Downloads -> SUBSET Chunks]
  BY ConstantFacts DEF IInv, CallsOK, Answer, Asking, DlSteps, Streaming
<1>2. ASSUME NEW e \in Downloads
      PROVE  /\ want'[e] \subseteq Content[DownloadOf[e]]
             /\ dl'[e] \in Streaming => e = d \/ dl[e] \in Streaming
  BY DEF IInv, CallsOK, Answer
<1> QED
  BY <1>1, <1>2, ConstantFacts DEF IInv, CallsOK

LEMMA FindEntryKeeps == ASSUME IInv, NEW d \in Downloads, FindEntry(d) PROVE IInv'
<1>1. CallsOK'
  <2>1. \A h \in Hashes : Present(h) => Present(h)'
    BY DEF Present, FindEntry
  <2> QED BY <2>1, ConstantFacts, AnswerKeeps DEF FindEntry, Present
<1>2. ActorOK'
  BY ConstantFacts
  DEF IInv, DiskOK, EntryOK, CallsOK, PinsOK, BoundsOK, ActorOK, FindEntry, Answer, IsAt,
      Opening, Copying, Sweeping, TaskIsActive, ActorRecords, Steps, Idle, Present,
      Streaming, disk, calls, manifest, bounds
<1> QED
  BY <1>1, <1>2, PartsStay DEF IInv, FindEntry, disk

LEMMA OpenDataKeeps == ASSUME IInv, NEW d \in Downloads, OpenData(d) PROVE IInv'
<1>1. DiskOK'
  BY ConstantFacts DEF IInv, DiskOK, OpenData, Kinds
<1>2. EntryOK'
  BY DEF IInv, EntryOK, OpenData, Filled
<1>3. ActorOK'
  BY ConstantFacts
  DEF IInv, DiskOK, EntryOK, CallsOK, PinsOK, BoundsOK, ActorOK, OpenData, IsAt, Opening,
      Copying, Sweeping, TaskIsActive, ActorRecords, Steps, Idle, Present, Streaming, disk,
      calls, manifest, bounds
<1> QED
  BY <1>1, <1>2, <1>3, PartsStay DEF IInv, OpenData, calls

LEMMA OpenObaoKeeps == ASSUME IInv, OpenObao PROVE IInv'
<1>1. DiskOK'
  <2>1. actor.on \in Hashes
    BY ConstantFacts DEF IInv, ActorOK, Opening, OpenObao, IsAt
  <2> QED BY <2>1, MakingKeeps DEF IInv, Kinds, OpenObao
<1>2. EntryOK'
  BY ConstantFacts
  DEF IInv, DiskOK, EntryOK, CallsOK, ActorOK, OpenObao, IsAt, Filled, Present, disk, calls,
      manifest, bounds
<1>3. ActorOK'
  BY ConstantFacts
  DEF IInv, DiskOK, EntryOK, CallsOK, PinsOK, BoundsOK, ActorOK, OpenObao, IsAt, Opening,
      Copying, Sweeping, TaskIsActive, ActorRecords, Steps, Idle, Present, Streaming, disk,
      calls, manifest, bounds
<1> QED
  BY <1>1, <1>2, <1>3, PartsStay DEF IInv, OpenObao, disk, calls, manifest, bounds

LEMMA OpenMetaKeeps == ASSUME IInv, OpenMeta PROVE IInv'
<1>1. DiskOK'
  <2>1. actor.on \in Hashes
    BY ConstantFacts DEF IInv, ActorOK, Opening, OpenMeta, IsAt
  <2> QED BY <2>1, MakingKeeps DEF IInv, Kinds, OpenMeta
<1>2. EntryOK'
  <2>1. /\ actor.on \in Hashes /\ bytes[<<"meta", actor.on>>] \in SUBSET Content[actor.on]
        /\ <<"data", actor.on>> \in files /\ <<"obao", actor.on>> \in files
    BY ConstantFacts DEF IInv, ActorOK, DiskOK, Opening, Kinds, OpenMeta, IsAt
  <2> QED BY <2>1, EntryKeeps DEF IInv, OpenMeta, Partial
<1>3. CallsOK'
  <2>1. PICK d \in Downloads : actor.for = d /\ DownloadOf[d] = actor.on
    BY DEF IInv, ActorOK, Opening, OpenMeta, IsAt
  <2>2. DownloadOf[d] \in Hashes
    BY ConstantFacts
  <2>3. entry' = [entry EXCEPT ![DownloadOf[d]] =
                    [state |-> "partial", field |-> bytes[<<"meta", actor.on>>]]]
    BY <2>1 DEF OpenMeta, Partial
  <2>4. /\ entry'[DownloadOf[d]].state = "partial"
        /\ \A h \in Hashes \ {DownloadOf[d]} : entry'[h] = entry[h]
    BY <2>2, <2>3 DEF IInv, EntryOK
  <2>5. Present(DownloadOf[d])' /\ \A h \in Hashes : Present(h) => Present(h)'
    BY <2>2, <2>4 DEF Present
  <2>6. Answer(d, bytes[<<"meta", actor.on>>])
    BY <2>1 DEF OpenMeta
  <2> QED BY <2>1, <2>2, <2>5, <2>6, AnswerKeeps
<1>4. ActorOK'
  BY ConstantFacts
  DEF IInv, DiskOK, EntryOK, CallsOK, PinsOK, BoundsOK, ActorOK, OpenMeta, Answer, Partial,
      IsAt, Opening, Copying, Sweeping, TaskIsActive, ActorRecords, Steps, Idle, Present,
      Streaming, disk, calls, manifest, bounds
<1> QED
  BY <1>1, <1>2, <1>3, <1>4, PartsStay DEF IInv, OpenMeta, disk, calls, manifest, bounds

LEMMA ParentsKeeps ==
  ASSUME IInv, NEW d \in Downloads, NEW c \in Chunks, Parents(d, c)
  PROVE  IInv'
<1>1. DiskOK'
  <2> DEFINE f == <<"obao", DownloadOf[d]>>
  <2>1. DownloadOf[d] \in Hashes /\ f \in Kinds \X Hashes /\ c \in Content[DownloadOf[d]]
    BY ConstantFacts DEF IInv, CallsOK, Kinds, Parents
  <2>2. /\ bytes[f] \cup {c} \in SUBSET Content[DownloadOf[d]]
        /\ bytes' = [bytes EXCEPT ![f] = bytes[f] \cup {c}]
    BY <2>1 DEF IInv, DiskOK, Kinds, Parents
  <2>3. f \in files' /\ files' = files
    BY <2>1 DEF IInv, EntryOK, Parents
  <2> QED BY <2>1, <2>2, <2>3, WritingKeeps DEF IInv, Kinds
<1>2. ActorOK'
  <2>1. TaskIsActive' => TaskIsActive
    BY DEF TaskIsActive, Parents, calls
  <2> QED BY <2>1, ActorStays DEF Parents, manifest, bounds
<1> QED
  BY <1>1, <1>2, PartsStay DEF IInv, Parents, calls

LEMMA LeafKeeps ==
  ASSUME IInv, NEW d \in Downloads, NEW c \in Chunks, Leaf(d, c)
  PROVE  IInv'
<1>1. DiskOK'
  <2> DEFINE h == DownloadOf[d]
             leafed == [bytes EXCEPT ![<<"data", h>>] = @ \cup {c}]
  <2>1. /\ h \in Hashes /\ c \in Content[h] /\ <<"data", h>> \in files
        /\ <<"data", h>> \in Kinds \X Hashes /\ <<"meta", h>> \in Kinds \X Hashes
    BY ConstantFacts DEF IInv, EntryOK, CallsOK, Kinds, Leaf
  <2>2. bytes' = [leafed EXCEPT ![<<"meta", h>>] = (entry[h].field \cup {c})]
    BY <2>1 DEF IInv, DiskOK, Leaf, WriteLeaf
  <2>3. /\ leafed[<<"data", h>>] = bytes[<<"data", h>>] \cup {c}
        /\ \A k \in Kinds, g \in Hashes :
             <<k, g>> # <<"data", h>> => leafed[<<k, g>>] = bytes[<<k, g>>]
        /\ leafed \in [Kinds \X Hashes -> SUBSET Chunks]
    BY <2>1 DEF IInv, DiskOK
  <2>4. /\ files' = files /\ (entry[h].field \cup {c}) \in SUBSET Content[h]
        /\ MetaIsOpen(h) \/ (entry[h].field \cup {c}) = {}
    BY <2>1 DEF IInv, EntryOK, Leaf
  <2> HIDE DEF leafed, h
  <2>5. ASSUME NEW k \in Kinds, NEW g \in Hashes
        PROVE  /\ bytes'[<<k, g>>] \subseteq Content[g]
               /\ <<k, g>> \notin files' => bytes'[<<k, g>>] = {}
    <3>1. CASE k = "data" /\ g = h
      BY <2>1, <2>2, <2>3, <2>4, <3>1 DEF IInv, DiskOK
    <3>2. CASE k = "meta" /\ g = h
      BY <2>1, <2>2, <2>3, <2>4, <3>2 DEF MetaIsOpen
    <3>3. CASE <<k, g>> # <<"data", h>> /\ <<k, g>> # <<"meta", h>>
      BY <2>1, <2>2, <2>3, <2>4, <3>3 DEF IInv, DiskOK
    <3> QED BY <3>1, <3>2, <3>3
  <2> QED BY <2>1, <2>2, <2>3, <2>4, <2>5, ConstantFacts DEF IInv, DiskOK
<1>2. EntryOK'
  <2>1. /\ DownloadOf[d] \in Hashes /\ c \in Content[DownloadOf[d]]
        /\ entry' = [entry EXCEPT ![DownloadOf[d]].field = @ \cup {c}]
        /\ entry[DownloadOf[d]].state = "partial" /\ files' = files
    BY ConstantFacts DEF IInv, CallsOK, Leaf, WriteLeaf
  <2>2. entry' \in [Hashes -> [state : {"none", "partial", "complete"}, field : SUBSET Chunks]]
    BY <2>1 DEF IInv, EntryOK
  <2>3. \A g \in Hashes : /\ entry'[g].state = entry[g].state
                          /\ g # DownloadOf[d] => entry'[g] = entry[g]
    BY <2>1 DEF IInv, EntryOK
  <2>4. entry'[DownloadOf[d]].field = entry[DownloadOf[d]].field \cup {c}
    BY <2>1 DEF IInv, EntryOK
  <2> QED BY <2>1, <2>2, <2>3, <2>4 DEF IInv, EntryOK, Filled
<1>3. CallsOK'
  <2>1. \A g \in Hashes : Present(g)' <=> Present(g)
    BY DEF Present, Leaf, WriteLeaf
  <2>2. /\ dl' \in [Downloads -> DlSteps] /\ want' \in [Downloads -> SUBSET Chunks]
        /\ \A e \in Downloads : /\ want'[e] \subseteq want[e]
                                /\ dl'[e] \in Streaming => dl[e] \in Streaming
    BY DEF IInv, CallsOK, DlSteps, Streaming, Leaf, Receives
  <2> QED BY <2>1, <2>2, ConstantFacts DEF IInv, CallsOK
<1>4. ActorOK'
  BY ConstantFacts
  DEF IInv, DiskOK, EntryOK, CallsOK, PinsOK, BoundsOK, ActorOK, Leaf, Receives, Running,
      WriteLeaf, MetaIsOpen, Opening, Copying, Sweeping, TaskIsActive, ActorRecords, Steps,
      Idle, Present, Streaming, disk, calls, manifest, bounds
<1> QED
  BY <1>1, <1>2, <1>3, <1>4, PartsStay DEF IInv, Leaf

LEMMA LeafFailsKeeps ==
  ASSUME IInv, NEW d \in Downloads, NEW c \in Chunks, LeafFails(d, c)
  PROVE  IInv'
<1>1. DiskOK'
  <2> DEFINE h == DownloadOf[d]
             leafed == [bytes EXCEPT ![<<"data", h>>] = @ \cup {c}]
  <2>1. /\ h \in Hashes /\ c \in Content[h] /\ <<"data", h>> \in files
        /\ <<"data", h>> \in Kinds \X Hashes /\ <<"meta", h>> \in Kinds \X Hashes
    BY ConstantFacts DEF IInv, EntryOK, CallsOK, Kinds, LeafFails
  <2>2. bytes' = [leafed EXCEPT ![<<"meta", h>>] = {}]
    BY <2>1 DEF IInv, DiskOK, LeafFails, WriteLeaf
  <2>3. /\ leafed[<<"data", h>>] = bytes[<<"data", h>>] \cup {c}
        /\ \A k \in Kinds, g \in Hashes :
             <<k, g>> # <<"data", h>> => leafed[<<k, g>>] = bytes[<<k, g>>]
        /\ leafed \in [Kinds \X Hashes -> SUBSET Chunks]
    BY <2>1 DEF IInv, DiskOK
  <2>4. files' = files /\ {} \in SUBSET Content[h] /\ (MetaIsOpen(h) \/ {} = {})
    BY <2>1 DEF IInv, EntryOK, LeafFails
  <2> HIDE DEF leafed, h
  <2>5. ASSUME NEW k \in Kinds, NEW g \in Hashes
        PROVE  /\ bytes'[<<k, g>>] \subseteq Content[g]
               /\ <<k, g>> \notin files' => bytes'[<<k, g>>] = {}
    <3>1. CASE k = "data" /\ g = h
      BY <2>1, <2>2, <2>3, <2>4, <3>1 DEF IInv, DiskOK
    <3>2. CASE k = "meta" /\ g = h
      BY <2>1, <2>2, <2>3, <2>4, <3>2 DEF MetaIsOpen
    <3>3. CASE <<k, g>> # <<"data", h>> /\ <<k, g>> # <<"meta", h>>
      BY <2>1, <2>2, <2>3, <2>4, <3>3 DEF IInv, DiskOK
    <3> QED BY <3>1, <3>2, <3>3
  <2> QED BY <2>1, <2>2, <2>3, <2>4, <2>5, ConstantFacts DEF IInv, DiskOK
<1>2. EntryOK'
  <2>1. /\ DownloadOf[d] \in Hashes /\ c \in Content[DownloadOf[d]]
        /\ entry' = [entry EXCEPT ![DownloadOf[d]].field = @ \cup {c}]
        /\ entry[DownloadOf[d]].state = "partial" /\ files' = files
    BY ConstantFacts DEF IInv, CallsOK, LeafFails, WriteLeaf
  <2>2. entry' \in [Hashes -> [state : {"none", "partial", "complete"}, field : SUBSET Chunks]]
    BY <2>1 DEF IInv, EntryOK
  <2>3. \A g \in Hashes : /\ entry'[g].state = entry[g].state
                          /\ g # DownloadOf[d] => entry'[g] = entry[g]
    BY <2>1 DEF IInv, EntryOK
  <2>4. entry'[DownloadOf[d]].field = entry[DownloadOf[d]].field \cup {c}
    BY <2>1 DEF IInv, EntryOK
  <2> QED BY <2>1, <2>2, <2>3, <2>4 DEF IInv, EntryOK, Filled
<1>3. CallsOK'
  <2>1. \A g \in Hashes : Present(g)' <=> Present(g)
    BY DEF Present, LeafFails, WriteLeaf
  <2>2. dl' \in [Downloads -> DlSteps] /\ want' \in [Downloads -> SUBSET Chunks]
    BY DEF IInv, CallsOK, DlSteps, LeafFails, Leave
  <2>3. ASSUME NEW e \in Downloads
        PROVE  want'[e] \subseteq want[e] /\ (dl'[e] \in Streaming => dl[e] \in Streaming)
    BY DEF Streaming, LeafFails, Leave
  <2>4. ASSUME NEW e \in Downloads
        PROVE  /\ want'[e] \subseteq Content[DownloadOf[e]]
               /\ dl'[e] \in Streaming => Present(DownloadOf[e])'
    <3>1. /\ DownloadOf[e] \in Hashes /\ want[e] \subseteq Content[DownloadOf[e]]
          /\ dl[e] \in Streaming => Present(DownloadOf[e])
      BY ConstantFacts DEF IInv, CallsOK
    <3>2. Present(DownloadOf[e])' <=> Present(DownloadOf[e])
      BY <2>1, <3>1
    <3> QED BY <2>3, <3>1, <3>2
  <2> QED BY <2>2, <2>4 DEF CallsOK
<1>4. PinsOK'
  BY ConstantFacts
  DEF IInv, PinsOK, ActorOK, LeafFails, Receives, Running, WriteLeaf, Leave, MetaIsOpen,
      disk, calls, manifest, bounds
<1>5. ActorOK'
  BY ConstantFacts
  DEF IInv, DiskOK, EntryOK, CallsOK, PinsOK, BoundsOK, ActorOK, LeafFails, Receives,
      Running, WriteLeaf, Leave, MetaIsOpen, Opening, Copying, Sweeping, TaskIsActive,
      ActorRecords, Steps, Idle, Present, Streaming, disk, calls, manifest, bounds
<1> QED
  BY <1>1, <1>2, <1>3, <1>4, <1>5, PartsStay DEF IInv, LeafFails

LEMMA SkipLeafKeeps ==
  ASSUME IInv, NEW d \in Downloads, NEW c \in Chunks, SkipLeaf(d, c)
  PROVE  IInv'
<1>1. CallsOK'
  BY ConstantFacts
  DEF IInv, DiskOK, EntryOK, CallsOK, ActorOK, SkipLeaf, Receives, Running, Present,
      DlSteps, Asking, Streaming, Filled, disk, calls, manifest, bounds
<1>2. ActorOK'
  <2>1. TaskIsActive' => TaskIsActive
    BY DEF TaskIsActive, SkipLeaf
  <2> QED BY <2>1, ActorStays DEF SkipLeaf, disk, manifest, bounds
<1> QED
  BY <1>1, <1>2, PartsStay DEF IInv, SkipLeaf, disk

LEMMA DropMetaKeeps == ASSUME IInv, NEW d \in Downloads, DropMeta(d) PROVE IInv'
<1>1. DiskOK'
  BY ConstantFacts
  DEF IInv, DiskOK, EntryOK, CallsOK, ActorOK, DropMeta, Running, Kinds, disk, calls,
      manifest, bounds
<1>2. EntryOK'
  BY ConstantFacts
  DEF IInv, DiskOK, EntryOK, CallsOK, ActorOK, DropMeta, Running, Filled, Present, disk,
      calls, manifest, bounds
<1>3. CallsOK'
  BY ConstantFacts
  DEF IInv, DiskOK, EntryOK, CallsOK, ActorOK, DropMeta, Running, Present, DlSteps, Asking,
      Streaming, Filled, disk, calls, manifest, bounds
<1>4. ActorOK'
  BY ConstantFacts
  DEF IInv, DiskOK, EntryOK, CallsOK, PinsOK, BoundsOK, ActorOK, DropMeta, Running, Opening,
      Copying, Sweeping, TaskIsActive, ActorRecords, Steps, Idle, Present, Streaming, disk,
      calls, manifest, bounds
<1> QED
  BY <1>1, <1>2, <1>3, <1>4, PartsStay DEF IInv, DropMeta

LEMMA FlipKeeps == ASSUME IInv, NEW d \in Downloads, Flip(d) PROVE IInv'
<1>1. DiskOK'
  BY ConstantFacts
  DEF IInv, DiskOK, EntryOK, CallsOK, ActorOK, Flip, Complete, Running, Kinds, disk, calls,
      manifest, bounds
<1>2. EntryOK'
  <2>1. DownloadOf[d] \in Hashes /\ Content[DownloadOf[d]] \in SUBSET Content[DownloadOf[d]]
    BY ConstantFacts
  <2>2. \A f \in files \ files' : f[2] = DownloadOf[d]
    BY DEF Flip
  <2>3. entry' = [entry EXCEPT ![DownloadOf[d]] =
                    [state |-> "complete", field |-> Content[DownloadOf[d]]]]
    BY DEF Flip, Complete
  <2> QED BY <2>1, <2>2, <2>3, EntryKeeps DEF IInv
<1>3. CallsOK'
  BY ConstantFacts
  DEF IInv, DiskOK, EntryOK, CallsOK, ActorOK, Flip, Complete, Running, Present, DlSteps,
      Asking, Streaming, Filled, disk, calls, manifest, bounds
<1>4. ActorOK'
  <2>1. DownloadOf[d] \in Hashes /\ Present(DownloadOf[d]) /\ TaskIsActive
    BY ConstantFacts DEF IInv, CallsOK, Streaming, TaskIsActive, Flip
  <2>2. /\ actor.at \notin Sweeping \cup {"sweep"} /\ actor.at # "outboard"
        /\ actor.at \in Opening => actor.on # DownloadOf[d]
    BY <2>1 DEF IInv, ActorOK, Flip, Running, Unbroken
  <2>3. \A h \in Hashes : Present(h)' <=> Present(h)
    BY <2>1 DEF Present, Complete, Flip
  <2>4. /\ \A h \in Hashes : <<"data", h>> \in files' <=> <<"data", h>> \in files
        /\ \A h \in Hashes \ {DownloadOf[d]} : <<"obao", h>> \in files => <<"obao", h>> \in files'
    BY DEF Flip
  <2>5. actor' = actor /\ up' = up /\ up
    BY DEF Flip, Running, bounds
  <2>6. actor.at \in Opening => actor.on \in Hashes
    BY ConstantFacts DEF IInv, ActorOK
  <2> QED BY <2>2, <2>3, <2>4, <2>5, <2>6 DEF IInv, ActorOK, Opening, Copying
<1> QED
  BY <1>1, <1>2, <1>3, <1>4, PartsStay DEF IInv, Flip

LEMMA StreamEndsKeeps == ASSUME IInv, NEW d \in Downloads, StreamEnds(d) PROVE IInv'
<1>1. CallsOK'
  BY ConstantFacts
  DEF IInv, DiskOK, EntryOK, CallsOK, ActorOK, StreamEnds, Receives, Running, Present,
      DlSteps, Asking, Streaming, Filled, disk, calls, manifest, bounds
<1>2. ActorOK'
  <2>1. TaskIsActive' => TaskIsActive
    BY DEF TaskIsActive, StreamEnds
  <2> QED BY <2>1, ActorStays DEF StreamEnds, disk, manifest, bounds
<1> QED
  BY <1>1, <1>2, PartsStay DEF IInv, StreamEnds, disk

LEMMA AwaitedKeeps == ASSUME IInv, NEW d \in Downloads, Awaited(d) PROVE IInv'
<1>1. CallsOK'
  BY ConstantFacts
  DEF IInv, DiskOK, EntryOK, CallsOK, ActorOK, Awaited, Running, Present, DlSteps, Asking,
      Streaming, Filled, disk, calls, manifest, bounds
<1>2. ActorOK'
  <2>1. TaskIsActive' => TaskIsActive
    BY DEF TaskIsActive, Awaited
  <2> QED BY <2>1, ActorStays DEF Awaited, disk, manifest, bounds
<1> QED
  BY <1>1, <1>2, PartsStay DEF IInv, Awaited, disk

LEMMA ReadEndsKeeps == ASSUME IInv, NEW d \in Downloads, ReadEnds(d) PROVE IInv'
<1>1. CallsOK'
  <2>1. dl' \in [Downloads -> DlSteps] /\ want' \in [Downloads -> SUBSET Chunks]
    BY DEF IInv, CallsOK, DlSteps, ReadEnds, Leave
  <2>2. ASSUME NEW e \in Downloads
        PROVE  want'[e] \subseteq want[e] /\ (dl'[e] \in Streaming => dl[e] \in Streaming)
    BY DEF Streaming, ReadEnds, Leave
  <2> QED BY <2>1, <2>2 DEF IInv, CallsOK, Present, ReadEnds
<1>2. PinsOK'
  BY ConstantFacts
  DEF IInv, PinsOK, ActorOK, ReadEnds, Leave, Running, disk, calls, manifest, bounds
<1>3. ActorOK'
  <2>1. TaskIsActive' => TaskIsActive
    BY DEF TaskIsActive, ReadEnds, Leave
  <2> QED BY <2>1, ActorStays DEF ReadEnds, disk, manifest, bounds
<1> QED
  BY <1>1, <1>2, <1>3, PartsStay DEF IInv, ReadEnds, disk

LEMMA BeginKeeps == ASSUME IInv, NEW d \in Downloads, Begin(d) PROVE IInv'
<1>1. CallsOK'
  BY ConstantFacts
  DEF IInv, DiskOK, EntryOK, CallsOK, ActorOK, Begin, Running, Present, DlSteps, Asking,
      Streaming, Filled, disk, calls, manifest, bounds
<1>2. PinsOK'
  BY ConstantFacts DEF IInv, PinsOK, ActorOK, Begin, Running, disk, calls, manifest, bounds
<1>3. ActorOK'
  <2>1. TaskIsActive' => TaskIsActive
    BY DEF TaskIsActive, Begin
  <2> QED BY <2>1, ActorStays DEF Begin, disk, manifest, bounds
<1> QED
  BY <1>1, <1>2, <1>3, PartsStay DEF IInv, Begin, disk

LEMMA FailsKeeps == ASSUME IInv, NEW d \in Downloads, Fails(d) PROVE IInv'
<1>1. CallsOK'
  BY ConstantFacts
  DEF IInv, DiskOK, EntryOK, CallsOK, ActorOK, Fails, Leave, Running, Present, DlSteps,
      Asking, Streaming, Filled, disk, calls, manifest, bounds
<1>2. PinsOK'
  BY ConstantFacts DEF IInv, PinsOK, ActorOK, Fails, Leave, Running, disk, calls, manifest, bounds
<1>3. ActorOK'
  <2>1. TaskIsActive' => TaskIsActive
    BY DEF TaskIsActive, Fails, Leave
  <2> QED BY <2>1, ActorStays DEF Fails, disk, manifest, bounds
<1> QED
  BY <1>1, <1>2, <1>3, PartsStay DEF IInv, Fails, disk

LEMMA CancelKeeps == ASSUME IInv, NEW d \in Downloads, Cancel(d) PROVE IInv'
<1>1. CallsOK'
  <2>1. dl' \in [Downloads -> DlSteps] /\ want' \in [Downloads -> SUBSET Chunks]
    BY DEF IInv, CallsOK, DlSteps, Cancel, Leave
  <2>2. ASSUME NEW e \in Downloads
        PROVE  want'[e] \subseteq want[e] /\ (dl'[e] \in Streaming => dl[e] \in Streaming)
    BY DEF Streaming, Cancel, Leave
  <2> QED BY <2>1, <2>2 DEF IInv, CallsOK, Present, Cancel
<1>2. PinsOK'
  BY ConstantFacts DEF IInv, PinsOK, ActorOK, Cancel, Leave, Running, disk, calls, manifest, bounds
<1>3. ActorOK'
  <2>1. TaskIsActive' => TaskIsActive
    BY DEF TaskIsActive, Cancel, Leave
  <2> QED BY <2>1, ActorStays DEF Cancel, disk, manifest, bounds
<1> QED
  BY <1>1, <1>2, <1>3, PartsStay DEF IInv, Cancel, disk

LEMMA DiscardKeeps == ASSUME IInv, NEW d \in Downloads, Discard(d) PROVE IInv'
<1>1. CallsOK'
  <2>1. dl' \in [Downloads -> DlSteps] /\ want' \in [Downloads -> SUBSET Chunks]
    BY DEF IInv, CallsOK, DlSteps, Discard, Leave
  <2>2. ASSUME NEW e \in Downloads
        PROVE  want'[e] \subseteq want[e] /\ (dl'[e] \in Streaming => dl[e] \in Streaming)
    BY DEF Streaming, Discard, Leave
  <2> QED BY <2>1, <2>2 DEF IInv, CallsOK, Present, Discard
<1>2. PinsOK'
  BY ConstantFacts DEF IInv, PinsOK, ActorOK, Discard, Leave, Running, disk, calls, manifest, bounds
<1>3. ActorOK'
  <2>1. TaskIsActive' => TaskIsActive
    BY DEF TaskIsActive, Discard, Leave
  <2> QED BY <2>1, ActorStays DEF Discard, disk, manifest, bounds
<1> QED
  BY <1>1, <1>2, <1>3, PartsStay DEF IInv, Discard, disk

LEMMA StartImportKeeps == ASSUME IInv, NEW i \in Imports, StartImport(i) PROVE IInv'
<1>1. PinsOK'
  BY ConstantFacts DEF IInv, PinsOK, ActorOK, StartImport, Running, disk, calls, manifest, bounds
<1>2. ActorOK'
  <2>1. TaskIsActive' => TaskIsActive
    BY DEF TaskIsActive, StartImport
  <2> QED BY <2>1, ActorStays DEF StartImport, disk, manifest, bounds
<1> QED
  BY <1>1, <1>2, PartsStay DEF IInv, StartImport, disk

LEMMA PinKeeps == ASSUME IInv, NEW i \in Imports, Pin(i) PROVE IInv'
<1>1. PinsOK'
  BY ConstantFacts DEF IInv, PinsOK, ActorOK, Pin, Running, disk, calls, manifest, bounds
<1>2. ActorOK'
  <2>1. TaskIsActive' => TaskIsActive
    BY DEF TaskIsActive, Pin
  <2> QED BY <2>1, ActorStays DEF Pin, disk, manifest, bounds
<1> QED
  BY <1>1, <1>2, PartsStay DEF IInv, Pin, disk

LEMMA ReleaseKeeps == ASSUME IInv, NEW i \in Imports, Release(i) PROVE IInv'
<1>1. PinsOK'
  BY ConstantFacts DEF IInv, PinsOK, ActorOK, Release, Running, disk, calls, manifest, bounds
<1>2. ActorOK'
  <2>1. TaskIsActive' => TaskIsActive
    BY DEF TaskIsActive, Release
  <2> QED BY <2>1, ActorStays DEF Release, disk, manifest, bounds
<1> QED
  BY <1>1, <1>2, PartsStay DEF IInv, Release, disk

LEMMA DedupKeeps == ASSUME IInv, NEW i \in Imports, Dedup(i) PROVE IInv'
<1>1. PinsOK'
  BY DEF IInv, PinsOK, Dedup, Imported, manifest
<1>2. ActorOK'
  <2>1. TaskIsActive' => TaskIsActive
    BY DEF TaskIsActive, Dedup
  <2> QED BY <2>1, ActorStays DEF Dedup, disk, manifest, bounds
<1> QED
  BY <1>1, <1>2, PartsStay DEF IInv, Dedup, disk

LEMMA OpenForCopyKeeps == ASSUME IInv, NEW i \in Imports, OpenForCopy(i) PROVE IInv'
<1>1. DiskOK'
  BY ConstantFacts DEF IInv, DiskOK, OpenForCopy, Kinds
<1>2. EntryOK'
  BY DEF IInv, EntryOK, OpenForCopy, Filled
<1>3. ActorOK'
  BY ConstantFacts
  DEF IInv, DiskOK, EntryOK, CallsOK, PinsOK, BoundsOK, ActorOK, OpenForCopy, IsAt, Opening,
      Copying, Sweeping, TaskIsActive, ActorRecords, Steps, Idle, Present, Streaming, disk,
      calls, manifest, bounds
<1> QED
  BY <1>1, <1>2, <1>3, PartsStay DEF IInv, OpenForCopy, calls

LEMMA TruncateKeeps == ASSUME IInv, Truncate PROVE IInv'
<1>1. DiskOK'
  BY ConstantFacts
  DEF IInv, DiskOK, EntryOK, CallsOK, ActorOK, Truncate, IsAt, Kinds, disk, calls, manifest,
      bounds
<1>2. ActorOK'
  BY ConstantFacts
  DEF IInv, DiskOK, EntryOK, CallsOK, PinsOK, BoundsOK, ActorOK, Truncate, IsAt, Opening,
      Copying, Sweeping, TaskIsActive, ActorRecords, Steps, Idle, Present, Streaming, disk,
      calls, manifest, bounds
<1> QED
  BY <1>1, <1>2, PartsStay DEF IInv, Truncate, calls

LEMMA CopyKeeps == ASSUME IInv, Copy PROVE IInv'
<1>1. DiskOK'
  <2>1. actor.on \in Hashes /\ Content[actor.on] \in SUBSET Content[actor.on]
    BY DEF IInv, ActorOK, Copying, Copy, IsAt
  <2>2. <<"data", actor.on>> \in files'
    BY DEF IInv, ActorOK, Copying, Copy, IsAt
  <2> QED BY <2>1, <2>2, WritingKeeps DEF IInv, Kinds, Copy, IsAt
<1>2. ActorOK'
  BY ConstantFacts
  DEF IInv, DiskOK, EntryOK, CallsOK, PinsOK, BoundsOK, ActorOK, Copy, IsAt, Opening,
      Copying, Sweeping, TaskIsActive, ActorRecords, Steps, Idle, Present, Streaming, disk,
      calls, manifest, bounds
<1> QED
  BY <1>1, <1>2, PartsStay DEF IInv, Copy, calls

LEMMA OpenOutboardKeeps == ASSUME IInv, OpenOutboard PROVE IInv'
<1>1. DiskOK'
  <2>1. actor.on \in Hashes /\ {} \in SUBSET Content[actor.on]
    BY DEF IInv, ActorOK, Copying, OpenOutboard, IsAt
  <2>2. <<"obao", actor.on>> \in files'
    BY DEF OpenOutboard
  <2> QED BY <2>1, <2>2, WritingKeeps DEF IInv, Kinds, OpenOutboard, IsAt
<1>2. EntryOK'
  BY DEF IInv, EntryOK, OpenOutboard, Filled
<1>3. ActorOK'
  BY ConstantFacts
  DEF IInv, DiskOK, EntryOK, CallsOK, PinsOK, BoundsOK, ActorOK, OpenOutboard, IsAt,
      Opening, Copying, Sweeping, TaskIsActive, ActorRecords, Steps, Idle, Present,
      Streaming, disk, calls, manifest, bounds
<1> QED
  BY <1>1, <1>2, <1>3, PartsStay DEF IInv, OpenOutboard, calls

LEMMA CopyOutboardKeeps == ASSUME IInv, CopyOutboard PROVE IInv'
<1>1. DiskOK'
  <2>1. actor.on \in Hashes /\ Content[actor.on] \in SUBSET Content[actor.on]
    BY DEF IInv, ActorOK, Copying, CopyOutboard, IsAt
  <2>2. <<"obao", actor.on>> \in files'
    BY DEF IInv, ActorOK, CopyOutboard, IsAt
  <2> QED BY <2>1, <2>2, WritingKeeps DEF IInv, Kinds, CopyOutboard, IsAt
<1>2. ActorOK'
  BY ConstantFacts
  DEF IInv, DiskOK, EntryOK, CallsOK, PinsOK, BoundsOK, ActorOK, CopyOutboard, IsAt,
      Opening, Copying, Sweeping, TaskIsActive, ActorRecords, Steps, Idle, Present,
      Streaming, disk, calls, manifest, bounds
<1> QED
  BY <1>1, <1>2, PartsStay DEF IInv, CopyOutboard, calls

LEMMA DropStaleMetaKeeps == ASSUME IInv, DropStaleMeta PROVE IInv'
<1>1. DiskOK'
  BY ConstantFacts
  DEF IInv, DiskOK, EntryOK, CallsOK, ActorOK, DropStaleMeta, IsAt, Kinds, disk, calls,
      manifest, bounds
<1>2. EntryOK'
  BY DEF IInv, EntryOK, DropStaleMeta, Filled
<1>3. ActorOK'
  BY ConstantFacts
  DEF IInv, DiskOK, EntryOK, CallsOK, PinsOK, BoundsOK, ActorOK, DropStaleMeta, IsAt,
      Opening, Copying, Sweeping, TaskIsActive, ActorRecords, Steps, Idle, Present,
      Streaming, disk, calls, manifest, bounds
<1> QED
  BY <1>1, <1>2, <1>3, PartsStay DEF IInv, DropStaleMeta, calls

LEMMA RegisterKeeps == ASSUME IInv, Register PROVE IInv'
<1>1. EntryOK'
  <2>1. actor.on \in Hashes /\ Content[actor.on] \in SUBSET Content[actor.on] /\ files' = files
    BY DEF IInv, ActorOK, Copying, Register, IsAt, disk
  <2> QED BY <2>1, EntryKeeps DEF IInv, Register, Complete
<1>2. CallsOK'
  BY DEF IInv, CallsOK, Register, Complete, Present
<1>3. PinsOK'
  BY DEF IInv, PinsOK, Register, Imported, manifest
<1>4. ActorOK'
  BY ConstantFacts
  DEF IInv, DiskOK, EntryOK, CallsOK, PinsOK, BoundsOK, ActorOK, Register, Complete,
      Imported, IsAt, Opening, Copying, Sweeping, TaskIsActive, ActorRecords, Steps, Idle,
      Present, Streaming, disk, calls, manifest, bounds
<1> QED
  BY <1>1, <1>2, <1>3, <1>4, PartsStay DEF IInv, Register

LEMMA CopyFailsKeeps == ASSUME IInv, CopyFails PROVE IInv'
<1>1. PinsOK'
  BY ConstantFacts DEF IInv, PinsOK, ActorOK, CopyFails, Unbroken, disk, calls, manifest, bounds
<1>2. BoundsOK'
  <2>1. /\ crashes + fulls < MaxFaults /\ fulls' = fulls + 1
        /\ crashes' = crashes /\ up' = up
    BY DEF CopyFails
  <2> QED BY <2>1, CallsAssumption DEF IInv, BoundsOK
<1>3. ActorOK'
  BY ConstantFacts
  DEF IInv, DiskOK, EntryOK, CallsOK, PinsOK, BoundsOK, ActorOK, CopyFails, Unbroken,
      Opening, Copying, Sweeping, TaskIsActive, ActorRecords, Steps, Idle, Present,
      Streaming, disk, calls, manifest, bounds
<1> QED
  BY <1>1, <1>2, <1>3, PartsStay DEF IInv, CopyFails, disk

LEMMA SetTagKeeps == ASSUME IInv, NEW h \in Hashes, SetTag(h) PROVE IInv'
<1>1. PinsOK'
  BY DEF IInv, PinsOK, SetTag, calls
<1>2. ActorOK'
  BY ConstantFacts
  DEF IInv, DiskOK, EntryOK, CallsOK, PinsOK, BoundsOK, ActorOK, SetTag, IsAt, Opening,
      Copying, Sweeping, TaskIsActive, ActorRecords, Steps, Idle, Present, Streaming, disk,
      calls, manifest, bounds
<1> QED
  BY <1>1, <1>2, PartsStay DEF IInv, SetTag, disk, calls

LEMMA DeleteTagKeeps == ASSUME IInv, NEW h \in Hashes, DeleteTag(h) PROVE IInv'
<1>1. PinsOK'
  BY DEF IInv, PinsOK, DeleteTag, calls
<1>2. ActorOK'
  BY ConstantFacts
  DEF IInv, DiskOK, EntryOK, CallsOK, PinsOK, BoundsOK, ActorOK, DeleteTag, IsAt, Opening,
      Copying, Sweeping, TaskIsActive, ActorRecords, Steps, Idle, Present, Streaming, disk,
      calls, manifest, bounds
<1> QED
  BY <1>1, <1>2, PartsStay DEF IInv, DeleteTag, disk, calls

LEMMA EmptyManifestKeeps == ASSUME IInv, EmptyManifest PROVE IInv'
<1>1. PinsOK'
  BY DEF IInv, PinsOK, EmptyManifest, calls
<1>2. ActorOK'
  BY ConstantFacts
  DEF IInv, DiskOK, EntryOK, CallsOK, PinsOK, BoundsOK, ActorOK, EmptyManifest, IsAt,
      Opening, Copying, Sweeping, TaskIsActive, ActorRecords, Steps, Idle, Present,
      Streaming, disk, calls, manifest, bounds
<1> QED
  BY <1>1, <1>2, PartsStay DEF IInv, EmptyManifest, disk, calls

LEMMA WriteManifestKeeps == ASSUME IInv, WriteManifest PROVE IInv'
<1>1. PinsOK'
  BY DEF IInv, PinsOK, WriteManifest, calls
<1>2. ActorOK'
  BY ConstantFacts
  DEF IInv, DiskOK, EntryOK, CallsOK, PinsOK, BoundsOK, ActorOK, WriteManifest, IsAt,
      Opening, Copying, Sweeping, TaskIsActive, ActorRecords, Steps, Idle, Present,
      Streaming, disk, calls, manifest, bounds
<1> QED
  BY <1>1, <1>2, PartsStay DEF IInv, WriteManifest, disk, calls

LEMMA MarkKeeps == ASSUME IInv, Mark PROVE IInv'
<1>1. ActorOK'
  <2>1. Named \cup Marked \in SUBSET Hashes /\ tags \subseteq Named \cup Marked
    BY ConstantFacts DEF IInv, PinsOK, Named, Marked, Expanded
  <2>2. actor' = [at |-> "sweep", on |-> None, for |-> None, live |-> Named \cup Marked]
    BY DEF Mark, Idle
  <2>3. tags' = tags /\ up' /\ ~TaskIsActive'
    BY DEF Mark, TaskIsActive, IsAt, calls, manifest, bounds
  <2> QED BY <2>1, <2>2, <2>3 DEF ActorOK, ActorRecords, Steps, Opening, Copying, Sweeping
<1> QED
  BY <1>1, PartsStay DEF IInv, Mark, disk, calls

LEMMA SweepKeeps == ASSUME IInv, NEW h \in Hashes, Sweep(h) PROVE IInv'
<1>1. DiskOK'
  BY DEF IInv, DiskOK, Sweep
<1>2. EntryOK'
  BY DEF IInv, EntryOK, Sweep, NoEntry, Filled
<1>3. CallsOK'
  <2>1. ~TaskIsActive
    BY DEF IInv, ActorOK, Sweep, IsAt
  <2>2. dl' = [e \in Downloads |->
                 IF dl[e] = "await" /\ DownloadOf[e] = h THEN "hung" ELSE dl[e]]
    BY DEF Sweep
  <2>3. dl' \in [Downloads -> DlSteps] /\ \A e \in Downloads : dl'[e] \notin Streaming
    BY <2>1, <2>2 DEF IInv, CallsOK, DlSteps, Streaming, TaskIsActive
  <2> QED BY <2>3 DEF IInv, CallsOK, Sweep
<1>4. ActorOK'
  BY ConstantFacts
  DEF IInv, DiskOK, EntryOK, CallsOK, PinsOK, BoundsOK, ActorOK, Sweep, NoEntry, IsAt,
      Opening, Copying, Sweeping, TaskIsActive, ActorRecords, Steps, Idle, Present,
      Streaming, disk, calls, manifest, bounds
<1> QED
  BY <1>1, <1>2, <1>3, <1>4, PartsStay DEF IInv, Sweep

LEMMA SweepObaoKeeps == ASSUME IInv, SweepObao PROVE IInv'
<1>1. DiskOK'
  BY ConstantFacts
  DEF IInv, DiskOK, EntryOK, CallsOK, ActorOK, SweepObao, IsAt, Kinds, disk, calls,
      manifest, bounds
<1>2. EntryOK'
  <2>1. entry[actor.on].state = "none" \/ actor.on \notin Hashes
    BY DEF IInv, ActorOK, Sweeping, Present, SweepObao, IsAt
  <2>2. /\ entry' = entry
        /\ \A h \in Hashes : <<"data", h>> \in files => <<"data", h>> \in files'
        /\ \A h \in Hashes \ {actor.on} : <<"obao", h>> \in files => <<"obao", h>> \in files'
    BY DEF SweepObao
  <2> QED BY <2>1, <2>2 DEF IInv, EntryOK, Filled
<1>3. ActorOK'
  BY ConstantFacts
  DEF IInv, DiskOK, EntryOK, CallsOK, PinsOK, BoundsOK, ActorOK, SweepObao, IsAt, Opening,
      Copying, Sweeping, TaskIsActive, ActorRecords, Steps, Idle, Present, Streaming, disk,
      calls, manifest, bounds
<1> QED
  BY <1>1, <1>2, <1>3, PartsStay DEF IInv, SweepObao, disk, calls, manifest, bounds

LEMMA SweepMetaKeeps == ASSUME IInv, SweepMeta PROVE IInv'
<1>1. DiskOK'
  BY ConstantFacts
  DEF IInv, DiskOK, EntryOK, CallsOK, ActorOK, SweepMeta, IsAt, Kinds, disk, calls,
      manifest, bounds
<1>2. EntryOK'
  BY ConstantFacts
  DEF IInv, DiskOK, EntryOK, CallsOK, ActorOK, SweepMeta, IsAt, Filled, Present, disk,
      calls, manifest, bounds
<1>3. ActorOK'
  BY ConstantFacts
  DEF IInv, DiskOK, EntryOK, CallsOK, PinsOK, BoundsOK, ActorOK, SweepMeta, IsAt, Opening,
      Copying, Sweeping, TaskIsActive, ActorRecords, Steps, Idle, Present, Streaming, disk,
      calls, manifest, bounds
<1> QED
  BY <1>1, <1>2, <1>3, PartsStay DEF IInv, SweepMeta, disk, calls, manifest, bounds

LEMMA SweptKeeps == ASSUME IInv, Swept PROVE IInv'
<1>1. ActorOK'
  BY ConstantFacts
  DEF IInv, DiskOK, EntryOK, CallsOK, PinsOK, BoundsOK, ActorOK, Swept, IsAt, Opening,
      Copying, Sweeping, TaskIsActive, ActorRecords, Steps, Idle, Present, Streaming, disk,
      calls, manifest, bounds
<1> QED
  BY <1>1, PartsStay DEF IInv, Swept, disk, calls

LEMMA CrashKeeps == ASSUME IInv, Crash PROVE IInv'
<1>1. DiskOK'
  <2>1. PICK torn \in SUBSET {DownloadOf[d] : d \in {e \in Downloads : dl[e] = "recv"}} :
         bytes' = [f \in DOMAIN bytes |->
                     IF f[1] = "meta" /\ f[2] \in torn THEN {} ELSE bytes[f]]
    BY DEF Crash
  <2>2. DOMAIN bytes = Kinds \X Hashes /\ files' = files
    BY DEF IInv, DiskOK, Crash
  <2>3. /\ bytes' \in [Kinds \X Hashes -> SUBSET Chunks]
        /\ \A f \in Kinds \X Hashes : bytes'[f] \in {bytes[f], {}}
    BY <2>1, <2>2 DEF IInv, DiskOK
  <2> QED BY <2>2, <2>3 DEF IInv, DiskOK
<1>2. EntryOK'
  BY ConstantFacts
  DEF IInv, DiskOK, EntryOK, CallsOK, ActorOK, Crash, NoEntry, Filled, Present, disk, calls,
      manifest, bounds
<1>3. CallsOK'
  BY ConstantFacts
  DEF IInv, DiskOK, EntryOK, CallsOK, ActorOK, Crash, NoEntry, Present, DlSteps, Asking,
      Streaming, Filled, disk, calls, manifest, bounds
<1>4. PinsOK'
  BY ConstantFacts DEF IInv, PinsOK, ActorOK, Crash, NoEntry, disk, calls, manifest, bounds
<1>5. BoundsOK'
  <2>1. /\ crashes + fulls < MaxFaults /\ crashes' = crashes + 1
        /\ fulls' = fulls /\ up' = FALSE
    BY DEF Crash
  <2>2. MaxFaults \in Nat
    BY CallsAssumption
  <2>3. up' \in BOOLEAN
    BY <2>1, Zenon
  <2>4. crashes' \in Nat /\ fulls' \in Nat /\ crashes' + fulls' <= MaxFaults
    BY <2>1, <2>2 DEF IInv, BoundsOK
  <2> QED BY <2>3, <2>4 DEF IInv, BoundsOK
<1>6. ActorOK'
  BY ConstantFacts
  DEF IInv, DiskOK, EntryOK, CallsOK, PinsOK, BoundsOK, ActorOK, Crash, NoEntry, Opening,
      Copying, Sweeping, TaskIsActive, ActorRecords, Steps, Idle, Present, Streaming, disk,
      calls, manifest, bounds
<1> QED
  BY <1>1, <1>2, <1>3, <1>4, <1>5, <1>6 DEF IInv

LEMMA BootKeeps == ASSUME IInv, Boot PROVE IInv'
<1>1. DiskOK'
  <2>1. files' \subseteq Kinds \X Hashes /\ files \subseteq files' /\ bytes' = bytes
    BY DEF IInv, DiskOK, Kinds, Boot
  <2> QED BY <2>1 DEF IInv, DiskOK
<1>2. EntryOK'
  <2>1. /\ entry' = [h \in Hashes |-> Scanned(h)] /\ files \subseteq files'
        /\ \A h \in Hashes : Scanned(h).state = "partial" => <<"obao", h>> \in files'
    BY DEF Boot
  <2>2. ASSUME NEW h \in Hashes
        PROVE  /\ Scanned(h) \in [state : {"none", "partial", "complete"}, field : SUBSET Chunks]
               /\ Scanned(h).field \subseteq Content[h]
               /\ Scanned(h).state = "partial" => <<"data", h>> \in files
               /\ Scanned(h).state = "complete" => Scanned(h).field = Content[h]
    <3>1. bytes[<<"meta", h>>] \in SUBSET Content[h] /\ Content[h] \in SUBSET Chunks
      BY ConstantFacts DEF IInv, DiskOK, Kinds
    <3> QED BY <3>1 DEF Scanned, NoEntry, Partial, Complete
  <2> HIDE DEF Scanned
  <2>3. entry' \in [Hashes -> [state : {"none", "partial", "complete"}, field : SUBSET Chunks]]
    BY <2>1, <2>2
  <2> QED BY <2>1, <2>2, <2>3 DEF EntryOK, Filled
<1>3. CallsOK'
  BY ConstantFacts
  DEF IInv, DiskOK, EntryOK, CallsOK, ActorOK, Boot, Scanned, NoEntry, Partial, Complete,
      Present, DlSteps, Asking, Streaming, Filled, disk, calls, manifest, bounds
<1>4. PinsOK'
  BY ConstantFacts
  DEF IInv, PinsOK, ActorOK, Boot, Scanned, NoEntry, Partial, Complete, disk, calls,
      manifest, bounds
<1>5. BoundsOK'
  BY DEF IInv, BoundsOK, Boot
<1>6. ActorOK'
  <2>1. actor = Idle /\ actor' = actor /\ up'
    BY DEF IInv, ActorOK, Boot
  <2> QED BY <2>1 DEF ActorOK, ActorRecords, Idle, Steps, Opening, Copying, Sweeping
<1> QED
  BY <1>1, <1>2, <1>3, <1>4, <1>5, <1>6 DEF IInv


-----------------------------------------------------------------------------
(* What the files hold of the blobs that no fault has spoiled.              *)

(* The chunks are on disk, but for a copy that is writing them again.       *)
Backed(h, held) ==
  /\ held \subseteq bytes[<<"data", h>>] \/ (actor.at = "copying" /\ actor.on = h)
  /\ \/ h \in Single
     \/ held \subseteq bytes[<<"obao", h>>]
     \/ actor.at = "outboard" /\ actor.on = h

(* What the copy at hand has written.                                       *)
Copied ==
  /\ actor.at \in {"copied", "outboard"} =>
       bytes[<<"data", actor.on>>] = Content[actor.on]
  /\ actor.at \in {"written", "register"} => WholeOnDisk(actor.on)

(* Whatever has failed, a blob that is not in the table has no bitfield, a  *)
(* task that finishes has a full one, and of the blobs in S a bitfield, and *)
(* a meta file but of one that is being deleted, record what is on disk.    *)
Recorded(S) ==
  /\ Copied
  /\ \A h \in Hashes : ~Present(h) => entry[h].field = {}
  /\ \A d \in Downloads : dl[d] \in {"finish", "flip"} => Filled(DownloadOf[d])
  /\ \A h \in S : /\ Backed(h, entry[h].field)
                  /\ \/ Backed(h, bytes[<<"meta", h>>])
                     \/ actor.at \in Sweeping /\ actor.on = h

(* Calls, lookups, tags and marking read the files and leave them.          *)
Moving == Sweeping \cup {"copying", "copied", "outboard", "written", "register"}

LEMMA RecordStays ==
  ASSUME IInv, NEW S \in SUBSET Hashes, Recorded(S),
         UNCHANGED <<bytes, entry, up>>,
         actor' = actor \/ (actor.at \notin Moving /\ actor'.at \notin Moving),
         \A d \in Downloads : dl'[d] \in {"finish", "flip"} => dl[d] = dl'[d]
  PROVE  Recorded(S)'
<1>1. CASE actor' = actor
  BY <1>1 DEF Recorded, Copied, WholeOnDisk, Backed, Present, Filled
<1>2. CASE actor.at \notin Moving /\ actor'.at \notin Moving
  BY <1>2 DEF Recorded, Copied, Backed, Moving, Present, Filled
<1> QED
  BY <1>1, <1>2

LEMMA FindEntryKeepsRecord ==
  ASSUME IInv, NEW S \in SUBSET Hashes, Recorded(S),
         NEW d \in Downloads, FindEntry(d)
  PROVE  Recorded(S)'
  BY RecordStays DEF IInv, CallsOK, FindEntry, Answer, disk, bounds

LEMMA OpenDataKeepsRecord ==
  ASSUME IInv, NEW S \in SUBSET Hashes, Recorded(S),
         NEW d \in Downloads, OpenData(d)
  PROVE  Recorded(S)'
  BY RecordStays
  DEF IInv, CallsOK, Moving, Sweeping, Idle, OpenData, IsAt, disk, calls, manifest, bounds

LEMMA OpenObaoKeepsRecord ==
  ASSUME IInv, NEW S \in SUBSET Hashes, Recorded(S), OpenObao
  PROVE  Recorded(S)'
<1>1. actor.at = "open obao" /\ actor'.at = "open meta"
  BY DEF IInv, ActorOK, ActorRecords, OpenObao, IsAt
<1> QED
  BY <1>1, RecordStays DEF Moving, Sweeping, OpenObao, calls, bounds

LEMMA SkipLeafKeepsRecord ==
  ASSUME IInv, NEW S \in SUBSET Hashes, Recorded(S),
         NEW d \in Downloads, NEW c \in Chunks, SkipLeaf(d, c)
  PROVE  Recorded(S)'
  BY RecordStays DEF SkipLeaf, disk, bounds

LEMMA StreamEndsKeepsRecord ==
  ASSUME IInv, NEW S \in SUBSET Hashes, Recorded(S),
         NEW d \in Downloads, StreamEnds(d)
  PROVE  Recorded(S)'
  BY RecordStays DEF StreamEnds, disk, bounds

LEMMA AwaitedKeepsRecord ==
  ASSUME IInv, NEW S \in SUBSET Hashes, Recorded(S),
         NEW d \in Downloads, Awaited(d)
  PROVE  Recorded(S)'
  BY RecordStays DEF Awaited, disk, bounds

LEMMA ReadEndsKeepsRecord ==
  ASSUME IInv, NEW S \in SUBSET Hashes, Recorded(S),
         NEW d \in Downloads, ReadEnds(d)
  PROVE  Recorded(S)'
  BY RecordStays DEF ReadEnds, Leave, disk, bounds

LEMMA BeginKeepsRecord ==
  ASSUME IInv, NEW S \in SUBSET Hashes, Recorded(S),
         NEW d \in Downloads, Begin(d)
  PROVE  Recorded(S)'
  BY RecordStays DEF Begin, disk, bounds

LEMMA FailsKeepsRecord ==
  ASSUME IInv, NEW S \in SUBSET Hashes, Recorded(S),
         NEW d \in Downloads, Fails(d)
  PROVE  Recorded(S)'
  BY RecordStays DEF Fails, Leave, disk, bounds

LEMMA CancelKeepsRecord ==
  ASSUME IInv, NEW S \in SUBSET Hashes, Recorded(S),
         NEW d \in Downloads, Cancel(d)
  PROVE  Recorded(S)'
  BY RecordStays DEF Cancel, Leave, disk, bounds

LEMMA DiscardKeepsRecord ==
  ASSUME IInv, NEW S \in SUBSET Hashes, Recorded(S),
         NEW d \in Downloads, Discard(d)
  PROVE  Recorded(S)'
  BY RecordStays DEF Discard, Leave, disk, bounds

LEMMA StartImportKeepsRecord ==
  ASSUME IInv, NEW S \in SUBSET Hashes, Recorded(S),
         NEW i \in Imports, StartImport(i)
  PROVE  Recorded(S)'
  BY RecordStays DEF StartImport, disk, bounds

LEMMA PinKeepsRecord ==
  ASSUME IInv, NEW S \in SUBSET Hashes, Recorded(S), NEW i \in Imports, Pin(i)
  PROVE  Recorded(S)'
  BY RecordStays DEF Pin, disk, bounds

LEMMA ReleaseKeepsRecord ==
  ASSUME IInv, NEW S \in SUBSET Hashes, Recorded(S),
         NEW i \in Imports, Release(i)
  PROVE  Recorded(S)'
  BY RecordStays DEF Release, disk, bounds

LEMMA DedupKeepsRecord ==
  ASSUME IInv, NEW S \in SUBSET Hashes, Recorded(S), NEW i \in Imports, Dedup(i)
  PROVE  Recorded(S)'
  BY RecordStays DEF Dedup, disk, bounds

LEMMA OpenForCopyKeepsRecord ==
  ASSUME IInv, NEW S \in SUBSET Hashes, Recorded(S),
         NEW i \in Imports, OpenForCopy(i)
  PROVE  Recorded(S)'
  BY RecordStays
  DEF IInv, CallsOK, Moving, Sweeping, Idle, OpenForCopy, IsAt, disk, calls, manifest,
      bounds

LEMMA SetTagKeepsRecord ==
  ASSUME IInv, NEW S \in SUBSET Hashes, Recorded(S), NEW h \in Hashes, SetTag(h)
  PROVE  Recorded(S)'
  BY RecordStays
  DEF IInv, CallsOK, Moving, Sweeping, Idle, SetTag, IsAt, disk, calls, manifest, bounds

LEMMA DeleteTagKeepsRecord ==
  ASSUME IInv, NEW S \in SUBSET Hashes, Recorded(S),
         NEW h \in Hashes, DeleteTag(h)
  PROVE  Recorded(S)'
  BY RecordStays
  DEF IInv, CallsOK, Moving, Sweeping, Idle, DeleteTag, IsAt, disk, calls, manifest, bounds

LEMMA EmptyManifestKeepsRecord ==
  ASSUME IInv, NEW S \in SUBSET Hashes, Recorded(S), EmptyManifest
  PROVE  Recorded(S)'
  BY RecordStays
  DEF IInv, CallsOK, Moving, Sweeping, Idle, EmptyManifest, IsAt, disk, calls, manifest,
      bounds

LEMMA WriteManifestKeepsRecord ==
  ASSUME IInv, NEW S \in SUBSET Hashes, Recorded(S), WriteManifest
  PROVE  Recorded(S)'
  BY RecordStays
  DEF IInv, CallsOK, Moving, Sweeping, Idle, WriteManifest, IsAt, disk, calls, manifest,
      bounds

LEMMA MarkKeepsRecord ==
  ASSUME IInv, NEW S \in SUBSET Hashes, Recorded(S), Mark
  PROVE  Recorded(S)'
  BY RecordStays
  DEF IInv, CallsOK, Moving, Sweeping, Idle, Mark, Named, Marked, IsAt, Expanded, disk,
      calls, manifest, bounds

LEMMA SweptKeepsRecord ==
  ASSUME IInv, NEW S \in SUBSET Hashes, Recorded(S), Swept
  PROVE  Recorded(S)'
  BY RecordStays
  DEF IInv, CallsOK, Moving, Sweeping, Idle, Swept, IsAt, disk, calls, manifest, bounds

(* Files that only grow back what is recorded.                              *)
LEMMA BackedGrows ==
  ASSUME NEW h, NEW held, Backed(h, held), actor' = actor,
         bytes[<<"data", h>>] \subseteq bytes'[<<"data", h>>],
         bytes[<<"obao", h>>] \subseteq bytes'[<<"obao", h>>]
  PROVE  Backed(h, held)'
  BY DEF Backed

LEMMA FilesAreIndices ==
  \A k \in Kinds, h \in Hashes : <<k, h>> \in Kinds \X Hashes
  OBVIOUS

LEMMA ParentsKeepsRecord ==
  ASSUME IInv, IInv', NEW S \in SUBSET Hashes, Recorded(S),
         NEW d \in Downloads, NEW c \in Chunks, Parents(d, c)
  PROVE  Recorded(S)'
<1>1. \A h \in Hashes : /\ bytes'[<<"data", h>>] = bytes[<<"data", h>>]
                        /\ bytes'[<<"meta", h>>] = bytes[<<"meta", h>>]
                        /\ bytes[<<"obao", h>>] \subseteq bytes'[<<"obao", h>>]
  <2> DEFINE f == <<"obao", DownloadOf[d]>>
  <2>1. f \in Kinds \X Hashes /\ bytes' = [bytes EXCEPT ![f] = bytes[f] \cup {c}]
    BY ConstantFacts DEF Parents, Kinds
  <2> QED BY <2>1, FilesAreIndices DEF IInv, DiskOK, Kinds
<1>2. UNCHANGED <<entry, actor, dl, up>> /\ ~Unbroken
  BY DEF Parents, Receives, Running, calls, bounds
<1>3. Copied'
  <2>1. actor.at \in {"written", "register", "copied"} => actor.on \in Hashes
    BY DEF IInv, ActorOK, Copying
  <2>2. \A h \in Hashes : bytes'[<<"obao", h>>] \subseteq Content[h]
    BY DEF IInv, DiskOK, Kinds
  <2> QED BY <1>1, <1>2, <2>1, <2>2 DEF Recorded, Copied, WholeOnDisk, Unbroken
<1> QED
  BY <1>1, <1>2, <1>3, BackedGrows DEF Recorded, Present, Filled

(* A leaf is recorded after it and its parents are written.                 *)
LEMMA WrittenLeaf ==
  ASSUME IInv, IInv', NEW S \in SUBSET Hashes, Recorded(S),
         NEW h \in Hashes, NEW c, NEW recorded,
         recorded \in {{}, entry[h].field \cup {c}},
         h \in Single \/ c \in bytes[<<"obao", h>>],
         entry[h].state = "partial", ~Unbroken, UNCHANGED <<actor, up>>,
         WriteLeaf(h, c, recorded),
         \A d \in Downloads : dl'[d] \in {"finish", "flip"} => Filled(DownloadOf[d])'
  PROVE  Recorded(S)'
<1>1. /\ bytes'[<<"data", h>>] = bytes[<<"data", h>>] \cup {c}
      /\ bytes'[<<"meta", h>>] = recorded
      /\ \A g \in Hashes : bytes'[<<"obao", g>>] = bytes[<<"obao", g>>]
      /\ \A g \in Hashes \ {h} : /\ bytes'[<<"data", g>>] = bytes[<<"data", g>>]
                                 /\ bytes'[<<"meta", g>>] = bytes[<<"meta", g>>]
  <2> DEFINE f == <<"data", h>>
             m == <<"meta", h>>
  <2>1. f \in Kinds \X Hashes /\ m \in Kinds \X Hashes /\ f # m
    BY DEF Kinds
  <2>2. bytes' = [[bytes EXCEPT ![f] = bytes[f] \cup {c}] EXCEPT ![m] = recorded]
    BY <2>1 DEF WriteLeaf, IInv, DiskOK
  <2>3. /\ bytes'[f] = bytes[f] \cup {c} /\ bytes'[m] = recorded
        /\ \A g \in (Kinds \X Hashes) \ {f, m} : bytes'[g] = bytes[g]
    BY <2>1, <2>2 DEF IInv, DiskOK
  <2> QED BY <2>3, FilesAreIndices DEF Kinds
<1>2. /\ entry'[h].field = entry[h].field \cup {c} /\ entry'[h].state = "partial"
      /\ \A g \in Hashes \ {h} : entry'[g] = entry[g]
  BY DEF WriteLeaf, IInv, EntryOK
<1>3. Copied'
  <2>1. actor.at \in {"written", "register", "copied"} => actor.on \in Hashes
    BY DEF IInv, ActorOK, Copying
  <2>2. ASSUME NEW g \in Hashes, bytes[<<"data", g>>] = Content[g]
        PROVE  bytes'[<<"data", g>>] = Content[g]
    <3>1. bytes'[<<"data", g>>] \subseteq Content[g]
      BY DEF IInv, DiskOK, Kinds
    <3> QED BY <1>1, <2>2, <3>1
  <2> QED BY <1>1, <2>1, <2>2 DEF Recorded, Copied, WholeOnDisk, Unbroken
<1>4. ASSUME h \in S
      PROVE  Backed(h, entry[h].field)' /\ Backed(h, bytes[<<"meta", h>>])'
  <2>1. Backed(h, entry[h].field)
    BY <1>4 DEF Recorded
  <2>2. Backed(h, entry[h].field)'
    BY <1>1, <1>2, <2>1 DEF Backed, Unbroken
  <2>3. bytes'[<<"meta", h>>] \subseteq entry'[h].field
    BY <1>1, <1>2
  <2> QED BY <2>2, <2>3 DEF Backed
<1>5. ASSUME NEW g \in S, g # h
      PROVE  /\ Backed(g, entry[g].field)'
             /\ Backed(g, bytes[<<"meta", g>>])' \/ (actor'.at \in Sweeping /\ actor'.on = g)
  <2>1. g \in Hashes \ {h} /\ entry'[g] = entry[g]
    BY <1>2, <1>5
  <2>2. Backed(g, entry[g].field)'
    BY <1>1, <2>1 DEF Recorded, Backed
  <2>3. Backed(g, bytes[<<"meta", g>>])' \/ (actor'.at \in Sweeping /\ actor'.on = g)
    BY <1>1, <2>1 DEF Recorded, Backed
  <2> QED BY <2>2, <2>3
<1>6. \A g \in Hashes : ~Present(g)' => entry'[g].field = {}
  BY <1>2 DEF Recorded, Present
<1> QED
  BY <1>3, <1>4, <1>5, <1>6 DEF Recorded

LEMMA LeafKeepsRecord ==
  ASSUME IInv, IInv', NEW S \in SUBSET Hashes, Recorded(S),
         NEW d \in Downloads, NEW c \in Chunks, Leaf(d, c)
  PROVE  Recorded(S)'
<1>1. ASSUME NEW h \in Hashes, Filled(h) PROVE Filled(h)'
  <2>1. /\ DownloadOf[d] \in Hashes /\ c \in Content[DownloadOf[d]]
        /\ entry' = [entry EXCEPT ![DownloadOf[d]].field = @ \cup {c}]
    BY ConstantFacts DEF IInv, CallsOK, Leaf, WriteLeaf
  <2> QED BY <1>1, <2>1 DEF IInv, EntryOK, Filled
<1>2. \A e \in Downloads : dl'[e] \in {"finish", "flip"} => Filled(DownloadOf[e])'
  BY <1>1, ConstantFacts DEF Recorded, IInv, CallsOK, Leaf
<1> QED
  BY <1>2, ConstantFacts, WrittenLeaf DEF Leaf, Receives, Running, bounds

LEMMA LeafFailsKeepsRecord ==
  ASSUME IInv, IInv', NEW S \in SUBSET Hashes, Recorded(S),
         NEW d \in Downloads, NEW c \in Chunks, LeafFails(d, c)
  PROVE  Recorded(S)'
<1>1. ASSUME NEW h \in Hashes, Filled(h) PROVE Filled(h)'
  <2>1. /\ DownloadOf[d] \in Hashes /\ c \in Content[DownloadOf[d]]
        /\ entry' = [entry EXCEPT ![DownloadOf[d]].field = @ \cup {c}]
    BY ConstantFacts DEF IInv, CallsOK, LeafFails, WriteLeaf
  <2> QED BY <1>1, <2>1 DEF IInv, EntryOK, Filled
<1>2. \A e \in Downloads : dl'[e] \in {"finish", "flip"} => Filled(DownloadOf[e])'
  BY <1>1, ConstantFacts DEF Recorded, LeafFails, Leave
<1> QED
  BY <1>2, ConstantFacts, WrittenLeaf DEF LeafFails, Receives, Running, bounds

(* A meta file that is emptied records nothing.                             *)
LEMMA MetaIsEmptied ==
  ASSUME IInv, NEW h \in Hashes, bytes' = [bytes EXCEPT ![<<"meta", h>>] = {}]
  PROVE  /\ bytes'[<<"meta", h>>] = {}
         /\ \A g \in Hashes : /\ bytes'[<<"data", g>>] = bytes[<<"data", g>>]
                              /\ bytes'[<<"obao", g>>] = bytes[<<"obao", g>>]
                              /\ g # h => bytes'[<<"meta", g>>] = bytes[<<"meta", g>>]
<1>1. <<"meta", h>> \in Kinds \X Hashes
  BY DEF Kinds
<1> QED
  BY <1>1, FilesAreIndices DEF IInv, DiskOK, Kinds

LEMMA DropMetaKeepsRecord ==
  ASSUME IInv, IInv', NEW S \in SUBSET Hashes, Recorded(S),
         NEW d \in Downloads, DropMeta(d)
  PROVE  Recorded(S)'
<1> DEFINE h == DownloadOf[d]
<1>1. /\ bytes'[<<"meta", h>>] = {}
      /\ \A g \in Hashes : /\ bytes'[<<"data", g>>] = bytes[<<"data", g>>]
                           /\ bytes'[<<"obao", g>>] = bytes[<<"obao", g>>]
                           /\ g # h => bytes'[<<"meta", g>>] = bytes[<<"meta", g>>]
  BY ConstantFacts, MetaIsEmptied DEF DropMeta
<1>2. UNCHANGED <<entry, actor, up>>
  BY DEF DropMeta, bounds
<1>3. \A e \in Downloads : dl'[e] \in {"finish", "flip"} => dl[e] \in {"finish", "flip"}
  BY DEF IInv, CallsOK, DropMeta
<1>4. Copied'
  <2>1. actor.at \in {"written", "register", "copied", "outboard"} => actor.on \in Hashes
    BY DEF IInv, ActorOK, Copying
  <2> QED BY <1>1, <1>2, <2>1 DEF Recorded, Copied, WholeOnDisk
<1>5. ASSUME NEW g \in S
      PROVE  /\ Backed(g, entry[g].field)'
             /\ Backed(g, bytes[<<"meta", g>>])' \/ (actor'.at \in Sweeping /\ actor'.on = g)
  BY <1>1, <1>2 DEF Recorded, Backed
<1> QED
  BY <1>2, <1>3, <1>4, <1>5 DEF Recorded, Present, Filled

LEMMA FlipKeepsRecord ==
  ASSUME IInv, IInv', NEW S \in SUBSET Hashes, Recorded(S),
         NEW d \in Downloads, Flip(d)
  PROVE  Recorded(S)'
<1> DEFINE h == DownloadOf[d]
<1>1. h \in Hashes /\ entry[h].field = Content[h]
  BY ConstantFacts DEF Recorded, Filled, Flip
<1>2. UNCHANGED <<bytes, actor, up>>
  BY DEF Flip, bounds
<1>3. /\ \A g \in Hashes : entry'[g].field = entry[g].field
      /\ \A g \in Hashes : ~Present(g)' => ~Present(g)
  BY <1>1 DEF Present, Complete, Flip
<1>4. \A e \in Downloads : dl'[e] \in {"finish", "flip"} => dl[e] \in {"finish", "flip"}
  BY DEF IInv, CallsOK, Flip
<1>5. Copied' /\ \A g, held : Backed(g, held)' <=> Backed(g, held)
  BY <1>2 DEF Recorded, Copied, WholeOnDisk, Backed
<1> QED
  BY <1>2, <1>3, <1>4, <1>5, ConstantFacts DEF Recorded, Filled

LEMMA OpenMetaKeepsRecord ==
  ASSUME IInv, IInv', NEW S \in SUBSET Hashes, Recorded(S), OpenMeta
  PROVE  Recorded(S)'
<1> DEFINE h == actor.on
<1>1. h \in Hashes /\ ~Present(h) /\ actor.at = "open meta"
  BY ConstantFacts DEF IInv, ActorOK, Opening, OpenMeta, IsAt
<1>2. /\ entry'[h].field = bytes[<<"meta", h>>] /\ entry'[h].state = "partial"
      /\ \A g \in Hashes \ {h} : entry'[g] = entry[g]
  BY <1>1 DEF IInv, EntryOK, Partial, OpenMeta
<1>3. UNCHANGED <<bytes, up>> /\ actor'.at = "idle"
  BY DEF OpenMeta, Idle, bounds
<1>4. \A g \in S : Backed(g, entry[g].field)' /\ Backed(g, bytes[<<"meta", g>>])'
  BY <1>1, <1>2, <1>3 DEF Recorded, Backed, Sweeping
<1>5. ASSUME NEW e \in Downloads, dl'[e] \in {"finish", "flip"}
      PROVE  Filled(DownloadOf[e])'
  <2>1. dl[e] \in {"finish", "flip"}
    BY <1>5 DEF IInv, CallsOK, Answer, Asking, OpenMeta
  <2>2. DownloadOf[e] \in Hashes \ {h}
    BY <1>1, <2>1, ConstantFacts DEF IInv, CallsOK, Streaming
  <2> QED BY <1>2, <2>1, <2>2 DEF Recorded, Filled
<1> QED
  BY <1>2, <1>3, <1>4, <1>5 DEF Recorded, Copied, Present

(* The steps of a copy write one file of the blob at hand.                  *)
LEMMA OneFileWritten ==
  ASSUME IInv, NEW k \in Kinds, NEW h \in Hashes, NEW held,
         bytes' = [bytes EXCEPT ![<<k, h>>] = held]
  PROVE  /\ bytes'[<<k, h>>] = held
         /\ \A l \in Kinds, g \in Hashes :
              l # k \/ g # h => bytes'[<<l, g>>] = bytes[<<l, g>>]
<1>1. <<k, h>> \in Kinds \X Hashes
  OBVIOUS
<1> QED
  BY <1>1, FilesAreIndices DEF IInv, DiskOK

LEMMA TruncateKeepsRecord ==
  ASSUME IInv, IInv', NEW S \in SUBSET Hashes, Recorded(S), Truncate
  PROVE  Recorded(S)'
<1> DEFINE h == actor.on
<1>1. /\ h \in Hashes /\ bytes' = [bytes EXCEPT ![<<"data", h>>] = {}]
      /\ actor.at = "opened" /\ actor'.at = "copying" /\ actor'.on = h
      /\ UNCHANGED <<entry, dl, up>>
  BY DEF IInv, ActorOK, Copying, Truncate, IsAt, calls, bounds
<1> HIDE DEF h
<1>2. \A l \in Kinds, g \in Hashes :
        l # "data" \/ g # h => bytes'[<<l, g>>] = bytes[<<l, g>>]
  BY <1>1, OneFileWritten DEF Kinds
<1>3. ASSUME NEW g \in S
      PROVE  Backed(g, entry[g].field)' /\ Backed(g, bytes[<<"meta", g>>])'
  BY <1>1, <1>2 DEF Recorded, Backed, Sweeping, Kinds
<1> QED
  BY <1>1, <1>3 DEF Recorded, Copied, Present, Filled

LEMMA CopyKeepsRecord ==
  ASSUME IInv, IInv', NEW S \in SUBSET Hashes, Recorded(S), Copy
  PROVE  Recorded(S)'
<1> DEFINE h == actor.on
<1>1. /\ h \in Hashes /\ bytes' = [bytes EXCEPT ![<<"data", h>>] = Content[h]]
      /\ actor.at = "copying" /\ actor'.on = h
      /\ actor'.at = IF h \in Single THEN "written" ELSE "copied"
      /\ UNCHANGED <<entry, dl, up>>
  BY DEF IInv, ActorOK, Copying, Copy, IsAt, calls, bounds
<1> HIDE DEF h
<1>2. /\ bytes'[<<"data", h>>] = Content[h]
      /\ \A l \in Kinds, g \in Hashes :
           l # "data" \/ g # h => bytes'[<<l, g>>] = bytes[<<l, g>>]
  BY <1>1, OneFileWritten DEF Kinds
<1>3. entry[h].field \subseteq Content[h] /\ bytes[<<"meta", h>>] \subseteq Content[h]
  BY <1>1 DEF IInv, EntryOK, DiskOK, Kinds
<1>4. ASSUME NEW g \in S
      PROVE  Backed(g, entry[g].field)' /\ Backed(g, bytes[<<"meta", g>>])'
  <2>1. CASE g = h
    <3>1. Backed(h, entry[h].field) /\ Backed(h, bytes[<<"meta", h>>])
      BY <1>1, <2>1 DEF Recorded, Sweeping
    <3>2. /\ entry' = entry /\ bytes'[<<"obao", h>>] = bytes[<<"obao", h>>]
          /\ bytes'[<<"meta", h>>] = bytes[<<"meta", h>>]
      BY <1>1, <1>2 DEF Kinds
    <3> QED BY <1>1, <1>2, <1>3, <2>1, <3>1, <3>2 DEF Backed
  <2>2. CASE g # h
    BY <1>1, <1>2, <2>2 DEF Recorded, Backed, Kinds, h
  <2> QED BY <2>1, <2>2
<1> QED
  BY <1>1, <1>2, <1>4 DEF Recorded, Copied, WholeOnDisk, Present, Filled

LEMMA OpenOutboardKeepsRecord ==
  ASSUME IInv, IInv', NEW S \in SUBSET Hashes, Recorded(S), OpenOutboard
  PROVE  Recorded(S)'
<1> DEFINE h == actor.on
<1>1. /\ h \in Hashes /\ bytes' = [bytes EXCEPT ![<<"obao", h>>] = {}]
      /\ actor.at = "copied" /\ actor'.on = h /\ actor'.at = "outboard"
      /\ UNCHANGED <<entry, dl, up>>
  BY DEF IInv, ActorOK, Copying, OpenOutboard, IsAt, calls, bounds
<1> HIDE DEF h
<1>2. \A l \in Kinds, g \in Hashes :
        l # "obao" \/ g # h => bytes'[<<l, g>>] = bytes[<<l, g>>]
  BY <1>1, OneFileWritten DEF Kinds
<1>3. ASSUME NEW g \in S
      PROVE  Backed(g, entry[g].field)' /\ Backed(g, bytes[<<"meta", g>>])'
  BY <1>1, <1>2 DEF Recorded, Backed, Sweeping, Kinds
<1>4. bytes'[<<"data", h>>] = Content[h]
  BY <1>1, <1>2 DEF Recorded, Copied, Kinds, h
<1> QED
  BY <1>1, <1>3, <1>4 DEF Recorded, Copied, Present, Filled

LEMMA CopyOutboardKeepsRecord ==
  ASSUME IInv, IInv', NEW S \in SUBSET Hashes, Recorded(S), CopyOutboard
  PROVE  Recorded(S)'
<1> DEFINE h == actor.on
<1>1. /\ h \in Hashes /\ bytes' = [bytes EXCEPT ![<<"obao", h>>] = Content[h]]
      /\ actor.at = "outboard" /\ actor'.on = h /\ actor'.at = "written"
      /\ UNCHANGED <<entry, dl, up>>
  BY DEF IInv, ActorOK, Copying, CopyOutboard, IsAt, calls, bounds
<1>2. bytes[<<"data", h>>] = Content[h]
  BY <1>1 DEF Recorded, Copied
<1> HIDE DEF h
<1>3. /\ bytes'[<<"obao", h>>] = Content[h] /\ bytes'[<<"data", h>>] = Content[h]
      /\ \A l \in Kinds, g \in Hashes :
           l # "obao" \/ g # h => bytes'[<<l, g>>] = bytes[<<l, g>>]
  <2>1. "obao" \in Kinds /\ "data" \in Kinds
    BY DEF Kinds
  <2>2. /\ bytes'[<<"obao", h>>] = Content[h]
        /\ \A l \in Kinds, g \in Hashes :
             l # "obao" \/ g # h => bytes'[<<l, g>>] = bytes[<<l, g>>]
    BY <1>1, <2>1, OneFileWritten
  <2> QED BY <1>1, <1>2, <2>1, <2>2
<1>4. entry[h].field \subseteq Content[h] /\ bytes[<<"meta", h>>] \subseteq Content[h]
  BY <1>1 DEF IInv, EntryOK, DiskOK, Kinds
<1>5. ASSUME NEW g \in S
      PROVE  Backed(g, entry[g].field)' /\ Backed(g, bytes[<<"meta", g>>])'
  <2>1. CASE g = h
    BY <1>1, <1>3, <1>4, <2>1 DEF Backed, Kinds
  <2>2. CASE g # h
    BY <1>1, <1>3, <2>2 DEF Recorded, Backed, Kinds, h
  <2> QED BY <2>1, <2>2
<1> QED
  BY <1>1, <1>3, <1>5 DEF Recorded, Copied, WholeOnDisk, Present, Filled

LEMMA DropStaleMetaKeepsRecord ==
  ASSUME IInv, IInv', NEW S \in SUBSET Hashes, Recorded(S), DropStaleMeta
  PROVE  Recorded(S)'
<1> DEFINE h == actor.on
<1>1. /\ h \in Hashes /\ bytes' = [bytes EXCEPT ![<<"meta", h>>] = {}]
      /\ actor.at = "written" /\ actor'.on = h /\ actor'.at = "register"
      /\ UNCHANGED <<entry, dl, up>>
  BY DEF IInv, ActorOK, Copying, DropStaleMeta, IsAt, calls, bounds
<1>2. WholeOnDisk(h)
  BY <1>1 DEF Recorded, Copied
<1> HIDE DEF h
<1>3. /\ bytes'[<<"meta", h>>] = {}
      /\ \A g \in Hashes : /\ bytes'[<<"data", g>>] = bytes[<<"data", g>>]
                           /\ bytes'[<<"obao", g>>] = bytes[<<"obao", g>>]
                           /\ g # h => bytes'[<<"meta", g>>] = bytes[<<"meta", g>>]
  BY <1>1, MetaIsEmptied
<1>4. ASSUME NEW g \in S
      PROVE  Backed(g, entry[g].field)' /\ Backed(g, bytes[<<"meta", g>>])'
  BY <1>1, <1>3 DEF Recorded, Backed, Sweeping
<1> QED
  BY <1>1, <1>2, <1>3, <1>4 DEF Recorded, Copied, WholeOnDisk, Present, Filled

LEMMA RegisterKeepsRecord ==
  ASSUME IInv, IInv', NEW S \in SUBSET Hashes, Recorded(S), Register
  PROVE  Recorded(S)'
<1> DEFINE h == actor.on
<1>1. /\ h \in Hashes /\ entry' = [entry EXCEPT ![h] = Complete(h)]
      /\ actor.at = "register" /\ actor'.at = "idle"
      /\ UNCHANGED <<bytes, dl, up>>
  BY DEF IInv, ActorOK, Copying, Register, IsAt, Idle, disk, bounds
<1>2. WholeOnDisk(h)
  BY <1>1 DEF Recorded, Copied
<1> HIDE DEF h
<1>3. /\ entry'[h].field = Content[h] /\ entry'[h].state = "complete"
      /\ \A g \in Hashes \ {h} : entry'[g] = entry[g]
  BY <1>1 DEF IInv, EntryOK, Complete
<1>4. ASSUME NEW g \in S
      PROVE  Backed(g, entry[g].field)' /\ Backed(g, bytes[<<"meta", g>>])'
  <2>1. Backed(g, bytes[<<"meta", g>>])'
    BY <1>1 DEF Recorded, Backed, Sweeping
  <2>2. CASE g = h
    BY <1>1, <1>2, <1>3, <2>1, <2>2 DEF Backed, WholeOnDisk
  <2>3. CASE g # h
    BY <1>1, <1>3, <2>1, <2>3 DEF Recorded, Backed
  <2> QED BY <2>2, <2>3
<1> QED
  BY <1>1, <1>3, <1>4, ConstantFacts DEF Recorded, Copied, Present, Filled

(* What is deleted is out of the table first.                               *)
LEMMA SweepKeepsRecord ==
  ASSUME IInv, IInv', NEW S \in SUBSET Hashes, Recorded(S),
         NEW h \in Hashes, Sweep(h)
  PROVE  Recorded(S)'
<1>1. /\ bytes' = [bytes EXCEPT ![<<"data", h>>] = {}]
      /\ entry' = [entry EXCEPT ![h] = NoEntry]
      /\ actor.at = "sweep" /\ actor'.at = "sweep obao" /\ actor'.on = h
      /\ up' = up
  BY DEF IInv, ActorOK, ActorRecords, Sweep, IsAt, bounds
<1>2. /\ entry'[h] = NoEntry /\ \A g \in Hashes \ {h} : entry'[g] = entry[g]
  BY <1>1 DEF IInv, EntryOK
<1>3. \A l \in Kinds, g \in Hashes :
        l # "data" \/ g # h => bytes'[<<l, g>>] = bytes[<<l, g>>]
  BY <1>1, OneFileWritten DEF Kinds
<1>4. \A d \in Downloads : dl'[d] \notin {"finish", "flip"}
  <2>1. \A d \in Downloads : dl[d] \notin {"finish", "flip"}
    BY <1>1 DEF IInv, ActorOK, TaskIsActive
  <2> QED BY <2>1 DEF Sweep
<1>5. ASSUME NEW g \in S
      PROVE  Backed(g, entry[g].field)' /\ (g # h => Backed(g, bytes[<<"meta", g>>])')
  <2>1. CASE g = h
    BY <1>2, <2>1 DEF Backed, NoEntry
  <2>2. CASE g # h
    BY <1>1, <1>2, <1>3, <2>2 DEF Recorded, Backed, Sweeping, Kinds
  <2> QED BY <2>1, <2>2
<1>6. \A g \in Hashes : ~Present(g)' => entry'[g].field = {}
  BY <1>2 DEF Recorded, NoEntry, Present
<1> QED
  BY <1>1, <1>4, <1>5, <1>6 DEF Recorded, Copied, Sweeping

LEMMA SweepObaoKeepsRecord ==
  ASSUME IInv, IInv', NEW S \in SUBSET Hashes, Recorded(S), SweepObao
  PROVE  Recorded(S)'
<1> DEFINE h == actor.on
<1>1. /\ h \in Hashes /\ bytes' = [bytes EXCEPT ![<<"obao", h>>] = {}] /\ ~Present(h)
      /\ actor.at = "sweep obao" /\ actor'.on = h /\ actor'.at = "sweep meta"
      /\ UNCHANGED <<entry, dl, up>>
  BY DEF IInv, ActorOK, ActorRecords, Sweeping, SweepObao, IsAt, calls, bounds
<1> HIDE DEF h
<1>2. \A l \in Kinds, g \in Hashes :
        l # "obao" \/ g # h => bytes'[<<l, g>>] = bytes[<<l, g>>]
  BY <1>1, OneFileWritten DEF Kinds
<1>3. ASSUME NEW g \in S
      PROVE  Backed(g, entry[g].field)' /\ (g # h => Backed(g, bytes[<<"meta", g>>])')
  <2>1. CASE g = h
    <3>1. entry[g].field = {}
      BY <1>1, <2>1 DEF Recorded
    <3> QED BY <1>1, <2>1, <3>1 DEF Backed
  <2>2. CASE g # h
    BY <1>1, <1>2, <2>2 DEF Recorded, Backed, Sweeping, Kinds, h
  <2> QED BY <2>1, <2>2
<1> QED
  BY <1>1, <1>3 DEF Recorded, Copied, Present, Filled, Sweeping

LEMMA SweepMetaKeepsRecord ==
  ASSUME IInv, IInv', NEW S \in SUBSET Hashes, Recorded(S), SweepMeta
  PROVE  Recorded(S)'
<1> DEFINE h == actor.on
<1>1. /\ h \in Hashes /\ bytes' = [bytes EXCEPT ![<<"meta", h>>] = {}]
      /\ actor.at = "sweep meta" /\ actor'.at = "sweep"
      /\ UNCHANGED <<entry, dl, up>>
  BY DEF IInv, ActorOK, ActorRecords, Sweeping, SweepMeta, IsAt, calls, bounds
<1>2. \A g \in S \ {h} : Backed(g, bytes[<<"meta", g>>])
  BY DEF Recorded
<1> HIDE DEF h
<1>3. /\ bytes'[<<"meta", h>>] = {}
      /\ \A g \in Hashes : /\ bytes'[<<"data", g>>] = bytes[<<"data", g>>]
                           /\ bytes'[<<"obao", g>>] = bytes[<<"obao", g>>]
                           /\ g # h => bytes'[<<"meta", g>>] = bytes[<<"meta", g>>]
  BY <1>1, MetaIsEmptied
<1>4. ASSUME NEW g \in S
      PROVE  Backed(g, entry[g].field)' /\ Backed(g, bytes[<<"meta", g>>])'
  BY <1>1, <1>2, <1>3 DEF Recorded, Backed
<1> QED
  BY <1>1, <1>4 DEF Recorded, Copied, Present, Filled

(* A data file without a meta file is what the scan of a later run takes    *)
(* for a complete blob: of the blobs in S it is whole, but for the one whose *)
(* files the actor opens or copies into.                                    *)
Scannable(S) ==
  \A h \in S : <<"data", h>> \in files /\ <<"meta", h>> \notin files =>
    WholeOnDisk(h) \/ (actor.at \in Opening \cup Copying /\ actor.on = h)

(* What the actor has in hand, and only while it has: a copy is registered  *)
(* once its meta file is gone.                                              *)
InHand ==
  /\ actor.on # None => actor.at \in Opening \cup Copying \cup Sweeping
  /\ actor.at = "register" => <<"meta", actor.on>> \notin files

(* Of the blobs in S the next start will find what the table says.          *)
Restartable(S) == InHand /\ \A h \in S : Lasting(h)

(* What outlives every step but a fault.                                    *)
Sound(S) == Recorded(S) /\ Scannable(S) /\ Restartable(S)

LEMMA ScanStays ==
  ASSUME NEW S, Scannable(S),
         \A h \in S : <<"data", h>> \in files' /\ <<"meta", h>> \notin files' =>
           <<"data", h>> \in files /\ <<"meta", h>> \notin files,
         \A h \in S : WholeOnDisk(h) => WholeOnDisk(h)',
         actor' = actor \/ actor.at \notin Opening \cup Copying
  PROVE  Scannable(S)'
  BY DEF Scannable

LEMMA DiskKeepsScan ==
  ASSUME NEW S, Scannable(S), UNCHANGED disk,
         actor' = actor \/ actor.at \notin Opening \cup Copying
  PROVE  Scannable(S)'
  BY ScanStays DEF disk, WholeOnDisk

(* What a stream writes is added to the files.                              *)
LEMMA StreamKeepsScan ==
  ASSUME IInv, IInv', NEW S \in SUBSET Hashes, Scannable(S),
         NEW d \in Downloads, NEW c \in Chunks,
         Parents(d, c) \/ Leaf(d, c) \/ LeafFails(d, c)
  PROVE  Scannable(S)'
<1> DEFINE h == DownloadOf[d]
<1>1. files' = files /\ actor' = actor /\ h \in Hashes
  BY ConstantFacts DEF Parents, Leaf, LeafFails, WriteLeaf
<1>2. ASSUME NEW g \in Hashes
      PROVE  /\ bytes[<<"data", g>>] \subseteq bytes'[<<"data", g>>]
             /\ bytes[<<"obao", g>>] \subseteq bytes'[<<"obao", g>>]
  <2>1. CASE Parents(d, c)
    <3>1. bytes' = [bytes EXCEPT ![<<"obao", h>>] = @ \cup {c}]
      BY <2>1 DEF Parents
    <3> HIDE DEF h
    <3> QED BY <1>1, <3>1 DEF IInv, DiskOK, Kinds
  <2>2. CASE Leaf(d, c) \/ LeafFails(d, c)
    <3>1. PICK recorded : bytes' = [bytes EXCEPT ![<<"data", h>>] = @ \cup {c},
                                                 ![<<"meta", h>>] = recorded]
      BY <2>2 DEF Leaf, LeafFails, WriteLeaf
    <3> HIDE DEF h
    <3> QED BY <1>1, <3>1 DEF IInv, DiskOK, Kinds
  <2> QED BY <2>1, <2>2
<1>3. ASSUME NEW g \in Hashes
      PROVE  bytes'[<<"data", g>>] \subseteq Content[g] /\ bytes'[<<"obao", g>>] \subseteq Content[g]
  BY DEF IInv, DiskOK, Kinds
<1>4. \A g \in Hashes : WholeOnDisk(g) => WholeOnDisk(g)'
  BY <1>2, <1>3 DEF WholeOnDisk
<1> QED
  BY <1>1, <1>4, ScanStays

(* The meta file goes when the bitfield is full, and its chunks are there.  *)
LEMMA DropMetaKeepsScan ==
  ASSUME IInv, IInv', NEW S \in SUBSET Hashes, Recorded(S), Scannable(S),
         NEW d \in Downloads, DropMeta(d)
  PROVE  Scannable(S)'
<1> DEFINE h == DownloadOf[d]
<1>1. /\ h \in Hashes /\ entry[h].field = Content[h]
      /\ bytes' = [bytes EXCEPT ![<<"meta", h>>] = {}]
      /\ files' = files \ {<<"meta", h>>} /\ actor' = actor
  BY ConstantFacts DEF DropMeta, Recorded, Filled
<1>2. \A g \in Hashes : /\ bytes'[<<"data", g>>] = bytes[<<"data", g>>]
                        /\ bytes'[<<"obao", g>>] = bytes[<<"obao", g>>]
  BY <1>1, MetaIsEmptied
<1>3. \A g \in Hashes : WholeOnDisk(g) => WholeOnDisk(g)'
  BY <1>2 DEF WholeOnDisk
<1>4. h \in S => WholeOnDisk(h)' \/ (actor.at \in Copying /\ actor.on = h)
  <2>1. bytes[<<"data", h>>] \subseteq Content[h] /\ bytes[<<"obao", h>>] \subseteq Content[h]
    BY <1>1 DEF IInv, DiskOK, Kinds
  <2> QED BY <1>1, <1>2, <2>1 DEF Recorded, Backed, WholeOnDisk, Copying
<1> QED
  BY <1>1, <1>3, <1>4 DEF Scannable

(* While a blob is opened or copied into it is the one that is not whole.   *)
LEMMA CopyKeepsScan ==
  ASSUME IInv, NEW S \in SUBSET Hashes, Scannable(S),
         Truncate \/ Copy \/ OpenOutboard \/ CopyOutboard \/ DropStaleMeta
  PROVE  Scannable(S)'
<1>1. PICK o \in Hashes : o = actor.on
  BY DEF IInv, ActorOK, Copying, Truncate, Copy, OpenOutboard, CopyOutboard, DropStaleMeta, IsAt
<1>2. actor'.on = o /\ actor'.at \in Copying
  BY <1>1 DEF IInv, ActorOK, ActorRecords, Copying, Truncate, Copy, OpenOutboard,
              CopyOutboard, DropStaleMeta
<1>3. \E k \in Kinds : \E held : bytes' = [bytes EXCEPT ![<<k, o>>] = held]
  BY <1>1 DEF Kinds, Truncate, Copy, OpenOutboard, CopyOutboard, DropStaleMeta
<1>4. \A k \in Kinds, g \in Hashes : g # o => bytes'[<<k, g>>] = bytes[<<k, g>>]
  BY <1>3, OneFileWritten
<1>5. \A k \in Kinds, g \in Hashes : g # o => (<<k, g>> \in files' <=> <<k, g>> \in files)
  BY <1>1 DEF Truncate, Copy, OpenOutboard, CopyOutboard, DropStaleMeta
<1>6. ASSUME NEW g \in S, g # o, <<"data", g>> \in files', <<"meta", g>> \notin files'
      PROVE  WholeOnDisk(g)'
  <2>1. WholeOnDisk(g)
    BY <1>1, <1>5, <1>6 DEF Scannable, Kinds
  <2>2. "data" \in Kinds /\ "obao" \in Kinds /\ g \in Hashes
    BY DEF Kinds
  <2> QED BY <1>4, <1>6, <2>1, <2>2 DEF WholeOnDisk
<1> QED
  BY <1>2, <1>6 DEF Scannable

LEMMA OpeningKeepsScan ==
  ASSUME IInv, IInv', NEW S \in SUBSET Hashes, Recorded(S), Scannable(S),
         \/ \E d \in Downloads : OpenData(d)
         \/ \E i \in Imports : OpenForCopy(i)
         \/ OpenObao \/ OpenMeta \/ Register
  PROVE  Scannable(S)'
<1>1. ASSUME NEW h \in Hashes, files' = files \cup {<<"data", h>>}, bytes' = bytes,
             actor.at = "idle", actor'.at \in Opening \cup Copying, actor'.on = h
      PROVE  Scannable(S)'
  BY <1>1 DEF Scannable, Opening, Copying, WholeOnDisk
<1>2. ASSUME NEW d \in Downloads, OpenData(d) PROVE Scannable(S)'
  BY <1>1, <1>2, ConstantFacts DEF OpenData, IsAt, Idle, Opening
<1>3. ASSUME NEW i \in Imports, OpenForCopy(i) PROVE Scannable(S)'
  BY <1>1, <1>3, ConstantFacts DEF OpenForCopy, IsAt, Idle, Copying
<1>4. CASE OpenObao
  <2>1. actor.at \in Opening /\ actor'.at \in Opening /\ actor'.on = actor.on
    BY <1>4 DEF IInv, ActorOK, ActorRecords, OpenObao, IsAt, Opening
  <2>2. /\ bytes' = bytes
        /\ \A h \in S : /\ (<<"data", h>> \in files' <=> <<"data", h>> \in files)
                       /\ (<<"meta", h>> \in files' <=> <<"meta", h>> \in files)
    BY <1>4 DEF OpenObao
  <2> QED BY <2>1, <2>2 DEF Scannable, WholeOnDisk
<1>5. CASE OpenMeta
  <2>1. actor.at \in Opening /\ files' = files \cup {<<"meta", actor.on>>} /\ bytes' = bytes
    BY <1>5 DEF OpenMeta, IsAt, Opening
  <2> QED BY <2>1 DEF Scannable, WholeOnDisk
<1>6. CASE Register
  BY <1>6 DEF Register, IsAt, disk, Recorded, Copied, Scannable, WholeOnDisk
<1> QED
  BY <1>2, <1>3, <1>4, <1>5, <1>6

LEMMA SweepKeepsScan ==
  ASSUME IInv, IInv', NEW S \in SUBSET Hashes, Scannable(S),
         SweepObao \/ SweepMeta \/ \E h \in Hashes : Sweep(h)
  PROVE  Scannable(S)'
<1>1. PICK o \in Hashes, k \in Kinds :
        /\ files' = files \ {<<k, o>>} /\ bytes' = [bytes EXCEPT ![<<k, o>>] = {}]
        /\ <<"data", o>> \notin files'
  <2>1. CASE \E h \in Hashes : Sweep(h)
    BY <2>1 DEF Sweep, Kinds
  <2>2. CASE SweepObao \/ SweepMeta
    BY <2>2 DEF IInv, ActorOK, SweepObao, SweepMeta, IsAt, Sweeping, Kinds
  <2> QED BY <2>1, <2>2
<1>2. actor.at \notin Opening \cup Copying
  BY DEF IsAt, Sweep, SweepObao, SweepMeta, Opening, Copying
<1>3. \A l \in Kinds, g \in Hashes : g # o => bytes'[<<l, g>>] = bytes[<<l, g>>]
  BY <1>1, OneFileWritten
<1>4. ASSUME NEW g \in S, <<"data", g>> \in files', <<"meta", g>> \notin files'
      PROVE  WholeOnDisk(g)'
  <2>1. g # o /\ "data" \in Kinds /\ "obao" \in Kinds
    BY <1>1, <1>4 DEF Kinds
  <2>2. <<"data", g>> \in files /\ <<"meta", g>> \notin files
    BY <1>1, <1>4, <2>1
  <2> QED BY <1>2, <1>3, <2>1, <2>2 DEF Scannable, WholeOnDisk
<1> QED
  BY <1>4 DEF Scannable


-----------------------------------------------------------------------------
(* What the next start of the node will find.                               *)

LEMMA ScannedStays ==
  ASSUME NEW h, bytes'[<<"meta", h>>] = bytes[<<"meta", h>>],
         <<"data", h>> \in files' <=> <<"data", h>> \in files,
         <<"meta", h>> \in files' <=> <<"meta", h>> \in files
  PROVE  Scanned(h)' = Scanned(h)
  BY DEF Scanned, Partial, Complete, NoEntry

(* A blob whose record is left alone, and that was not let go of.           *)
LEMMA LastingStays ==
  ASSUME NEW h, Lasting(h), up' => up, entry'[h].field = entry[h].field,
         bytes'[<<"meta", h>>] = bytes[<<"meta", h>>],
         <<"data", h>> \in files' <=> <<"data", h>> \in files,
         <<"meta", h>> \in files' <=> <<"meta", h>> \in files,
         h # actor'.on => h # actor.on
  PROVE  Lasting(h)'
  BY ScannedStays DEF Lasting

(* Calls, lookups, tags and marking touch no file and no entry.             *)
Resting == {"idle", "persist", "manifest", "sweep"}

LEMMA RestKeepsRestart ==
  ASSUME NEW S \in SUBSET Hashes, Restartable(S), UNCHANGED <<files, bytes, entry, up>>,
         actor' = actor \/ (actor.at \in Resting /\ actor'.at \in Resting /\ actor'.on = None)
  PROVE  Restartable(S)'
<1>1. actor'.on = actor.on
  <2>1. actor.at \in Resting => actor.at \notin Opening \cup Copying \cup Sweeping
    BY DEF Resting, Opening, Copying, Sweeping
  <2> QED BY <2>1 DEF Restartable, InHand
<1>2. InHand'
  BY DEF Restartable, InHand, Resting
<1>3. ASSUME NEW h \in S PROVE Lasting(h)'
  BY <1>1, <1>3, LastingStays DEF Restartable
<1> QED
  BY <1>2, <1>3 DEF Restartable

(* A command begins, with the file of its blob that it opens or deletes.    *)
LEMMA TakingKeepsRestart ==
  ASSUME IInv, NEW S \in SUBSET Hashes, Restartable(S), NEW o \in Hashes, up' = up,
         actor.at \in Resting, actor'.at \in (Opening \cup Copying \cup Sweeping) \ {"register"},
         actor'.on = o,
         \A g \in Hashes \ {o} :
           /\ entry'[g] = entry[g] /\ bytes'[<<"meta", g>>] = bytes[<<"meta", g>>]
           /\ <<"data", g>> \in files' <=> <<"data", g>> \in files
           /\ <<"meta", g>> \in files' <=> <<"meta", g>> \in files
  PROVE  Restartable(S)'
<1>1. actor.on = None
  BY DEF Restartable, InHand, Resting, Opening, Copying, Sweeping
<1>2. InHand'
  BY DEF InHand
<1>3. ASSUME NEW h \in S PROVE Lasting(h)'
  <2>1. CASE h = o
    BY <2>1 DEF Lasting
  <2>2. CASE h # o
    <3>1. Lasting(h) /\ h \in Hashes \ {o} /\ h # actor.on
      BY <1>1, <2>2, CallsAssumption DEF Restartable
    <3> QED BY <3>1, LastingStays
  <2> QED BY <2>1, <2>2
<1> QED
  BY <1>2, <1>3 DEF Restartable

(* The command goes on with its blob.                                       *)
LEMMA HoldingKeepsRestart ==
  ASSUME IInv, NEW S \in SUBSET Hashes, Restartable(S), NEW o \in Hashes, o = actor.on, up' = up,
         actor'.on = o, actor'.at \in Opening \cup Copying \cup Sweeping, entry' = entry,
         actor'.at = "register" => <<"meta", o>> \notin files',
         \A g \in Hashes \ {o} :
           /\ bytes'[<<"meta", g>>] = bytes[<<"meta", g>>]
           /\ <<"data", g>> \in files' <=> <<"data", g>> \in files
           /\ <<"meta", g>> \in files' <=> <<"meta", g>> \in files
  PROVE  Restartable(S)'
<1>1. InHand'
  BY DEF InHand
<1>2. ASSUME NEW h \in S PROVE Lasting(h)'
  <2>1. CASE h = o
    BY <2>1 DEF Lasting
  <2>2. CASE h # o
    <3>1. Lasting(h) /\ h \in Hashes \ {o}
      BY <2>2 DEF Restartable
    <3> QED BY <3>1, LastingStays
  <2> QED BY <2>1, <2>2
<1> QED
  BY <1>1, <1>2 DEF Restartable

(* The command ends, and has made the record and the table agree.           *)
LEMMA LettingGoKeepsRestart ==
  ASSUME IInv, NEW S \in SUBSET Hashes, Restartable(S), NEW o \in Hashes, o = actor.on, up' = up,
         actor'.on = None, actor'.at # "register",
         Scanned(o)'.field = entry'[o].field,
         \A g \in Hashes \ {o} :
           /\ entry'[g] = entry[g] /\ bytes'[<<"meta", g>>] = bytes[<<"meta", g>>]
           /\ <<"data", g>> \in files' <=> <<"data", g>> \in files
           /\ <<"meta", g>> \in files' <=> <<"meta", g>> \in files
  PROVE  Restartable(S)'
<1>1. InHand'
  BY DEF InHand
<1>2. ASSUME NEW h \in S PROVE Lasting(h)'
  <2>1. CASE h = o
    BY <2>1 DEF Lasting
  <2>2. CASE h # o
    <3>1. Lasting(h) /\ h \in Hashes \ {o} /\ h # actor.on
      BY <2>2 DEF Restartable
    <3> QED BY <3>1, LastingStays
  <2> QED BY <2>1, <2>2
<1> QED
  BY <1>1, <1>2 DEF Restartable

(* The files of other blobs are left alone.                                 *)
LEMMA OtherFilesStay ==
  ASSUME IInv, NEW k \in Kinds, NEW o \in Hashes, NEW held,
         files' \in {files, files \cup {<<k, o>>}, files \ {<<k, o>>}},
         bytes' \in {bytes, [bytes EXCEPT ![<<k, o>>] = held]}
  PROVE  \A l \in Kinds, g \in Hashes \ {o} :
           /\ bytes'[<<l, g>>] = bytes[<<l, g>>]
           /\ <<l, g>> \in files' <=> <<l, g>> \in files
<1>1. bytes' = [bytes EXCEPT ![<<k, o>>] = held] =>
        \A l \in Kinds, g \in Hashes \ {o} : bytes'[<<l, g>>] = bytes[<<l, g>>]
  BY OneFileWritten
<1>2. \A l \in Kinds, g \in Hashes \ {o} : bytes'[<<l, g>>] = bytes[<<l, g>>]
  BY <1>1
<1>3. \A l \in Kinds, g \in Hashes \ {o} : <<l, g>> # <<k, o>>
  OBVIOUS
<1>4. \A l \in Kinds, g \in Hashes \ {o} : <<l, g>> \in files' <=> <<l, g>> \in files
  BY <1>3
<1> QED
  BY <1>2, <1>4

LEMMA OpeningKeepsRestart ==
  ASSUME IInv, NEW S \in SUBSET Hashes, Restartable(S),
         \/ \E d \in Downloads : OpenData(d)
         \/ \E i \in Imports : OpenForCopy(i)
         \/ \E h \in Hashes : Sweep(h)
  PROVE  Restartable(S)'
<1>1. PICK o \in Hashes :
        /\ actor.at \in Resting /\ up' = up /\ actor'.on = o
        /\ actor'.at \in (Opening \cup Copying \cup Sweeping) \ {"register"}
        /\ files' \in {files, files \cup {<<"data", o>>}, files \ {<<"data", o>>}}
        /\ bytes' \in {bytes, [bytes EXCEPT ![<<"data", o>>] = {}]}
        /\ entry' \in {entry, [entry EXCEPT ![o] = NoEntry]}
  <2>1. ASSUME NEW d \in Downloads, OpenData(d)
        PROVE  /\ actor.at \in Resting /\ up' = up /\ actor'.on = DownloadOf[d]
               /\ actor'.at \in Opening /\ files' = files \cup {<<"data", DownloadOf[d]>>}
               /\ bytes' = bytes /\ entry' = entry
    BY <2>1 DEF OpenData, IsAt, Idle, Resting, Opening, bounds
  <2>2. ASSUME NEW i \in Imports, OpenForCopy(i)
        PROVE  /\ actor.at \in Resting /\ up' = up /\ actor'.on = ImportOf[i]
               /\ actor'.at = "opened" /\ files' = files \cup {<<"data", ImportOf[i]>>}
               /\ bytes' = bytes /\ entry' = entry
    BY <2>2 DEF OpenForCopy, IsAt, Idle, Resting, bounds
  <2>3. ASSUME NEW h \in Hashes, Sweep(h)
        PROVE  /\ actor.at \in Resting /\ up' = up /\ actor'.on = h
               /\ actor'.at = "sweep obao" /\ files' = files \ {<<"data", h>>}
               /\ bytes' = [bytes EXCEPT ![<<"data", h>>] = {}]
               /\ entry' = [entry EXCEPT ![h] = NoEntry]
    BY <2>3 DEF Sweep, IsAt, Resting, IInv, ActorOK, ActorRecords, bounds
  <2>4. \A at \in Opening \cup {"opened", "sweep obao"} :
          at \in (Opening \cup Copying \cup Sweeping) \ {"register"}
    BY DEF Opening, Copying, Sweeping
  <2> QED BY <2>1, <2>2, <2>3, <2>4, ConstantFacts
<1>2. \A l \in Kinds, g \in Hashes \ {o} :
         /\ bytes'[<<l, g>>] = bytes[<<l, g>>]
         /\ <<l, g>> \in files' <=> <<l, g>> \in files
  BY <1>1, OtherFilesStay DEF Kinds
<1>3. \A g \in Hashes \ {o} : entry'[g] = entry[g]
  BY <1>1 DEF IInv, EntryOK
<1> QED
  BY <1>1, <1>2, <1>3, TakingKeepsRestart DEF Kinds

LEMMA WorkingKeepsRestart ==
  ASSUME IInv, NEW S \in SUBSET Hashes, Restartable(S),
         \/ OpenObao \/ Truncate \/ Copy \/ OpenOutboard \/ CopyOutboard
         \/ DropStaleMeta \/ SweepObao
  PROVE  Restartable(S)'
<1>0. PICK o \in Hashes : o = actor.on
  BY ConstantFacts DEF OpenObao, Truncate, Copy, OpenOutboard, CopyOutboard, DropStaleMeta, SweepObao,
         IsAt, IInv, ActorOK, Opening, Copying, Sweeping
<1>1. /\ up' = up /\ actor'.on = o /\ entry' = entry
      /\ actor'.at \in Opening \cup Copying \cup Sweeping
  BY <1>0, ConstantFacts DEF OpenObao, Truncate, Copy, OpenOutboard, CopyOutboard, DropStaleMeta, SweepObao,
         IsAt, IInv, ActorOK, ActorRecords, Opening, Copying, Sweeping, bounds
<1>2. /\ bytes' = bytes \/ \E k \in Kinds : \E held : bytes' = [bytes EXCEPT ![<<k, o>>] = held]
      /\ \E f \in {<<k, o>> : k \in Kinds} : files' \in {files, files \cup {f}, files \ {f}}
  BY <1>0 DEF OpenObao, Truncate, Copy, OpenOutboard, CopyOutboard, DropStaleMeta, SweepObao, Kinds
<1>3. \A k \in Kinds, g \in Hashes : g # o =>
         /\ bytes'[<<k, g>>] = bytes[<<k, g>>]
         /\ <<k, g>> \in files' <=> <<k, g>> \in files
  <2>1. ASSUME NEW k \in Kinds, NEW g \in Hashes, g # o
        PROVE  bytes'[<<k, g>>] = bytes[<<k, g>>]
    <3>1. CASE bytes' = bytes
      BY <3>1
    <3>2. ASSUME NEW l \in Kinds, NEW held, bytes' = [bytes EXCEPT ![<<l, o>>] = held]
          PROVE  bytes'[<<k, g>>] = bytes[<<k, g>>]
      BY <2>1, <3>2, OneFileWritten
    <3> QED BY <1>2, <3>1, <3>2
  <2>2. ASSUME NEW k \in Kinds, NEW g \in Hashes, g # o
        PROVE  <<k, g>> \in files' <=> <<k, g>> \in files
    BY <1>2, <2>2
  <2> QED BY <2>1, <2>2
<1>4. actor'.at = "register" => <<"meta", o>> \notin files'
  BY <1>0 DEF OpenObao, Truncate, Copy, OpenOutboard, CopyOutboard, DropStaleMeta, SweepObao,
         IInv, ActorOK, ActorRecords
<1>5. \A g \in Hashes \ {o} :
         /\ bytes'[<<"meta", g>>] = bytes[<<"meta", g>>]
         /\ <<"data", g>> \in files' <=> <<"data", g>> \in files
         /\ <<"meta", g>> \in files' <=> <<"meta", g>> \in files
  BY <1>3 DEF Kinds
<1> QED
  BY <1>0, <1>1, <1>4, <1>5, HoldingKeepsRestart

LEMMA EndingKeepsRestart ==
  ASSUME IInv, NEW S \in SUBSET Hashes, Recorded(S), Restartable(S),
         OpenMeta \/ Register \/ SweepMeta
  PROVE  Restartable(S)'
<1>0. PICK o : o = actor.on
  OBVIOUS
<1>1. o \in Hashes /\ up' = up /\ actor'.on = None /\ actor'.at # "register"
  <2>1. CASE OpenMeta
    BY <1>0, <2>1, ConstantFacts DEF OpenMeta, IsAt, Idle, IInv, ActorOK, Opening, bounds
  <2>2. CASE Register
    BY <1>0, <2>2 DEF Register, IsAt, Idle, IInv, ActorOK, Copying, bounds
  <2>3. CASE SweepMeta
    BY <1>0, <2>3 DEF SweepMeta, IsAt, IInv, ActorOK, ActorRecords, Sweeping, bounds
  <2> QED BY <2>1, <2>2, <2>3
<1>2. /\ files' \in {files, files \cup {<<"meta", o>>}, files \ {<<"meta", o>>}}
      /\ bytes' \in {bytes, [bytes EXCEPT ![<<"meta", o>>] = {}]}
  BY <1>0 DEF OpenMeta, Register, SweepMeta, disk
<1>3. \A l \in Kinds, g \in Hashes \ {o} :
         /\ bytes'[<<l, g>>] = bytes[<<l, g>>]
         /\ <<l, g>> \in files' <=> <<l, g>> \in files
  BY <1>1, <1>2, OtherFilesStay DEF Kinds
<1>4. \A g \in Hashes \ {o} :
         /\ bytes'[<<"meta", g>>] = bytes[<<"meta", g>>]
         /\ <<"data", g>> \in files' <=> <<"data", g>> \in files
         /\ <<"meta", g>> \in files' <=> <<"meta", g>> \in files
  BY <1>3 DEF Kinds
<1>5. \A g \in Hashes \ {o} : entry'[g] = entry[g]
  BY <1>0, <1>1 DEF OpenMeta, Register, SweepMeta, IInv, EntryOK
<1>6. Scanned(o)'.field = entry'[o].field
  <2>1. CASE OpenMeta
    <3>1. <<"data", o>> \in files /\ files' = files \cup {<<"meta", o>>}
          /\ bytes' = bytes /\ entry' = [entry EXCEPT ![o] = Partial(bytes[<<"meta", o>>])]
      BY <1>0, <2>1 DEF OpenMeta, IsAt, IInv, ActorOK, Opening
    <3>2. Scanned(o)' = Partial(bytes[<<"meta", o>>])
      BY <3>1 DEF Scanned, Partial
    <3> QED BY <1>1, <3>1, <3>2 DEF IInv, EntryOK
  <2>2. CASE Register
    <3>1. /\ <<"data", o>> \in files /\ <<"meta", o>> \notin files /\ files' = files
          /\ entry' = [entry EXCEPT ![o] = Complete(o)]
      BY <1>0, <2>2 DEF Register, IsAt, IInv, ActorOK, Copying, Restartable, InHand, disk
    <3>2. Scanned(o)' = Complete(o)
      BY <3>1 DEF Scanned, Complete
    <3> QED BY <1>1, <3>1, <3>2 DEF IInv, EntryOK
  <2>3. CASE SweepMeta
    <3>1. /\ <<"data", o>> \notin files /\ files' = files \ {<<"meta", o>>}
          /\ ~Present(o) /\ entry' = entry
      BY <1>0, <2>3 DEF SweepMeta, IsAt, IInv, ActorOK, Sweeping
    <3>2. Scanned(o)' = NoEntry
      BY <3>1 DEF Scanned, NoEntry
    <3>3. entry'[o].field = {}
      BY <1>1, <3>1 DEF Recorded
    <3> QED BY <3>2, <3>3 DEF NoEntry
  <2> QED BY <2>1, <2>2, <2>3
<1> QED
  BY <1>0, <1>1, <1>4, <1>5, <1>6, LettingGoKeepsRestart

(* What a leaf writes into the files and the table.                         *)
LEMMA LeafIsWritten ==
  ASSUME IInv, NEW h \in Hashes, NEW c, NEW recorded, WriteLeaf(h, c, recorded)
  PROVE  /\ bytes'[<<"meta", h>>] = recorded
         /\ entry'[h].field = entry[h].field \cup {c}
         /\ \A g \in Hashes \ {h} : /\ bytes'[<<"meta", g>>] = bytes[<<"meta", g>>]
                                    /\ entry'[g] = entry[g]
<1> DEFINE f == <<"data", h>>
           m == <<"meta", h>>
<1>1. f \in Kinds \X Hashes /\ m \in Kinds \X Hashes /\ f # m
  BY DEF Kinds
<1>2. bytes' = [[bytes EXCEPT ![f] = bytes[f] \cup {c}] EXCEPT ![m] = recorded]
  BY <1>1 DEF WriteLeaf, IInv, DiskOK
<1>3. bytes'[m] = recorded /\ \A g \in (Kinds \X Hashes) \ {f, m} : bytes'[g] = bytes[g]
  BY <1>1, <1>2 DEF IInv, DiskOK
<1>4. \A g \in Hashes \ {h} : bytes'[<<"meta", g>>] = bytes[<<"meta", g>>]
  BY <1>3, FilesAreIndices DEF Kinds
<1>5. /\ entry'[h].field = entry[h].field \cup {c}
      /\ \A g \in Hashes \ {h} : entry'[g] = entry[g]
  BY DEF WriteLeaf, IInv, EntryOK
<1> QED
  BY <1>3, <1>4, <1>5

(* A leaf is in the meta file before the table has it, or there is no meta  *)
(* file any more and the bitfield is full.                                  *)
LEMMA LeafKeepsRestart ==
  ASSUME IInv, NEW S \in SUBSET Hashes, Restartable(S),
         NEW d \in Downloads, NEW c \in Chunks, Leaf(d, c) \/ LeafFails(d, c)
  PROVE  Restartable(S)'
<1>1. PICK o \in Hashes : o = DownloadOf[d]
  BY ConstantFacts
<1>2. /\ up' = up /\ actor' = actor /\ files' = files /\ c \in Content[o]
      /\ entry[o].state = "partial" /\ <<"data", o>> \in files /\ entry[o].field \subseteq Content[o]
  BY <1>1 DEF Leaf, LeafFails, Leave, bounds, IInv, CallsOK, EntryOK
<1>3. PICK recorded : /\ WriteLeaf(o, c, recorded)
                      /\ recorded = entry[o].field \cup {c} \/ <<"meta", o>> \notin files
                      /\ <<"meta", o>> \in files => recorded = entry[o].field \cup {c}
  BY <1>1 DEF Leaf, LeafFails, MetaIsOpen
<1>4. /\ bytes'[<<"meta", o>>] = recorded
      /\ entry'[o].field = entry[o].field \cup {c}
      /\ \A g \in Hashes \ {o} : /\ bytes'[<<"meta", g>>] = bytes[<<"meta", g>>]
                                 /\ entry'[g] = entry[g]
  BY <1>3, LeafIsWritten
<1>5. ASSUME NEW h \in S PROVE Lasting(h)'
  <2>1. Lasting(h)
    BY DEF Restartable
  <2>2. CASE h # o
    BY <1>2, <1>4, <2>1, <2>2, LastingStays
  <2>3. CASE h = o /\ <<"meta", o>> \in files
    BY <1>2, <1>3, <1>4, <2>3 DEF Lasting, Scanned, Partial
  <2>4. CASE h = o /\ <<"meta", o>> \notin files
    <3>1. Scanned(o) = Complete(o) /\ Scanned(o)' = Complete(o)
      BY <1>2, <2>4 DEF Scanned, Complete
    <3>2. up /\ o # actor.on => entry[o].field = Content[o]
      BY <2>1, <2>4, <3>1 DEF Lasting, Complete
    <3>3. up /\ o # actor.on => entry'[o].field = Content[o]
      BY <1>2, <1>4, <3>2
    <3> QED BY <1>2, <2>4, <3>1, <3>3 DEF Lasting, Complete
  <2> QED BY <2>2, <2>3, <2>4
<1> QED
  BY <1>2, <1>5 DEF Restartable, InHand

(* The meta file goes when the bitfield is full.                            *)
LEMMA FinishKeepsRestart ==
  ASSUME IInv, NEW S \in SUBSET Hashes, Recorded(S), Restartable(S), NEW d \in Downloads,
         DropMeta(d) \/ Flip(d) \/ \E c \in Chunks : Parents(d, c)
  PROVE  Restartable(S)'
<1>1. PICK o \in Hashes : o = DownloadOf[d]
  BY ConstantFacts
<1>2. up' = up /\ actor' = actor
  BY DEF DropMeta, Flip, Parents, bounds
<1>3. /\ files' \subseteq files
      /\ \A g \in Hashes : <<"data", g>> \in files => <<"data", g>> \in files'
      /\ \A g \in Hashes \ {o} : <<"meta", g>> \in files => <<"meta", g>> \in files'
  BY <1>1 DEF DropMeta, Flip, Parents
<1>4. \A g \in Hashes \ {o} : bytes'[<<"meta", g>>] = bytes[<<"meta", g>>]
  <2>1. CASE DropMeta(d)
    BY <1>1, <2>1, MetaIsEmptied DEF DropMeta
  <2>2. CASE Flip(d)
    BY <2>2 DEF Flip
  <2>3. ASSUME NEW c \in Chunks, Parents(d, c) PROVE bytes'[<<"meta", o>>] = bytes[<<"meta", o>>]
                                                  /\ \A g \in Hashes : bytes'[<<"meta", g>>] = bytes[<<"meta", g>>]
    BY <1>1, <2>3, OneFileWritten DEF Parents, Kinds
  <2> QED BY <2>1, <2>2, <2>3
<1>5. \A g \in Hashes : entry'[g].field = entry[g].field
  BY <1>1 DEF DropMeta, Flip, Parents, Recorded, Filled, Complete, IInv, EntryOK
<1>6. ASSUME NEW h \in S, h # o PROVE Lasting(h)'
  <2>1. Lasting(h) /\ h \in Hashes \ {o}
    BY <1>6 DEF Restartable
  <2> QED BY <1>2, <1>3, <1>4, <1>5, <2>1, LastingStays
<1>7. ASSUME o \in S PROVE Lasting(o)'
  <2>1. Lasting(o)
    BY <1>7 DEF Restartable
  <2>2. CASE DropMeta(d)
    <3>1. entry[o].field = Content[o] /\ Content[o] # {} /\ <<"meta", o>> \notin files'
      BY <1>1, <2>2, BlobsAssumption DEF DropMeta, Recorded, Filled
    <3>2. up /\ o # actor.on => <<"data", o>> \in files
      BY <2>1, <3>1 DEF Lasting, Scanned, NoEntry
    <3>3. up /\ o # actor.on => Scanned(o)' = Complete(o)
      BY <1>3, <3>1, <3>2 DEF Scanned, Complete
    <3> QED BY <1>2, <1>5, <3>1, <3>3 DEF Lasting, Complete
  <2>3. CASE Flip(d)
    <3>1. bytes' = bytes /\ (<<"meta", o>> \in files' <=> <<"meta", o>> \in files)
      BY <1>1, <2>3 DEF Flip
    <3> QED BY <1>2, <1>3, <1>5, <2>1, <3>1, LastingStays
  <2>4. ASSUME NEW c \in Chunks, Parents(d, c) PROVE Lasting(o)'
    <3>1. files' = files /\ bytes'[<<"meta", o>>] = bytes[<<"meta", o>>]
      BY <1>1, <2>4, OneFileWritten DEF Parents, Kinds
    <3> QED BY <1>2, <1>5, <2>1, <3>1, LastingStays
  <2> QED BY <2>2, <2>3, <2>4
<1> QED
  BY <1>2, <1>3, <1>6, <1>7 DEF Restartable, InHand


-----------------------------------------------------------------------------
(* A whole blob without a meta file, deaths of the worker included.         *)

CopySteps == {"copying", "copied", "outboard", "written", "register"}

(* The table has it, or the copy that made it whole is about to register    *)
(* it: no other call opens its files again.                                 *)
Shut ==
  /\ \A h \in Hashes : up /\ Sealed(h) =>
       Present(h) \/ (actor.at \in {"copied", "written", "register"} /\ actor.on = h)
  /\ actor.at = "copying" => bytes[<<"data", actor.on>>] = {}
  /\ actor.at = "outboard" => bytes[<<"obao", actor.on>>] = {}

SealKept ==
  \A h \in Hashes : Sealed(h) =>
    \/ Sealed(h)'
    \/ <<"data", h>> \notin files'
    \/ actor'.at \in {"copying", "outboard"} /\ actor'.on = h

LEMMA ShutStays ==
  ASSUME Shut, UNCHANGED <<bytes, up>>,
         \A h \in Hashes : <<"meta", h>> \in files' <=> <<"meta", h>> \in files,
         \A h \in Hashes : Present(h) => Present(h)',
         actor' = actor \/ (actor.at \notin CopySteps /\ actor'.at \notin CopySteps)
  PROVE  Shut' /\ SealKept
<1>1. \A h \in Hashes : Sealed(h)' <=> Sealed(h)
  BY DEF Sealed, WholeOnDisk
<1> QED
  BY <1>1 DEF Shut, SealKept, CopySteps

LEMMA FindEntryKeepsShut ==
  ASSUME IInv, Shut, NEW d \in Downloads, FindEntry(d)
  PROVE  Shut' /\ SealKept
  BY ShutStays DEF Present, FindEntry, disk, bounds

LEMMA OpenDataKeepsShut ==
  ASSUME IInv, Shut, NEW d \in Downloads, OpenData(d)
  PROVE  Shut' /\ SealKept
  BY ShutStays DEF CopySteps, Present, Idle, OpenData, IsAt, disk, calls, manifest, bounds

LEMMA OpenObaoKeepsShut == ASSUME IInv, Shut, OpenObao PROVE Shut' /\ SealKept
<1>1. actor.at = "open obao" /\ actor'.at = "open meta"
  BY DEF IInv, ActorOK, ActorRecords, OpenObao, IsAt
<1> QED
  BY <1>1, ShutStays DEF CopySteps, Present, OpenObao, calls, bounds

LEMMA SkipLeafKeepsShut ==
  ASSUME IInv, Shut, NEW d \in Downloads, NEW c \in Chunks, SkipLeaf(d, c)
  PROVE  Shut' /\ SealKept
  BY ShutStays
  DEF CopySteps, Present, Idle, SkipLeaf, Receives, Running, disk, calls, manifest, bounds

LEMMA StreamEndsKeepsShut ==
  ASSUME IInv, Shut, NEW d \in Downloads, StreamEnds(d)
  PROVE  Shut' /\ SealKept
  BY ShutStays
  DEF CopySteps, Present, Idle, StreamEnds, Receives, Running, disk, calls, manifest, bounds

LEMMA AwaitedKeepsShut ==
  ASSUME IInv, Shut, NEW d \in Downloads, Awaited(d)
  PROVE  Shut' /\ SealKept
  BY ShutStays DEF CopySteps, Present, Idle, Awaited, Running, disk, calls, manifest, bounds

LEMMA ReadEndsKeepsShut ==
  ASSUME IInv, Shut, NEW d \in Downloads, ReadEnds(d)
  PROVE  Shut' /\ SealKept
  BY ShutStays
  DEF CopySteps, Present, Idle, ReadEnds, Leave, Running, disk, calls, manifest, bounds

LEMMA BeginKeepsShut ==
  ASSUME IInv, Shut, NEW d \in Downloads, Begin(d)
  PROVE  Shut' /\ SealKept
  BY ShutStays DEF CopySteps, Present, Idle, Begin, Running, disk, calls, manifest, bounds

LEMMA FailsKeepsShut ==
  ASSUME IInv, Shut, NEW d \in Downloads, Fails(d)
  PROVE  Shut' /\ SealKept
  BY ShutStays
  DEF CopySteps, Present, Idle, Fails, Leave, Running, disk, calls, manifest, bounds

LEMMA CancelKeepsShut ==
  ASSUME IInv, Shut, NEW d \in Downloads, Cancel(d)
  PROVE  Shut' /\ SealKept
  BY ShutStays
  DEF CopySteps, Present, Idle, Cancel, Leave, Running, disk, calls, manifest, bounds

LEMMA DiscardKeepsShut ==
  ASSUME IInv, Shut, NEW d \in Downloads, Discard(d)
  PROVE  Shut' /\ SealKept
  BY ShutStays
  DEF CopySteps, Present, Idle, Discard, Leave, Running, disk, calls, manifest, bounds

LEMMA StartImportKeepsShut ==
  ASSUME IInv, Shut, NEW i \in Imports, StartImport(i)
  PROVE  Shut' /\ SealKept
  BY ShutStays
  DEF CopySteps, Present, Idle, StartImport, Running, disk, calls, manifest, bounds

LEMMA PinKeepsShut == ASSUME IInv, Shut, NEW i \in Imports, Pin(i) PROVE Shut' /\ SealKept
  BY ShutStays DEF CopySteps, Present, Idle, Pin, Running, disk, calls, manifest, bounds

LEMMA ReleaseKeepsShut ==
  ASSUME IInv, Shut, NEW i \in Imports, Release(i)
  PROVE  Shut' /\ SealKept
  BY ShutStays DEF CopySteps, Present, Idle, Release, Running, disk, calls, manifest, bounds

LEMMA DedupKeepsShut ==
  ASSUME IInv, Shut, NEW i \in Imports, Dedup(i)
  PROVE  Shut' /\ SealKept
  BY ShutStays
  DEF CopySteps, Present, Idle, Dedup, Imported, IsAt, disk, calls, manifest, bounds

LEMMA OpenForCopyKeepsShut ==
  ASSUME IInv, Shut, NEW i \in Imports, OpenForCopy(i)
  PROVE  Shut' /\ SealKept
  BY ShutStays
  DEF CopySteps, Present, Idle, OpenForCopy, IsAt, disk, calls, manifest, bounds

LEMMA SetTagKeepsShut ==
  ASSUME IInv, Shut, NEW h \in Hashes, SetTag(h)
  PROVE  Shut' /\ SealKept
  BY ShutStays DEF CopySteps, Present, Idle, SetTag, IsAt, disk, calls, manifest, bounds

LEMMA DeleteTagKeepsShut ==
  ASSUME IInv, Shut, NEW h \in Hashes, DeleteTag(h)
  PROVE  Shut' /\ SealKept
  BY ShutStays DEF CopySteps, Present, Idle, DeleteTag, IsAt, disk, calls, manifest, bounds

LEMMA EmptyManifestKeepsShut == ASSUME IInv, Shut, EmptyManifest PROVE Shut' /\ SealKept
  BY ShutStays
  DEF CopySteps, Present, Idle, EmptyManifest, IsAt, disk, calls, manifest, bounds

LEMMA WriteManifestKeepsShut == ASSUME IInv, Shut, WriteManifest PROVE Shut' /\ SealKept
  BY ShutStays
  DEF CopySteps, Present, Idle, WriteManifest, IsAt, disk, calls, manifest, bounds

LEMMA MarkKeepsShut == ASSUME IInv, Shut, Mark PROVE Shut' /\ SealKept
  BY ShutStays
  DEF CopySteps, Present, Idle, Mark, Named, Marked, IsAt, Expanded, disk, calls, manifest,
      bounds

LEMMA SweptKeepsShut == ASSUME IInv, Shut, Swept PROVE Shut' /\ SealKept
  BY ShutStays DEF CopySteps, Present, Idle, Swept, IsAt, disk, calls, manifest, bounds

(* A blob that is whole holds all there is to write.                        *)
LEMMA GrowthKeepsShut ==
  ASSUME IInv, IInv', Shut, ~Unbroken, UNCHANGED <<files, actor, up>>,
         NEW h \in Hashes, Present(h)', \A g \in Hashes : Present(g) => Present(g)',
         \A g \in Hashes : /\ bytes[<<"data", g>>] \subseteq bytes'[<<"data", g>>]
                           /\ bytes[<<"obao", g>>] \subseteq bytes'[<<"obao", g>>],
         \A g \in Hashes \ {h} : /\ bytes'[<<"data", g>>] = bytes[<<"data", g>>]
                                 /\ bytes'[<<"obao", g>>] = bytes[<<"obao", g>>]
  PROVE  Shut' /\ SealKept
<1>1. \A g \in Hashes : /\ bytes'[<<"data", g>>] \subseteq Content[g]
                        /\ bytes'[<<"obao", g>>] \subseteq Content[g]
  BY DEF IInv, DiskOK, Kinds
<1>2. ASSUME NEW g \in Hashes, Sealed(g) PROVE Sealed(g)'
  BY <1>1, <1>2 DEF Sealed, WholeOnDisk
<1>3. ASSUME NEW g \in Hashes \ {h}, Sealed(g)' PROVE Sealed(g)
  BY <1>3 DEF Sealed, WholeOnDisk
<1>4. Shut'
  BY <1>3 DEF Shut, Unbroken
<1> QED
  BY <1>2, <1>4 DEF SealKept

LEMMA ParentsKeepsShut ==
  ASSUME IInv, IInv', Shut, NEW d \in Downloads, NEW c \in Chunks, Parents(d, c)
  PROVE  Shut' /\ SealKept
<1> DEFINE h == DownloadOf[d]
<1>1. h \in Hashes /\ bytes' = [bytes EXCEPT ![<<"obao", h>>] = bytes[<<"obao", h>>] \cup {c}]
  BY ConstantFacts, FilesAreIndices DEF IInv, DiskOK, Kinds, Parents
<1>2. UNCHANGED <<files, entry, actor, up>> /\ ~Unbroken /\ Present(h)
  BY DEF Parents, Receives, Running, Present, bounds
<1> HIDE DEF h
<1>3. /\ bytes'[<<"obao", h>>] = bytes[<<"obao", h>>] \cup {c}
      /\ \A l \in Kinds, g \in Hashes :
           l # "obao" \/ g # h => bytes'[<<l, g>>] = bytes[<<l, g>>]
  BY <1>1, OneFileWritten DEF Kinds
<1>4. \A g \in Hashes : /\ bytes[<<"data", g>>] \subseteq bytes'[<<"data", g>>]
                        /\ bytes[<<"obao", g>>] \subseteq bytes'[<<"obao", g>>]
  BY <1>3 DEF Kinds
<1>5. \A g \in Hashes \ {h} : /\ bytes'[<<"data", g>>] = bytes[<<"data", g>>]
                              /\ bytes'[<<"obao", g>>] = bytes[<<"obao", g>>]
  BY <1>3 DEF Kinds
<1>6. Present(h)' /\ \A g \in Hashes : Present(g) => Present(g)'
  BY <1>2 DEF Present
<1> QED
  BY <1>1, <1>2, <1>4, <1>5, <1>6, GrowthKeepsShut

LEMMA WrittenLeafKeepsShut ==
  ASSUME IInv, IInv', Shut, NEW h \in Hashes, NEW c, NEW recorded,
         entry[h].state = "partial", ~Unbroken, UNCHANGED <<files, actor, up>>,
         WriteLeaf(h, c, recorded)
  PROVE  Shut' /\ SealKept
<1> DEFINE f == <<"data", h>>
           m == <<"meta", h>>
<1>1. f \in Kinds \X Hashes /\ m \in Kinds \X Hashes /\ f # m
  BY DEF Kinds
<1>2. bytes' = [[bytes EXCEPT ![f] = bytes[f] \cup {c}] EXCEPT ![m] = recorded]
  BY <1>1 DEF WriteLeaf, IInv, DiskOK
<1>3. /\ bytes'[f] = bytes[f] \cup {c}
      /\ \A g \in (Kinds \X Hashes) \ {f, m} : bytes'[g] = bytes[g]
  BY <1>1, <1>2 DEF IInv, DiskOK
<1>4. \A g \in Hashes : /\ bytes[<<"data", g>>] \subseteq bytes'[<<"data", g>>]
                        /\ bytes[<<"obao", g>>] \subseteq bytes'[<<"obao", g>>]
  BY <1>3, FilesAreIndices DEF Kinds
<1>5. \A g \in Hashes \ {h} : /\ bytes'[<<"data", g>>] = bytes[<<"data", g>>]
                              /\ bytes'[<<"obao", g>>] = bytes[<<"obao", g>>]
  BY <1>3, FilesAreIndices DEF Kinds
<1>6. Present(h)' /\ \A g \in Hashes : Present(g) => Present(g)'
  BY DEF IInv, EntryOK, Present, WriteLeaf
<1> QED
  BY <1>4, <1>5, <1>6, GrowthKeepsShut

LEMMA LeafKeepsShut ==
  ASSUME IInv, IInv', Shut, NEW d \in Downloads, NEW c \in Chunks,
         Leaf(d, c) \/ LeafFails(d, c)
  PROVE  Shut' /\ SealKept
<1>1. CASE Leaf(d, c)
  BY <1>1, ConstantFacts, WrittenLeafKeepsShut DEF Leaf, Receives, Running, bounds
<1>2. CASE LeafFails(d, c)
  BY <1>2, ConstantFacts, WrittenLeafKeepsShut DEF LeafFails, Receives, Running, bounds
<1> QED
  BY <1>1, <1>2

LEMMA DropMetaKeepsShut ==
  ASSUME IInv, IInv', Shut, NEW d \in Downloads, DropMeta(d)
  PROVE  Shut' /\ SealKept
<1> DEFINE h == DownloadOf[d]
<1>1. h \in Hashes /\ Present(h)' /\ \A g \in Hashes : Present(g)' <=> Present(g)
  BY ConstantFacts DEF IInv, CallsOK, Streaming, Present, DropMeta
<1>2. \A g \in Hashes : /\ bytes'[<<"data", g>>] = bytes[<<"data", g>>]
                        /\ bytes'[<<"obao", g>>] = bytes[<<"obao", g>>]
  BY ConstantFacts, MetaIsEmptied DEF DropMeta
<1>3. \A g \in Hashes \ {h} : <<"meta", g>> \in files' <=> <<"meta", g>> \in files
  BY DEF DropMeta
<1>4. UNCHANGED <<actor, up>> /\ files' \subseteq files /\ ~Unbroken
  BY DEF DropMeta, Running, bounds
<1>5. \A g \in Hashes : Sealed(g) => Sealed(g)'
  BY <1>2, <1>4 DEF Sealed, WholeOnDisk
<1>6. \A g \in Hashes \ {h} : Sealed(g)' => Sealed(g)
  BY <1>2, <1>3 DEF Sealed, WholeOnDisk
<1> QED
  BY <1>1, <1>4, <1>5, <1>6 DEF Shut, SealKept, Unbroken

LEMMA FlipKeepsShut ==
  ASSUME IInv, IInv', Shut, NEW d \in Downloads, Flip(d)
  PROVE  Shut' /\ SealKept
<1>1. \A g \in Hashes : Present(g) => Present(g)'
  BY DEF Present, Complete, Flip
<1>2. \A g \in Hashes : <<"meta", g>> \in files' <=> <<"meta", g>> \in files
  BY DEF Flip
<1> QED
  BY <1>1, <1>2, ShutStays DEF Flip, bounds

(* Only a blob the table does not have is opened, and that one is not whole *)
(* without a meta file.                                                     *)
LEMMA OpenMetaKeepsShut ==
  ASSUME IInv, IInv', Shut, OpenMeta
  PROVE  Shut' /\ SealKept
<1>1. PICK h \in Hashes : h = actor.on
  BY ConstantFacts DEF IInv, ActorOK, Opening, OpenMeta, IsAt
<1>2. /\ ~Present(h) /\ actor.at = "open meta" /\ up
      /\ UNCHANGED <<bytes, up>> /\ actor'.at = "idle"
  BY <1>1 DEF IInv, ActorOK, Opening, OpenMeta, IsAt, Idle, bounds
<1>3. /\ <<"meta", h>> \in files'
      /\ \A g \in Hashes \ {h} : <<"meta", g>> \in files' <=> <<"meta", g>> \in files
  BY <1>1 DEF OpenMeta
<1>4. \A g \in Hashes \ {h} : Present(g) => Present(g)'
  BY <1>1 DEF IInv, EntryOK, Present, OpenMeta
<1>5. ~Sealed(h) /\ ~Sealed(h)'
  BY <1>2, <1>3 DEF Shut, Sealed
<1>6. \A g \in Hashes \ {h} : Sealed(g)' <=> Sealed(g)
  BY <1>2, <1>3 DEF Sealed, WholeOnDisk
<1> QED
  BY <1>2, <1>4, <1>5, <1>6 DEF Shut, SealKept

LEMMA TruncateKeepsShut == ASSUME IInv, IInv', Shut, Truncate PROVE Shut' /\ SealKept
<1>1. PICK h \in Hashes : h = actor.on
  BY DEF IInv, ActorOK, Copying, Truncate, IsAt
<1>2. /\ bytes' = [bytes EXCEPT ![<<"data", h>>] = {}] /\ actor.at = "opened"
      /\ actor'.at = "copying" /\ actor'.on = h /\ UNCHANGED <<files, entry, up>>
  BY <1>1 DEF Truncate, IsAt, bounds
<1>3. /\ bytes'[<<"data", h>>] = {}
      /\ \A l \in Kinds, g \in Hashes :
           l # "data" \/ g # h => bytes'[<<l, g>>] = bytes[<<l, g>>]
  BY <1>2, OneFileWritten DEF Kinds
<1>4. ~Sealed(h)' /\ \A g \in Hashes \ {h} : Sealed(g)' <=> Sealed(g)
  BY <1>2, <1>3, ConstantFacts DEF Sealed, WholeOnDisk, Kinds
<1> QED
  BY <1>2, <1>3, <1>4 DEF Shut, SealKept, Present

LEMMA CopyKeepsShut == ASSUME IInv, IInv', Shut, Copy PROVE Shut' /\ SealKept
<1>1. PICK h \in Hashes : h = actor.on
  BY DEF IInv, ActorOK, Copying, Copy, IsAt
<1>2. /\ bytes' = [bytes EXCEPT ![<<"data", h>>] = Content[h]] /\ actor.at = "copying"
      /\ actor'.at \in {"written", "copied"} /\ actor'.on = h /\ UNCHANGED <<files, entry, up>>
  BY <1>1 DEF Copy, IsAt, bounds
<1>3. \A l \in Kinds, g \in Hashes :
        l # "data" \/ g # h => bytes'[<<l, g>>] = bytes[<<l, g>>]
  BY <1>2, OneFileWritten DEF Kinds
<1>4. ~Sealed(h) /\ \A g \in Hashes \ {h} : Sealed(g)' <=> Sealed(g)
  BY <1>1, <1>2, <1>3, ConstantFacts DEF Shut, Sealed, WholeOnDisk, Kinds
<1> QED
  BY <1>1, <1>2, <1>4 DEF Shut, SealKept, Present

LEMMA OpenOutboardKeepsShut ==
  ASSUME IInv, IInv', Shut, OpenOutboard PROVE Shut' /\ SealKept
<1>1. PICK h \in Hashes : h = actor.on
  BY DEF IInv, ActorOK, Copying, OpenOutboard, IsAt
<1>2. /\ bytes' = [bytes EXCEPT ![<<"obao", h>>] = {}] /\ actor.at = "copied"
      /\ actor'.at = "outboard" /\ actor'.on = h /\ UNCHANGED <<entry, up>>
      /\ files' = files \cup {<<"obao", h>>} /\ h \notin Single
  BY <1>1 DEF IInv, ActorOK, OpenOutboard, IsAt, bounds
<1>3. /\ bytes'[<<"obao", h>>] = {}
      /\ \A l \in Kinds, g \in Hashes :
           l # "obao" \/ g # h => bytes'[<<l, g>>] = bytes[<<l, g>>]
  BY <1>2, OneFileWritten DEF Kinds
<1>4. ~Sealed(h)' /\ \A g \in Hashes \ {h} : Sealed(g)' <=> Sealed(g)
  BY <1>2, <1>3, ConstantFacts DEF Sealed, WholeOnDisk, Kinds
<1> QED
  BY <1>1, <1>2, <1>3, <1>4 DEF Shut, SealKept, Present

LEMMA CopyOutboardKeepsShut ==
  ASSUME IInv, IInv', Shut, CopyOutboard PROVE Shut' /\ SealKept
<1>1. PICK h \in Hashes : h = actor.on
  BY DEF IInv, ActorOK, Copying, CopyOutboard, IsAt
<1>2. /\ bytes' = [bytes EXCEPT ![<<"obao", h>>] = Content[h]] /\ actor.at = "outboard"
      /\ actor'.at = "written" /\ actor'.on = h /\ UNCHANGED <<files, entry, up>>
      /\ h \notin Single
  BY <1>1 DEF IInv, ActorOK, CopyOutboard, IsAt, bounds
<1>3. \A l \in Kinds, g \in Hashes :
        l # "obao" \/ g # h => bytes'[<<l, g>>] = bytes[<<l, g>>]
  BY <1>2, OneFileWritten DEF Kinds
<1>4. ~Sealed(h) /\ \A g \in Hashes \ {h} : Sealed(g)' <=> Sealed(g)
  BY <1>1, <1>2, <1>3, ConstantFacts DEF Shut, Sealed, WholeOnDisk, Kinds
<1> QED
  BY <1>1, <1>2, <1>4 DEF Shut, SealKept, Present

LEMMA DropStaleMetaKeepsShut ==
  ASSUME IInv, IInv', Shut, DropStaleMeta PROVE Shut' /\ SealKept
<1>1. PICK h \in Hashes : h = actor.on
  BY DEF IInv, ActorOK, Copying, DropStaleMeta, IsAt
<1>2. /\ bytes' = [bytes EXCEPT ![<<"meta", h>>] = {}] /\ actor.at = "written"
      /\ actor'.at = "register" /\ actor'.on = h /\ UNCHANGED <<entry, up>>
      /\ files' = files \ {<<"meta", h>>}
  BY <1>1 DEF DropStaleMeta, IsAt, bounds
<1>3. \A g \in Hashes : /\ bytes'[<<"data", g>>] = bytes[<<"data", g>>]
                        /\ bytes'[<<"obao", g>>] = bytes[<<"obao", g>>]
  BY <1>2, MetaIsEmptied
<1>4. /\ \A g \in Hashes : Sealed(g) => Sealed(g)'
      /\ \A g \in Hashes \ {h} : Sealed(g)' => Sealed(g)
  BY <1>2, <1>3 DEF Sealed, WholeOnDisk
<1> QED
  BY <1>1, <1>2, <1>4 DEF Shut, SealKept, Present

LEMMA RegisterKeepsShut == ASSUME IInv, IInv', Shut, Register PROVE Shut' /\ SealKept
<1>1. PICK h \in Hashes : h = actor.on
  BY DEF IInv, ActorOK, Copying, Register, IsAt
<1>2. /\ entry' = [entry EXCEPT ![h] = Complete(h)] /\ actor'.at = "idle"
      /\ UNCHANGED <<files, bytes, up>>
  BY <1>1 DEF Register, Idle, disk, bounds
<1>3. Present(h)' /\ \A g \in Hashes : Present(g) => Present(g)'
  BY <1>2 DEF IInv, EntryOK, Complete, Present
<1>4. \A g \in Hashes : Sealed(g)' <=> Sealed(g)
  BY <1>2 DEF Sealed, WholeOnDisk
<1> QED
  BY <1>1, <1>2, <1>3, <1>4 DEF Shut, SealKept

(* The blob of a copy that fails is not whole.                              *)
LEMMA CopyFailsKeepsShut == ASSUME IInv, IInv', Shut, CopyFails PROVE Shut' /\ SealKept
<1>1. PICK h \in Hashes : h = actor.on
  BY DEF IInv, ActorOK, Copying, CopyFails, Unbroken
<1>2. actor.at \in {"copying", "outboard"} /\ actor'.at = "idle"
      /\ UNCHANGED <<files, bytes, entry, up>>
  BY DEF CopyFails, Unbroken, Idle, disk
<1>3. ~Sealed(h)
  BY <1>1, <1>2, ConstantFacts DEF Shut, Sealed, WholeOnDisk, IInv, ActorOK
<1>4. \A g \in Hashes : (Sealed(g)' <=> Sealed(g)) /\ (Present(g)' <=> Present(g))
  BY <1>2 DEF Sealed, WholeOnDisk, Present
<1> QED
  BY <1>1, <1>2, <1>3, <1>4 DEF Shut, SealKept

LEMMA SweepKeepsShut ==
  ASSUME IInv, IInv', Shut, NEW h \in Hashes, Sweep(h) PROVE Shut' /\ SealKept
<1>1. /\ bytes' = [bytes EXCEPT ![<<"data", h>>] = {}] /\ actor.at = "sweep"
      /\ actor'.at = "sweep obao" /\ up' = up
      /\ files' = files \ {<<"data", h>>} /\ entry' = [entry EXCEPT ![h] = NoEntry]
  BY DEF IInv, ActorOK, ActorRecords, Sweep, IsAt, bounds
<1>2. /\ bytes'[<<"data", h>>] = {}
      /\ \A l \in Kinds, g \in Hashes :
           l # "data" \/ g # h => bytes'[<<l, g>>] = bytes[<<l, g>>]
  BY <1>1, OneFileWritten DEF Kinds
<1>3. ~Sealed(h)' /\ \A g \in Hashes \ {h} : Sealed(g)' <=> Sealed(g)
  BY <1>1, <1>2, ConstantFacts DEF Sealed, WholeOnDisk, Kinds
<1>4. \A g \in Hashes \ {h} : Present(g)' <=> Present(g)
  BY <1>1 DEF IInv, EntryOK, Present
<1> QED
  BY <1>1, <1>3, <1>4 DEF Shut, SealKept

LEMMA SweepFilesKeepsShut ==
  ASSUME IInv, IInv', Shut, SweepObao \/ SweepMeta PROVE Shut' /\ SealKept
<1>1. PICK h \in Hashes, k \in {"obao", "meta"} :
        /\ h = actor.on /\ files' = files \ {<<k, h>>}
        /\ bytes' = [bytes EXCEPT ![<<k, h>>] = {}]
  BY DEF IInv, ActorOK, Sweeping, SweepObao, SweepMeta, IsAt
<1>2. /\ actor.at \in Sweeping /\ actor'.at \in {"sweep meta", "sweep"}
      /\ UNCHANGED <<entry, up>>
  BY DEF IInv, ActorOK, ActorRecords, Sweeping, SweepObao, SweepMeta, IsAt, bounds
<1>3. \A l \in Kinds, g \in Hashes :
        l # k \/ g # h => bytes'[<<l, g>>] = bytes[<<l, g>>]
  BY <1>1, OneFileWritten DEF Kinds
<1>4. bytes[<<"data", h>>] = {} /\ bytes'[<<"data", h>>] = {}
  BY <1>1, <1>2, <1>3 DEF IInv, ActorOK, DiskOK, Kinds
<1>5. /\ ~Sealed(h) /\ ~Sealed(h)'
      /\ \A g \in Hashes \ {h} : Sealed(g)' <=> Sealed(g)
  BY <1>1, <1>3, <1>4, ConstantFacts DEF Sealed, WholeOnDisk, Kinds
<1> QED
  BY <1>2, <1>5 DEF Shut, SealKept, Present, Sweeping

LEMMA CrashKeepsShut == ASSUME IInv, IInv', Shut, Crash PROVE Shut' /\ SealKept
<1>1. up' = FALSE /\ actor' = Idle /\ files' = files
  BY DEF Crash
<1>2. PICK torn \in SUBSET {DownloadOf[d] : d \in {e \in Downloads : dl[e] = "recv"}} :
        bytes' = [f \in DOMAIN bytes |->
                    IF f[1] = "meta" /\ f[2] \in torn THEN {} ELSE bytes[f]]
  BY DEF Crash
<1>3. \A g \in Hashes : /\ bytes'[<<"data", g>>] = bytes[<<"data", g>>]
                        /\ bytes'[<<"obao", g>>] = bytes[<<"obao", g>>]
  BY <1>2, FilesAreIndices DEF IInv, DiskOK, Kinds
<1>4. \A g \in Hashes : Sealed(g) => Sealed(g)'
  BY <1>1, <1>3 DEF Sealed, WholeOnDisk
<1> QED
  BY <1>1, <1>4 DEF Shut, SealKept, Idle

(* The scan takes it for what it is.                                        *)
LEMMA BootKeepsShut == ASSUME IInv, IInv', Shut, Boot PROVE Shut' /\ SealKept
<1>1. /\ bytes' = bytes /\ actor = Idle /\ actor' = actor
      /\ \A g \in Hashes : <<"meta", g>> \in files' <=> <<"meta", g>> \in files
      /\ entry' = [h \in Hashes |-> Scanned(h)]
  BY DEF IInv, ActorOK, Boot
<1>2. \A g \in Hashes : Sealed(g)' <=> Sealed(g)
  BY <1>1 DEF Sealed, WholeOnDisk
<1>3. ASSUME NEW h \in Hashes, Sealed(h) PROVE Present(h)'
  <2>1. <<"data", h>> \in files
    BY <1>3, ConstantFacts DEF IInv, DiskOK, Kinds, Sealed, WholeOnDisk
  <2>2. Scanned(h) = Complete(h)
    BY <1>3, <2>1 DEF Scanned, Sealed
  <2> QED BY <1>1, <2>2 DEF Present, Complete
<1> QED
  BY <1>1, <1>2, <1>3 DEF Shut, SealKept, Idle


-----------------------------------------------------------------------------
(* Every step, and the theorems.                                            *)

LEMMA StepIsSound == ASSUME IInv, Next PROVE IInv'
<1>1. CASE Work
  BY <1>1,
     OpenObaoKeeps, OpenMetaKeeps, TruncateKeeps, CopyKeeps, OpenOutboardKeeps,
     CopyOutboardKeeps, DropStaleMetaKeeps, RegisterKeeps, EmptyManifestKeeps,
     WriteManifestKeeps, SweepKeeps, SweepObaoKeeps, SweepMetaKeeps, SweptKeeps
     DEF Work
<1>2. ASSUME NEW d \in Downloads, Begin(d) \/ Fails(d) \/ Cancel(d) \/ Discard(d) \/ Goes(d)
      PROVE  IInv'
  <2>1. CASE Begin(d) \/ Fails(d) \/ Cancel(d) \/ Discard(d) \/ Awaited(d) \/ ReadEnds(d) \/ Handle(d)
    BY <2>1,
       BeginKeeps, FailsKeeps, CancelKeeps, DiscardKeeps, AwaitedKeeps,
     ReadEndsKeeps, FindEntryKeeps, OpenDataKeeps
       DEF Handle
  <2>2. ASSUME NEW c \in Chunks, Parents(d, c) \/ Leaf(d, c) \/ LeafFails(d, c) \/ SkipLeaf(d, c)
        PROVE  IInv'
    BY <2>2,
       ParentsKeeps, LeafKeeps, LeafFailsKeeps, SkipLeafKeeps
  <2>3. CASE DropMeta(d) \/ Flip(d) \/ StreamEnds(d)
    BY <2>3,
       DropMetaKeeps, FlipKeeps, StreamEndsKeeps
  <2> QED BY <1>2, <2>1, <2>2, <2>3 DEF Goes, Stream
<1>3. ASSUME NEW i \in Imports, StartImport(i) \/ Pin(i) \/ Release(i) \/ HandleImport(i)
      PROVE  IInv'
  BY <1>3,
     StartImportKeeps, PinKeeps, ReleaseKeeps, DedupKeeps, OpenForCopyKeeps
     DEF HandleImport
<1>4. ASSUME NEW h \in Hashes, SetTag(h) \/ DeleteTag(h)
      PROVE  IInv'
  BY <1>4,
     SetTagKeeps, DeleteTagKeeps
<1>5. CASE Mark \/ CopyFails \/ Crash \/ Boot
  BY <1>5,
     MarkKeeps, CopyFailsKeeps, CrashKeeps, BootKeeps
<1> QED
  BY <1>1, <1>2, <1>3, <1>4, <1>5 DEF Next, Client

(* The scan of a new run reads the files as they were left.                 *)
LEMMA BootKeepsSound ==
  ASSUME IInv, IInv', NEW S \in SUBSET Hashes, Sound(S), Boot
  PROVE  Sound(S)'
<1>1. /\ actor.at = "idle" /\ actor' = actor /\ bytes' = bytes /\ dl' = dl
      /\ \A h \in Hashes : ~Present(h)
  <2>1. actor = Idle /\ \A h \in Hashes : ~Present(h)
    BY DEF IInv, ActorOK, Boot
  <2> QED BY <2>1 DEF Boot, Idle, calls
<1>2. \A h \in Hashes : entry'[h] = Scanned(h)
  BY DEF Boot
<1>3. ASSUME NEW h \in S
      PROVE  Backed(h, entry[h].field)' /\ Backed(h, bytes[<<"meta", h>>])'
  <2>1. Backed(h, bytes[<<"meta", h>>])
    BY <1>1 DEF Sound, Recorded, Sweeping
  <2>2. Backed(h, entry[h].field)'
    <3>0. entry'[h] = Scanned(h)
      BY <1>2
    <3>1. CASE <<"data", h>> \notin files
      <4>1. entry'[h].field = {}
        BY <3>0, <3>1 DEF Scanned, NoEntry
      <4> QED BY <4>1 DEF Backed
    <3>2. CASE <<"data", h>> \in files /\ <<"meta", h>> \in files
      <4>1. entry'[h].field = bytes[<<"meta", h>>]
        BY <3>0, <3>2 DEF Scanned, Partial
      <4> QED BY <1>1, <2>1, <4>1 DEF Backed
    <3>3. CASE <<"data", h>> \in files /\ <<"meta", h>> \notin files
      <4>1. entry'[h].field = Content[h]
        BY <3>0, <3>3 DEF Scanned, Complete
      <4>2. WholeOnDisk(h)
        BY <1>1, <3>3 DEF Sound, Scannable, Opening, Copying
      <4> QED BY <1>1, <4>1, <4>2 DEF Backed, WholeOnDisk
    <3> QED BY <3>1, <3>2, <3>3
  <2> QED BY <1>1, <2>1, <2>2 DEF Backed
<1>4. ASSUME NEW h \in Hashes, ~Present(h)' PROVE entry'[h].field = {}
  <2>1. entry'[h] \in {NoEntry, Partial(bytes[<<"meta", h>>]), Complete(h)}
    BY <1>2 DEF Scanned
  <2> QED BY <1>4, <2>1 DEF Present, NoEntry, Partial, Complete
<1>5. \A d \in Downloads : dl'[d] \notin {"finish", "flip"}
  BY <1>1, ConstantFacts DEF IInv, CallsOK, Streaming
<1>6. Scannable(S)'
  <2>1. \A h \in S : /\ (<<"data", h>> \in files' <=> <<"data", h>> \in files)
                   /\ (<<"meta", h>> \in files' <=> <<"meta", h>> \in files)
    BY DEF Boot
  <2> QED BY <1>1, <2>1, ScanStays DEF Sound, WholeOnDisk
<1>7. Restartable(S)'
  <2>1. actor' = Idle
    BY DEF IInv, ActorOK, Boot
  <2>2. InHand'
    BY <2>1 DEF InHand, Idle
  <2>3. ASSUME NEW h \in S PROVE Scanned(h)' = Scanned(h)
    BY <1>1, ScannedStays DEF Boot
  <2> QED BY <1>2, <2>2, <2>3 DEF Restartable, Lasting
<1> QED
  BY <1>1, <1>3, <1>4, <1>5, <1>6, <1>7 DEF Sound, Recorded, Copied

(* A copy that meets a full disk, and the death of the worker, leave the    *)
(* blob at hand as it is, and every other one as it was recorded.           *)
LEMMA FaultSpoilsOne ==
  ASSUME IInv, IInv', NEW S \in SUBSET Hashes, Sound(S), NEW o, o = actor.on,
         CopyFails \/ Crash
  PROVE  Sound(S \ {o})'
<1>1. /\ files' = files /\ actor'.at = "idle"
      /\ \A d \in Downloads : dl'[d] \in {"finish", "flip"} => dl[d] = dl'[d] /\ entry' = entry
      /\ \A h \in Hashes : entry'[h] \in {entry[h], NoEntry}
  BY DEF CopyFails, Crash, Idle, disk
<1>2. \A h \in Hashes : /\ bytes'[<<"data", h>>] = bytes[<<"data", h>>]
                        /\ bytes'[<<"obao", h>>] = bytes[<<"obao", h>>]
                        /\ bytes'[<<"meta", h>>] \in {bytes[<<"meta", h>>], {}}
  <2>1. CASE CopyFails
    BY <2>1 DEF CopyFails, disk
  <2>2. CASE Crash
    <3>1. PICK torn \in SUBSET {DownloadOf[d] : d \in {e \in Downloads : dl[e] = "recv"}} :
            bytes' = [f \in DOMAIN bytes |->
                        IF f[1] = "meta" /\ f[2] \in torn THEN {} ELSE bytes[f]]
      BY <2>2 DEF Crash
    <3> QED BY <3>1, FilesAreIndices DEF IInv, DiskOK, Kinds
  <2> QED BY <2>1, <2>2
<1>3. ASSUME NEW h \in S \ {o}
      PROVE  Backed(h, entry[h].field)' /\ Backed(h, bytes[<<"meta", h>>])'
  <2>1. Backed(h, entry[h].field) /\ Backed(h, bytes[<<"meta", h>>]) /\ h # actor.on
    BY <1>3 DEF Sound, Recorded
  <2>2. entry'[h].field \in {entry[h].field, {}}
    BY <1>1 DEF NoEntry
  <2> QED BY <1>2, <2>1, <2>2 DEF Backed
<1>4. \A h \in Hashes : ~Present(h)' => entry'[h].field = {}
  BY <1>1 DEF Sound, Recorded, Present, NoEntry
<1>5. \A d \in Downloads : dl'[d] \in {"finish", "flip"} => Filled(DownloadOf[d])'
  BY <1>1 DEF Sound, Recorded, Filled
<1>6. Scannable(S \ {o})'
  BY <1>1, <1>2 DEF Sound, Scannable, WholeOnDisk
<1>7. Restartable(S \ {o})'
  <2>1. InHand'
    BY DEF InHand, CopyFails, Crash, Idle
  <2>2. CASE Crash
    BY <2>1, <2>2 DEF Crash, Restartable, Lasting
  <2>3. ASSUME CopyFails, NEW h \in S \ {o} PROVE Lasting(h)'
    <3>1. Scanned(h).field = entry[h].field
      BY <2>3 DEF CopyFails, Sound, Restartable, Lasting
    <3>2. Scanned(h)' = Scanned(h) /\ entry'[h] = entry[h]
      BY <2>3 DEF CopyFails, disk, Scanned
    <3> QED BY <3>1, <3>2 DEF Lasting
  <2> QED BY <2>1, <2>2, <2>3 DEF Restartable
<1> QED
  BY <1>1, <1>3, <1>4, <1>5, <1>6, <1>7 DEF Sound, Recorded, Copied

LEMMA StepKeepsRecord ==
  ASSUME IInv, IInv', NEW S \in SUBSET Hashes, Recorded(S), Next, ~CopyFails, ~Crash, ~Boot
  PROVE  Recorded(S)'
<1>1. CASE Work
  BY <1>1,
     OpenObaoKeepsRecord, OpenMetaKeepsRecord, TruncateKeepsRecord,
     CopyKeepsRecord, OpenOutboardKeepsRecord, CopyOutboardKeepsRecord,
     DropStaleMetaKeepsRecord, RegisterKeepsRecord, EmptyManifestKeepsRecord,
     WriteManifestKeepsRecord, SweepKeepsRecord, SweepObaoKeepsRecord,
     SweepMetaKeepsRecord, SweptKeepsRecord
     DEF Work
<1>2. ASSUME NEW d \in Downloads, Begin(d) \/ Fails(d) \/ Cancel(d) \/ Discard(d) \/ Goes(d)
      PROVE  Recorded(S)'
  <2>1. CASE Begin(d) \/ Fails(d) \/ Cancel(d) \/ Discard(d) \/ Awaited(d) \/ ReadEnds(d) \/ Handle(d)
    BY <2>1,
       BeginKeepsRecord, FailsKeepsRecord, CancelKeepsRecord, DiscardKeepsRecord,
     AwaitedKeepsRecord, ReadEndsKeepsRecord, FindEntryKeepsRecord,
     OpenDataKeepsRecord
       DEF Handle
  <2>2. ASSUME NEW c \in Chunks, Parents(d, c) \/ Leaf(d, c) \/ LeafFails(d, c) \/ SkipLeaf(d, c)
        PROVE  Recorded(S)'
    BY <2>2,
       ParentsKeepsRecord, LeafKeepsRecord, LeafFailsKeepsRecord,
     SkipLeafKeepsRecord
  <2>3. CASE DropMeta(d) \/ Flip(d) \/ StreamEnds(d)
    BY <2>3,
       DropMetaKeepsRecord, FlipKeepsRecord, StreamEndsKeepsRecord
  <2> QED BY <1>2, <2>1, <2>2, <2>3 DEF Goes, Stream
<1>3. ASSUME NEW i \in Imports, StartImport(i) \/ Pin(i) \/ Release(i) \/ HandleImport(i)
      PROVE  Recorded(S)'
  BY <1>3,
     StartImportKeepsRecord, PinKeepsRecord, ReleaseKeepsRecord,
     DedupKeepsRecord, OpenForCopyKeepsRecord
     DEF HandleImport
<1>4. ASSUME NEW h \in Hashes, SetTag(h) \/ DeleteTag(h)
      PROVE  Recorded(S)'
  BY <1>4,
     SetTagKeepsRecord, DeleteTagKeepsRecord
<1>5. CASE Mark
  BY <1>5, MarkKeepsRecord
<1> QED
  BY <1>1, <1>2, <1>3, <1>4, <1>5 DEF Next, Client

LEMMA StepKeepsScan ==
  ASSUME IInv, IInv', NEW S \in SUBSET Hashes, Recorded(S), Scannable(S),
         Next, ~CopyFails, ~Crash, ~Boot
  PROVE  Scannable(S)'
<1>1. CASE Work
  <2>1. CASE EmptyManifest \/ WriteManifest \/ Swept
    BY <2>1, DiskKeepsScan DEF EmptyManifest, WriteManifest, Swept, IsAt, Opening, Copying
  <2> QED BY <1>1, <2>1, OpeningKeepsScan, CopyKeepsScan, SweepKeepsScan DEF Work
<1>2. ASSUME NEW d \in Downloads, Begin(d) \/ Fails(d) \/ Cancel(d) \/ Discard(d)
      PROVE  Scannable(S)'
  BY <1>2, DiskKeepsScan DEF Begin, Fails, Cancel, Discard
<1>3. ASSUME NEW d \in Downloads, Goes(d)
      PROVE  Scannable(S)'
  <2>1. CASE Awaited(d) \/ ReadEnds(d) \/ FindEntry(d) \/ StreamEnds(d)
    BY <2>1, DiskKeepsScan DEF Awaited, ReadEnds, FindEntry, StreamEnds
  <2>2. CASE Flip(d)
    <3>1. /\ bytes' = bytes /\ actor' = actor
          /\ \A h \in S : /\ (<<"data", h>> \in files' <=> <<"data", h>> \in files)
                         /\ (<<"meta", h>> \in files' <=> <<"meta", h>> \in files)
      BY <2>2 DEF Flip
    <3> QED BY <3>1, ScanStays DEF WholeOnDisk
  <2>3. ASSUME NEW c \in Chunks, SkipLeaf(d, c) PROVE Scannable(S)'
    BY <2>3, DiskKeepsScan DEF SkipLeaf
  <2> QED BY <1>3, <2>1, <2>2, <2>3, StreamKeepsScan, DropMetaKeepsScan, OpeningKeepsScan
          DEF Goes, Handle, Stream
<1>4. ASSUME NEW i \in Imports, StartImport(i) \/ Pin(i) \/ Release(i) \/ HandleImport(i)
      PROVE  Scannable(S)'
  <2>1. CASE StartImport(i) \/ Pin(i) \/ Release(i) \/ Dedup(i)
    BY <2>1, DiskKeepsScan DEF StartImport, Pin, Release, Dedup
  <2> QED BY <1>4, <2>1, OpeningKeepsScan DEF HandleImport
<1>5. ASSUME NEW h \in Hashes, SetTag(h) \/ DeleteTag(h)
      PROVE  Scannable(S)'
  BY <1>5, DiskKeepsScan DEF SetTag, DeleteTag, IsAt, Opening, Copying
<1>6. CASE Mark
  BY <1>6, DiskKeepsScan DEF Mark, IsAt, Opening, Copying
<1> QED
  BY <1>1, <1>2, <1>3, <1>4, <1>5, <1>6 DEF Next, Client

LEMMA StepKeepsRestart ==
  ASSUME IInv, NEW S \in SUBSET Hashes, Recorded(S), Restartable(S),
         Next, ~CopyFails, ~Crash, ~Boot
  PROVE  Restartable(S)'
<1>1. CASE Work
  <2>1. CASE EmptyManifest \/ WriteManifest \/ Swept
    BY <2>1, RestKeepsRestart DEF EmptyManifest, WriteManifest, Swept, IsAt, Idle, Resting,
                                  disk, bounds
  <2> QED BY <1>1, <2>1, OpeningKeepsRestart, WorkingKeepsRestart, EndingKeepsRestart DEF Work
<1>2. ASSUME NEW d \in Downloads, Begin(d) \/ Fails(d) \/ Cancel(d) \/ Discard(d)
      PROVE  Restartable(S)'
  BY <1>2, RestKeepsRestart DEF Begin, Fails, Cancel, Discard, disk, bounds
<1>3. ASSUME NEW d \in Downloads, Goes(d)
      PROVE  Restartable(S)'
  <2>1. CASE Awaited(d) \/ ReadEnds(d) \/ FindEntry(d) \/ StreamEnds(d)
    BY <2>1, RestKeepsRestart DEF Awaited, ReadEnds, FindEntry, StreamEnds, disk, bounds
  <2>2. ASSUME NEW c \in Chunks, SkipLeaf(d, c) PROVE Restartable(S)'
    BY <2>2, RestKeepsRestart DEF SkipLeaf, disk, bounds
  <2> QED BY <1>3, <2>1, <2>2, LeafKeepsRestart, FinishKeepsRestart, OpeningKeepsRestart
          DEF Goes, Handle, Stream
<1>4. ASSUME NEW i \in Imports, StartImport(i) \/ Pin(i) \/ Release(i) \/ HandleImport(i)
      PROVE  Restartable(S)'
  <2>1. CASE StartImport(i) \/ Pin(i) \/ Release(i) \/ Dedup(i)
    BY <2>1, RestKeepsRestart DEF StartImport, Pin, Release, Dedup, disk, bounds
  <2> QED BY <1>4, <2>1, OpeningKeepsRestart DEF HandleImport
<1>5. ASSUME NEW h \in Hashes, SetTag(h) \/ DeleteTag(h)
      PROVE  Restartable(S)'
  BY <1>5, RestKeepsRestart DEF SetTag, DeleteTag, IsAt, Idle, Resting, disk, bounds
<1>6. CASE Mark
  BY <1>6, RestKeepsRestart DEF Mark, IsAt, Idle, Resting, disk, bounds
<1> QED
  BY <1>1, <1>2, <1>3, <1>4, <1>5, <1>6 DEF Next, Client

LEMMA StepKeepsSound ==
  ASSUME IInv, IInv', NEW S \in SUBSET Hashes, Sound(S), Next, ~CopyFails, ~Crash
  PROVE  Sound(S)'
  BY StepKeepsRecord, StepKeepsScan, StepKeepsRestart, BootKeepsSound DEF Sound

LEMMA StepKeepsShut == ASSUME IInv, IInv', Shut, Next PROVE Shut' /\ SealKept
<1>1. CASE Work
  BY <1>1,
     OpenObaoKeepsShut, OpenMetaKeepsShut, TruncateKeepsShut, CopyKeepsShut,
     OpenOutboardKeepsShut, CopyOutboardKeepsShut, DropStaleMetaKeepsShut,
     RegisterKeepsShut, EmptyManifestKeepsShut, WriteManifestKeepsShut,
     SweepKeepsShut, SweepFilesKeepsShut, SweptKeepsShut
     DEF Work
<1>2. ASSUME NEW d \in Downloads, Begin(d) \/ Fails(d) \/ Cancel(d) \/ Discard(d) \/ Goes(d)
      PROVE  Shut' /\ SealKept
  <2>1. CASE Begin(d) \/ Fails(d) \/ Cancel(d) \/ Discard(d) \/ Awaited(d) \/ ReadEnds(d) \/ Handle(d)
    BY <2>1,
       BeginKeepsShut, FailsKeepsShut, CancelKeepsShut, DiscardKeepsShut,
     AwaitedKeepsShut, ReadEndsKeepsShut, FindEntryKeepsShut, OpenDataKeepsShut
       DEF Handle
  <2>2. ASSUME NEW c \in Chunks, Parents(d, c) \/ Leaf(d, c) \/ LeafFails(d, c) \/ SkipLeaf(d, c)
        PROVE  Shut' /\ SealKept
    BY <2>2,
       ParentsKeepsShut, LeafKeepsShut, SkipLeafKeepsShut
  <2>3. CASE DropMeta(d) \/ Flip(d) \/ StreamEnds(d)
    BY <2>3,
       DropMetaKeepsShut, FlipKeepsShut, StreamEndsKeepsShut
  <2> QED BY <1>2, <2>1, <2>2, <2>3 DEF Goes, Stream
<1>3. ASSUME NEW i \in Imports, StartImport(i) \/ Pin(i) \/ Release(i) \/ HandleImport(i)
      PROVE  Shut' /\ SealKept
  BY <1>3,
     StartImportKeepsShut, PinKeepsShut, ReleaseKeepsShut, DedupKeepsShut,
     OpenForCopyKeepsShut
     DEF HandleImport
<1>4. ASSUME NEW h \in Hashes, SetTag(h) \/ DeleteTag(h)
      PROVE  Shut' /\ SealKept
  BY <1>4,
     SetTagKeepsShut, DeleteTagKeepsShut
<1>5. CASE Mark \/ CopyFails \/ Crash \/ Boot
  BY <1>5,
     MarkKeepsShut, CopyFailsKeepsShut, CrashKeepsShut, BootKeepsShut
<1> QED
  BY <1>1, <1>2, <1>3, <1>4, <1>5 DEF Next, Client

LEMMA StuttersAreSound ==
  ASSUME IInv, UNCHANGED vars
  PROVE  /\ IInv'
         /\ \A S \in SUBSET Hashes : Sound(S) => Sound(S)'
         /\ Shut => Shut'
<1>1. UNCHANGED disk /\ UNCHANGED calls /\ UNCHANGED manifest /\ UNCHANGED bounds
      /\ UNCHANGED <<files, entry, actor, dl, want, imp, protected, active, tags, up>>
  BY DEF vars, disk, calls, manifest, bounds
<1>2. IInv'
  <2>1. TaskIsActive' => TaskIsActive
    BY <1>1 DEF TaskIsActive
  <2> QED BY <1>1, <2>1, PartsStay, ActorStays DEF IInv
<1>3. ASSUME NEW S \in SUBSET Hashes, Sound(S) PROVE Sound(S)'
  BY <1>1, <1>3, RecordStays, DiskKeepsScan, RestKeepsRestart DEF Sound, disk
<1>4. Shut => Shut'
  BY <1>1, ShutStays DEF disk, Present
<1> QED
  BY <1>2, <1>3, <1>4

(* The bounds count the faults.                                             *)
LEMMA FaultsAreCounted ==
  ASSUME IInv, [Next]_vars
  PROVE  \/ ~CopyFails /\ ~Crash /\ UNCHANGED <<crashes, fulls>>
         \/ (CopyFails \/ Crash) /\ crashes' + fulls' = crashes + fulls + 1
<1>1. CASE UNCHANGED <<crashes, fulls>>
  BY <1>1 DEF CopyFails, Crash, IInv, BoundsOK
<1>2. CASE CopyFails
  BY <1>2 DEF CopyFails, IInv, BoundsOK
<1>3. CASE Crash
  BY <1>3 DEF Crash, IInv, BoundsOK
<1>4. UNCHANGED bounds => UNCHANGED <<crashes, fulls>>
  BY DEF bounds
<1>5. Work => UNCHANGED bounds
  BY DEF Work, OpenObao, OpenMeta, Truncate, Copy, OpenOutboard, CopyOutboard, DropStaleMeta,
         Register, EmptyManifest, WriteManifest, Sweep, SweepObao, SweepMeta, Swept
<1>6. ASSUME NEW d \in Downloads, Goes(d) PROVE UNCHANGED bounds
  BY <1>6 DEF Goes, Stream, Handle, Awaited, ReadEnds, FindEntry, OpenData, Parents, Leaf,
              LeafFails, SkipLeaf, DropMeta, Flip, StreamEnds
<1>7. Client => UNCHANGED bounds
  BY DEF Client, Begin, Fails, Cancel, Discard, StartImport, Pin, Release
<1>8. ASSUME NEW i \in Imports, HandleImport(i) PROVE UNCHANGED bounds
  BY <1>8 DEF HandleImport, Dedup, OpenForCopy
<1>9. ASSUME NEW h \in Hashes, SetTag(h) \/ DeleteTag(h) PROVE UNCHANGED bounds
  BY <1>9 DEF SetTag, DeleteTag
<1>10. Mark \/ Boot \/ UNCHANGED vars => UNCHANGED <<crashes, fulls>>
  BY DEF Mark, Boot, vars, bounds
<1> QED
  BY <1>1, <1>2, <1>3, <1>4, <1>5, <1>6, <1>7, <1>8, <1>9, <1>10 DEF Next

(* All but as many blobs as there were faults are as their records say.     *)
DInv ==
  /\ IInv
  /\ \E S \in SUBSET Hashes : /\ IsFiniteSet(S) /\ Cardinality(S) <= crashes + fulls
                             /\ Sound(Hashes \ S)

LEMMA RecordIsSound == (Init => DInv) /\ (DInv /\ [Next]_vars => DInv')
<1>1. ASSUME Init PROVE DInv
  <2>1. IInv /\ crashes + fulls = 0
    BY <1>1, StartIsSound DEF Init
  <2>2. Sound(Hashes \ {})
    <3>1. Recorded(Hashes \ {}) /\ Scannable(Hashes \ {})
      BY <1>1 DEF Init, Recorded, Scannable, Copied, Backed, Idle, NoEntry, Kinds
    <3>2. Restartable(Hashes \ {})
      BY <1>1 DEF Init, Restartable, InHand, Lasting, Scanned, Idle, NoEntry
    <3> QED BY <3>1, <3>2 DEF Sound
  <2>3. IsFiniteSet({}) /\ Cardinality({}) = 0
    BY FS_EmptySet
  <2> QED BY <2>1, <2>2, <2>3 DEF DInv
<1>2. ASSUME DInv, [Next]_vars PROVE DInv'
  <2>1. IInv /\ IInv'
    BY <1>2, StepIsSound, StuttersAreSound DEF DInv
  <2>2. PICK S \in SUBSET Hashes : /\ IsFiniteSet(S) /\ Cardinality(S) <= crashes + fulls
                                  /\ Sound(Hashes \ S)
    BY <1>2 DEF DInv
  <2>3. Cardinality(S) \in Nat /\ crashes + fulls \in Nat
    BY <2>1, <2>2, FS_CardinalityType DEF IInv, BoundsOK
  <2>4. CASE ~CopyFails /\ ~Crash /\ UNCHANGED <<crashes, fulls>>
    <3>1. Sound(Hashes \ S)'
      BY <1>2, <2>1, <2>2, <2>4, StepKeepsSound, StuttersAreSound
    <3> QED BY <2>1, <2>2, <2>4, <3>1 DEF DInv
  <2>5. CASE (CopyFails \/ Crash) /\ crashes' + fulls' = crashes + fulls + 1
    <3>1. PICK o : o = actor.on
      OBVIOUS
    <3>2. Sound((Hashes \ S) \ {o})'
      BY <2>1, <2>2, <2>5, <3>1, FaultSpoilsOne
    <3>3. PICK T \in {S, S \cup {o}} : T \subseteq Hashes /\ (Hashes \ S) \ {o} = Hashes \ T
      OBVIOUS
    <3>4. IsFiniteSet(T) /\ Cardinality(T) <= crashes + fulls + 1
      BY <2>2, <2>3, FS_AddElement
    <3> QED BY <2>1, <2>5, <3>2, <3>3, <3>4 DEF DInv
  <2> QED BY <1>2, <2>1, <2>4, <2>5, FaultsAreCounted
<1> QED
  BY <1>1, <1>2

(* What is recorded is there to be read whenever the actor yields.          *)
LEMMA SoundIsIntact ==
  ASSUME IInv, NEW S \in SUBSET Hashes, Sound(S), ~Unbroken, NEW h \in S
  PROVE  Intact(h)
<1>1. CASE up
  BY <1>1 DEF Sound, Recorded, Backed, Unbroken, Told, Intact
<1>2. CASE ~up
  <2>1. actor.at = "idle"
    <3>1. actor = Idle
      BY <1>2 DEF IInv, ActorOK
    <3> QED BY <3>1 DEF Idle
  <2>2. Backed(h, bytes[<<"meta", h>>])
    BY <2>1 DEF Sound, Recorded, Sweeping
  <2>3. <<"data", h>> \in files /\ <<"meta", h>> \notin files => WholeOnDisk(h)
    BY <2>1 DEF Sound, Scannable, Opening, Copying
  <2>4. Told(h) = Scanned(h)
    BY <1>2 DEF Told
  <2>5. CASE <<"data", h>> \notin files
    BY <2>4, <2>5 DEF Scanned, NoEntry, Intact
  <2>6. CASE <<"data", h>> \in files /\ <<"meta", h>> \in files
    BY <2>1, <2>2, <2>4, <2>6 DEF Scanned, Partial, Backed, Intact
  <2>7. CASE <<"data", h>> \in files /\ <<"meta", h>> \notin files
    BY <2>3, <2>4, <2>7 DEF Scanned, Complete, WholeOnDisk, Intact
  <2> QED BY <2>5, <2>6, <2>7
<1> QED
  BY <1>1, <1>2 DEF IInv, BoundsOK

LEMMA DamagedAreCounted ==
  ASSUME DInv, ~Unbroken
  PROVE  IsFiniteSet(Damaged) /\ Cardinality(Damaged) <= crashes + fulls
<1>1. PICK S \in SUBSET Hashes : /\ IsFiniteSet(S) /\ Cardinality(S) <= crashes + fulls
                                /\ Sound(Hashes \ S)
  BY DEF DInv
<1>2. \A h \in Hashes \ S : Intact(h) /\ Lasting(h)
  <2>1. IInv /\ Hashes \ S \in SUBSET Hashes
    BY DEF DInv
  <2>2. \A h \in Hashes \ S : Lasting(h)
    BY <1>1 DEF Sound, Restartable
  <2> QED BY <1>1, <2>1, <2>2, SoundIsIntact
<1>3. Damaged \subseteq S
  BY <1>2 DEF Damaged
<1>4. IsFiniteSet(Damaged) /\ Cardinality(Damaged) <= Cardinality(S)
  BY <1>1, <1>3, FS_Subset
<1>5. /\ Cardinality(S) \in Nat /\ Cardinality(Damaged) \in Nat
      /\ crashes + fulls \in Nat
  BY <1>1, <1>4, FS_CardinalityType DEF DInv, IInv, BoundsOK
<1> QED
  BY <1>1, <1>4, <1>5

(* The bitfield of a complete blob is full.                                 *)
LEMMA IntactIsWhole ==
  ASSUME IInv, NEW h \in Hashes, Intact(h), up, Filled(h)
  PROVE  WholeOnDisk(h)
<1>1. bytes[<<"data", h>>] \subseteq Content[h] /\ bytes[<<"obao", h>>] \subseteq Content[h]
  BY DEF IInv, DiskOK, Kinds
<1> QED
  BY <1>1 DEF Intact, Told, Filled, WholeOnDisk

Faultless == crashes = 0 /\ fulls = 0

LEMMA RecordIsWhole == DInv => (Faultless => CompleteIsWhole /\ PartialIsValid)
<1> SUFFICES ASSUME DInv, Faultless, ~Unbroken, NEW h \in Hashes, Present(h)
             PROVE  /\ entry[h].state = "complete" => WholeOnDisk(h)
                    /\ entry[h].field \subseteq bytes[<<"data", h>>]
  BY DEF CompleteIsWhole, PartialIsValid, Present
<1>1. Intact(h)
  <2>1. Cardinality(Damaged) \in Nat /\ Cardinality(Damaged) <= 0 /\ IsFiniteSet(Damaged)
    BY DamagedAreCounted, FS_CardinalityType DEF Faultless
  <2>2. Damaged = {}
    BY <2>1, FS_EmptySet
  <2> QED BY <2>2 DEF Damaged
<1>2. IInv /\ up
  BY DEF DInv, IInv, ActorOK
<1>3. entry[h].state = "complete" => Filled(h)
  BY <1>2 DEF IInv, EntryOK
<1> QED
  BY <1>1, <1>2, <1>3, IntactIsWhole DEF Intact, Told

(* The variables keep their shape, and a file that is not there holds       *)
(* nothing, whenever the worker dies (actor.rs).                            *)
THEOREM TypeCorrect == Spec => []TypeOK
<1>1. IInv /\ [Next]_vars => IInv'
  BY StepIsSound, StuttersAreSound
<1> QED
  BY <1>1, StartIsSound, InvariantIsTyped, PTL DEF Spec

(* Of all blobs, at most one for every death of the worker and every full   *)
(* disk holds less than the table says of it, or will be taken for another  *)
(* one than the table says when the node is started again: the one the      *)
(* actor had in hand (actor.rs, scan_and_register and the steps that open,  *)
(* copy and delete).                                                        *)
THEOREM FaultsAreContained == Spec => []FaultsSpoilOne
<1>1. DInv => FaultsSpoilOne
  BY DamagedAreCounted DEF FaultsSpoilOne
<1> QED
  BY <1>1, RecordIsSound, PTL DEF Spec

(* While no worker has died and no disk was full, there is no false         *)
(* complete (the header of actor.rs), however downloads, imports, tags and  *)
(* the collector meet over the same blobs.                                  *)
THEOREM NoFalseComplete == Spec => [](Faultless => CompleteIsWhole)
<1>1. Spec => []DInv
  BY RecordIsSound, PTL DEF Spec
<1>2. DInv => (Faultless => CompleteIsWhole)
  BY RecordIsWhole
<1> QED
  BY <1>1, <1>2, PTL

(* And the bitfield of a partial claims only what is in its data file.      *)
THEOREM PartialsAreValid == Spec => [](Faultless => PartialIsValid)
<1>1. Spec => []DInv
  BY RecordIsSound, PTL DEF Spec
<1>2. DInv => (Faultless => PartialIsValid)
  BY RecordIsWhole
<1> QED
  BY <1>1, <1>2, PTL

(* Deaths of the worker and full disks included, a blob that is whole and   *)
(* has no meta file is not opened again as a partial, nor written into,     *)
(* but for an import that copies all of it (import_bytes in actor.rs).      *)
THEOREM WholeBlobsStay == Spec => SealedStays
<1>1. IInv /\ Shut /\ [Next]_vars => IInv' /\ Shut'
  BY StepIsSound, StepKeepsShut, StuttersAreSound
<1>2. Init => IInv /\ Shut
  <2>1. Init => Shut
    BY ConstantFacts DEF Init, Shut, Sealed, WholeOnDisk, Idle, Kinds
  <2> QED BY <2>1, StartIsSound
<1>3. IInv /\ Shut /\ [Next]_vars =>
        [\A h \in Hashes : Sealed(h) =>
           \/ Sealed(h)'
           \/ <<"data", h>> \notin files'
           \/ actor'.at \in {"copying", "outboard"} /\ actor'.on = h]_vars
  BY StepIsSound, StepKeepsShut DEF SealKept
<1> QED
  BY <1>1, <1>2, <1>3, PTL DEF Spec, SealedStays

(* What a step leaves in the table.                                         *)
LEMMA StepKeepsTagged ==
  ASSUME IInv, Next PROVE \A h \in tags : Present(h) /\ up' => Present(h)'
<1> SUFFICES ASSUME NEW h \in tags, Present(h), up' PROVE Present(h)'
  OBVIOUS
<1>0. h \in Hashes
  BY DEF IInv, PinsOK
<1>1. CASE UNCHANGED entry
  BY <1>1 DEF Present
<1>2. ASSUME NEW d \in Downloads, NEW c \in Chunks, Leaf(d, c) \/ LeafFails(d, c) PROVE Present(h)'
  BY <1>0, <1>2 DEF IInv, EntryOK, Present, Leaf, LeafFails, WriteLeaf
<1>3. ASSUME NEW d \in Downloads, Flip(d) PROVE Present(h)'
  BY <1>0, <1>3 DEF Present, Flip, Complete
<1>4. CASE OpenMeta \/ Register
  <2>1. PICK set : set.state # "none" /\ entry' = [entry EXCEPT ![actor.on] = set]
    BY <1>4 DEF OpenMeta, Register, Partial, Complete
  <2>2. entry'[h] \in {set, entry[h]}
    BY <1>0, <2>1 DEF IInv, EntryOK
  <2> QED BY <2>1, <2>2 DEF Present
<1>5. ASSUME NEW g \in Hashes, Sweep(g) PROVE Present(h)'
  <2>1. g # h
    BY <1>5 DEF IInv, ActorOK, Sweep, IsAt
  <2> QED BY <1>0, <1>5, <2>1 DEF IInv, EntryOK, Present, Sweep
<1>6. CASE Crash
  BY <1>6 DEF Crash
<1>7. CASE Boot
  BY <1>0, <1>7 DEF IInv, ActorOK, Boot
<1> QED
  BY <1>1, <1>2, <1>3, <1>4, <1>5, <1>6, <1>7
  DEF Next, disk, Work, Client, Goes, Stream, Handle, HandleImport,
     OpenObao, Truncate, Copy, OpenOutboard, CopyOutboard, DropStaleMeta, EmptyManifest,
     WriteManifest, SweepObao, SweepMeta, Swept, Begin, Fails, Cancel, Discard, Awaited,
     ReadEnds, FindEntry, OpenData, Parents, SkipLeaf, DropMeta, StreamEnds, StartImport,
     Pin, Release, Dedup, OpenForCopy, SetTag, DeleteTag, Mark, CopyFails

(* A cycle of the collector deletes no blob that is tagged while it sweeps  *)
(* (run_gc_cycle in gc.rs): no tag is set between its mark and its end.     *)
THEOREM TaggedBlobsStay == Spec => TaggedIsKept
<1>1. IInv /\ [Next]_vars => IInv'
  BY StepIsSound, StuttersAreSound
<1>2. IInv /\ [Next]_vars => [\A h \in tags : Present(h) /\ up' => Present(h)']_vars
  BY StepKeepsTagged
<1> QED
  BY <1>1, <1>2, StartIsSound, PTL DEF Spec, TaggedIsKept

-----------------------------------------------------------------------------
(* The readers, when no two calls download the same blob: protected_hashes  *)
(* does not count its holders, and a call that ends takes the hash of all.  *)

OneCallPerBlob == \A d, e \in Downloads : DownloadOf[d] = DownloadOf[e] => d = e

Away == {"idle", "paused"}
Cycle == Sweeping \cup {"sweep"}

(* A call holds its hash, and a cycle of the collector spares what a call   *)
(* that it found past the beginning may read.                               *)
Held == \A d \in Downloads : dl[d] \notin Away => DownloadOf[d] \in protected
Spared ==
  actor.at \in Cycle =>
    \A d \in Downloads : dl[d] \notin Away \cup {"local"} => DownloadOf[d] \in actor.live
Found == \A d \in Downloads : dl[d] = "read" => Present(DownloadOf[d]) /\ Filled(DownloadOf[d])
Served == Held /\ Spared /\ Found

(* A step of the actor that begins no cycle and touches no entry.           *)
LEMMA ActorServes ==
  ASSUME Served, UNCHANGED <<entry, dl, protected>>,
         actor'.at \in Cycle => actor.at \in Cycle /\ actor'.live = actor.live
  PROVE  Served'
  BY DEF Served, Held, Spared, Found, Present, Filled

(* A step of the actor that takes no whole blob away, outside of a cycle.   *)
LEMMA EntriesServe ==
  ASSUME Served, UNCHANGED <<dl, protected>>, actor'.at \notin Cycle,
         \A h \in Hashes : Present(h) /\ Filled(h) => Present(h)' /\ Filled(h)'
  PROVE  Served'
<1>1. Held' /\ Spared'
  BY DEF Served, Held, Spared
<1>2. Found'
  BY ConstantFacts DEF Served, Found
<1> QED
  BY <1>1, <1>2 DEF Served

(* A step of one call, which holds its hash for as long as it goes on.      *)
LEMMA CallServes ==
  ASSUME OneCallPerBlob, IInv, Served, NEW d \in Downloads, NEW step,
         dl' = [dl EXCEPT ![d] = step],
         DownloadOf[d] \in protected' \/ step \in Away,
         \A h \in Hashes : h # DownloadOf[d] /\ h \in protected => h \in protected',
         actor'.at \in Cycle => /\ actor' = actor
                                /\ step \in Away \cup {"local"} \/ DownloadOf[d] \in actor.live,
         step = "read" => Present(DownloadOf[d])' /\ Filled(DownloadOf[d])',
         \A h \in Hashes : Present(h) /\ Filled(h) => Present(h)' /\ Filled(h)'
  PROVE  Served'
<1>1. dl'[d] = step /\ \A e \in Downloads : e # d => dl'[e] = dl[e]
  BY DEF IInv, CallsOK
<1>2. ASSUME NEW e \in Downloads, e # d
      PROVE  DownloadOf[e] \in Hashes /\ DownloadOf[e] # DownloadOf[d]
  BY <1>2, ConstantFacts DEF OneCallPerBlob
<1>3. Held'
  BY <1>1, <1>2 DEF Served, Held
<1>4. Spared'
  BY <1>1, <1>2 DEF Served, Spared
<1>5. Found'
  BY <1>1, <1>2 DEF Served, Found
<1> QED
  BY <1>3, <1>4, <1>5 DEF Served

(* The call of whom d asks, and what it does with the answer.               *)
LEMMA AnswerServes ==
  ASSUME OneCallPerBlob, IInv, Served, NEW d \in Downloads, NEW field \in SUBSET Chunks,
         dl[d] \in Asking, Answer(d, field), protected' = protected, actor'.at \notin Cycle,
         entry'[DownloadOf[d]].field = field, Present(DownloadOf[d])',
         field \subseteq Content[DownloadOf[d]],
         \A h \in Hashes : Present(h) /\ Filled(h) => Present(h)' /\ Filled(h)'
  PROVE  Served'
<1>1. DownloadOf[d] \in protected
  BY DEF Served, Held, Asking, Away
<1>2. PICK step : /\ dl' = [dl EXCEPT ![d] = step]
                  /\ step = "read" => Content[DownloadOf[d]] \ field = {}
  BY DEF Answer, Asking
<1>3. step = "read" => Filled(DownloadOf[d])'
  BY <1>2 DEF Filled
<1> QED
  BY <1>1, <1>2, <1>3, CallServes

(* What a task records of a blob stays there to be read.                    *)
LEMMA LeafServes ==
  ASSUME OneCallPerBlob, IInv, Served, NEW d \in Downloads, NEW c \in Chunks,
         Leaf(d, c) \/ LeafFails(d, c)
  PROVE  Served'
<1> DEFINE h == DownloadOf[d]
<1>1. /\ dl[d] = "recv" /\ h \in Hashes /\ c \in Content[h]
      /\ entry' = [entry EXCEPT ![h].field = @ \cup {c}] /\ actor' = actor
  BY ConstantFacts DEF IInv, CallsOK, Leaf, LeafFails, WriteLeaf, Receives
<1>2. actor.at \notin Cycle
  BY <1>1 DEF IInv, ActorOK, TaskIsActive, Cycle, Sweeping
<1>3. ASSUME NEW g \in Hashes, Present(g), Filled(g) PROVE Present(g)' /\ Filled(g)'
  BY <1>1, <1>3 DEF IInv, EntryOK, Present, Filled
<1>4. h \in protected
  BY <1>1 DEF Served, Held, Away
<1>5. CASE Leaf(d, c)
  <2>1. PICK step \in {"finish", "recv"} : dl' = [dl EXCEPT ![d] = step]
    BY <1>5 DEF Leaf
  <2>2. protected' = protected
    BY <1>5 DEF Leaf
  <2> QED BY <1>1, <1>2, <1>3, <1>4, <2>1, <2>2, CallServes
<1>6. CASE LeafFails(d, c)
  <2>1. dl' = [dl EXCEPT ![d] = "idle"] /\ protected' = protected \ {h}
    BY <1>6 DEF LeafFails, Leave
  <2> QED BY <1>1, <1>2, <1>3, <2>1, CallServes DEF Away
<1> QED
  BY <1>5, <1>6

(* A call that begins, or ends, or is put off.                              *)
LEMMA LeavingServes ==
  ASSUME OneCallPerBlob, IInv, Served, NEW d \in Downloads,
         Begin(d) \/ ReadEnds(d) \/ Fails(d) \/ Cancel(d) \/ Discard(d)
  PROVE  Served'
<1>1. UNCHANGED <<entry, actor>>
  BY DEF Begin, ReadEnds, Fails, Cancel, Discard
<1>2. PICK step \in Away \cup {"local"} : dl' = [dl EXCEPT ![d] = step]
  BY DEF Begin, ReadEnds, Fails, Cancel, Discard, Leave, Away
<1>3. \A h \in Hashes : h # DownloadOf[d] /\ h \in protected => h \in protected'
  BY DEF Begin, ReadEnds, Fails, Cancel, Discard, Leave
<1>4. DownloadOf[d] \in protected' \/ dl'[d] \in Away
  BY DEF Begin, ReadEnds, Fails, Cancel, Discard, Leave, Away, IInv, CallsOK
<1>5. dl'[d] = step
  BY <1>2 DEF IInv, CallsOK
<1> QED
  BY <1>1, <1>2, <1>3, <1>4, <1>5, CallServes DEF Away, Present, Filled

(* The steps of the task that imports a stream, but for its leaves, and the *)
(* call that awaits it.                                                     *)
LEMMA StreamServes ==
  ASSUME OneCallPerBlob, IInv, NEW S, Recorded(S), Served, NEW d \in Downloads,
         DropMeta(d) \/ Flip(d) \/ StreamEnds(d) \/ Awaited(d)
  PROVE  Served'
<1> DEFINE h == DownloadOf[d]
<1>1. /\ h \in Hashes /\ UNCHANGED <<actor, protected>>
      /\ dl[d] \in Streaming \cup {"await"}
  BY ConstantFacts DEF DropMeta, Flip, StreamEnds, Awaited, Receives, Streaming
<1>2. PICK step \in {"flip", "recv", "check", "read"} :
         dl' = [dl EXCEPT ![d] = step] /\ (step = "read" <=> Awaited(d))
  BY DEF DropMeta, Flip, StreamEnds, Awaited, Receives
<1>3. actor.at \in Cycle => h \in actor.live
  <2>1. ASSUME actor.at \in Cycle PROVE dl[d] \notin Streaming
    BY <2>1 DEF IInv, ActorOK, TaskIsActive, Streaming, Cycle, Sweeping
  <2> QED BY <1>1, <2>1 DEF Served, Spared, Away
<1>4. h \in protected
  BY <1>1 DEF Served, Held, Away, Streaming
<1>5. ASSUME NEW g \in Hashes, Present(g), Filled(g) PROVE Present(g)' /\ Filled(g)'
  <2>1. CASE Flip(d)
    BY <1>1, <1>5, <2>1 DEF Flip, Complete, IInv, EntryOK, Present, Filled
  <2>2. CASE ~Flip(d)
    BY <1>5, <2>2 DEF DropMeta, StreamEnds, Awaited, Present, Filled
  <2> QED BY <2>1, <2>2
<1>6. Awaited(d) => Present(h)' /\ Filled(h)'
  BY <1>1, BlobsAssumption DEF Awaited, Recorded, Present, Filled
<1> QED
  BY <1>1, <1>2, <1>3, <1>4, <1>5, <1>6, CallServes

(* The collector spares what is read: it was protected at the mark, or the  *)
(* call has not looked the blob up yet.                                     *)
LEMMA SweepServes ==
  ASSUME IInv, Served, NEW h \in Hashes, Sweep(h) PROVE Served'
<1>1. /\ actor.at = "sweep" /\ h \notin actor.live /\ actor'.at \in Cycle
      /\ actor'.live = actor.live /\ entry' = [entry EXCEPT ![h] = NoEntry]
      /\ protected' = protected
  BY DEF IInv, ActorOK, ActorRecords, Sweep, IsAt, Sweeping, Cycle
<1>2. \A d \in Downloads : dl[d] \notin Away \cup {"local"} => DownloadOf[d] # h
  BY <1>1 DEF Served, Spared, Cycle
<1>3. \A d \in Downloads : dl'[d] = dl[d]
  BY <1>2 DEF Sweep, Away
<1>4. \A d \in Downloads : dl[d] = "read" => entry'[DownloadOf[d]] = entry[DownloadOf[d]]
  BY <1>1, <1>2, ConstantFacts DEF IInv, EntryOK, Away
<1> QED
  BY <1>1, <1>3, <1>4 DEF Served, Held, Spared, Found, Present, Filled, Cycle

(* What the actor puts in the table is there to be read.                    *)
LEMMA TableServes ==
  ASSUME OneCallPerBlob, IInv, Served, OpenMeta \/ Register PROVE Served'
<1>1. CASE OpenMeta
  <2>1. actor.at = "open meta" /\ actor.at \in Opening
    BY <1>1 DEF OpenMeta, IsAt, Opening
  <2>2. PICK d \in Downloads, h \in Hashes :
           d = actor.for /\ h = actor.on /\ h = DownloadOf[d] /\ ~Present(h)
    BY <2>1, ConstantFacts DEF IInv, ActorOK
  <2>3. PICK field \in SUBSET Chunks : field = bytes[<<"meta", h>>] /\ field \subseteq Content[h]
    BY DEF IInv, DiskOK, Kinds
  <2>4. /\ entry' = [entry EXCEPT ![h] = Partial(field)]
        /\ Answer(d, field)
        /\ actor' = Idle /\ protected' = protected
    BY <1>1, <2>2, <2>3 DEF OpenMeta
  <2>5. /\ entry'[h] = Partial(field)
        /\ \A g \in Hashes : g # h => entry'[g] = entry[g]
    BY <2>4 DEF IInv, EntryOK
  <2>6. \A g \in Hashes : Present(g) /\ Filled(g) => Present(g)' /\ Filled(g)'
    BY <2>2, <2>5 DEF Present, Filled
  <2>7. Present(h)' /\ entry'[h].field = field
    BY <2>5 DEF Present, Partial
  <2>8. actor'.at \notin Cycle
    BY <2>4 DEF Cycle, Sweeping, Idle
  <2>9. CASE dl[d] \in Asking
    BY <2>2, <2>3, <2>4, <2>6, <2>7, <2>8, <2>9, AnswerServes
  <2>10. CASE dl[d] \notin Asking
    <3>1. dl' = dl
      BY <2>4, <2>10 DEF Answer, Asking
    <3> QED BY <2>4, <2>6, <2>8, <3>1, EntriesServe
  <2> QED BY <2>9, <2>10
<1>2. CASE Register
  <2>1. PICK h \in Hashes : h = actor.on
    BY <1>2 DEF Register, IsAt, IInv, ActorOK, Copying
  <2>2. /\ entry' = [entry EXCEPT ![h] = Complete(h)]
        /\ UNCHANGED <<dl, protected>> /\ actor' = Idle
    BY <1>2, <2>1 DEF Register
  <2>3. \A g \in Hashes : Present(g) /\ Filled(g) => Present(g)' /\ Filled(g)'
    BY <2>2 DEF IInv, EntryOK, Complete, Present, Filled
  <2>4. actor'.at \notin Cycle
    BY <2>2 DEF Cycle, Sweeping, Idle
  <2> QED BY <2>2, <2>3, <2>4, EntriesServe
<1> QED
  BY <1>1, <1>2

LEMMA StepServes ==
  ASSUME OneCallPerBlob, IInv, NEW S, Recorded(S), Served, Next PROVE Served'
<1>1. CASE Work
  <2>1. CASE OpenMeta \/ Register \/ \E h \in Hashes : Sweep(h)
    BY <2>1, TableServes, SweepServes
  <2>2. CASE OpenObao \/ Truncate \/ Copy \/ OpenOutboard \/ CopyOutboard \/ DropStaleMeta
    <3>1. actor'.at \notin Cycle
      BY <2>2 DEF OpenObao, Truncate, Copy, OpenOutboard, CopyOutboard, DropStaleMeta,
                  Cycle, Sweeping, IInv, ActorOK, ActorRecords
    <3>2. UNCHANGED <<entry, dl, protected>>
      BY <2>2 DEF OpenObao, Truncate, Copy, OpenOutboard, CopyOutboard, DropStaleMeta, calls
    <3> QED BY <3>1, <3>2, ActorServes
  <2>3. CASE EmptyManifest \/ WriteManifest \/ Swept
    <3>1. actor'.at \in {"manifest", "idle"}
      BY <2>3 DEF EmptyManifest, WriteManifest, Swept, Idle
    <3>2. UNCHANGED <<entry, dl, protected>>
      BY <2>3 DEF EmptyManifest, WriteManifest, Swept, calls
    <3> QED BY <3>1, <3>2, ActorServes DEF Cycle, Sweeping
  <2>4. CASE SweepObao \/ SweepMeta
    <3>1. actor.at \in Cycle
      BY <2>4 DEF SweepObao, SweepMeta, IsAt, Cycle, Sweeping
    <3>2. actor'.live = actor.live
      BY <2>4 DEF SweepObao, SweepMeta, IInv, ActorOK, ActorRecords
    <3>3. UNCHANGED <<entry, dl, protected>>
      BY <2>4 DEF SweepObao, SweepMeta, calls
    <3> QED BY <3>1, <3>2, <3>3, ActorServes
  <2> QED BY <1>1, <2>1, <2>2, <2>3, <2>4 DEF Work
<1>2. ASSUME NEW d \in Downloads, Begin(d) \/ Fails(d) \/ Cancel(d) \/ Discard(d) \/ ReadEnds(d)
      PROVE  Served'
  BY <1>2, LeavingServes
<1>3. ASSUME NEW d \in Downloads, Handle(d)
      PROVE  Served'
  <2>1. CASE FindEntry(d)
    <3>1. /\ dl[d] \in Asking /\ Answer(d, entry[DownloadOf[d]].field)
          /\ UNCHANGED <<entry, actor, protected>> /\ actor.at = "idle"
          /\ Present(DownloadOf[d]) /\ DownloadOf[d] \in Hashes
      BY <2>1, ConstantFacts DEF FindEntry, IsAt
    <3>2. /\ entry[DownloadOf[d]].field \in SUBSET Chunks
          /\ entry[DownloadOf[d]].field \subseteq Content[DownloadOf[d]]
      BY <3>1 DEF IInv, EntryOK
    <3> QED BY <3>1, <3>2, AnswerServes DEF Cycle, Sweeping, Present, Filled
  <2>2. CASE OpenData(d)
    BY <2>2, ActorServes DEF OpenData, calls, Cycle, Sweeping, Idle
  <2> QED BY <1>3, <2>1, <2>2 DEF Handle
<1>4. ASSUME NEW d \in Downloads, Stream(d) \/ Awaited(d)
      PROVE  Served'
  <2>1. ASSUME NEW c \in Chunks, Parents(d, c) \/ SkipLeaf(d, c) PROVE Served'
    BY <2>1, ActorServes DEF Parents, SkipLeaf, calls
  <2> QED BY <1>4, <2>1, LeafServes, StreamServes DEF Stream
<1>5. ASSUME NEW i \in Imports, StartImport(i) \/ Pin(i) \/ Release(i) \/ HandleImport(i)
      PROVE  Served'
  <2>1. UNCHANGED <<entry, dl, protected>>
    BY <1>5 DEF StartImport, Pin, Release, HandleImport, Dedup, OpenForCopy, calls
  <2>2. actor' = actor \/ actor'.at = "opened"
    BY <1>5 DEF StartImport, Pin, Release, HandleImport, Dedup, OpenForCopy, Idle
  <2> QED BY <2>1, <2>2, ActorServes DEF Cycle, Sweeping
<1>6. ASSUME NEW h \in Hashes, SetTag(h) \/ DeleteTag(h)
      PROVE  Served'
  <2>1. UNCHANGED <<entry, dl, protected>> /\ actor'.at = "persist"
    BY <1>6 DEF SetTag, DeleteTag, calls, Idle
  <2> QED BY <2>1, ActorServes DEF Cycle, Sweeping
<1>7. CASE Mark
  <2>1. UNCHANGED <<entry, dl, protected>> /\ protected \subseteq actor'.live
    BY <1>7 DEF Mark, calls, Named
  <2> QED BY <2>1 DEF Served, Held, Spared, Found, Present, Filled
<1>8. CASE CopyFails
  BY <1>8, ActorServes DEF CopyFails, Idle, Cycle, Sweeping
<1>9. CASE Crash
  <2>1. \A d \in Downloads : dl'[d] = "idle"
    BY <1>9 DEF Crash
  <2> QED BY <1>9, <2>1 DEF Crash, Idle, Cycle, Sweeping, Served, Held, Spared, Found, Away
<1>10. CASE Boot
  <2>1. actor'.at \notin Cycle /\ UNCHANGED <<dl, protected>>
    <3>1. actor' = Idle /\ UNCHANGED <<dl, protected>>
      BY <1>10 DEF Boot, IInv, ActorOK, calls
    <3> QED BY <3>1 DEF Idle, Cycle, Sweeping
  <2>2. \A h \in Hashes : ~Present(h)
    BY <1>10 DEF Boot, IInv, ActorOK
  <2> QED BY <2>1, <2>2, EntriesServe
<1> QED
  BY <1>1, <1>2, <1>3, <1>4, <1>5, <1>6, <1>7, <1>8, <1>9, <1>10 DEF Next, Client, Goes

(* When each blob has one call that downloads it, a call that reads finds   *)
(* the blob, whatever fails: neither the collector nor an import takes it   *)
(* away, and all of it is there but for the blobs that the faults have      *)
(* spoiled (download_verified_streaming).                                   *)
THEOREM ReadersAreServed ==
  ASSUME OneCallPerBlob
  PROVE  Spec => []ReadersFind
<1>1. Init => Served
  BY DEF Init, Served, Held, Spared, Found, Away, Cycle, Sweeping, Idle
<1>2. DInv /\ Served /\ [Next]_vars => Served'
  <2> SUFFICES ASSUME DInv, Served, [Next]_vars PROVE Served'
    OBVIOUS
  <2>1. PICK S \in SUBSET Hashes : Recorded(Hashes \ S)
    BY DEF DInv, Sound
  <2>2. CASE UNCHANGED vars
    BY <2>2, ActorServes DEF vars
  <2>3. CASE Next
    BY <2>1, <2>3, StepServes DEF DInv
  <2> QED BY <2>2, <2>3
<1>3. DInv /\ Served => ReadersFind
  <2> SUFFICES ASSUME IInv, Found, ~Unbroken, NEW d \in Downloads, dl[d] = "read"
               PROVE  /\ Present(DownloadOf[d])
                      /\ WholeOnDisk(DownloadOf[d]) \/ DownloadOf[d] \in Spoiled
    BY DEF DInv, Served, ReadersFind
  <2> DEFINE h == DownloadOf[d]
  <2>1. h \in Hashes /\ Present(h) /\ Filled(h)
    BY ConstantFacts DEF Found
  <2>2. up
    BY <2>1 DEF IInv, ActorOK
  <2> QED BY <2>1, <2>2, IntactIsWhole DEF Spoiled
<1> QED
  BY <1>1, <1>2, <1>3, RecordIsSound, PTL DEF Spec
=============================================================================
