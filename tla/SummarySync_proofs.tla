------------------------- MODULE SummarySync_proofs -------------------------
(***************************************************************************)
(* Theorems of SummarySync, for every number of sessions, clients and      *)
(* snapshots and every limit.  Every step moves the cached summaries and   *)
(* their journal in one of six ways (StoreMove), and each of them keeps a  *)
(* view sound (MoveKeepsView); what is left is where views come from, who  *)
(* sleeps, and who holds what.                                             *)
(***************************************************************************)
EXTENDS SummarySync, FiniteSetTheorems, TLAPS

(* The steps of Next, by what they are for. *)
WriteStep ==
  \/ \E i \in Ids, e \in Projections \cup {Absent} :
       OwnWrite(i, e) \/ UnseenWrite(i, e) \/ ForeignWrite(i, e)
  \/ \E i \in Ids : SyncRecords(i)
SyncStep ==
  \/ Build \/ Scan \/ ListPage \/ SyncEnds \/ BuildTakes \/ ReadScanned \/ RescanDone
  \/ \E c \in Clients : ReadScans(c) \/ PollRescans(c)
LookStep ==
  \E c \in Clients : \/ LookFails(c) \/ LookResets(c) \/ LookSleeps(c) \/ LookEmpty(c)
                     \/ LookDelivers(c) \/ AnswerLost(c)
ClientStep ==
  \E c \in Clients : \/ Reserve(c) \/ ReadGone(c) \/ ReadPages(c) \/ Poll(c) \/ Release(c)
                     \/ Forget(c) \/ DeadlinePasses(c)
TimeStep ==
  \/ ScanFails \/ ScannerStops \/ WindowPasses \/ Publish \/ LeasePasses \/ JournalPasses
  \/ ExpireJournal
ServerStep ==
  \/ Close \/ Start \/ BuildFails
  \/ \E s \in Snaps : Keep(s) \/ SnapshotExpires(s)

LEMMA NextSteps ==
  ASSUME TypeOK, Next
  PROVE  WriteStep \/ SyncStep \/ LookStep \/ ClientStep \/ TimeStep \/ ServerStep
<1>1. CASE Disturbance
  <2>1. ASSUME NEW c \in Clients, Overtaken(c) PROVE ServerStep
    BY <2>1 DEF Overtaken, TypeOK, ServerStep
  <2> QED BY <1>1, <2>1
     DEF Disturbance, Writes, WriteStep, LookStep, ClientStep, TimeStep, ServerStep
<1>2. CASE Restart \/ Syncing \/ Building
  <2>1. ASSUME NEW i \in Ids, SyncRecords(i) PROVE WriteStep
    BY <2>1 DEF WriteStep
  <2> QED BY <1>2, <2>1 DEF Restart, Syncing, Building, SyncStep, ServerStep
<1>3. ASSUME NEW c \in Clients, Client(c) \/ DeadlinePasses(c)
      PROVE  SyncStep \/ LookStep \/ ClientStep
  BY <1>3 DEF Client, SyncStep, LookStep, ClientStep
<1> QED BY <1>1, <1>2, <1>3 DEF Next, SyncStep, TimeStep, ServerStep

-----------------------------------------------------------------------------
(* The journal of changes. *)

LEMMA Records ==
  /\ NoChange \in Change /\ NoChange.revision = 0 /\ NoChanges \in [Ids -> Change]
  /\ \A i \in Ids : NoChanges[i].revision = 0
  /\ Empty \in Listing /\ NoView \in View /\ NoView.epoch = 0
  /\ \A i \in Ids : changes \in [Ids -> Change] => changes[i].revision \in Nat
BY DEF NoChange, Change, NoChanges, Empty, Listing, NoView, View

(* Pruning loses only changes that nobody who is still accepted asks for. *)
LEMMA PruneSound ==
  ASSUME NEW ch \in [Ids -> Change], NEW since \in Nat, Prune(ch, since),
         NEW top \in Nat, since <= top, \A i \in Ids : ch[i].revision <= top
  PROVE  /\ changes' \in [Ids -> Change] /\ minSince' \in Nat
         /\ since <= minSince' /\ minSince' <= top
         /\ \A i \in Ids : \/ changes'[i] = ch[i]
                           \/ changes'[i] = NoChange /\ ch[i].revision <= minSince'
<1>1. PICK cut \in {0} \cup {ch[i].revision : i \in Tombstones(ch)} :
        /\ changes' = [i \in Ids |->
             IF i \in {j \in Tombstones(ch) : ch[j].revision <= cut} THEN NoChange ELSE ch[i]]
        /\ minSince' = IF cut > since THEN cut ELSE since
  BY DEF Prune
<1>2. cut \in Nat /\ cut <= top
  BY DEF Tombstones, Change
<1>3. minSince' \in Nat /\ since <= minSince' /\ minSince' <= top /\ cut <= minSince'
  BY <1>1, <1>2
<1>4. ASSUME NEW i \in Ids
      PROVE  /\ changes'[i] \in Change
             /\ \/ changes'[i] = ch[i]
                \/ changes'[i] = NoChange /\ ch[i].revision <= minSince'
  <2>1. ch[i].revision \in Nat /\ ch[i] \in Change
    BY DEF Change
  <2>2. CASE i \in Tombstones(ch) /\ ch[i].revision <= cut
    BY <1>1, <1>2, <1>3, <2>1, <2>2, Records
  <2>3. CASE ~(i \in Tombstones(ch) /\ ch[i].revision <= cut)
    BY <1>1, <2>1, <2>3
  <2> QED BY <2>2, <2>3
<1>5. changes' = [i \in Ids |-> changes'[i]]
  BY <1>1
<1> QED BY <1>3, <1>4, <1>5

(* How a step moves the cached summaries and their journal. *)
Store == <<cached, entries, epoch, revision, minSince, changes>>
StorePrunes == Prune(changes, minSince) /\ UNCHANGED <<cached, entries, epoch, revision>>
StoreRecords == \E i \in Ids, e \in Projections \cup {Absent} : Record(i, e)
StoreFills ==
  /\ ~cached /\ cached' = TRUE /\ epoch' = epoch + 1 /\ entries' = files
  /\ UNCHANGED <<revision, minSince, changes>>
StoreExpires ==
  /\ changes' = NoChanges /\ minSince' = revision
  /\ UNCHANGED <<cached, entries, epoch, revision>>
StoreCloses ==
  /\ cached' = FALSE /\ entries' = Empty /\ revision' = 0 /\ minSince' = 0
  /\ changes' = NoChanges /\ UNCHANGED epoch
StoreMove ==
  \/ UNCHANGED Store
  \/ StorePrunes \/ StoreRecords \/ StoreFills \/ StoreExpires \/ StoreCloses

LEMMA NextMoves ==
  ASSUME TypeOK, [Next]_vars
  PROVE  StoreMove
<1>1. CASE WriteStep
  <2>1. ASSUME NEW i \in Ids, NEW e \in Projections \cup {Absent}, OwnWrite(i, e)
        PROVE  StoreMove
    <3>1. CASE cached /\ entries[i] # e
      BY <2>1, <3>1 DEF OwnWrite, StoreMove, StoreRecords
    <3>2. CASE ~(cached /\ entries[i] # e)
      BY <2>1, <3>2 DEF OwnWrite, StoreMove, Store, cursorVars
    <3> QED BY <3>1, <3>2
  <2>2. ASSUME NEW i \in Ids, NEW e \in Projections \cup {Absent},
               UnseenWrite(i, e) \/ ForeignWrite(i, e)
        PROVE  StoreMove
    BY <2>2 DEF UnseenWrite, ForeignWrite, StoreMove, Store, cursorVars, cacheVars
  <2>3. ASSUME NEW i \in Ids, SyncRecords(i) PROVE StoreMove
    <3>1. files[i] \in Projections \cup {Absent} /\ Record(i, files[i])
      BY <2>3 DEF SyncRecords, TypeOK, Listing
    <3> QED BY <3>1 DEF StoreMove, StoreRecords
  <2> QED BY <1>1, <2>1, <2>2, <2>3 DEF WriteStep
<1>2. CASE SyncStep
  <2>1. ASSUME NEW by, NEW c, BeginSync(by, c) PROVE StoreMove
    BY <2>1 DEF BeginSync, Ensure, StoreMove, Store, StoreFills
  <2>2. Build \/ Scan \/ ListPage => StoreMove
    BY <2>1 DEF Build, Scan, ListPage
  <2>3. ASSUME NEW c \in Clients, ReadScans(c) \/ PollRescans(c) PROVE StoreMove
    BY <2>1, <2>3 DEF ReadScans, PollRescans
  <2>4. SyncEnds \/ RescanDone => StoreMove
    BY DEF SyncEnds, RescanDone, SyncDone, StoreMove, Store
  <2>5. BuildTakes \/ ReadScanned => StoreMove
    BY DEF BuildTakes, ReadScanned, SyncDone, StoreMove, StorePrunes
  <2> QED BY <1>2, <2>2, <2>3, <2>4, <2>5 DEF SyncStep
<1>3. CASE LookStep
  BY <1>3 DEF LookStep, LookFails, LookResets, LookSleeps, LookEmpty, LookDelivers, AnswerLost,
    LookAnswers, LookUnchanged, StoreMove, Store, StorePrunes, cacheVars
<1>4. CASE ClientStep
  <2>1. ASSUME NEW c \in Clients,
               Reserve(c) \/ ReadGone(c) \/ Release(c) \/ Forget(c) \/ DeadlinePasses(c)
        PROVE  StoreMove
    BY <2>1 DEF Reserve, ReadGone, Release, Forget, DeadlinePasses, StoreMove, Store, cacheVars,
      cursorVars
  <2>2. ASSUME NEW c \in Clients, ReadPages(c) PROVE StoreMove
    BY <2>2 DEF ReadPages, StoreMove, StorePrunes, cacheVars
  <2>3. ASSUME NEW c \in Clients, Poll(c) PROVE StoreMove
    BY <2>3 DEF Poll, Ensure, StoreMove, Store, StoreFills
  <2> QED BY <1>4, <2>1, <2>2, <2>3 DEF ClientStep
<1>5. CASE TimeStep
  BY <1>5 DEF TimeStep, ScanFails, ScannerStops, WindowPasses, Publish, LeasePasses,
    JournalPasses, ExpireJournal, StoreMove, Store, StoreExpires, cacheVars, cursorVars
<1>6. CASE ServerStep
  BY <1>6 DEF ServerStep, Close, Start, BuildFails, Keep, SnapshotExpires, StoreMove, Store,
    StoreCloses, cacheVars, cursorVars
<1>7. CASE UNCHANGED vars
  BY <1>7 DEF vars, StoreMove, Store, cacheVars, cursorVars
<1> QED BY <1>1, <1>2, <1>3, <1>4, <1>5, <1>6, <1>7, NextSteps

(* A recorded change is the last of its epoch, or the first of a new one. *)
LEMMA RecordSound ==
  ASSUME TypeOK, ChangesKnown, NEW i \in Ids, NEW e \in Projections \cup {Absent}, Record(i, e)
  PROVE  /\ cached' = cached /\ entries' = [entries EXCEPT ![i] = e]
         /\ revision' \in 0 .. MaxRevision /\ minSince' \in Nat /\ minSince' <= revision'
         /\ changes' \in [Ids -> Change] /\ \A j \in Ids : changes'[j].revision <= revision'
         /\ \/ epoch' = epoch + 1
            \/ /\ epoch' = epoch /\ revision' = revision + 1 /\ minSince <= minSince'
               /\ minSince' = revision' \/
                  \A j \in Ids :
                    \/ changes'[j] = IF j = i THEN [revision |-> revision + 1, entry |-> e]
                                     ELSE changes[j]
                    \/ changes'[j] = NoChange /\ j # i /\ changes[j].revision <= minSince'
<1>1. entries' = [entries EXCEPT ![i] = e] /\ cached' = cached
  BY DEF Record
<1>0. /\ revision \in Nat /\ revision <= MaxRevision /\ MaxRevision \in Nat \ {0}
      /\ minSince \in Nat /\ epoch \in Nat /\ minSince <= revision
      /\ changes \in [Ids -> Change] /\ \A j \in Ids : changes[j].revision <= revision
  BY LimitAssumption DEF TypeOK, ChangesKnown
<1>2. CASE RecordsNewEpoch
  BY <1>0, <1>1, <1>2, Records DEF RecordsNewEpoch
<1>3. CASE RecordsNothing
  BY <1>0, <1>1, <1>3, Records DEF RecordsNothing
<1>4. CASE RecordsChange(i, e)
  <2>1. PICK ch : ch = [changes EXCEPT ![i] = [revision |-> revision + 1, entry |-> e]]
    OBVIOUS
  <2>2. Prune(ch, minSince) /\ revision' = revision + 1 /\ epoch' = epoch /\ revision < MaxRevision
    BY <1>4, <2>1 DEF RecordsChange
  <2>3. [revision |-> revision + 1, entry |-> e] \in Change
    BY <1>0 DEF Change
  <2>4. ch \in [Ids -> Change]
    BY <1>0, <2>1, <2>3
  <2>5. ASSUME NEW j \in Ids
        PROVE  /\ ch[j] = IF j = i THEN [revision |-> revision + 1, entry |-> e] ELSE changes[j]
               /\ ch[j].revision <= revision + 1
    <3>1. changes[j].revision \in Nat
      BY <1>0, Records
    <3> QED BY <1>0, <2>1, <3>1
  <2>6. /\ changes' \in [Ids -> Change] /\ minSince' \in Nat
        /\ minSince <= minSince' /\ minSince' <= revision + 1
        /\ \A j \in Ids : \/ changes'[j] = ch[j]
                          \/ changes'[j] = NoChange /\ ch[j].revision <= minSince'
    <3>1. revision + 1 \in Nat /\ minSince <= revision + 1
      BY <1>0
    <3> QED BY <1>0, <2>2, <2>4, <2>5, <3>1, PruneSound
  <2>7. \A j \in Ids : changes'[j].revision <= revision + 1
    BY <1>0, <2>5, <2>6, Records
  <2> QED BY <1>0, <1>1, <2>2, <2>5, <2>6, <2>7
<1> QED BY <1>2, <1>3, <1>4 DEF Record

LEMMA MoveType ==
  ASSUME TypeOK, ChangesKnown, StoreMove
  PROVE  /\ ChangesKnown'
         /\ cached' \in BOOLEAN /\ entries' \in Listing /\ epoch' \in Nat
         /\ revision' \in 0 .. MaxRevision /\ minSince' \in Nat /\ changes' \in [Ids -> Change]
<1>0. /\ revision \in 0 .. MaxRevision /\ minSince \in Nat /\ epoch \in Nat
      /\ cached \in BOOLEAN /\ entries \in Listing /\ files \in Listing
      /\ changes \in [Ids -> Change] /\ minSince <= revision /\ (cached => epoch > 0)
      /\ \A j \in Ids : changes[j].revision <= revision
      /\ MaxRevision \in Nat
  BY LimitAssumption DEF TypeOK, ChangesKnown
<1>1. CASE UNCHANGED Store
  BY <1>0, <1>1 DEF Store, ChangesKnown
<1>2. CASE StorePrunes
  <2>1. /\ changes' \in [Ids -> Change] /\ minSince' \in Nat /\ minSince' <= revision
        /\ \A i \in Ids : changes'[i] = changes[i] \/ changes'[i] = NoChange
    <3>1. revision \in Nat
      BY <1>0
    <3> QED BY <1>0, <1>2, <3>1, PruneSound DEF StorePrunes
  <2>2. \A i \in Ids : changes'[i].revision <= revision
    BY <1>0, <2>1, Records
  <2> QED BY <1>0, <1>2, <2>1, <2>2 DEF StorePrunes, ChangesKnown
<1>3. CASE StoreRecords
  <2>1. PICK i \in Ids, e \in Projections \cup {Absent} : Record(i, e)
    BY <1>3 DEF StoreRecords
  <2>2. entries' \in Listing
    <3>1. entries' = [entries EXCEPT ![i] = e]
      BY <2>1 DEF Record
    <3> QED BY <1>0, <3>1 DEF Listing
  <2>3. /\ revision' \in 0 .. MaxRevision /\ minSince' \in Nat /\ minSince' <= revision'
        /\ changes' \in [Ids -> Change] /\ \A j \in Ids : changes'[j].revision <= revision'
        /\ epoch' \in {epoch, epoch + 1} /\ cached' = cached
    BY <2>1, RecordSound
  <2> QED BY <1>0, <2>2, <2>3 DEF ChangesKnown
<1>4. CASE StoreFills
  BY <1>0, <1>4 DEF StoreFills, ChangesKnown
<1>5. CASE StoreExpires
  BY <1>0, <1>5, Records DEF StoreExpires, ChangesKnown
<1>6. CASE StoreCloses
  <2>1. /\ cached' = FALSE /\ entries' = Empty /\ epoch' = epoch /\ revision' = 0
        /\ minSince' = 0 /\ changes' = NoChanges
    BY <1>6 DEF StoreCloses
  <2>2. 0 \in 0 .. MaxRevision /\ Empty \in Listing /\ NoChanges \in [Ids -> Change]
    BY <1>0, Records
  <2>3. ChangesKnown'
    BY <2>1, Records DEF ChangesKnown
  <2> QED BY <1>0, <2>1, <2>2, <2>3
<1> QED BY <1>1, <1>2, <1>3, <1>4, <1>5, <1>6 DEF StoreMove

(* Whatever happens to the store, a view that it goes on accepting is        *)
(* completed by the changes it still has.                                    *)
LEMMA MoveKeepsView ==
  ASSUME TypeOK, ChangesKnown, StoreMove, NEW v \in View, ViewSound(v)
  PROVE  ViewSound(v)'
<1>0. /\ revision \in Nat /\ minSince \in Nat /\ epoch \in Nat /\ minSince <= revision
      /\ changes \in [Ids -> Change] /\ entries \in Listing /\ files \in Listing
      /\ \A j \in Ids : changes[j].revision \in Nat /\ changes[j].revision <= revision
      /\ v.epoch \in Nat /\ v.revision \in Nat
  BY LimitAssumption, Records DEF TypeOK, ChangesKnown, View
<1>1. CASE UNCHANGED Store
  BY <1>1 DEF Store, ViewSound, Accepted, Complete
<1>2. CASE StorePrunes
  <2>1. /\ minSince <= minSince'  /\ minSince' \in Nat
        /\ \A i \in Ids : \/ changes'[i] = changes[i]
                          \/ changes'[i] = NoChange /\ changes[i].revision <= minSince'
    BY <1>0, <1>2, PruneSound DEF StorePrunes
  <2>2. SUFFICES ASSUME Accepted(v)' PROVE Complete(v)'
    BY <1>2 DEF StorePrunes, ViewSound
  <2>3. Accepted(v) /\ Complete(v) /\ minSince' <= v.revision
    BY <1>0, <1>2, <2>1, <2>2 DEF StorePrunes, Accepted, ViewSound
  <2>4. ASSUME NEW i \in Ids
        PROVE  Shown(entries[i]) = IF changes'[i].revision > v.revision
                                   THEN Shown(changes'[i].entry) ELSE v.items[i]
    <3>1. CASE changes'[i] = changes[i]
      BY <2>3, <3>1 DEF Complete
    <3>2. CASE changes'[i] = NoChange /\ changes[i].revision <= minSince'
      <4>1. ~(changes[i].revision > v.revision) /\ ~(changes'[i].revision > v.revision)
        BY <1>0, <2>1, <2>3, <3>2, Records
      <4> QED BY <2>3, <4>1 DEF Complete
    <3> QED BY <2>1, <3>1, <3>2
  <2> QED BY <1>2, <2>4 DEF StorePrunes, Complete
<1>3. CASE StoreRecords
  <2>1. PICK i \in Ids, e \in Projections \cup {Absent} : Record(i, e)
    BY <1>3 DEF StoreRecords
  <2>2. /\ cached' = cached /\ entries' = [entries EXCEPT ![i] = e]
        /\ revision' \in 0 .. MaxRevision /\ minSince' \in Nat
    BY <2>1, RecordSound
  <2>a. revision' \in Nat
    BY <2>2, LimitAssumption
  <2>3. CASE epoch' = epoch + 1
    BY <1>0, <2>3 DEF ViewSound, Accepted
  <2>4. CASE epoch' = epoch
    <3>1. /\ revision' = revision + 1 /\ minSince <= minSince'
          /\ minSince' = revision' \/
             \A j \in Ids :
               \/ changes'[j] = IF j = i THEN [revision |-> revision + 1, entry |-> e]
                                ELSE changes[j]
               \/ changes'[j] = NoChange /\ j # i /\ changes[j].revision <= minSince'
      <4>1. epoch' # epoch + 1
        BY <1>0, <2>4
      <4>2. \/ epoch' = epoch + 1
            \/ /\ revision' = revision + 1 /\ minSince <= minSince'
               /\ minSince' = revision' \/
                  \A j \in Ids :
                    \/ changes'[j] = IF j = i THEN [revision |-> revision + 1, entry |-> e]
                                     ELSE changes[j]
                    \/ changes'[j] = NoChange /\ j # i /\ changes[j].revision <= minSince'
        BY <2>1, RecordSound
      <4> QED BY <4>1, <4>2
    <3>2. SUFFICES ASSUME Accepted(v)' PROVE Complete(v)'
      BY <1>0, <2>2, <2>4, <3>1 DEF ViewSound
    <3>3. Accepted(v) /\ Complete(v) /\ minSince' <= v.revision /\ v.revision <= revision
      BY <1>0, <2>2, <2>4, <3>1, <3>2 DEF Accepted, ViewSound
    <3>4. minSince' # revision'
      BY <1>0, <2>2, <2>a, <3>1, <3>3
    <3>5. ASSUME NEW j \in Ids
          PROVE  Shown(entries'[j]) = IF changes'[j].revision > v.revision
                                      THEN Shown(changes'[j].entry) ELSE v.items[j]
      <4>1. CASE j = i
        <5>1. changes'[j] = [revision |-> revision + 1, entry |-> e] /\ entries'[j] = e
          BY <1>0, <2>2, <3>1, <3>4, <4>1 DEF Listing
        <5> QED BY <1>0, <3>3, <5>1
      <4>2. CASE j # i
        <5>1. entries'[j] = entries[j]
          BY <1>0, <2>2, <4>2 DEF Listing
        <5>2. CASE changes'[j] = changes[j]
          BY <3>3, <5>1, <5>2 DEF Complete
        <5>3. CASE changes'[j] = NoChange /\ changes[j].revision <= minSince'
          <6>1. ~(changes[j].revision > v.revision) /\ ~(changes'[j].revision > v.revision)
            BY <1>0, <2>2, <2>a, <3>3, <5>3, Records
          <6> QED BY <3>3, <5>1, <6>1 DEF Complete
        <5> QED BY <3>1, <3>4, <4>2, <5>2, <5>3
      <4> QED BY <4>1, <4>2
    <3> QED BY <3>5 DEF Complete
  <2> QED BY <2>1, <2>3, <2>4, RecordSound
<1>4. CASE StoreFills
  BY <1>0, <1>4 DEF StoreFills, ViewSound, Accepted
<1>5. CASE StoreExpires
  <2>1. SUFFICES ASSUME Accepted(v)' PROVE Complete(v)'
    BY <1>5 DEF StoreExpires, ViewSound
  <2>2. Accepted(v) /\ Complete(v) /\ v.revision = revision
    BY <1>0, <1>5, <2>1 DEF StoreExpires, Accepted, ViewSound
  <2>3. ASSUME NEW i \in Ids PROVE Shown(entries[i]) = v.items[i] /\ changes'[i].revision = 0
    <3>1. ~(changes[i].revision > v.revision)
      BY <1>0, <2>2
    <3> QED BY <1>5, <2>2, <3>1, Records DEF Complete, StoreExpires
  <2> QED BY <1>0, <1>5, <2>3 DEF Complete, StoreExpires
<1>6. CASE StoreCloses
  BY <1>0, <1>6 DEF StoreCloses, ViewSound, Accepted
<1> QED BY <1>1, <1>2, <1>3, <1>4, <1>5, <1>6 DEF StoreMove

-----------------------------------------------------------------------------
(* Where views come from. *)

LEMMA NoViewSound == ASSUME ChangesKnown, epoch \in Nat PROVE ViewSound(NoView)
BY Records DEF ViewSound, Accepted, ChangesKnown

(* A snapshot is complete when it is taken. *)
LEMMA TakenSound ==
  ASSUME TypeOK, ChangesKnown, BuildTakes
  PROVE  draft' \in View /\ ViewSound(draft)'
<1>1. /\ cached' = cached /\ entries' = entries /\ epoch' = epoch /\ revision' = revision
      /\ Prune(changes, minSince)
      /\ draft' = [epoch |-> epoch, revision |-> revision,
                   items |-> [i \in Ids |-> Shown(entries[i])]]
  BY DEF BuildTakes, SyncDone
<1>2. /\ epoch \in Nat /\ revision \in Nat /\ entries \in Listing
      /\ \A i \in Ids : Shown(entries[i]) \in Projections \cup {Absent}
  BY LimitAssumption DEF TypeOK, Listing, Shown
<1>3. draft' \in View
  BY <1>1, <1>2 DEF View, Listing
<1>4. \A i \in Ids : changes'[i].revision \in Nat /\ changes'[i].revision <= revision
  BY <1>1, MoveType, Records DEF StoreMove, StorePrunes, ChangesKnown, Change
<1>5. draft'.epoch = epoch /\ draft'.revision = revision
      /\ \A i \in Ids : draft'.items[i] = Shown(entries[i])
  BY <1>1
<1>6. \A i \in Ids : ~(changes'[i].revision > revision)
  BY <1>2, <1>4
<1>7. Complete(draft)'
  BY <1>1, <1>5, <1>6 DEF Complete
<1> QED BY <1>1, <1>2, <1>3, <1>5, <1>7 DEF ViewSound

(* The first changes of an answer are all there are up to its cursor. *)
LEMMA FirstAreAll ==
  ASSUME changes' \in [Ids -> Change], NEW v \in View, NEW i \in FirstCandidates(v),
         NEW j \in Candidates(v), changes'[j].revision <= changes'[i].revision
  PROVE  j \in FirstCandidates(v)
<1> DEFINE Before(k) == {m \in Candidates(v) : changes'[m].revision < changes'[k].revision}
<1>1. IsFiniteSet(Candidates(v)) /\ Candidates(v) \subseteq Ids
  BY FiniteAssumption, FS_Subset DEF Candidates
<1>2. IsFiniteSet(Before(i)) /\ IsFiniteSet(Before(j))
  BY <1>1, FS_Subset
<1>3. Before(j) \subseteq Before(i)
  BY <1>1 DEF Candidates, FirstCandidates, Change
<1>4. Cardinality(Before(j)) <= Cardinality(Before(i)) /\ Cardinality(Before(j)) \in Nat
      /\ Cardinality(Before(i)) \in Nat
  BY <1>2, <1>3, FS_Subset, FS_CardinalityType
<1>5. Cardinality(Before(i)) < MaxChanges
  BY DEF FirstCandidates
<1>6. Cardinality(Before(j)) < MaxChanges
  BY <1>4, <1>5, LimitAssumption
<1> QED BY <1>6 DEF FirstCandidates

(* Applying them makes a complete view of the client's copy. *)
LEMMA DeliveredSound ==
  ASSUME TypeOK, ChangesKnown, NEW c \in Clients, LookDelivers(c), ViewSound(copy[c])
  PROVE  \E w \in View : ViewSound(w)' /\ copy' = [copy EXCEPT ![c] = w]
<1>1. PICK v : v = copy[c]
  OBVIOUS
<1>2. /\ v \in View /\ ViewSound(v) /\ v.epoch \in Nat /\ v.revision \in Nat
      /\ v.items \in Listing
  BY <1>1 DEF TypeOK, View
<1>3. PICK i \in Ids :
        /\ Last(i, FirstCandidates(v))
        /\ copy' = [copy EXCEPT ![c] = Applied(v, FirstCandidates(v), changes'[i].revision)]
  BY <1>1 DEF LookDelivers, Delivered
<1>4. PICK n : n = changes'[i].revision
  OBVIOUS
<1>5. PICK w : w = Applied(v, FirstCandidates(v), n)
  OBVIOUS
<1>6. /\ StorePrunes /\ UNCHANGED <<cached, entries, epoch, revision>>
      /\ ~Reset(v)
  BY <1>1 DEF LookDelivers, LookAnswers, LookUnchanged, cacheVars, StorePrunes
<1>7. /\ changes' \in [Ids -> Change] /\ minSince' \in Nat
      /\ \A j \in Ids : changes'[j].revision \in Nat /\ changes'[j].revision <= revision
      /\ revision \in Nat /\ epoch \in Nat
  BY <1>6, MoveType, LimitAssumption, Records DEF StoreMove, ChangesKnown, Change, TypeOK
<1>8. ViewSound(v)' /\ v.epoch = epoch /\ v.revision >= minSince' /\ v.revision <= revision
  BY <1>2, <1>6, <1>7, MoveKeepsView DEF StoreMove, Reset, Resumable
<1>9. /\ i \in FirstCandidates(v) /\ n > v.revision /\ n \in Nat /\ n <= revision
      /\ \A j \in FirstCandidates(v) : changes'[j].revision <= n
  BY <1>3, <1>4, <1>7 DEF Last, FirstCandidates, Candidates
<1>10. /\ w.epoch = v.epoch /\ w.revision = n
       /\ w.items = [j \in Ids |-> IF j \in FirstCandidates(v) THEN Shown(changes'[j].entry)
                                   ELSE v.items[j]]
  BY <1>5 DEF Applied
<1>11. w \in View
  <2>1. \A j \in Ids : /\ Shown(changes'[j].entry) \in Projections \cup {Absent}
                       /\ v.items[j] \in Projections \cup {Absent}
    BY <1>2, <1>7 DEF Shown, Change, Listing
  <2>2. w.items \in Listing
    BY <1>10, <2>1 DEF Listing
  <2> QED BY <1>2, <1>5, <1>9, <1>10, <2>2 DEF View, Applied
<1>12. ASSUME cached', NEW j \in Ids
       PROVE  Shown(entries'[j]) = IF changes'[j].revision > n THEN Shown(changes'[j].entry)
                                   ELSE w.items[j]
  <2>1. Shown(entries'[j]) = IF changes'[j].revision > v.revision THEN Shown(changes'[j].entry)
                             ELSE v.items[j]
    BY <1>6, <1>8, <1>12 DEF ViewSound, Accepted, Complete
  <2>2. CASE changes'[j].revision > n
    BY <1>2, <1>7, <1>9, <2>1, <2>2
  <2>3. CASE changes'[j].revision <= n /\ changes'[j].revision > v.revision
    <3>1. j \in Candidates(v)
      BY <2>3 DEF Candidates
    <3>2. j \in FirstCandidates(v)
      BY <1>2, <1>4, <1>7, <1>9, <2>3, <3>1, FirstAreAll
    <3> QED BY <1>7, <1>9, <1>10, <2>1, <2>3, <3>2
  <2>4. CASE ~(changes'[j].revision > v.revision)
    <3>1. j \notin FirstCandidates(v)
      BY <2>4 DEF FirstCandidates, Candidates
    <3>2. ~(changes'[j].revision > n)
      BY <1>2, <1>7, <1>9, <2>4
    <3> QED BY <1>10, <2>1, <2>4, <3>1, <3>2
  <2> QED BY <1>7, <1>9, <2>2, <2>3, <2>4
<1>13. ViewSound(w)'
  BY <1>6, <1>8, <1>9, <1>10, <1>12 DEF ViewSound, Accepted, Complete
<1>14. copy' = [copy EXCEPT ![c] = w]
  BY <1>3, <1>4, <1>5
<1> QED BY <1>11, <1>13, <1>14

(* Every view after a step is one from before, nothing, or sound. *)
LEMMA NextViews ==
  ASSUME TypeOK, ChangesKnown, RolesSound, \A v \in Views : ViewSound(v), [Next]_vars
  PROVE  /\ draft' \in View /\ retained' \in [Snaps -> View] /\ copy' \in [Clients -> View]
         /\ \A v \in Views' : v \in Views \cup {NoView} \/ ViewSound(v)'
<1> DEFINE Old == Views \cup {NoView}
           Good == {v \in View : v \in Old \/ ViewSound(v)'}
<1>0. /\ draft \in View /\ retained \in [Snaps -> View] /\ copy \in [Clients -> View]
      /\ NoView \in View
      /\ \A s \in Snaps : retained[s] \in Good
      /\ \A c \in Clients : copy[c] \in Good
      /\ draft \in Good /\ NoView \in Good
  BY Records DEF TypeOK, Views
<1> HIDE DEF Good
<1>1. ASSUME draft' \in Good, retained' \in [Snaps -> View], \A s \in Snaps : retained'[s] \in Good,
             copy' \in [Clients -> View], \A c \in Clients : copy'[c] \in Good
      PROVE  /\ draft' \in View /\ retained' \in [Snaps -> View] /\ copy' \in [Clients -> View]
             /\ \A v \in Views' : v \in Views \cup {NoView} \/ ViewSound(v)'
  BY <1>1 DEF Good, Views
<1>2. ASSUME UNCHANGED <<draft, retained, copy>>
      PROVE  /\ draft' \in View /\ retained' \in [Snaps -> View] /\ copy' \in [Clients -> View]
             /\ \A v \in Views' : v \in Views \cup {NoView} \/ ViewSound(v)'
  BY <1>0, <1>1, <1>2
<1>3. ASSUME NEW c \in Clients, NEW w, w \in Good, copy' = [copy EXCEPT ![c] = w],
             UNCHANGED <<draft, retained>>
      PROVE  /\ draft' \in View /\ retained' \in [Snaps -> View] /\ copy' \in [Clients -> View]
             /\ \A v \in Views' : v \in Views \cup {NoView} \/ ViewSound(v)'
  <2>1. w \in View
    BY <1>3 DEF Good
  <2>2. copy' \in [Clients -> View] /\ \A d \in Clients : copy'[d] \in Good
    BY <1>0, <1>3, <2>1
  <2> QED BY <1>0, <1>1, <1>3, <2>2
<1>4. CASE WriteStep
  <2>1. UNCHANGED <<draft, retained, copy>>
    BY <1>4 DEF WriteStep, OwnWrite, UnseenWrite, ForeignWrite, SyncRecords, serverVars, clientVars
  <2> QED BY <1>2, <2>1
<1>5. CASE SyncStep
  <2>1. CASE BuildTakes
    <3>1. draft' \in Good
      BY <2>1, TakenSound DEF Good
    <3>2. UNCHANGED <<retained, copy>>
      BY <2>1 DEF BuildTakes, clientVars
    <3> QED BY <1>0, <1>1, <3>1, <3>2
  <2>2. CASE ReadScanned
    <3>1. holder.who \in Clients /\ snap[holder.who] \in Snaps
      BY <2>2 DEF ReadScanned, SyncDone, RolesSound
    <3>2. PICK c \in Clients : c = holder.who
      BY <3>1
    <3>3. PICK w : /\ copy' = [copy EXCEPT ![c] = w]
                   /\ w \in {retained[snap[c]], NoView} /\ UNCHANGED <<draft, retained>>
      BY <2>2, <3>2 DEF ReadScanned, Reads, serverVars
    <3>4. w \in Good
      BY <1>0, <3>1, <3>2, <3>3
    <3> QED BY <1>3, <3>3, <3>4
  <2>3. CASE SyncStep /\ ~BuildTakes /\ ~ReadScanned
    <3>1. UNCHANGED <<draft, retained, copy>>
      BY <2>3 DEF SyncStep, Build, Scan, ListPage, SyncEnds, RescanDone, ReadScans, PollRescans,
        BeginSync, serverVars, clientVars
    <3> QED BY <1>2, <3>1
  <2> QED BY <1>5, <2>1, <2>2, <2>3
<1>6. CASE LookStep
  <2>1. PICK c \in Clients : \/ LookFails(c) \/ LookResets(c) \/ LookSleeps(c) \/ LookEmpty(c)
                             \/ LookDelivers(c) \/ AnswerLost(c)
    BY <1>6 DEF LookStep
  <2>2. CASE LookFails(c) \/ LookSleeps(c) \/ LookEmpty(c) \/ AnswerLost(c)
    <3>1. UNCHANGED <<draft, retained, copy>>
      BY <2>2 DEF LookFails, LookSleeps, LookEmpty, AnswerLost, LookAnswers, LookUnchanged,
        serverVars
    <3> QED BY <1>2, <3>1
  <2>3. CASE LookResets(c)
    <3>1. copy' = [copy EXCEPT ![c] = NoView] /\ UNCHANGED <<draft, retained>>
      BY <2>3 DEF LookResets, LookUnchanged, serverVars
    <3> QED BY <1>0, <1>3, <3>1
  <2>4. CASE LookDelivers(c)
    <3>1. ViewSound(copy[c])
      BY DEF Views
    <3>2. PICK w \in View : ViewSound(w)' /\ copy' = [copy EXCEPT ![c] = w]
      BY <2>4, <3>1, DeliveredSound
    <3>3. w \in Good
      BY <3>2 DEF Good
    <3>4. UNCHANGED <<draft, retained>>
      BY <2>4 DEF LookDelivers, LookAnswers, LookUnchanged, serverVars
    <3> QED BY <1>3, <3>2, <3>3, <3>4
  <2> QED BY <2>1, <2>2, <2>3, <2>4
<1>7. CASE ClientStep
  <2>1. PICK c \in Clients : \/ Reserve(c) \/ ReadGone(c) \/ ReadPages(c) \/ Poll(c) \/ Release(c)
                             \/ Forget(c) \/ DeadlinePasses(c)
    BY <1>7 DEF ClientStep
  <2>2. CASE Reserve(c) \/ ReadGone(c) \/ Poll(c) \/ Release(c) \/ DeadlinePasses(c)
    <3>1. UNCHANGED <<draft, retained, copy>>
      BY <2>2 DEF Reserve, ReadGone, Poll, Release, DeadlinePasses, serverVars
    <3> QED BY <1>2, <3>1
  <2>3. CASE ReadPages(c)
    <3>1. snap[c] \in Snaps
      BY <2>3 DEF ReadPages, RolesSound
    <3>2. PICK w : /\ copy' = [copy EXCEPT ![c] = w]
                   /\ w \in {retained[snap[c]], NoView} /\ UNCHANGED <<draft, retained>>
      BY <2>3 DEF ReadPages, Reads, serverVars
    <3>3. w \in Good
      BY <1>0, <3>1, <3>2
    <3> QED BY <1>3, <3>2, <3>3
  <2>4. CASE Forget(c)
    <3>1. /\ copy' = [copy EXCEPT ![c] = NoView] /\ draft' = draft
          /\ (retained' = retained \/ retained' = [retained EXCEPT ![snap[c]] = NoView])
      BY <2>4 DEF Forget
    <3>2. copy' \in [Clients -> View] /\ \A d \in Clients : copy'[d] \in Good
      BY <1>0, <3>1
    <3>3. retained' \in [Snaps -> View] /\ \A s \in Snaps : retained'[s] \in Good
      BY <1>0, <3>1
    <3> QED BY <1>0, <1>1, <3>1, <3>2, <3>3
  <2> QED BY <2>1, <2>2, <2>3, <2>4
<1>8. CASE TimeStep
  <2>1. UNCHANGED <<draft, retained, copy>>
    BY <1>8 DEF TimeStep, ScanFails, ScannerStops, WindowPasses, Publish, LeasePasses,
      JournalPasses, ExpireJournal, serverVars, clientVars
  <2> QED BY <1>2, <2>1
<1>9. CASE ServerStep
  <2>1. CASE Start
    <3>1. UNCHANGED <<draft, retained, copy>>
      BY <2>1 DEF Start, serverVars, clientVars
    <3> QED BY <1>2, <3>1
  <2>2. CASE BuildFails
    <3>1. draft' = NoView /\ UNCHANGED <<retained, copy>>
      BY <2>2 DEF BuildFails
    <3> QED BY <1>0, <1>1, <3>1
  <2>3. CASE Close
    <3>1. retained' = [s \in Snaps |-> NoView] /\ UNCHANGED <<draft, copy>>
      BY <2>3 DEF Close
    <3>2. retained' \in [Snaps -> View] /\ \A s \in Snaps : retained'[s] = NoView
      BY <1>0, <3>1
    <3> QED BY <1>0, <1>1, <3>1, <3>2
  <2>4. ASSUME NEW s \in Snaps, Keep(s) \/ SnapshotExpires(s)
        PROVE  /\ draft' \in View /\ retained' \in [Snaps -> View]
               /\ copy' \in [Clients -> View]
               /\ \A v \in Views' : v \in Views \cup {NoView} \/ ViewSound(v)'
    <3>1. /\ draft' \in {draft, NoView} /\ copy' = copy
          /\ \/ retained' = [retained EXCEPT ![s] = draft]
             \/ retained' = [retained EXCEPT ![s] = NoView]
      BY <2>4 DEF Keep, SnapshotExpires, clientVars
    <3>2. retained' \in [Snaps -> View] /\ \A t \in Snaps : retained'[t] \in Good
      BY <1>0, <3>1
    <3> QED BY <1>0, <1>1, <3>1, <3>2
  <2> QED BY <1>9, <2>1, <2>2, <2>3, <2>4 DEF ServerStep
<1>10. CASE UNCHANGED vars
  <2>1. UNCHANGED <<draft, retained, copy>>
    BY <1>10 DEF vars, serverVars, clientVars
  <2> QED BY <1>2, <2>1
<1> QED BY <1>4, <1>5, <1>6, <1>7, <1>8, <1>9, <1>10, NextSteps

LEMMA NextKeepsViews ==
  ASSUME TypeOK, ChangesKnown, RolesSound, \A v \in Views : ViewSound(v), [Next]_vars
  PROVE  (\A v \in Views : ViewSound(v))'
<1>1. StoreMove
  BY NextMoves
<1>2. epoch \in Nat /\ Views \subseteq View
  BY DEF TypeOK, Views
<1>3. ASSUME NEW v \in Views \cup {NoView} PROVE ViewSound(v)'
  <2>1. v \in View /\ ViewSound(v)
    BY <1>2, NoViewSound, Records
  <2> QED BY <1>1, <2>1, MoveKeepsView
<1>4. \A v \in Views' : v \in Views \cup {NoView} \/ ViewSound(v)'
  BY NextViews
<1> QED BY <1>3, <1>4

-----------------------------------------------------------------------------
(* Types of what is neither the store nor a view. *)

FlagsOK ==
  /\ files \in Listing /\ up \in BOOLEAN /\ dirty \in BOOLEAN /\ scanErr \in BOOLEAN
  /\ window \in {"none", "open", "passed"} /\ journal \in {"none", "open", "passed"}
  /\ scanner \in BOOLEAN /\ lease \in BOOLEAN
HolderOK ==
  holder \in [by : {"none", "scan", "list", "build", "page", "poll"},
              who : Clients \cup {None}, todo : SUBSET Ids]
ClientsOK ==
  /\ builder \in Clients \cup {None}
  /\ phase \in [Clients -> Waiting \cup {"idle", "building", "pages"}]
  /\ snap \in [Clients -> Snaps \cup {None}]

LEMMA WakeType ==
  ASSUME ClientsOK, Wake
  PROVE  phase' \in [Clients -> Waiting \cup {"idle", "building", "pages"}]
BY DEF ClientsOK, Wake, Waiting

(* What recording a change does besides. *)
LEMMA RecordRest ==
  ASSUME FlagsOK, ClientsOK, NEW i, NEW e, Record(i, e)
  PROVE  /\ window' \in {"none", "open", "passed"} /\ journal' \in {"none", "open", "passed"}
         /\ phase' \in [Clients -> Waiting \cup {"idle", "building", "pages"}]
         /\ UNCHANGED <<scanner, lease>>
<1>1. CASE RecordsNewEpoch
  BY <1>1, WakeType DEF RecordsNewEpoch, Record
<1>2. CASE RecordsNothing
  BY <1>2 DEF RecordsNothing, Record, FlagsOK, ClientsOK
<1>3. CASE RecordsChange(i, e)
  BY <1>3 DEF RecordsChange, WindowOpens, Record, FlagsOK, ClientsOK
<1> QED BY <1>1, <1>2, <1>3 DEF Record

LEMMA NextFlags ==
  ASSUME FlagsOK, ClientsOK, HolderOK, TypeOK, [Next]_vars
  PROVE  FlagsOK'
<1>1. CASE WriteStep
  <2>1. ASSUME NEW i \in Ids, NEW e \in Projections \cup {Absent}, OwnWrite(i, e)
        PROVE  FlagsOK'
    <3>1. files' \in Listing /\ UNCHANGED <<up, dirty, scanErr>>
      BY <2>1 DEF OwnWrite, FlagsOK, Listing
    <3>2. CASE cached /\ entries[i] # e
      BY <2>1, <3>1, <3>2, RecordRest DEF OwnWrite, FlagsOK
    <3>3. CASE ~(cached /\ entries[i] # e)
      BY <2>1, <3>1, <3>3 DEF OwnWrite, FlagsOK, timeVars
    <3> QED BY <3>2, <3>3
  <2>2. ASSUME NEW i \in Ids, NEW e \in Projections \cup {Absent},
               UnseenWrite(i, e) \/ ForeignWrite(i, e)
        PROVE  FlagsOK'
    <3>1. files' \in Listing
      BY <2>2 DEF UnseenWrite, ForeignWrite, FlagsOK, Listing
    <3> QED BY <2>2, <3>1 DEF UnseenWrite, ForeignWrite, FlagsOK, timeVars, cacheVars
  <2>3. ASSUME NEW i \in Ids, SyncRecords(i) PROVE FlagsOK'
    BY <2>3, RecordRest DEF SyncRecords, FlagsOK
  <2> QED BY <1>1, <2>1, <2>2, <2>3 DEF WriteStep
<1>2. CASE SyncStep
  <2>1. ASSUME NEW by, NEW c, BeginSync(by, c) PROVE FlagsOK'
    BY <2>1 DEF BeginSync, FlagsOK, timeVars
  <2>2. Build \/ Scan \/ ListPage => FlagsOK'
    BY <2>1 DEF Build, Scan, ListPage
  <2>3. ASSUME NEW c \in Clients, ReadScans(c) \/ PollRescans(c) PROVE FlagsOK'
    BY <2>1, <2>3 DEF ReadScans, PollRescans
  <2>4. SyncEnds \/ ReadScanned => FlagsOK'
    BY DEF SyncEnds, ReadScanned, SyncDone, FlagsOK, timeVars
  <2>5. BuildTakes => FlagsOK'
    BY DEF BuildTakes, SyncDone, FlagsOK
  <2>6. RescanDone => FlagsOK'
    BY DEF RescanDone, SyncDone, Joined, FlagsOK
  <2> QED BY <1>2, <2>2, <2>3, <2>4, <2>5, <2>6 DEF SyncStep
<1>3. CASE LookStep
  BY <1>3 DEF LookStep, LookFails, LookResets, LookSleeps, LookEmpty, LookDelivers, AnswerLost,
    LookAnswers, LookUnchanged, FlagsOK, cacheVars, timeVars
<1>4. CASE ClientStep
  BY <1>4 DEF ClientStep, Reserve, ReadGone, ReadPages, Poll, Joined, Release, Forget,
    DeadlinePasses, FlagsOK, cacheVars, timeVars
<1>5. CASE TimeStep
  BY <1>5 DEF TimeStep, ScanFails, ScannerStops, WindowPasses, Publish, LeasePasses,
    JournalPasses, ExpireJournal, FlagsOK, cacheVars, timeVars
<1>6. CASE ServerStep
  <2>1. Close => FlagsOK'
    BY DEF Close, FlagsOK
  <2>2. Start \/ BuildFails => FlagsOK'
    BY DEF Start, BuildFails, FlagsOK, cacheVars, timeVars
  <2>3. ASSUME NEW s \in Snaps, Keep(s) \/ SnapshotExpires(s) PROVE FlagsOK'
    BY <2>3 DEF Keep, SnapshotExpires, FlagsOK, cacheVars, timeVars
  <2> QED BY <1>6, <2>1, <2>2, <2>3 DEF ServerStep
<1>7. CASE UNCHANGED vars
  BY <1>7 DEF vars, FlagsOK, cacheVars, timeVars
<1> QED BY <1>1, <1>2, <1>3, <1>4, <1>5, <1>6, <1>7, NextSteps

LEMMA NextHolder ==
  ASSUME HolderOK, TypeOK, [Next]_vars
  PROVE  HolderOK'
<1>1. ASSUME NEW by \in {"scan", "list", "build", "page", "poll"}, NEW c \in Clients \cup {None},
             BeginSync(by, c)
      PROVE  HolderOK'
  BY <1>1 DEF BeginSync, HolderOK, Unrecorded
<1>2. ASSUME NEW by, SyncDone(by) PROVE HolderOK'
  BY <1>2 DEF SyncDone, NoHolder, HolderOK
<1>3. CASE WriteStep
  BY <1>3 DEF WriteStep, OwnWrite, UnseenWrite, ForeignWrite, SyncRecords, HolderOK
<1>4. CASE SyncStep
  <2>1. Build \/ Scan \/ ListPage => HolderOK'
    BY <1>1 DEF Build, Scan, ListPage
  <2>2. ASSUME NEW c \in Clients, ReadScans(c) \/ PollRescans(c) PROVE HolderOK'
    BY <1>1, <2>2 DEF ReadScans, PollRescans
  <2>3. SyncEnds \/ BuildTakes \/ ReadScanned \/ RescanDone => HolderOK'
    BY <1>2 DEF SyncEnds, BuildTakes, ReadScanned, RescanDone
  <2> QED BY <1>4, <2>1, <2>2, <2>3 DEF SyncStep
<1>5. CASE LookStep
  BY <1>5 DEF LookStep, LookFails, LookResets, LookSleeps, LookEmpty, LookDelivers, AnswerLost,
    LookAnswers, LookUnchanged, HolderOK
<1>6. CASE ClientStep
  BY <1>6 DEF ClientStep, Reserve, ReadGone, ReadPages, Poll, Release, Forget, DeadlinePasses,
    HolderOK
<1>7. CASE TimeStep
  BY <1>7 DEF TimeStep, ScanFails, ScannerStops, WindowPasses, Publish, LeasePasses,
    JournalPasses, ExpireJournal, HolderOK
<1>8. CASE ServerStep
  BY <1>8 DEF ServerStep, Close, Start, BuildFails, Keep, SnapshotExpires, HolderOK
<1>9. CASE UNCHANGED vars
  BY <1>9 DEF vars, HolderOK
<1> QED BY <1>3, <1>4, <1>5, <1>6, <1>7, <1>8, <1>9, NextSteps

LEMMA NextClients ==
  ASSUME FlagsOK, ClientsOK, TypeOK, [Next]_vars
  PROVE  ClientsOK'
<1>0. ASSUME UNCHANGED <<builder, snap>>,
             \/ UNCHANGED phase
             \/ \E c \in Clients, p \in Waiting \cup {"idle", "building", "pages"} :
                  phase' = [phase EXCEPT ![c] = p]
             \/ Wake
      PROVE  ClientsOK'
  BY <1>0, WakeType DEF ClientsOK
<1>1. CASE WriteStep
  <2>1. ASSUME NEW i, NEW e, Record(i, e), UNCHANGED <<builder, snap>> PROVE ClientsOK'
    BY <2>1, RecordRest DEF ClientsOK
  <2>2. ASSUME NEW i \in Ids, NEW e \in Projections \cup {Absent}, OwnWrite(i, e)
        PROVE  ClientsOK'
    <3>1. CASE cached /\ entries[i] # e
      BY <2>1, <2>2, <3>1 DEF OwnWrite, serverVars
    <3>2. CASE ~(cached /\ entries[i] # e)
      BY <1>0, <2>2, <3>2 DEF OwnWrite, serverVars
    <3> QED BY <3>1, <3>2
  <2>3. ASSUME NEW i \in Ids, NEW e \in Projections \cup {Absent},
               UnseenWrite(i, e) \/ ForeignWrite(i, e)
        PROVE  ClientsOK'
    BY <1>0, <2>3 DEF UnseenWrite, ForeignWrite, serverVars, clientVars
  <2>4. ASSUME NEW i \in Ids, SyncRecords(i) PROVE ClientsOK'
    BY <2>1, <2>4 DEF SyncRecords, serverVars
  <2> QED BY <1>1, <2>2, <2>3, <2>4 DEF WriteStep
<1>2. CASE SyncStep
  <2>1. CASE ReadScanned
    BY <2>1 DEF ReadScanned, Reads, ClientsOK, serverVars
  <2>2. CASE RescanDone
    BY <2>2 DEF RescanDone, Joined, ClientsOK, Waiting, serverVars
  <2>3. CASE SyncStep /\ ~ReadScanned /\ ~RescanDone
    <3>1. UNCHANGED <<builder, snap, phase>>
      BY <2>3 DEF SyncStep, Build, Scan, ListPage, ReadScans, PollRescans, BeginSync, SyncEnds,
        BuildTakes, serverVars, clientVars
    <3> QED BY <1>0, <3>1
  <2> QED BY <1>2, <2>1, <2>2, <2>3
<1>3. CASE LookStep
  <2>1. PICK c \in Clients : \/ LookFails(c) \/ LookResets(c) \/ LookSleeps(c) \/ LookEmpty(c)
                             \/ LookDelivers(c) \/ AnswerLost(c)
    BY <1>3 DEF LookStep
  <2>2. UNCHANGED <<builder, snap>> /\ \E p \in Waiting : phase' = [phase EXCEPT ![c] = p]
    BY <2>1 DEF LookFails, LookResets, LookSleeps, LookEmpty, LookDelivers, AnswerLost,
      LookAnswers, LookUnchanged, Returns, Waiting, serverVars
  <2> QED BY <1>0, <2>2
<1>4. CASE ClientStep
  BY <1>4 DEF ClientStep, Reserve, ReadGone, ReadPages, Reads, Poll, Joined, Release, Forget,
    DeadlinePasses, ClientsOK, Waiting, serverVars
<1>5. CASE TimeStep
  <2>1. UNCHANGED <<builder, snap>> /\ (Wake \/ UNCHANGED phase)
    BY <1>5 DEF TimeStep, ScanFails, ScannerStops, WindowPasses, Publish, LeasePasses,
      JournalPasses, ExpireJournal, serverVars, clientVars
  <2> QED BY <1>0, <2>1
<1>6. CASE ServerStep
  BY <1>6 DEF ServerStep, Close, Start, BuildFails, Keep, SnapshotExpires, ClientsOK, Waiting,
    serverVars, clientVars
<1>7. CASE UNCHANGED vars
  BY <1>7 DEF vars, ClientsOK, serverVars, clientVars
<1> QED BY <1>1, <1>2, <1>3, <1>4, <1>5, <1>6, <1>7, NextSteps

LEMMA NextType ==
  ASSUME TypeOK, ChangesKnown, RolesSound, \A v \in Views : ViewSound(v), [Next]_vars
  PROVE  TypeOK'
<1>1. FlagsOK /\ HolderOK /\ ClientsOK
  BY DEF TypeOK, FlagsOK, HolderOK, ClientsOK
<1>2. FlagsOK' /\ HolderOK' /\ ClientsOK'
  BY <1>1, NextFlags, NextHolder, NextClients
<1>3. /\ cached' \in BOOLEAN /\ entries' \in Listing /\ epoch' \in Nat
      /\ revision' \in 0 .. MaxRevision /\ minSince' \in Nat /\ changes' \in [Ids -> Change]
  BY MoveType, NextMoves
<1>4. draft' \in View /\ retained' \in [Snaps -> View] /\ copy' \in [Clients -> View]
  BY NextViews
<1> QED BY <1>2, <1>3, <1>4 DEF TypeOK, FlagsOK, HolderOK, ClientsOK

-----------------------------------------------------------------------------
(* Who holds what. *)

(* A recorded change at most wakes who sleeps. *)
LEMMA RecordWakes ==
  ASSUME ClientsOK, NEW i, NEW e, Record(i, e)
  PROVE  /\ cached' = cached
         /\ \A c \in Clients : phase'[c] = phase[c] \/ (phase[c] = "asleep" /\ phase'[c] = "look")
BY DEF Record, RecordsNewEpoch, RecordsNothing, RecordsChange, Wake, ClientsOK

(* Waiters may do as they like. *)
LEMMA RolesKept ==
  ASSUME RolesSound, holder'.by = holder.by, holder'.who = holder.who,
         UNCHANGED <<builder, snap, retained>>, cached' = cached, builder \in Clients \cup {None},
         \A c \in Clients :
           \/ phase'[c] = phase[c] /\ copy'[c] = copy[c]
           \/ phase[c] \in Waiting /\ phase'[c] \in Waiting \cup {"idle"}
  PROVE  RolesSound'
<1>1. /\ builder' # None => phase'[builder'] = "building"
      /\ ~(holder'.by = "none") => cached'
  BY DEF RolesSound, Free, Waiting
<1>2. \A c \in Clients : /\ phase'[c] \in Waiting => cached'
                         /\ phase'[c] = "pages" => snap'[c] \in Snaps
  BY DEF RolesSound, Waiting
<1>3. holder'.by = "page" => phase'[holder'.who] = "pages" /\ retained'[snap'[holder'.who]] # NoView
  BY DEF RolesSound, Waiting
<1>4. holder'.by = "poll" => phase'[holder'.who] = "idle" /\ copy'[holder'.who] # NoView
  BY DEF RolesSound, Waiting
<1>5. holder'.by \in {"page", "poll"} => holder'.who \in Clients
  BY DEF RolesSound
<1> QED BY <1>1, <1>2, <1>3, <1>4, <1>5 DEF RolesSound, Free

LEMMA NextRoles ==
  ASSUME TypeOK, RolesSound, [Next]_vars
  PROVE  RolesSound'
<1>0. ClientsOK /\ builder \in Clients \cup {None} /\ None \notin Clients
  BY NoneAssumption DEF TypeOK, ClientsOK
<1>1. CASE WriteStep
  <2>1. ASSUME NEW i \in Ids, NEW e \in Projections \cup {Absent}, OwnWrite(i, e)
        PROVE  RolesSound'
    <3>1. /\ UNCHANGED <<holder, builder, snap, retained, copy>> /\ cached' = cached
          /\ \A c \in Clients : phase'[c] = phase[c] \/ (phase[c] = "asleep" /\ phase'[c] = "look")
      <4>1. CASE cached /\ entries[i] # e
        BY <1>0, <2>1, <4>1, RecordWakes DEF OwnWrite, serverVars
      <4>2. CASE ~(cached /\ entries[i] # e)
        BY <2>1, <4>2 DEF OwnWrite, serverVars
      <4> QED BY <4>1, <4>2
    <3> QED BY <1>0, <3>1, RolesKept DEF Waiting
  <2>2. ASSUME NEW i \in Ids, NEW e \in Projections \cup {Absent},
               UnseenWrite(i, e) \/ ForeignWrite(i, e)
        PROVE  RolesSound'
    <3>1. /\ UNCHANGED <<holder, builder, snap, retained, copy>> /\ cached' = cached
          /\ Wake \/ UNCHANGED phase
      BY <2>2 DEF UnseenWrite, ForeignWrite, serverVars, clientVars, cacheVars
    <3> QED BY <1>0, <3>1, RolesKept DEF Waiting, Wake
  <2>3. ASSUME NEW i \in Ids, SyncRecords(i) PROVE RolesSound'
    <3>1. holder'.by = holder.by /\ holder'.who = holder.who
      BY <2>3 DEF SyncRecords, TypeOK
    <3>2. UNCHANGED <<builder, snap, retained, copy>> /\ Record(i, files[i])
      BY <2>3 DEF SyncRecords, serverVars
    <3> QED BY <1>0, <3>1, <3>2, RolesKept, RecordWakes DEF Waiting
  <2> QED BY <1>1, <2>1, <2>2, <2>3 DEF WriteStep
<1>2. CASE SyncStep
  <2>1. ASSUME NEW by, NEW c, BeginSync(by, c),
               by \in {"page", "poll"} => c \in Clients,
               by = "page" => phase[c] = "pages" /\ retained[snap[c]] # NoView,
               by = "poll" => phase[c] = "idle" /\ copy[c] # NoView
        PROVE  RolesSound'
    <3>1. /\ cached' = TRUE /\ holder'.by = by /\ holder'.who = c
          /\ UNCHANGED <<builder, snap, retained, copy, phase>>
      BY <2>1 DEF BeginSync, Ensure, serverVars, clientVars, TypeOK
    <3> QED BY <2>1, <3>1 DEF RolesSound, Free
  <2>2. Build \/ Scan \/ ListPage => RolesSound'
    BY <2>1 DEF Build, Scan, ListPage
  <2>3. ASSUME NEW c \in Clients, ReadScans(c) \/ PollRescans(c) PROVE RolesSound'
    BY <2>1, <2>3 DEF ReadScans, PollRescans
  <2>4. ASSUME NEW by, SyncDone(by) PROVE holder'.by = "none" /\ cached' = cached
    BY <2>4 DEF SyncDone, NoHolder
  <2>5. CASE SyncEnds \/ BuildTakes
    <3>1. UNCHANGED <<builder, snap, phase>>
      BY <2>5 DEF SyncEnds, BuildTakes, serverVars, clientVars
    <3> QED BY <2>4, <2>5, <3>1 DEF SyncEnds, BuildTakes, RolesSound, Free
  <2>6. CASE ReadScanned
    <3>1. /\ phase' = [phase EXCEPT ![holder.who] = "idle"]
          /\ snap' = [snap EXCEPT ![holder.who] = None] /\ UNCHANGED builder
          /\ holder.by = "page" /\ holder'.by = "none" /\ cached' = cached
      BY <2>4, <2>6 DEF ReadScanned, Reads, SyncDone, serverVars
    <3>2. holder.who \in Clients /\ phase[holder.who] = "pages"
      BY <3>1 DEF RolesSound
    <3> QED BY <1>0, <3>1, <3>2 DEF RolesSound, Free, ClientsOK, Waiting
  <2>7. CASE RescanDone
    <3>1. /\ \/ UNCHANGED phase
             \/ \E p \in {"look", "late"} : phase' = [phase EXCEPT ![holder.who] = p]
          /\ UNCHANGED <<builder, snap>>
          /\ holder.by = "poll" /\ holder'.by = "none" /\ cached' = cached
      BY <2>4, <2>7 DEF RescanDone, Joined, SyncDone, serverVars
    <3>2. holder.who \in Clients /\ phase[holder.who] = "idle" /\ cached
      BY <3>1 DEF RolesSound, Free
    <3> QED BY <1>0, <3>1, <3>2 DEF RolesSound, Free, ClientsOK, Waiting
  <2> QED BY <1>2, <2>2, <2>3, <2>5, <2>6, <2>7 DEF SyncStep
<1>3. CASE LookStep
  <2>1. PICK c \in Clients : \/ LookFails(c) \/ LookResets(c) \/ LookSleeps(c) \/ LookEmpty(c)
                             \/ LookDelivers(c) \/ AnswerLost(c)
    BY <1>3 DEF LookStep
  <2>2. /\ UNCHANGED <<holder, builder, snap, retained>> /\ cached' = cached
        /\ \E p \in Waiting : phase' = [phase EXCEPT ![c] = p]
        /\ phase[c] \in Waiting
        /\ UNCHANGED copy \/ \E v : copy' = [copy EXCEPT ![c] = v]
    BY <2>1 DEF LookFails, LookResets, LookSleeps, LookEmpty, LookDelivers, Delivered, AnswerLost,
      Looks, LookAnswers, LookUnchanged, Returns, Waiting, serverVars, cacheVars
  <2>3. \A d \in Clients : \/ phase'[d] = phase[d] /\ copy'[d] = copy[d]
                           \/ phase[d] \in Waiting /\ phase'[d] \in Waiting \cup {"idle"}
    BY <1>0, <2>2 DEF ClientsOK, TypeOK
  <2> QED BY <1>0, <2>2, <2>3, RolesKept
<1>4. CASE ClientStep
  <2>1. PICK c \in Clients : \/ Reserve(c) \/ ReadGone(c) \/ ReadPages(c) \/ Poll(c) \/ Release(c)
                             \/ Forget(c) \/ DeadlinePasses(c)
    BY <1>4 DEF ClientStep
  <2>2. CASE Reserve(c)
    BY <1>0, <2>2 DEF Reserve, RolesSound, Free, ClientsOK, Waiting, cacheVars
  <2>3. CASE ReadGone(c)
    BY <1>0, <2>3 DEF ReadGone, RolesSound, Free, ClientsOK, Waiting, cacheVars, serverVars
  <2>4. CASE ReadPages(c)
    BY <1>0, <2>4 DEF ReadPages, Reads, RolesSound, Free, ClientsOK, Waiting, cacheVars,
      serverVars
  <2>5. CASE Poll(c)
    BY <1>0, <2>5 DEF Poll, Ensure, Joined, RolesSound, Free, ClientsOK, Waiting, serverVars
  <2>6. CASE Release(c) \/ DeadlinePasses(c)
    <3>1. /\ UNCHANGED <<holder, builder, snap, retained, copy>> /\ cached' = cached
          /\ \E p \in Waiting \cup {"idle"} : phase' = [phase EXCEPT ![c] = p]
          /\ phase[c] \in Waiting
      BY <2>6 DEF Release, DeadlinePasses, Waiting, serverVars, cacheVars
    <3> QED BY <1>0, <3>1, RolesKept DEF ClientsOK
  <2>7. CASE Forget(c)
    BY <1>0, <2>7 DEF Forget, RolesSound, Free, ClientsOK, Waiting, cacheVars
  <2> QED BY <2>1, <2>2, <2>3, <2>4, <2>5, <2>6, <2>7
<1>5. CASE TimeStep
  <2>1. /\ UNCHANGED <<holder, builder, snap, retained, copy>> /\ cached' = cached
        /\ Wake \/ UNCHANGED phase
    BY <1>5 DEF TimeStep, ScanFails, ScannerStops, WindowPasses, Publish, LeasePasses,
      JournalPasses, ExpireJournal, cacheVars, serverVars, clientVars
  <2> QED BY <1>0, <2>1, RolesKept DEF Waiting, Wake
<1>6. CASE ServerStep
  <2>1. CASE Start
    BY <2>1 DEF Start, RolesSound, Free, cacheVars, serverVars, clientVars
  <2>2. CASE BuildFails
    <3>1. /\ builder \in Clients /\ builder' = None /\ phase' = [phase EXCEPT ![builder] = "idle"]
          /\ UNCHANGED <<holder, cached, snap, retained, copy>> /\ phase[builder] = "building"
      BY <1>0, <2>2 DEF BuildFails, RolesSound, cacheVars
    <3> QED BY <1>0, <3>1 DEF RolesSound, Free, ClientsOK, Waiting
  <2>3. CASE Close
    <3>1. /\ UNCHANGED <<holder, builder, snap>> /\ holder.by = "none"
          /\ \A c \in Clients :
               phase'[c] = IF phase[c] \in Waiting THEN "idle" ELSE phase[c]
      BY <2>3 DEF Close, Free
    <3> QED BY <1>0, <3>1 DEF RolesSound, Free, Waiting
  <2>4. ASSUME NEW s \in Snaps, Keep(s) PROVE RolesSound'
    <3>1. /\ builder' = None /\ phase' = [phase EXCEPT ![builder] = "pages"]
          /\ snap' = [snap EXCEPT ![builder] = s] /\ retained' = [retained EXCEPT ![s] = draft]
          /\ UNCHANGED <<holder, cached, copy>> /\ draft # NoView
      BY <2>4 DEF Keep, cacheVars
    <3>2. \A c \in Clients :
            /\ phase'[c] = IF c = builder THEN "pages" ELSE phase[c]
            /\ snap'[c] = IF c = builder THEN s ELSE snap[c]
      BY <1>0, <3>1 DEF ClientsOK
    <3>3. \A t \in Snaps : retained[t] # NoView => retained'[t] # NoView
      BY <3>1 DEF TypeOK
    <3>4. builder \in Clients => phase[builder] = "building"
      BY <1>0 DEF RolesSound
    <3>5. holder'.by = "page" =>
            phase'[holder'.who] = "pages" /\ retained'[snap'[holder'.who]] # NoView
      BY <3>1, <3>2, <3>3, <3>4 DEF RolesSound
    <3>6. holder'.by = "poll" => phase'[holder'.who] = "idle" /\ copy'[holder'.who] # NoView
      BY <3>1, <3>2, <3>4 DEF RolesSound
    <3>7. \A c \in Clients : /\ phase'[c] \in Waiting => cached'
                             /\ phase'[c] = "pages" => snap'[c] \in Snaps
      BY <3>1, <3>2 DEF RolesSound, Waiting
    <3>8. /\ ~(holder'.by = "none") => cached'
          /\ holder'.by \in {"page", "poll"} => holder'.who \in Clients
      BY <3>1 DEF RolesSound, Free
    <3> QED BY <3>1, <3>5, <3>6, <3>7, <3>8 DEF RolesSound, Free
  <2>5. ASSUME NEW s \in Snaps, SnapshotExpires(s) PROVE RolesSound'
    <3>1. holder.by = "page" => retained'[snap[holder.who]] # NoView
      BY <2>5 DEF SnapshotExpires, RolesSound, TypeOK
    <3> QED BY <2>5, <3>1 DEF SnapshotExpires, RolesSound, Free, cacheVars, clientVars
  <2> QED BY <1>6, <2>1, <2>2, <2>3, <2>4, <2>5 DEF ServerStep
<1>7. CASE UNCHANGED vars
  BY <1>7 DEF vars, RolesSound, Free, cacheVars, serverVars, clientVars
<1> QED BY <1>1, <1>2, <1>3, <1>4, <1>5, <1>6, <1>7, NextSteps

-----------------------------------------------------------------------------
(* Who sleeps. *)

(* What SleepersAreTold says of one client. *)
Told(c) ==
  phase[c] = "asleep" =>
    /\ cached /\ ~scanErr /\ copy[c].epoch = epoch
    /\ (\E i \in Ids : changes[i].revision > copy[c].revision) => window # "none"

(* A client that sleeps on is still told, if what it may be told is what it  *)
(* was told before, or a publication is due.                                 *)
LEMMA SleepsOn ==
  ASSUME TypeOK, SleepersAreTold, NEW c \in Clients,
         phase'[c] = "asleep" =>
           /\ phase[c] = "asleep" /\ copy'[c] = copy[c] /\ UNCHANGED <<cached, epoch>>
           /\ scanErr' \in {scanErr, FALSE}
           /\ \/ window' # "none"
              \/ /\ window' = window
                 /\ \A i \in Ids : changes'[i] \in {changes[i], NoChange}
  PROVE  Told(c)'
<1> SUFFICES ASSUME phase'[c] = "asleep"
             PROVE  /\ cached' /\ ~scanErr' /\ copy'[c].epoch = epoch'
                    /\ (\E i \in Ids : changes'[i].revision > copy'[c].revision)
                         => window' # "none"
  BY DEF Told
<1>1. /\ cached /\ ~scanErr /\ copy[c].epoch = epoch
      /\ (\E i \in Ids : changes[i].revision > copy[c].revision) => window # "none"
      /\ copy[c].revision \in Nat
  BY DEF SleepersAreTold, TypeOK, View
<1>2. ASSUME NEW i \in Ids, changes'[i].revision > copy'[c].revision PROVE window' # "none"
  <2>1. CASE window' # "none"
    BY <2>1
  <2>2. CASE window' = window /\ changes'[i] \in {changes[i], NoChange}
    <3>1. changes'[i] = changes[i]
      BY <1>1, <1>2, <2>2, Records
    <3> QED BY <1>1, <1>2, <2>2, <3>1
  <2> QED BY <2>1, <2>2
<1>3. ~scanErr'
  <2>1. CASE scanErr' = scanErr
    BY <1>1, <2>1, Zenon
  <2>2. CASE scanErr' = FALSE
    BY <2>2, Zenon
  <2> QED BY <2>1, <2>2
<1>4. cached' /\ copy'[c].epoch = epoch'
  BY <1>1
<1> QED BY <1>2, <1>3, <1>4

LEMMA PruneOnlyForgets ==
  ASSUME TypeOK, ChangesKnown, Prune(changes, minSince)
  PROVE  \A i \in Ids : changes'[i] \in {changes[i], NoChange}
<1>1. /\ changes \in [Ids -> Change] /\ minSince \in Nat /\ revision \in Nat
      /\ minSince <= revision /\ \A i \in Ids : changes[i].revision <= revision
  BY LimitAssumption DEF TypeOK, ChangesKnown
<1> QED BY <1>1, PruneSound

LEMMA RecordTells ==
  ASSUME TypeOK, NEW i, NEW e, Record(i, e), NEW c \in Clients, phase'[c] = "asleep"
  PROVE  /\ phase[c] = "asleep" /\ UNCHANGED <<cached, epoch>>
         /\ \/ window' # "none"
            \/ window' = window /\ \A j \in Ids : changes'[j] \in {changes[j], NoChange}
<1>1. CASE RecordsNewEpoch
  BY <1>1 DEF RecordsNewEpoch, Wake
<1>2. CASE RecordsNothing
  BY <1>2 DEF RecordsNothing, Record, NoChanges
<1>3. CASE RecordsChange(i, e)
  <2>1. phase[c] = "asleep" /\ UNCHANGED <<cached, epoch>> /\ window' = WindowOpens
    BY <1>3 DEF RecordsChange, Record
  <2>2. c \in Waiters
    BY <2>1 DEF Waiters, Waiting
  <2> QED BY <2>1, <2>2 DEF WindowOpens
<1> QED BY <1>1, <1>2, <1>3 DEF Record

LEMMA NextSleepers ==
  ASSUME TypeOK, ChangesKnown, RolesSound, SleepersAreTold, [Next]_vars
  PROVE  SleepersAreTold'
<1> SUFFICES ASSUME NEW c \in Clients PROVE Told(c)'
  BY DEF SleepersAreTold, Told
<1>0. /\ phase \in [Clients -> Waiting \cup {"idle", "building", "pages"}]
      /\ copy \in [Clients -> View] /\ scanErr \in BOOLEAN /\ cached \in BOOLEAN
      /\ phase[c] = "asleep" => cached
  BY DEF TypeOK, RolesSound, Waiting
<1>1. ASSUME ~(phase'[c] = "asleep") PROVE Told(c)'
  BY <1>1 DEF Told
<1>2. ASSUME UNCHANGED <<cached, epoch, changes, window, copy>>, scanErr' \in {scanErr, FALSE},
             phase'[c] = "asleep" => phase[c] = "asleep"
      PROVE  Told(c)'
  BY <1>2, SleepsOn
<1>3. ASSUME Prune(changes, minSince), UNCHANGED <<cached, epoch, window>>,
             scanErr' \in {scanErr, FALSE},
             phase'[c] = "asleep" => phase[c] = "asleep" /\ copy'[c] = copy[c]
      PROVE  Told(c)'
  BY <1>3, SleepsOn, PruneOnlyForgets
<1>4. CASE WriteStep
  <2>1. ASSUME NEW i \in Ids, NEW e \in Projections \cup {Absent}, OwnWrite(i, e) PROVE Told(c)'
    <3>1. CASE cached /\ entries[i] # e
      <4>1. Record(i, e) /\ UNCHANGED <<scanErr, copy>>
        BY <2>1, <3>1 DEF OwnWrite
      <4> QED BY <4>1, RecordTells, SleepsOn
    <3>2. CASE ~(cached /\ entries[i] # e)
      <4>1. UNCHANGED <<cached, epoch, changes, window, copy, scanErr, phase>>
        BY <2>1, <3>2 DEF OwnWrite, cursorVars, timeVars
      <4> QED BY <1>2, <4>1
    <3> QED BY <3>1, <3>2
  <2>2. ASSUME NEW i \in Ids, NEW e \in Projections \cup {Absent}, UnseenWrite(i, e) PROVE Told(c)'
    <3>1. phase'[c] # "asleep"
      BY <2>2 DEF UnseenWrite, Wake
    <3> QED BY <1>1, <3>1
  <2>3. ASSUME NEW i \in Ids, NEW e \in Projections \cup {Absent}, ForeignWrite(i, e) PROVE Told(c)'
    <3>1. UNCHANGED <<cached, epoch, changes, window, copy, scanErr, phase>>
      BY <2>3 DEF ForeignWrite, cursorVars, timeVars, cacheVars, clientVars
    <3> QED BY <1>2, <3>1
  <2>4. ASSUME NEW i \in Ids, SyncRecords(i) PROVE Told(c)'
    <3>1. Record(i, files[i]) /\ UNCHANGED <<scanErr, copy>>
      BY <2>4 DEF SyncRecords
    <3> QED BY <3>1, RecordTells, SleepsOn
  <2> QED BY <1>4, <2>1, <2>2, <2>3, <2>4 DEF WriteStep
<1>5. CASE SyncStep
  <2>1. ASSUME NEW by, NEW d, BeginSync(by, d) PROVE Told(c)'
    <3>1. /\ UNCHANGED <<changes, window, copy, scanErr, phase>>
          /\ cached => UNCHANGED <<cached, epoch>>
      BY <2>1 DEF BeginSync, Ensure, timeVars, clientVars
    <3>2. CASE phase[c] = "asleep"
      BY <1>0, <1>2, <3>1, <3>2
    <3>3. CASE phase[c] # "asleep"
      BY <1>1, <3>1, <3>3
    <3> QED BY <3>2, <3>3
  <2>2. Build \/ Scan \/ ListPage => Told(c)'
    BY <2>1 DEF Build, Scan, ListPage
  <2>3. ASSUME NEW d \in Clients, ReadScans(d) \/ PollRescans(d) PROVE Told(c)'
    BY <2>1, <2>3 DEF ReadScans, PollRescans
  <2>4. ASSUME NEW by, SyncDone(by) PROVE UNCHANGED <<cached, epoch>> /\ scanErr' = FALSE
    BY <2>4 DEF SyncDone
  <2>5. CASE SyncEnds
    <3>1. UNCHANGED <<changes, window, copy, phase>>
      BY <2>5 DEF SyncEnds, timeVars, clientVars
    <3>2. UNCHANGED <<cached, epoch>> /\ scanErr' = FALSE
      BY <2>4, <2>5 DEF SyncEnds
    <3> QED BY <1>2, <3>1, <3>2
  <2>6. CASE BuildTakes
    <3>1. Prune(changes, minSince) /\ UNCHANGED <<window, copy, phase>>
      BY <2>6 DEF BuildTakes, clientVars
    <3>2. UNCHANGED <<cached, epoch>> /\ scanErr' = FALSE
      BY <2>4, <2>6 DEF BuildTakes
    <3> QED BY <1>3, <3>1, <3>2
  <2>7. CASE ReadScanned
    <3>1. /\ Prune(changes, minSince) /\ UNCHANGED window
          /\ phase' = [phase EXCEPT ![holder.who] = "idle"]
          /\ \E v : copy' = [copy EXCEPT ![holder.who] = v]
      BY <2>7 DEF ReadScanned, Reads, timeVars
    <3>2. UNCHANGED <<cached, epoch>> /\ scanErr' = FALSE
      BY <2>4, <2>7 DEF ReadScanned
    <3>3. phase'[c] = "asleep" => phase[c] = "asleep" /\ copy'[c] = copy[c]
      BY <1>0, <3>1
    <3> QED BY <1>3, <3>1, <3>2, <3>3
  <2>8. CASE RescanDone
    <3>1. /\ UNCHANGED <<changes, window, copy>>
          /\ \/ UNCHANGED phase
             \/ \E p \in {"look", "late"} : phase' = [phase EXCEPT ![holder.who] = p]
      BY <2>8 DEF RescanDone, Joined
    <3>2. UNCHANGED <<cached, epoch>> /\ scanErr' = FALSE
      BY <2>4, <2>8 DEF RescanDone
    <3>3. phase'[c] = "asleep" => phase[c] = "asleep"
      BY <1>0, <3>1
    <3> QED BY <1>2, <3>1, <3>2, <3>3
  <2> QED BY <1>5, <2>2, <2>3, <2>5, <2>6, <2>7, <2>8 DEF SyncStep
<1>6. CASE LookStep
  <2>1. PICK d \in Clients : \/ LookFails(d) \/ LookResets(d) \/ LookSleeps(d) \/ LookEmpty(d)
                             \/ LookDelivers(d) \/ AnswerLost(d)
    BY <1>6 DEF LookStep
  <2>2. UNCHANGED <<cached, epoch, window, scanErr, revision>>
    BY <2>1 DEF LookFails, LookResets, LookSleeps, LookEmpty, LookDelivers, AnswerLost,
      LookAnswers, LookUnchanged, cacheVars, timeVars
  <2>3. CASE LookFails(d)
    <3>1. /\ UNCHANGED <<changes, copy>> /\ phase' = [phase EXCEPT ![d] = "done"]
      BY <2>3 DEF LookFails, Returns
    <3>2. phase'[c] = "asleep" => phase[c] = "asleep"
      BY <1>0, <3>1
    <3> QED BY <1>2, <2>2, <3>1, <3>2
  <2>4. CASE LookResets(d) \/ LookEmpty(d) \/ LookDelivers(d) \/ AnswerLost(d)
    <3>1. /\ Prune(changes, minSince) /\ phase' = [phase EXCEPT ![d] = "done"]
          /\ UNCHANGED copy \/ \E v : copy' = [copy EXCEPT ![d] = v]
      BY <2>4 DEF LookResets, LookEmpty, LookDelivers, Delivered, AnswerLost, LookAnswers, Returns
    <3>2. phase'[c] = "asleep" => phase[c] = "asleep" /\ copy'[c] = copy[c]
      BY <1>0, <3>1
    <3> QED BY <1>3, <2>2, <3>1, <3>2
  <2>5. CASE LookSleeps(d) /\ c # d
    <3>1. /\ Prune(changes, minSince) /\ phase' = [phase EXCEPT ![d] = "asleep"]
          /\ UNCHANGED copy
      BY <2>5 DEF LookSleeps
    <3>2. phase'[c] = "asleep" => phase[c] = "asleep"
      BY <1>0, <2>5, <3>1
    <3> QED BY <1>3, <2>2, <3>1, <3>2
  <2>6. CASE LookSleeps(d) /\ c = d
    <3>1. /\ ~scanErr /\ phase[c] \in Waiting /\ ~Reset(copy[c]) /\ copy' = copy
          /\ Candidates(copy[c]) = {} \/ window = "open"
      BY <2>6 DEF LookSleeps, Looks, Waiting
    <3>2. cached /\ copy[c].epoch = epoch
      BY <3>1 DEF RolesSound, Reset, Resumable
    <3>3. (\E i \in Ids : changes'[i].revision > copy[c].revision) => window # "none"
      BY <3>1 DEF Candidates
    <3> QED BY <2>2, <3>1, <3>2, <3>3 DEF Told
  <2> QED BY <2>1, <2>3, <2>4, <2>5, <2>6
<1>7. CASE ClientStep
  <2>1. PICK d \in Clients : \/ Reserve(d) \/ ReadGone(d) \/ ReadPages(d) \/ Poll(d) \/ Release(d)
                             \/ Forget(d) \/ DeadlinePasses(d)
    BY <1>7 DEF ClientStep
  <2>2. CASE Reserve(d) \/ ReadGone(d) \/ Release(d) \/ DeadlinePasses(d)
    <3>1. /\ UNCHANGED <<cached, epoch, changes, window, scanErr, copy>>
          /\ \E p \in {"building", "idle", "late"} : phase' = [phase EXCEPT ![d] = p]
      BY <2>2 DEF Reserve, ReadGone, Release, DeadlinePasses, cacheVars, cursorVars, timeVars
    <3>2. phase'[c] = "asleep" => phase[c] = "asleep"
      BY <1>0, <3>1
    <3> QED BY <1>2, <3>1, <3>2
  <2>3. CASE ReadPages(d)
    <3>1. /\ Prune(changes, minSince) /\ phase' = [phase EXCEPT ![d] = "idle"]
          /\ \E v : copy' = [copy EXCEPT ![d] = v]
          /\ UNCHANGED <<cached, epoch, window, scanErr>>
      BY <2>3 DEF ReadPages, Reads, cacheVars, timeVars
    <3>2. phase'[c] = "asleep" => phase[c] = "asleep" /\ copy'[c] = copy[c]
      BY <1>0, <3>1
    <3> QED BY <1>3, <3>1, <3>2
  <2>4. CASE Poll(d)
    <3>1. /\ UNCHANGED <<changes, window, scanErr, copy>>
          /\ cached => UNCHANGED <<cached, epoch>>
          /\ \/ UNCHANGED phase
             \/ \E p \in {"look", "late"} : phase' = [phase EXCEPT ![d] = p]
      BY <2>4 DEF Poll, Ensure, Joined
    <3>2. phase'[c] = "asleep" => phase[c] = "asleep"
      BY <1>0, <3>1
    <3>3. CASE phase[c] = "asleep"
      BY <1>0, <1>2, <3>1, <3>2, <3>3
    <3>4. CASE phase[c] # "asleep"
      BY <1>1, <3>2, <3>4
    <3> QED BY <3>3, <3>4
  <2>5. CASE Forget(d)
    <3>1. /\ UNCHANGED <<cached, epoch, changes, window, scanErr>>
          /\ phase' = [phase EXCEPT ![d] = "idle"] /\ copy' = [copy EXCEPT ![d] = NoView]
      BY <2>5 DEF Forget, cacheVars, cursorVars, timeVars
    <3>2. phase'[c] = "asleep" => phase[c] = "asleep" /\ copy'[c] = copy[c]
      BY <1>0, <3>1
    <3> QED BY <3>1, <3>2, SleepsOn
  <2> QED BY <2>1, <2>2, <2>3, <2>4, <2>5
<1>8. CASE TimeStep
  <2>1. CASE ScanFails \/ Publish
    <3>1. phase'[c] # "asleep"
      BY <2>1 DEF ScanFails, Publish, Wake
    <3> QED BY <1>1, <3>1
  <2>2. CASE ScannerStops \/ LeasePasses \/ JournalPasses
    <3>1. UNCHANGED <<cached, epoch, changes, window, copy, scanErr, phase>>
      BY <2>2 DEF ScannerStops, LeasePasses, JournalPasses, cacheVars, cursorVars, clientVars
    <3> QED BY <1>2, <3>1
  <2>3. CASE WindowPasses
    <3>1. UNCHANGED <<cached, epoch, copy, scanErr, phase>> /\ window' # "none"
      BY <2>3 DEF WindowPasses, cacheVars, cursorVars, clientVars
    <3> QED BY <3>1, SleepsOn
  <2>4. CASE ExpireJournal
    <3>1. UNCHANGED <<cached, epoch, copy, scanErr, phase, window>> /\ changes' = NoChanges
      BY <2>4 DEF ExpireJournal, cacheVars, clientVars
    <3>2. \A i \in Ids : changes'[i] \in {changes[i], NoChange}
      BY <3>1 DEF NoChanges
    <3> QED BY <3>1, <3>2, SleepsOn
  <2> QED BY <1>8, <2>1, <2>2, <2>3, <2>4 DEF TimeStep
<1>9. CASE ServerStep
  <2>1. CASE Close
    <3>1. phase'[c] # "asleep"
      BY <2>1 DEF Close, Waiting
    <3> QED BY <1>1, <3>1
  <2>2. CASE ServerStep /\ ~Close
    <3>1. /\ UNCHANGED <<cached, epoch, changes, window, copy, scanErr>>
          /\ \/ UNCHANGED phase
             \/ \E p \in {"idle", "pages"} : phase' = [phase EXCEPT ![builder] = p]
      BY <2>2 DEF ServerStep, Start, BuildFails, Keep, SnapshotExpires, cacheVars, cursorVars,
        timeVars, clientVars
    <3>2. phase'[c] = "asleep" => phase[c] = "asleep"
      BY <1>0, <3>1
    <3> QED BY <1>2, <3>1, <3>2
  <2> QED BY <1>9, <2>1, <2>2
<1>10. CASE UNCHANGED vars
  <2>1. UNCHANGED <<cached, epoch, changes, window, copy, scanErr, phase>>
    BY <1>10 DEF vars, cacheVars, cursorVars, timeVars, clientVars
  <2> QED BY <1>2, <2>1
<1> QED BY <1>4, <1>5, <1>6, <1>7, <1>8, <1>9, <1>10, NextSteps

-----------------------------------------------------------------------------
(* Theorems. *)

LEMMA InitInv == Init => IInv
<1> SUFFICES ASSUME Init PROVE IInv
  OBVIOUS
<1>1. FlagsOK /\ HolderOK /\ ClientsOK
  BY DEF Init, FlagsOK, HolderOK, ClientsOK, NoHolder, Waiting
<1>2. /\ cached \in BOOLEAN /\ entries \in Listing /\ epoch \in Nat
      /\ revision \in 0 .. MaxRevision /\ minSince \in Nat /\ changes \in [Ids -> Change]
  <2>1. 0 \in 0 .. MaxRevision
    BY LimitAssumption
  <2> QED BY <2>1, Records DEF Init
<1>3. draft \in View /\ retained \in [Snaps -> View] /\ copy \in [Clients -> View]
  BY Records DEF Init
<1>4. ChangesKnown
  BY Records DEF Init, ChangesKnown
<1>5. RolesSound /\ SleepersAreTold
  BY DEF Init, RolesSound, SleepersAreTold, NoHolder, Free, Waiting
<1>6. Views = {NoView}
  BY DEF Init, Views
<1>7. ViewSound(NoView)
  BY <1>2, <1>4, NoViewSound
<1> QED BY <1>1, <1>2, <1>3, <1>4, <1>5, <1>6, <1>7
    DEF IInv, TypeOK, FlagsOK, HolderOK, ClientsOK

LEMMA NextInv == IInv /\ [Next]_vars => IInv'
<1> SUFFICES ASSUME IInv, [Next]_vars PROVE IInv'
  OBVIOUS
<1>1. TypeOK' /\ RolesSound' /\ SleepersAreTold'
  BY NextType, NextRoles, NextSleepers DEF IInv
<1>2. ChangesKnown'
  BY NextMoves, MoveType DEF IInv
<1>3. (\A v \in Views : ViewSound(v))'
  BY NextKeepsViews DEF IInv
<1> QED BY <1>1, <1>2, <1>3 DEF IInv

(* The inductive invariant: no view is ahead of the store, and what the store *)
(* still has turns every view it accepts into the present list.              *)
THEOREM InvariantHolds == Spec => []IInv
BY InitInv, NextInv, PTL DEF Spec

(* Every variable keeps a value of its kind; a revision never passes the      *)
(* largest.                                                                   *)
THEOREM TypeCorrect == Spec => []TypeOK
<1>1. IInv => TypeOK
  BY DEF IInv
<1> QED BY <1>1, InvariantHolds, PTL

(* Whoever goes on from a snapshot or a cursor that the store accepts misses  *)
(* no change (syncSummariesLocked, SummaryChanges, createSessionSnapshot).    *)
THEOREM ViewsMissNothing == Spec => []NothingMissed
<1>1. IInv => NothingMissed
  BY DEF IInv, NothingMissed, ViewSound, Accepted
<1> QED BY <1>1, InvariantHolds, PTL

(* No long poll sleeps through a change, an error or a new epoch              *)
(* (recordSummaryChangeLocked, publishSummaryWindow).                         *)
THEOREM SleepersGetTold == Spec => []SleepersAreTold
<1>1. IInv => SleepersAreTold
  BY DEF IInv
<1> QED BY <1>1, InvariantHolds, PTL
=============================================================================
