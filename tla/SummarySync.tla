---------------------------- MODULE SummarySync ----------------------------
(***************************************************************************)
(* How clients keep a copy of the session list: the summaries cached by    *)
(* the store with a journal of their changes (session/summary.go), the     *)
(* snapshots and long polls a backend serves from them (session_sync.go),  *)
(* and the client's side of the contract (docs/liveagent-backend.md).      *)
(*                                                                         *)
(* A step is a critical section of Store.withLock, of Store.mu or of       *)
(* Server.snapshotMu, a timer, or the passing of time.  A scan of the      *)
(* files records its differences one by one; it holds the lock meanwhile.  *)
(* A file is told apart by its size and time, which every change moves.    *)
(***************************************************************************)
EXTENDS Integers, FiniteSets

CONSTANTS
  Ids,           (* sessions                                               *)
  Projections,   (* what a summary shows of a session's file               *)
  Listed,        (* those summaryListed accepts                            *)
  Absent,        (* no file, or not listed                                 *)
  Clients,
  Snaps,         (* snapshot ids                                           *)
  None,
  MaxRevision,   (* math.MaxUint64                                         *)
  MaxChanges,    (* maxSummaryChanges, of one answer                       *)
  MaxWaiters,    (* maxSummaryWaiters                                      *)
  MaxTombstones, (* maxSummaryTombstones                                   *)
  MaxSnapshots,  (* maxSessionSnapshots                                    *)
  MaxEpoch       (* bound: epochs drawn                                    *)

ASSUME ProjectionAssumption == Listed \subseteq Projections /\ Absent \notin Projections
ASSUME NoneAssumption == None \notin Clients \cup Snaps
ASSUME FiniteAssumption == IsFiniteSet(Snaps) /\ IsFiniteSet(Ids)
ASSUME LimitAssumption ==
  /\ MaxRevision \in Nat \ {0} /\ MaxChanges \in Nat \ {0} /\ MaxWaiters \in Nat
  /\ MaxTombstones \in Nat /\ MaxSnapshots \in Nat /\ MaxEpoch \in Nat

VARIABLES
  files,     (* the session files on disk                                  *)
  up,        (* the backend runs                                           *)
  (* summaryState. *)
  cached,    (* Store.summaries # nil                                      *)
  epoch, revision, minSince, entries, changes,
  window,    (* nextPublish: none, open, or passed and not yet published   *)
  journal,   (* journalUntil: none, open, or passed with its timer due     *)
  dirty, scanErr,
  scanner,   (* scannerStop # nil                                          *)
  lease,     (* leaseUntil has not passed                                  *)
  holder,    (* the scan that holds the store's lock                       *)
  (* Server. *)
  builder,   (* the client whose snapshot is built, or None                *)
  draft,     (* what its builder took from the store                       *)
  retained,  (* Server.snapshots                                           *)
  (* Clients. *)
  phase,
  snap,      (* the snapshot a client reads                                *)
  copy       (* its copy of the list, with the cursor it goes on from      *)

cacheVars   == <<cached, entries, dirty, scanErr>>
cursorVars  == <<epoch, revision, minSince, changes>>
timeVars    == <<window, journal, scanner, lease>>
serverVars  == <<builder, draft, retained>>
clientVars  == <<phase, snap, copy>>
vars == <<files, up, cacheVars, cursorVars, timeVars, holder, serverVars, clientVars>>

-----------------------------------------------------------------------------
Listing == [Ids -> Projections \cup {Absent}]
Empty == [i \in Ids |-> Absent]
Shown(e) == IF e \in Listed THEN e ELSE Absent

(* A change is an upsert, or with Absent a delete; revision 0 is none. *)
Change == [revision : Nat, entry : Projections \cup {Absent}]
NoChange == [revision |-> 0, entry |-> Absent]
NoChanges == [i \in Ids |-> NoChange]

(* A view of the list, complete up to a revision of an epoch. *)
View == [epoch : Nat, revision : Nat, items : Listing]
NoView == [epoch |-> 0, revision |-> 0, items |-> Empty]

NoHolder == [by |-> "none", who |-> None, todo |-> {}]
Free == holder.by = "none"

Waiting == {"look", "asleep", "late", "done"}
Waiters == {c \in Clients : phase[c] \in Waiting}
Kept == {s \in Snaps : retained[s] # NoView}
Builders == IF builder = None THEN 0 ELSE 1

Init ==
  /\ files \in Listing /\ up = TRUE
  /\ cached = FALSE /\ entries = Empty /\ dirty = FALSE /\ scanErr = FALSE
  /\ epoch = 0 /\ revision = 0 /\ minSince = 0 /\ changes = NoChanges
  /\ window = "none" /\ journal = "none" /\ scanner = FALSE /\ lease = FALSE
  /\ holder = NoHolder
  /\ builder = None /\ draft = NoView /\ retained = [s \in Snaps |-> NoView]
  /\ phase = [c \in Clients |-> "idle"] /\ snap = [c \in Clients |-> None]
  /\ copy = [c \in Clients |-> NoView]

(* notify is closed: every sleeper looks again. *)
Wake == phase' = [c \in Clients |-> IF phase[c] = "asleep" THEN "look" ELSE phase[c]]

-----------------------------------------------------------------------------
(* The journal of changes. *)

(* pruneSummaryChangesLocked on ch and since.  The oldest deletions go when  *)
(* they are too many, or too old, which any of them may have become.         *)
Tombstones(ch) == {i \in Ids : ch[i].revision > 0 /\ ch[i].entry = Absent}
PruneForgets(ch, since) ==
  \E cut \in {0} \cup {ch[i].revision : i \in Tombstones(ch)} :
    LET old == {i \in Tombstones(ch) : ch[i].revision <= cut} IN
    /\ Cardinality(Tombstones(ch) \ old) <= MaxTombstones
    /\ changes' = [i \in Ids |-> IF i \in old THEN NoChange ELSE ch[i]]
    /\ minSince' = since
Prune(ch, since) ==
  \E cut \in {0} \cup {ch[i].revision : i \in Tombstones(ch)} :
    LET old == {i \in Tombstones(ch) : ch[i].revision <= cut} IN
    /\ Cardinality(Tombstones(ch) \ old) <= MaxTombstones
    /\ changes' = [i \in Ids |-> IF i \in old THEN NoChange ELSE ch[i]]
    /\ minSince' = IF cut > since THEN cut ELSE since

(* recordSummaryChangeLocked for a session whose summary is e from now on:   *)
(* after the last revision a new epoch begins; nothing is kept unless the    *)
(* journal is open; and those who wait are told when the window is over.     *)
WindowOpens == IF scanner \/ Waiters # {} THEN "open" ELSE window

RevisionGoesOn ==
  /\ revision = MaxRevision
  /\ revision' = revision + 1 /\ minSince' = minSince /\ changes' = changes
  /\ UNCHANGED <<epoch, window, journal, phase>>
RecordsNewEpoch ==
  /\ revision = MaxRevision
  /\ epoch' = epoch + 1 /\ revision' = 1 /\ minSince' = 1 /\ changes' = NoChanges
  /\ window' = "none" /\ journal' = "none" /\ Wake

RecordsNothing ==
  /\ revision < MaxRevision /\ journal # "open"
  /\ revision' = revision + 1 /\ minSince' = revision + 1 /\ changes' = NoChanges
  /\ UNCHANGED <<epoch, window, journal, phase>>

RecordsChange(i, e) ==
  /\ revision < MaxRevision /\ journal = "open"
  /\ revision' = revision + 1
  /\ Prune([changes EXCEPT ![i] = [revision |-> revision + 1, entry |-> e]], minSince)
  /\ window' = WindowOpens
  /\ UNCHANGED <<epoch, journal, phase>>

Record(i, e) ==
  /\ RecordsNewEpoch \/ RecordsNothing \/ RecordsChange(i, e)
  /\ entries' = [entries EXCEPT ![i] = e]
  /\ UNCHANGED <<cached, scanner, lease>>

-----------------------------------------------------------------------------
(* Writers. *)

Unrecorded == {i \in Ids : files[i] # entries[i]}
Bounded == epoch < MaxEpoch \/ revision + Cardinality(Unrecorded) < MaxRevision

(* A write or deletion by this backend, whose summary follows at once,       *)
OwnWrite(i, e) ==
  /\ up /\ Free /\ Bounded /\ files[i] # e
  /\ files' = [files EXCEPT ![i] = e]
  /\ IF cached /\ entries[i] # e THEN Record(i, e)
     ELSE UNCHANGED <<cursorVars, timeVars, cached, entries, phase>>
  /\ UNCHANGED <<up, dirty, scanErr, holder, serverVars, snap, copy>>

(* ... unless the written file cannot be examined;                           *)
UnseenWrite(i, e) ==
  /\ up /\ Free /\ Bounded /\ files[i] # e /\ e # Absent /\ cached
  /\ files' = [files EXCEPT ![i] = e]
  /\ dirty' = TRUE /\ scanErr' = TRUE /\ Wake
  /\ UNCHANGED <<up, cached, entries, cursorVars, timeVars, holder, serverVars,
                 snap, copy>>

(* and one by another process, which only a scan finds.                      *)
ForeignWrite(i, e) ==
  /\ Free /\ Bounded /\ files[i] # e
  /\ files' = [files EXCEPT ![i] = e]
  /\ UNCHANGED <<up, cacheVars, cursorVars, timeVars, holder, serverVars, clientVars>>

-----------------------------------------------------------------------------
(* Scans: syncSummariesLocked, and what its caller does under the same lock. *)

(* ensureSummariesLocked. *)
Ensure ==
  IF cached THEN UNCHANGED <<cached, epoch, entries>>
  ELSE cached' = TRUE /\ epoch' = epoch + 1 /\ entries' = files

BeginSync(by, c) ==
  /\ up /\ Free /\ Ensure
  /\ holder' = [by |-> by, who |-> c, todo |-> IF cached THEN Unrecorded ELSE {}]
  /\ UNCHANGED <<files, up, dirty, scanErr, revision, minSince, changes, timeVars,
                 serverVars, clientVars>>

SyncRecords(i) ==
  /\ i \in holder.todo
  /\ Record(i, files[i])
  /\ holder' = [holder EXCEPT !.todo = @ \ {i}]
  /\ UNCHANGED <<files, up, dirty, scanErr, serverVars, snap, copy>>

SyncDone(by) ==
  /\ holder.by = by /\ holder.todo = {}
  /\ holder' = NoHolder /\ dirty' = FALSE /\ scanErr' = FALSE
  /\ UNCHANGED <<files, up, cached, entries, epoch, revision>>

(* summaryScanner. *)
Scan == scanner /\ (Waiters # {} \/ lease) /\ BeginSync("scan", None)

ScanFails ==
  /\ up /\ Free /\ scanner /\ (Waiters # {} \/ lease)
  /\ scanErr' = TRUE /\ Wake
  /\ UNCHANGED <<files, up, cached, entries, dirty, cursorVars, timeVars, holder,
                 serverVars, snap, copy>>

ScannerStops ==
  /\ up /\ Free /\ scanner /\ Waiters = {} /\ ~lease
  /\ scanner' = FALSE
  /\ UNCHANGED <<files, up, cacheVars, cursorVars, window, journal, lease, holder,
                 serverVars, clientVars>>

(* A page of the session list synchronises too. *)
ListPage == BeginSync("list", None)

SyncEnds ==
  /\ SyncDone("scan") \/ SyncDone("list")
  /\ UNCHANGED <<minSince, changes, timeVars, serverVars, clientVars>>

-----------------------------------------------------------------------------
(* Snapshots. *)

(* createSessionSnapshot: a place is reserved, ...                           *)
Reserve(c) ==
  /\ up /\ phase[c] = "idle" /\ copy[c] = NoView
  /\ builder = None /\ Cardinality(Kept) + Builders < MaxSnapshots
  /\ builder' = c /\ phase' = [phase EXCEPT ![c] = "building"]
  /\ UNCHANGED <<files, up, cacheVars, cursorVars, timeVars, holder, draft, retained,
                 snap, copy>>

(* ... the list is taken, and the journal kept open for its readers,         *)
Build ==
  /\ builder # None /\ draft = NoView
  /\ BeginSync("build", None)

BuildTakes ==
  /\ SyncDone("build")
  /\ Prune(changes, minSince)
  /\ journal' = "open"
  /\ draft' = [epoch |-> epoch, revision |-> revision,
               items |-> [i \in Ids |-> Shown(entries[i])]]
  /\ UNCHANGED <<window, scanner, lease, builder, retained, clientVars>>

(* and it is kept for them, unless the backend closes or its client left.    *)
Keep(s) ==
  /\ up /\ draft # NoView /\ retained[s] = NoView /\ \A c \in Clients : snap[c] # s
  /\ Cardinality(Kept) < MaxSnapshots
  /\ retained' = [retained EXCEPT ![s] = draft]
  /\ builder' = None /\ draft' = NoView
  /\ phase' = [phase EXCEPT ![builder] = "pages"] /\ snap' = [snap EXCEPT ![builder] = s]
  /\ UNCHANGED <<files, up, cacheVars, cursorVars, timeVars, holder, copy>>

BuildFails ==
  /\ builder # None /\ holder.by # "build"
  /\ builder' = None /\ draft' = NoView
  /\ phase' = [phase EXCEPT ![builder] = "idle"]
  /\ UNCHANGED <<files, up, cacheVars, cursorVars, timeVars, holder, retained, snap, copy>>

(* A reader that has looked a snapshot up keeps it while it scans. *)
SnapshotExpires(s) ==
  /\ up /\ retained[s] # NoView
  /\ holder.by = "page" => snap[holder.who] # s
  /\ retained' = [retained EXCEPT ![s] = NoView]
  /\ UNCHANGED <<files, up, cacheVars, cursorVars, timeVars, holder, builder, draft,
                 clientVars>>

(* sessionSnapshot: the pages are served while the changes after them are.   *)
Resumable(v) == v.epoch = epoch /\ v.revision >= minSince'

Reads(c) ==
  /\ phase' = [phase EXCEPT ![c] = "idle"] /\ snap' = [snap EXCEPT ![c] = None]
  /\ copy' = [copy EXCEPT ![c] = IF Resumable(retained[snap[c]]) THEN retained[snap[c]]
                                 ELSE NoView]

ReadGone(c) ==
  /\ up /\ phase[c] = "pages" /\ retained[snap[c]] = NoView
  /\ phase' = [phase EXCEPT ![c] = "idle"] /\ snap' = [snap EXCEPT ![c] = None]
  /\ UNCHANGED <<files, up, cacheVars, cursorVars, timeVars, holder, serverVars, copy>>

ReadPages(c) ==
  /\ up /\ Free /\ phase[c] = "pages" /\ retained[snap[c]] # NoView /\ ~dirty
  /\ Prune(changes, minSince)
  /\ Reads(c)
  /\ UNCHANGED <<files, up, cacheVars, epoch, revision, timeVars, holder, serverVars>>

(* SummaryCursor scans first when a write went unseen. *)
ReadScans(c) ==
  /\ phase[c] = "pages" /\ retained[snap[c]] # NoView /\ dirty
  /\ BeginSync("page", c)

ReadScanned ==
  /\ SyncDone("page")
  /\ Prune(changes, minSince)
  /\ Reads(holder.who)
  /\ UNCHANGED <<timeVars, serverVars>>

-----------------------------------------------------------------------------
(* Long polls: SummaryChanges. *)

Joined(c) ==
  IF Cardinality(Waiters) < MaxWaiters
    THEN /\ \E p \in {"look", "late"} : phase' = [phase EXCEPT ![c] = p]
         /\ scanner' = TRUE /\ lease' = TRUE /\ journal' = "open"
    ELSE UNCHANGED <<phase, scanner, lease, journal>>

Poll(c) ==
  /\ up /\ Free /\ phase[c] = "idle" /\ copy[c] # NoView
  /\ Ensure
  /\ Joined(c)
  /\ UNCHANGED <<files, up, dirty, scanErr, revision, minSince, changes, window, holder,
                 serverVars, snap, copy>>

PollRescans(c) == phase[c] = "idle" /\ copy[c] # NoView /\ BeginSync("poll", c)

RescanDone ==
  /\ SyncDone("poll")
  /\ Joined(holder.who)
  /\ UNCHANGED <<minSince, changes, window, serverVars, snap, copy>>

DeadlinePasses(c) ==
  /\ phase[c] \in {"look", "asleep"}
  /\ phase' = [phase EXCEPT ![c] = "late"]
  /\ UNCHANGED <<files, up, cacheVars, cursorVars, timeVars, holder, serverVars, snap, copy>>

(* One turn of the loop, after the scan error has been looked at. *)
Looks(c) == up /\ Free /\ phase[c] \in {"look", "late"}
LookUnchanged == UNCHANGED <<files, up, cacheVars, epoch, revision, timeVars, holder,
                             serverVars, snap>>
Returns(c) == phase' = [phase EXCEPT ![c] = "done"]

LookFails(c) ==
  /\ Looks(c) /\ scanErr
  /\ Returns(c)
  /\ UNCHANGED <<minSince, changes, copy>> /\ LookUnchanged

Reset(v) == ~Resumable(v) \/ v.revision > revision
Candidates(v) == {i \in Ids : changes'[i].revision > v.revision}

(* The client that is reset starts with a new snapshot. *)
LookResets(c) ==
  /\ Looks(c) /\ ~scanErr
  /\ Prune(changes, minSince)
  /\ Reset(copy[c])
  /\ Returns(c)
  /\ copy' = [copy EXCEPT ![c] = NoView]
  /\ LookUnchanged

LookSleeps(c) ==
  /\ Looks(c) /\ ~scanErr /\ phase[c] = "look"
  /\ Prune(changes, minSince)
  /\ ~Reset(copy[c])
  /\ Candidates(copy[c]) = {} \/ window = "open"
  /\ phase' = [phase EXCEPT ![c] = "asleep"]
  /\ UNCHANGED copy /\ LookUnchanged

LookEmpty(c) ==
  /\ Looks(c) /\ ~scanErr /\ phase[c] = "late"
  /\ Prune(changes, minSince)
  /\ ~Reset(copy[c]) /\ Candidates(copy[c]) = {}
  /\ Returns(c)
  /\ UNCHANGED copy /\ LookUnchanged

(* The first changes in the order of their revisions.  The client goes on    *)
(* from the last one, or with what it had if the answer is lost.             *)
FirstCandidates(v) ==
  {i \in Candidates(v) :
     Cardinality({j \in Candidates(v) : changes'[j].revision < changes'[i].revision})
       < MaxChanges}
Last(i, S) == i \in S /\ \A j \in S : changes'[j].revision <= changes'[i].revision
Applied(v, S, n) ==
  [epoch |-> v.epoch, revision |-> n,
   items |-> [i \in Ids |-> IF i \in S THEN Shown(changes'[i].entry) ELSE v.items[i]]]
DeliveredAsHead(c) ==
  copy' = [copy EXCEPT ![c] = Applied(@, FirstCandidates(@), revision)]
Delivered(c) ==
  \E i \in Ids :
    /\ Last(i, FirstCandidates(copy[c]))
    /\ copy' = [copy EXCEPT ![c] =
         Applied(@, FirstCandidates(@), changes'[i].revision)]

LookAnswers(c) ==
  /\ Looks(c) /\ ~scanErr
  /\ Prune(changes, minSince)
  /\ ~Reset(copy[c]) /\ Candidates(copy[c]) # {}
  /\ phase[c] = "late" \/ window # "open"
  /\ Returns(c)
  /\ LookUnchanged
LookDelivers(c) == LookAnswers(c) /\ Delivered(c)
AnswerLost(c) == LookAnswers(c) /\ UNCHANGED copy

Release(c) ==
  /\ phase[c] = "done"
  /\ phase' = [phase EXCEPT ![c] = "idle"]
  /\ UNCHANGED <<files, up, cacheVars, cursorVars, timeVars, holder, serverVars, snap, copy>>

-----------------------------------------------------------------------------
(* Time.  Whoever waits leaves before the leases it took are over.           *)

WindowPasses ==
  /\ window = "open" /\ window' = "passed"
  /\ UNCHANGED <<files, up, cacheVars, cursorVars, journal, scanner, lease, holder,
                 serverVars, clientVars>>

(* publishSummaryWindow. *)
PublishSilently ==
  /\ up /\ Free /\ window = "passed"
  /\ window' = "none"
  /\ UNCHANGED <<files, up, cacheVars, cursorVars, journal, scanner, lease, holder,
                 serverVars, clientVars>>
Publish ==
  /\ up /\ Free /\ window = "passed"
  /\ window' = "none" /\ Wake
  /\ UNCHANGED <<files, up, cacheVars, cursorVars, journal, scanner, lease, holder,
                 serverVars, snap, copy>>

LeasePasses ==
  /\ lease /\ Waiters = {}
  /\ lease' = FALSE
  /\ UNCHANGED <<files, up, cacheVars, cursorVars, window, journal, scanner, holder,
                 serverVars, clientVars>>

JournalPasses ==
  /\ journal = "open" /\ ~lease
  /\ journal' = "passed"
  /\ UNCHANGED <<files, up, cacheVars, cursorVars, window, scanner, lease, holder,
                 serverVars, clientVars>>

(* expireSummaryJournal. *)
ExpireJournal ==
  /\ up /\ Free /\ journal = "passed"
  /\ journal' = "none" /\ changes' = NoChanges /\ minSince' = revision
  /\ UNCHANGED <<files, up, cacheVars, epoch, revision, window, scanner, lease, holder,
                 serverVars, clientVars>>

-----------------------------------------------------------------------------
(* The backend closes, and is started again with nothing cached. *)

Close ==
  /\ up /\ Free /\ epoch < MaxEpoch
  /\ up' = FALSE
  /\ retained' = [s \in Snaps |-> NoView]
  /\ cached' = FALSE /\ entries' = Empty /\ dirty' = FALSE /\ scanErr' = FALSE
  /\ revision' = 0 /\ minSince' = 0 /\ changes' = NoChanges
  /\ window' = "none" /\ journal' = "none" /\ scanner' = FALSE /\ lease' = FALSE
  /\ phase' = [c \in Clients |-> IF phase[c] \in Waiting THEN "idle" ELSE phase[c]]
  /\ UNCHANGED <<files, epoch, holder, builder, draft, snap, copy>>

Start ==
  /\ ~up /\ builder = None
  /\ up' = TRUE
  /\ UNCHANGED <<files, cacheVars, cursorVars, timeVars, holder, serverVars, clientVars>>

(* A client starts over, leaving its snapshot or deleting it. *)
Forget(c) ==
  /\ up /\ Free /\ phase[c] \in {"idle", "pages"}
  /\ phase' = [phase EXCEPT ![c] = "idle"] /\ snap' = [snap EXCEPT ![c] = None]
  /\ copy' = [copy EXCEPT ![c] = NoView]
  /\ \/ UNCHANGED retained
     \/ phase[c] = "pages" /\ retained' = [retained EXCEPT ![snap[c]] = NoView]
  /\ UNCHANGED <<files, up, cacheVars, cursorVars, timeVars, holder, builder, draft>>

-----------------------------------------------------------------------------
Writes ==
  \E i \in Ids, e \in Projections \cup {Absent} :
    OwnWrite(i, e) \/ UnseenWrite(i, e) \/ ForeignWrite(i, e)

(* A reader is slower than sessionSnapshotTTL. *)
Overtaken(c) == snap[c] # None /\ SnapshotExpires(snap[c])

Disturbance ==
  \/ Writes \/ Close \/ ScanFails \/ (up /\ BuildFails)
  \/ \E c \in Clients : Forget(c) \/ AnswerLost(c) \/ Overtaken(c)

Restart == Start \/ (~up /\ BuildFails)

Syncing == (\E i \in Ids : SyncRecords(i)) \/ SyncEnds \/ BuildTakes \/ ReadScanned \/ RescanDone

Building == Build \/ \E s \in Snaps : Keep(s)

Client(c) ==
  \/ Reserve(c) \/ ReadGone(c) \/ ReadPages(c) \/ ReadScans(c) \/ Poll(c) \/ PollRescans(c)
  \/ LookFails(c) \/ LookResets(c) \/ LookSleeps(c) \/ LookEmpty(c) \/ LookDelivers(c)
  \/ Release(c)

Next ==
  \/ Disturbance \/ Restart \/ Syncing \/ Building
  \/ Scan \/ ScannerStops \/ ListPage
  \/ WindowPasses \/ Publish \/ LeasePasses \/ JournalPasses \/ ExpireJournal
  \/ \E s \in Snaps : SnapshotExpires(s)
  \/ \E c \in Clients : Client(c) \/ DeadlinePasses(c)

Spec == Init /\ [][Next]_vars

(* Locks are fair, timers fire, and clients go on.  A long poll's deadline   *)
(* need not come.                                                            *)
FairSpec ==
  /\ Spec
  /\ WF_vars(Restart) /\ WF_vars(Syncing) /\ WF_vars(WindowPasses)
  /\ SF_vars(Building) /\ SF_vars(Scan) /\ SF_vars(Publish)
  /\ \A s \in Snaps : WF_vars(SnapshotExpires(s))
  /\ \A c \in Clients : SF_vars(Client(c))

-----------------------------------------------------------------------------
(* Properties. *)

TypeOK ==
  /\ files \in Listing /\ up \in BOOLEAN
  /\ cached \in BOOLEAN /\ entries \in Listing /\ dirty \in BOOLEAN /\ scanErr \in BOOLEAN
  /\ epoch \in Nat /\ revision \in 0..MaxRevision /\ minSince \in Nat
  /\ changes \in [Ids -> Change]
  /\ window \in {"none", "open", "passed"} /\ journal \in {"none", "open", "passed"}
  /\ scanner \in BOOLEAN /\ lease \in BOOLEAN
  /\ holder \in [by : {"none", "scan", "list", "build", "page", "poll"},
                 who : Clients \cup {None}, todo : SUBSET Ids]
  /\ builder \in Clients \cup {None} /\ draft \in View /\ retained \in [Snaps -> View]
  /\ phase \in [Clients -> Waiting \cup {"idle", "building", "pages"}]
  /\ snap \in [Clients -> Snaps \cup {None}] /\ copy \in [Clients -> View]

(* Whoever goes on from a view the store still accepts misses nothing: the   *)
(* changes kept after its revision turn it into the present list.            *)
Accepted(v) == cached /\ v.epoch = epoch /\ minSince <= v.revision
Complete(v) ==
  \A i \in Ids :
    Shown(entries[i]) = IF changes[i].revision > v.revision THEN Shown(changes[i].entry)
                        ELSE v.items[i]
Views == {draft} \cup {retained[s] : s \in Snaps} \cup {copy[c] : c \in Clients}
NothingMissed == \A v \in Views : Accepted(v) => Complete(v) /\ v.revision <= revision

(* Nobody sleeps through a change: while there is something to tell a        *)
(* sleeper, a publication that will wake it is due, and it is never left     *)
(* asleep over an error or a new epoch.                                      *)
SleepersAreTold ==
  \A c \in Clients : phase[c] = "asleep" =>
    /\ cached /\ ~scanErr /\ copy[c].epoch = epoch
    /\ (\E i \in Ids : changes[i].revision > copy[c].revision) => window # "none"

(* Once nothing is written or restarted, the copies of the clients that are  *)
(* not turned away settle to what is on disk, without any deadline.          *)
Converges ==
  []<><<Disturbance>>_vars
    \/ \A c \in Clients : <>[](copy[c].items = [i \in Ids |-> Shown(files[i])])

-----------------------------------------------------------------------------
(* The inductive invariant behind the safety properties. *)

(* What is kept of an epoch is not ahead of it, and misses nothing. *)
ViewSound(v) ==
  /\ v.epoch <= epoch
  /\ cached /\ v.epoch = epoch => v.revision <= revision
  /\ Accepted(v) => Complete(v)

(* The journal of changes ends with the present revision. *)
ChangesKnown ==
  /\ minSince <= revision /\ (cached => epoch > 0)
  /\ \A i \in Ids : changes[i].revision <= revision

(* Who waits, builds, reads or holds the lock has what it needs for it. *)
RolesSound ==
  /\ \A c \in Clients :
       /\ phase[c] \in Waiting => cached
       /\ phase[c] = "pages" => snap[c] \in Snaps
  /\ builder # None => phase[builder] = "building"
  /\ ~Free => cached
  /\ holder.by \in {"page", "poll"} => holder.who \in Clients
  /\ holder.by = "page" => phase[holder.who] = "pages" /\ retained[snap[holder.who]] # NoView
  /\ holder.by = "poll" => phase[holder.who] = "idle" /\ copy[holder.who] # NoView

IInv ==
  /\ TypeOK /\ ChangesKnown /\ RolesSound /\ SleepersAreTold
  /\ \A v \in Views : ViewSound(v)
=============================================================================
