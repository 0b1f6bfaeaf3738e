--------------------------- MODULE RuntimeRegistry ---------------------------
(***************************************************************************)
(* The registry of live sessions, seen from one session: how handlers      *)
(* load, lease, use and release its runtimeSession while the idle reaper,  *)
(* deletion and Server.Close take it away.                                 *)
(*                                                                         *)
(* Source: internal/backend/server.go (loadRuntimeByID, loadRuntime,       *)
(* historyRuntime, rebuildAgentLocked, Close), runtime_cache.go,           *)
(* history.go (deleteSession, updateSession, sessionsExist).               *)
(*                                                                         *)
(* A step is one critical section of s.mu or of rt.mu, or the work a       *)
(* handler does between two of them.  The three places that keep a lock    *)
(* across several steps (a model switch keeps rt.mu and takes s.mu, the    *)
(* existence probe keeps s.mu and takes rt.mu, a cold read keeps s.mu      *)
(* over its file reads) have the lock's owner in mu and rtmu.              *)
(***************************************************************************)
EXTENDS Integers, Sequences, FiniteSets, SequencesExt

CONSTANTS
  Handlers,      (* requests in flight, and the runs they start              *)
  Instances,     (* identities of runtimeSession objects, reused             *)
  Memories,      (* identities of memory runtimes (open resources), reused   *)
  Kinds,         (* what handlers do: a subset of AllKinds                   *)
  None,
  MaxEvents,     (* bound: events in the journal                             *)
  MaxEvictions   (* bound: sessions taken away by the idle reaper            *)

AllKinds == {"use", "switch", "rebuild", "delete", "history", "exists"}

ASSUME KindsAssumption == Kinds \subseteq AllKinds
ASSUME NoneAssumption ==
  None \notin Handlers /\ None \notin Instances /\ None \notin Memories
ASSUME HandlersAssumption == IsFiniteSet(Handlers)
ASSUME BoundsAssumption == MaxEvents \in Nat /\ MaxEvictions \in Nat

VARIABLES
  (* On disk. *)
  stored,       (* the session is in the session store                       *)
  journal,      (* the sequence numbers in <id>.jsonl                        *)
  (* In memory. *)
  registered,   (* s.sessions[id]                                            *)
  inst,         (* the runtimeSession objects                                *)
  mu,           (* the owner of s.mu                                         *)
  rtmu,         (* the owner of rt.mu, per object                            *)
  open,         (* the memory runtimes that are not closed                   *)
  h,            (* the handlers and their local variables                    *)
  closer,       (* Server.Close: where it is, and the session it collected   *)
  evictions

diskVars == <<stored, journal>>
lockVars == <<mu, rtmu>>
vars == <<diskVars, registered, inst, lockVars, open, h, closer, evictions>>

-----------------------------------------------------------------------------
(* runtimeSession.  mem is rt.memoryRuntime. *)
Instance ==
  [seq: Nat, leases: Nat, closing: BOOLEAN, deleted: BOOLEAN, mem: Memories \cup {None}]
Fresh(n, m) ==
  [seq |-> n, leases |-> 1, closing |-> FALSE, deleted |-> FALSE, mem |-> m]
NoInstance ==
  [seq |-> 0, leases |-> 0, closing |-> FALSE, deleted |-> FALSE, mem |-> None]

(* Where a handler is.  At the places in Leased it holds a lease of rt. *)
Leased == {"checking", "leased", "switching", "adopting", "unregister", "release"}
Place ==
  {"idle", "lookup", "storeLoad", "enter", "build", "read", "register",
   "find", "coldRead", "probe", "probing"} \cup Leased
Handler ==
  [at: Place, kind: AllKinds \cup {None}, rt: Instances \cup {None},
   seq: Nat, mem: Memories \cup {None}]
Resting == [at |-> "idle", kind |-> None, rt |-> None, seq |-> 0, mem |-> None]

Closer == [at: {"serving", "collect", "mark", "finish", "closed"}, rt: Instances \cup {None}]
Closed == closer.at # "serving"

Holders(i) == {p \in Handlers : h[p].rt = i}
Unused(i) == i # registered /\ Holders(i) = {} /\ closer.rt # i
Unopened(m) ==
  /\ m \notin open
  /\ \A p \in Handlers : h[p].mem # m
  /\ \A i \in Instances : inst[i].mem # m

(* loadJournal keeps the largest sequence number it reads. *)
LargestOf(j, n) ==
  /\ n \in ToSet(j) \cup {0}
  /\ \A k \in ToSet(j) : k <= n

Goes(p, place) == h' = [h EXCEPT ![p].at = place]
Answers(p) == h' = [h EXCEPT ![p] = Resting]

-----------------------------------------------------------------------------
(* Finding and loading the session. *)

(* A request arrives. *)
FirstPlace(k) == IF k = "exists" THEN "probe" ELSE IF k = "history" THEN "find" ELSE "lookup"
Begin(p, k) ==
  /\ h[p].at = "idle"
  /\ h' = [h EXCEPT ![p] = [Resting EXCEPT !.kind = k, !.at = FirstPlace(k)]]
  /\ UNCHANGED <<diskVars, registered, inst, lockVars, open, closer, evictions>>

(* A lease is taken under s.mu. *)
Lease(p, place) ==
  /\ inst' = [inst EXCEPT ![registered].leases = @ + 1]
  /\ h' = [h EXCEPT ![p].rt = registered, ![p].at = place, ![p].mem = None]

(* loadRuntimeByID. *)
Lookup(p) ==
  /\ h[p].at = "lookup" /\ mu = None
  /\ IF registered # None THEN Lease(p, "checking")
     ELSE Goes(p, "storeLoad") /\ UNCHANGED inst
  /\ UNCHANGED <<diskVars, registered, lockVars, open, closer, evictions>>

StoreLoad(p) ==
  /\ h[p].at = "storeLoad"
  /\ IF stored THEN Goes(p, "enter") ELSE Answers(p)
  /\ UNCHANGED <<diskVars, registered, inst, lockVars, open, closer, evictions>>

(* The first section of loadRuntime. *)
Enter(p) ==
  /\ h[p].at = "enter" /\ mu = None
  /\ \/ Closed /\ Answers(p) /\ UNCHANGED inst
     \/ ~Closed /\ registered # None /\ Lease(p, "checking")
     \/ ~Closed /\ registered = None /\ Goes(p, "build") /\ UNCHANGED inst
  /\ UNCHANGED <<diskVars, registered, lockVars, open, closer, evictions>>

(* The load fails; a memory runtime nobody adopted is closed. *)
LeavesUnadopted(p) == open
ClosesUnadopted(p) == open \ {h[p].mem}
Abandon(p) ==
  /\ open' = ClosesUnadopted(p)
  /\ Answers(p)
  /\ UNCHANGED <<registered, inst>>

(* The agent, its memory runtime and the recorder, outside the locks. *)
Build(p) ==
  /\ h[p].at = "build"
  /\ \/ Abandon(p)
     \/ /\ stored
        /\ \E m \in Memories :
             /\ Unopened(m)
             /\ open' = open \cup {m}
             /\ h' = [h EXCEPT ![p].mem = m, ![p].at = "read"]
        /\ UNCHANGED <<registered, inst>>
  /\ UNCHANGED <<diskVars, lockVars, closer, evictions>>

(* loadJournal, also outside the locks. *)
ReadJournal(p) ==
  /\ h[p].at = "read"
  /\ \E n \in ToSet(journal) \cup {0} :
       /\ LargestOf(journal, n)
       /\ h' = [h EXCEPT ![p].seq = n, ![p].at = "register"]
  /\ UNCHANGED <<diskVars, registered, inst, lockVars, open, closer, evictions>>

(* The second section of loadRuntime. *)
JoinsExisting(p) ==
  /\ ~Closed /\ registered # None
  /\ open' = ClosesUnadopted(p)
  /\ Lease(p, "checking")
  /\ UNCHANGED registered

RefusesLoadWhenClosed == Closed
RefusesLoad == Closed \/ (registered = None /\ ~stored)

Installs(p) ==
  \E i \in Instances :
    /\ Unused(i)
    /\ registered' = i
    /\ inst' = [inst EXCEPT ![i] = Fresh(h[p].seq, h[p].mem)]
    /\ h' = [h EXCEPT ![p].rt = i, ![p].at = "leased", ![p].mem = None]
    /\ UNCHANGED open

InstallsWhenVacant(p) == registered = None /\ Installs(p)

Register(p) ==
  /\ h[p].at = "register" /\ mu = None
  /\ \/ RefusesLoad /\ Abandon(p)
     \/ JoinsExisting(p)
     \/ ~RefusesLoad /\ InstallsWhenVacant(p)
  /\ UNCHANGED <<diskVars, lockVars, closer, evictions>>

(* After leasing a registered session a handler asks rt.mu whether it was     *)
(* deleted meanwhile.                                                            *)
CheckDeleted(p) ==
  /\ h[p].at = "checking" /\ rtmu[h[p].rt] = None
  /\ Goes(p, IF inst[h[p].rt].deleted THEN "release" ELSE "leased")
  /\ UNCHANGED <<diskVars, registered, inst, lockVars, open, closer, evictions>>

(* releaseRuntime. *)
LessTwice(n) == IF n > 0 THEN n - 2 ELSE n
Less(n) == IF n > 0 THEN n - 1 ELSE n
Release(p) ==
  /\ h[p].at = "release" /\ rtmu[h[p].rt] = None
  /\ inst' = [inst EXCEPT ![h[p].rt].leases = Less(@)]
  /\ Answers(p)
  /\ UNCHANGED <<diskVars, registered, lockVars, open, closer, evictions>>

-----------------------------------------------------------------------------
(* What handlers do with a leased session. *)

(* The request is done, or refused (active turn, queued work, bad request).     *)
Finish(p) ==
  /\ h[p].at = "leased"
  /\ ~(h[p].kind = "delete" /\ inst[h[p].rt].deleted)
  /\ Goes(p, "release")
  /\ UNCHANGED <<diskVars, registered, inst, lockVars, open, closer, evictions>>

(* publish. *)
Publish(p) ==
  LET i == h[p].rt IN
  /\ h[p].at = "leased" /\ h[p].kind = "use" /\ rtmu[i] = None
  /\ ~inst[i].deleted
  /\ Len(journal) < MaxEvents
  /\ journal' = Append(journal, inst[i].seq + 1)
  /\ inst' = [inst EXCEPT ![i].seq = @ + 1]
  /\ UNCHANGED <<stored, registered, lockVars, open, h, closer, evictions>>

(* A model or workspace switch: updateSession and run acceptance look whether   *)
(* the session was deleted, the loop executor does not; all keep rt.mu.           *)
Switch(p) ==
  LET i == h[p].rt IN
  /\ h[p].at = "leased" /\ h[p].kind \in {"switch", "rebuild"} /\ rtmu[i] = None
  /\ inst[i].deleted => h[p].kind = "rebuild"
  /\ rtmu' = [rtmu EXCEPT ![i] = p]
  /\ Goes(p, "switching")
  /\ UNCHANGED <<diskVars, registered, inst, mu, open, closer, evictions>>

Unlock(p) == rtmu' = [rtmu EXCEPT ![h[p].rt] = None]

(* rebuildAgentLocked up to its last section of s.mu: not when the server is     *)
(* closed; the factory, the memory runtime and the recorder may fail.              *)
Rebuild(p) ==
  /\ h[p].at = "switching" /\ mu = None
  /\ \/ /\ Goes(p, "release") /\ Unlock(p)
        /\ UNCHANGED open
     \/ /\ ~Closed /\ stored
        /\ \E m \in Memories :
             /\ Unopened(m)
             /\ open' = open \cup {m}
             /\ h' = [h EXCEPT ![p].mem = m, ![p].at = "adopting"]
        /\ UNCHANGED rtmu
  /\ UNCHANGED <<diskVars, registered, inst, mu, closer, evictions>>

(* Its last section: the new runtime takes the place of the old one, unless the  *)
(* server was closed meanwhile.                                                    *)
Adopt(p) ==
  LET i == h[p].rt IN
  /\ h[p].at = "adopting" /\ mu = None
  /\ IF Closed THEN open' = ClosesUnadopted(p) /\ UNCHANGED inst
     ELSE /\ open' = open \ {inst[i].mem}
          /\ inst' = [inst EXCEPT ![i].mem = h[p].mem]
  /\ h' = [h EXCEPT ![p].at = "release", ![p].mem = None]
  /\ Unlock(p)
  /\ UNCHANGED <<diskVars, registered, mu, closer, evictions>>

(* deleteSession, its section of rt.mu ... *)
Delete(p) ==
  LET i == h[p].rt IN
  /\ h[p].at = "leased" /\ h[p].kind = "delete" /\ rtmu[i] = None
  /\ ~inst[i].deleted
  /\ stored' = FALSE
  /\ journal' = <<>>
  /\ open' = open \ {inst[i].mem}
  /\ inst' = [inst EXCEPT ![i].deleted = TRUE, ![i].mem = None]
  /\ Goes(p, "unregister")
  /\ UNCHANGED <<registered, lockVars, closer, evictions>>

(* (or another request deleted the session first) ... *)
DeletedAlready(p) ==
  /\ h[p].at = "leased" /\ h[p].kind = "delete" /\ rtmu[h[p].rt] = None
  /\ inst[h[p].rt].deleted
  /\ Goes(p, "unregister")
  /\ UNCHANGED <<diskVars, registered, inst, lockVars, open, closer, evictions>>

(* ... and its deferred section of s.mu. *)
Unregister(p) ==
  /\ h[p].at = "unregister" /\ mu = None
  /\ registered' = IF registered = h[p].rt THEN None ELSE registered
  /\ Goes(p, "release")
  /\ UNCHANGED <<diskVars, inst, lockVars, open, closer, evictions>>

-----------------------------------------------------------------------------
(* Reads that need no agent. *)

(* historyRuntime and trajectorySnapshot lease a registered session; otherwise  *)
(* they read the files under s.mu.                                                 *)
Locks(p) == mu' = p
Find(p) ==
  /\ h[p].at = "find" /\ mu = None
  /\ \/ registered # None /\ Lease(p, "leased") /\ UNCHANGED mu
     \/ registered = None /\ ~stored /\ Answers(p) /\ UNCHANGED <<inst, mu>>
     \/ registered = None /\ stored /\ Goes(p, "coldRead") /\ Locks(p) /\ UNCHANGED inst
  /\ UNCHANGED <<diskVars, registered, rtmu, open, closer, evictions>>

ColdRead(p) ==
  /\ h[p].at = "coldRead"
  /\ mu' = None
  /\ Answers(p)
  /\ UNCHANGED <<diskVars, registered, inst, rtmu, open, closer, evictions>>

(* sessionsExist: s.mu is kept while rt.mu is awaited. *)
Probe(p) ==
  /\ h[p].at = "probe" /\ mu = None
  /\ IF stored /\ registered # None THEN mu' = p /\ Goes(p, "probing")
     ELSE UNCHANGED mu /\ Answers(p)
  /\ UNCHANGED <<diskVars, registered, inst, rtmu, open, closer, evictions>>

Probing(p) ==
  /\ h[p].at = "probing" /\ rtmu[registered] = None
  /\ mu' = None
  /\ Answers(p)
  /\ UNCHANGED <<diskVars, registered, inst, rtmu, open, closer, evictions>>

-----------------------------------------------------------------------------
(* The reaper and Close. *)

(* reapRuntimes: the reaper skips a session whose rt.mu is taken. *)
MayBeReapedWhileLeased(i) == ~inst[i].closing
MayBeReaped(i) == inst[i].leases = 0 /\ ~inst[i].closing
Reap ==
  /\ evictions < MaxEvictions
  /\ ~Closed /\ mu = None /\ registered # None
  /\ rtmu[registered] = None /\ MayBeReaped(registered)
  /\ open' = open \ {inst[registered].mem}
  /\ inst' = [inst EXCEPT ![registered].closing = TRUE, ![registered].mem = None]
  /\ registered' = None
  /\ evictions' = evictions + 1
  /\ UNCHANGED <<diskVars, lockVars, h, closer>>

(* Close sets s.closed and waits for the reaper, ... *)
CloseBegins ==
  /\ closer.at = "serving" /\ mu = None
  /\ closer' = [closer EXCEPT !.at = "collect"]
  /\ UNCHANGED <<diskVars, registered, inst, lockVars, open, h, evictions>>

(* ... collects the sessions, ... *)
CloseCollects ==
  /\ closer.at = "collect" /\ mu = None
  /\ closer' = [at |-> IF registered = None THEN "closed" ELSE "mark", rt |-> registered]
  /\ UNCHANGED <<diskVars, registered, inst, lockVars, open, h, evictions>>

(* ... marks and cancels each, ... *)
CloseMarks ==
  /\ closer.at = "mark" /\ rtmu[closer.rt] = None
  /\ inst' = [inst EXCEPT ![closer.rt].closing = TRUE]
  /\ closer' = [closer EXCEPT !.at = "finish"]
  /\ UNCHANGED <<diskVars, registered, lockVars, open, h, evictions>>

(* ... and, when its goroutines ended, closes what it owns. *)
CloseFinishes ==
  /\ closer.at = "finish" /\ rtmu[closer.rt] = None
  /\ open' = open \ {inst[closer.rt].mem}
  /\ inst' = [inst EXCEPT ![closer.rt].mem = None]
  /\ closer' = [closer EXCEPT !.at = "closed"]
  /\ UNCHANGED <<diskVars, registered, lockVars, h, evictions>>

-----------------------------------------------------------------------------
Init ==
  /\ stored = TRUE /\ journal \in {[k \in 1..n |-> k] : n \in 0..MaxEvents}
  /\ registered = None
  /\ inst = [i \in Instances |-> NoInstance]
  /\ mu = None /\ rtmu = [i \in Instances |-> None]
  /\ open = {}
  /\ h = [p \in Handlers |-> Resting]
  /\ closer = [at |-> "serving", rt |-> None]
  /\ evictions = 0

LoadStep(p) ==
  \/ Lookup(p) \/ StoreLoad(p) \/ Enter(p) \/ Build(p) \/ ReadJournal(p) \/ Register(p)
  \/ CheckDeleted(p) \/ Release(p)

WorkStep(p) ==
  \/ Finish(p) \/ Publish(p) \/ Switch(p) \/ Rebuild(p) \/ Adopt(p)
  \/ Delete(p) \/ DeletedAlready(p) \/ Unregister(p)

ReadStep(p) == Find(p) \/ ColdRead(p) \/ Probe(p) \/ Probing(p)

CloseStep == CloseBegins \/ CloseCollects \/ CloseMarks \/ CloseFinishes

Next ==
  \/ \E p \in Handlers, k \in Kinds : Begin(p, k)
  \/ \E p \in Handlers : LoadStep(p) \/ WorkStep(p) \/ ReadStep(p)
  \/ Reap
  \/ CloseStep

Spec == Init /\ [][Next]_vars

(* A request that got hold of a session goes on; sync.Mutex is starvation-free,  *)
(* so whoever waits for a lock that is released again and again gets it.           *)
FairSpec ==
  Spec /\ \A p \in Handlers : SF_vars(LoadStep(p) \/ WorkStep(p) \/ ReadStep(p))

-----------------------------------------------------------------------------
(* Safety. *)

(* Every variable holds a value of its kind; no lease counter drops below zero. *)
TypeOK ==
  /\ stored \in BOOLEAN
  /\ journal \in Seq(Nat)
  /\ registered \in Instances \cup {None}
  /\ inst \in [Instances -> Instance]
  /\ mu \in Handlers \cup {None}
  /\ rtmu \in [Instances -> Handlers \cup {None}]
  /\ open \subseteq Memories
  /\ h \in [Handlers -> Handler]
  /\ closer \in Closer
  /\ closer.at \in {"mark", "finish"} => closer.rt \in Instances
  /\ evictions \in Nat

(* Whoever holds a lease works on the registered session or knows that it was    *)
(* deleted: the reaper never takes a session from under a request, so no two       *)
(* objects of one session accept work at the same time.                              *)
LeaseKeepsInstance ==
  \A p \in Handlers : h[p].at \in Leased =>
    h[p].rt \in Instances /\ (h[p].rt = registered \/ inst[h[p].rt].deleted)

(* The journal is ordered by seq, as event_journal.go states: a session that is   *)
(* read from it never continues from an outdated position.                          *)
JournalIsOrdered == \A i, j \in DOMAIN journal : i < j => journal[i] < journal[j]

(* That holds as long as the reaper has taken no session away.                       *)
OrderedUntilEviction == evictions = 0 => JournalIsOrdered

(* Every open memory runtime belongs to the registered session or to the request   *)
(* that is building it, and what they refer to is open: no load that loses a race,  *)
(* failed switch, eviction, deletion or Close leaks one or uses a closed one.         *)
Owned ==
  {h[p].mem : p \in Handlers}
    \cup (IF registered = None THEN {} ELSE {inst[registered].mem})
OwnedRuntimes ==
  /\ open = Owned \ {None}
  /\ closer.at = "closed" => registered = None \/ inst[registered].mem = None

(* After Close collected the sessions no other is ever registered, so it waits    *)
(* for all of them.                                                                  *)
CloseFindsAll ==
  closer.at \in {"mark", "finish", "closed"} => registered \in {None, closer.rt}

(* Together: every memory runtime has somebody who will close it, also when the   *)
(* server shuts down.                                                                *)
NothingLeaks == OwnedRuntimes /\ CloseFindsAll

(* Nothing is written for a deleted session, however late a load or a publisher   *)
(* comes.                                                                            *)
DeletedStaysDeleted == [][~stored => ~stored' /\ Len(journal') <= Len(journal)]_vars

(* While a cold read walks the files under s.mu nobody writes them                 *)
(* (trajectory.go: a newly created runtime is kept from publishing).                 *)
ColdReadIsQuiet ==
  [][\A p \in Handlers : h[p].at = "coldRead" => diskVars' = diskVars]_vars

-----------------------------------------------------------------------------
(* The inductive invariant behind the theorems of RuntimeRegistry_proofs. *)

(* A handler refers to an object exactly while it holds a lease of it, and to    *)
(* a memory runtime exactly while that is its own.                                  *)
Building == {"read", "register", "adopting"}
LeasesHeld ==
  \A p \in Handlers :
    /\ h[p].rt # None <=> h[p].at \in Leased
    /\ h[p].mem # None => h[p].at \in Building

(* The counter of the registered session counts the requests that hold it. *)
LeasesCounted ==
  registered # None => inst[registered].leases = Cardinality(Holders(registered))

(* rt.mu is kept by a switch only, s.mu by a probe or a cold read only. *)
LocksHeld ==
  \A p \in Handlers :
    /\ \A i \in Instances :
         rtmu[i] = p => h[p].rt = i /\ h[p].at \in {"switching", "adopting"}
    /\ h[p].at \in {"switching", "adopting"} => rtmu[h[p].rt] = p
    /\ h[p].at \in {"probing", "coldRead"} <=> mu = p

(* What the marks of a deletion mean, to whom. *)
DeletedIsMarked ==
  /\ \A i \in Instances : inst[i].deleted => ~stored
  /\ registered # None /\ ~stored => inst[registered].deleted
  /\ \A p \in Handlers :
       /\ h[p].at = "unregister" => inst[h[p].rt].deleted
       /\ h[p].at = "adopting" => ~inst[h[p].rt].deleted
       /\ h[p].at = "coldRead" => registered = None /\ stored

(* No memory runtime has two owners, and an object that is not registered or      *)
(* was deleted has none.                                                             *)
SingleOwners ==
  /\ \A i \in Instances : i # registered \/ inst[i].deleted => inst[i].mem = None
  /\ \A p \in Handlers : h[p].mem # None =>
       /\ \A q \in Handlers : h[q].mem = h[p].mem => q = p
       /\ \A i \in Instances : inst[i].mem # h[p].mem

IInv ==
  /\ TypeOK /\ LeasesHeld /\ LeasesCounted /\ LeaseKeepsInstance
  /\ LocksHeld /\ DeletedIsMarked /\ SingleOwners /\ OwnedRuntimes /\ CloseFindsAll

-----------------------------------------------------------------------------
(* Liveness. *)

(* A request whether sessions exist is answered "from file metadata alone"          *)
(* (history.go:151): it may have to wait for a lock, but not forever.                 *)
ExistsAnswers == \A p \in Handlers : h[p].at \in {"probe", "probing"} ~> h[p].at = "idle"
=============================================================================
