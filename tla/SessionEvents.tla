---------------------------- MODULE SessionEvents ----------------------------
(***************************************************************************)
(* The events of a session: the journal file with its offset marks         *)
(* (event_journal.go), the cached tail (event_cache.go), the streams that  *)
(* clients read from both (Server.events, Server.subagentEvents), and what *)
(* changes the journal under them: runs, a compaction's batch, a subagent  *)
(* whose text is buffered, edits of the history, failed writes, eviction   *)
(* and restarts.                                                           *)
(*                                                                         *)
(* A step is a critical section of rt.mu, or of subagentMu where a         *)
(* subagent's liveness is read or set.  The file is a sequence of lines,   *)
(* and an offset the number of lines before it.  A line begun by a failed  *)
(* write merges with the next one, and neither can be decoded.             *)
(***************************************************************************)
EXTENDS Integers, Sequences, FiniteSets

CONSTANTS
  Clients,
  CacheLimit,   (* maxCachedEvents                                          *)
  Large,        (* kinds of events beyond maxCachedEventBytes               *)
  MarkInterval, (* journalMarkInterval                                      *)
  TornWrites,   (* a failed write may leave a part of its line              *)
  MaxSeq,       (* bound: events                                            *)
  MaxRuns       (* bound: runs                                              *)

ASSUME LimitAssumption ==
  /\ CacheLimit \in Nat \ {0} /\ MarkInterval \in Nat \ {0}
  /\ MaxSeq \in Nat /\ MaxRuns \in Nat
ASSUME FaultAssumption == TornWrites \in BOOLEAN

VARIABLES
  (* The journal file. *)
  file, partial,
  (* runtimeSession. *)
  loaded, nextSeq, tail, truncated, marks,
  run,      (* runID                                                        *)
  phase,    (* of that run: none, running, compacting or ending             *)
  runs,     (* run ids given so far                                         *)
  (* The subagent, with text not yet journaled and whether it counts live.  *)
  sub, buffered, live,
  (* Clients: those that follow the subagent and not the session, the loop  *)
  (* that serves each, and what each has received.                          *)
  watchers, stream, pending, asked, cursor, got

journalVars == <<file, partial>>
cacheVars   == <<nextSeq, tail, truncated, marks>>
runVars     == <<run, phase, runs>>
subVars     == <<sub, buffered, live>>
clientVars  == <<watchers, stream, pending, asked, cursor, got>>
vars == <<journalVars, loaded, cacheVars, runVars, subVars, clientVars>>

-----------------------------------------------------------------------------
Readers == Clients \ watchers
Kinds == {"text", "end", "started", "child", "settled", "rebased"}
Event == [seq : 1..MaxSeq, run : 0..MaxRuns, kind : Kinds]
Torn == [seq |-> 0, run |-> 0, kind |-> "torn"]

IsChild(e) == e.kind \in {"started", "child", "settled"}
Active == phase # "none"
EventAt(seq, r, kind) == [seq |-> seq, run |-> r, kind |-> kind]

(* The elements of s at the places in S, in their order. *)
Pick(s, S) ==
  LET upto[n \in 0..Len(s)] ==
        IF n = 0 THEN <<>>
        ELSE IF n \in S THEN Append(upto[n - 1], s[n]) ELSE upto[n - 1]
  IN upto[Len(s)]
Events(lines) == Pick(lines, {i \in 1..Len(lines) : lines[i] # Torn})
After(events, n) == Pick(events, {i \in 1..Len(events) : events[i].seq > n})
Journaled == {file[i] : i \in 1..Len(file)} \ {Torn}
Known == Journaled \cup {tail[i] : i \in 1..Len(tail)}
Last(s) == s[Len(s)]
Most(S) == CHOOSE n \in S : \A m \in S : m <= n
Least(S) == CHOOSE n \in S : \A m \in S : n <= m

Init ==
  /\ file = <<>> /\ partial = FALSE
  /\ loaded = TRUE /\ nextSeq = 0 /\ tail = <<>> /\ truncated = FALSE /\ marks = {}
  /\ run = 0 /\ phase = "none" /\ runs = 0
  /\ sub = "none" /\ buffered = FALSE /\ live = FALSE
  /\ watchers \in SUBSET Clients
  /\ stream = [c \in Clients |-> "off"] /\ pending = [c \in Clients |-> <<>>]
  /\ asked = [c \in Clients |-> FALSE]
  /\ cursor = [c \in Clients |-> 0] /\ got = [c \in Clients |-> {}]

-----------------------------------------------------------------------------
(* The journal and its tail. *)

(* changed is closed: whoever sleeps goes round again. *)
Wake ==
  stream' = [c \in Clients |->
    IF stream[c] # "asleep" THEN stream[c] ELSE IF c \in Readers THEN "look" ELSE "ask"]

(* appendEventLocked: the oldest events leave the tail, and all of them with *)
(* an event that is larger than the tail may be.                             *)
CacheStartLate(events) ==
  IF Len(events) > CacheLimit + 1 THEN Len(events) - CacheLimit ELSE 1
CacheStart(events) ==
  LET n == Len(events)
      large == {i \in 1..n : events[i].kind \in Large}
      first == IF n > CacheLimit THEN n - CacheLimit + 1 ELSE 1
  IN Most({first} \cup {i + 1 : i \in large})
Cache(events, was) ==
  /\ tail' = SubSeq(events, CacheStart(events), Len(events))
  /\ truncated' = (was \/ CacheStart(events) > 1)

(* addJournalMarkLocked for the events at the lines in S: the first stays.   *)
Marked(known, lines, S) ==
  known \cup {[seq |-> lines[i].seq, offset |-> i] :
    i \in {j \in S : /\ lines[j] # Torn /\ lines[j].seq % MarkInterval = 0
                     /\ \A m \in known : m.seq # lines[j].seq}}

(* persistEvent: the mark is for the end of the written line. *)
Persist(e) ==
  /\ file' = Append(file, IF partial THEN Torn ELSE e)
  /\ partial' = FALSE
  /\ marks' = IF e.seq % MarkInterval = 0 /\ \A m \in marks : m.seq # e.seq
                THEN marks \cup {[seq |-> e.seq, offset |-> Len(file) + 1]} ELSE marks

Publish(r, kind) ==
  LET e == EventAt(nextSeq + 1, r, kind) IN
  /\ loaded /\ nextSeq < MaxSeq
  /\ Persist(e)
  /\ nextSeq' = e.seq
  /\ Cache(Append(tail, e), truncated)
  /\ Wake
  /\ UNCHANGED <<loaded, watchers, pending, asked, cursor, got>>

PublishFails ==
  /\ loaded /\ partial' \in {partial, TornWrites}
  /\ partial => partial'
  /\ UNCHANGED <<file, loaded, cacheVars, clientVars>>

PublishOrFail(r, kind) == Publish(r, kind) \/ PublishFails

-----------------------------------------------------------------------------
(* Runs, and everything else that publishes. *)

Accept(next) ==
  /\ phase = "none" /\ runs < MaxRuns
  /\ runs' = runs + 1 /\ run' = runs + 1 /\ phase' = next
  /\ Publish(runs + 1, "text")
  /\ UNCHANGED subVars

(* startCanonicalRun aborts; the event that accepts it may be out. *)
AcceptAborts ==
  /\ phase = "none" /\ runs < MaxRuns
  /\ runs' = runs + 1 /\ run' = runs + 1
  /\ PublishOrFail(runs + 1, "text")
  /\ UNCHANGED <<phase, subVars>>

(* Deltas, tool events, and notes of the session between runs. *)
PublishText == Publish(run, "text") /\ UNCHANGED <<runVars, subVars>>
TextFails == TornWrites /\ PublishFails /\ UNCHANGED <<runVars, subVars>>

EndRun ==
  /\ phase \in {"running", "compacting"}
  /\ PublishOrFail(run, "end")
  /\ phase' = "ending"
  /\ UNCHANGED <<run, runs, subVars>>

(* commitCompaction: a batch, taken back when the history is not saved.      *)
CommitCompaction ==
  LET lines == <<EventAt(nextSeq + 1, run, "text"), EventAt(nextSeq + 2, run, "end")>> IN
  /\ loaded /\ phase = "compacting" /\ nextSeq + 2 <= MaxSeq
  /\ file' = file \o (IF partial THEN <<Torn, lines[2]>> ELSE lines)
  /\ partial' = FALSE
  /\ nextSeq' = nextSeq + 2
  /\ Cache(tail \o lines, truncated)
  /\ phase' = "ending"
  /\ Wake
  /\ UNCHANGED <<loaded, marks, run, runs, subVars, watchers, pending, asked, cursor,
                 got>>

RunDoneSilently ==
  /\ phase = "ending"
  /\ phase' = "none"
  /\ UNCHANGED <<journalVars, loaded, cacheVars, run, runs, subVars, clientVars>>
RunDone ==
  /\ phase = "ending"
  /\ phase' = "none"
  /\ Wake
  /\ UNCHANGED <<journalVars, loaded, cacheVars, run, runs, subVars, watchers, pending,
                 asked, cursor, got>>

-----------------------------------------------------------------------------
(* The subagent: it counts live before its start is journaled, and no longer *)
(* once its end is.                                                          *)

SubStarts ==
  /\ loaded /\ sub = "none" /\ phase = "running"
  /\ sub' = "starting" /\ live' = TRUE
  /\ UNCHANGED <<journalVars, loaded, cacheVars, runVars, buffered, clientVars>>

SubStarted ==
  /\ sub = "starting" /\ sub' = "running"
  /\ PublishOrFail(run, "started")
  /\ UNCHANGED <<runVars, buffered, live>>

SubText ==
  /\ sub = "running" /\ ~buffered
  /\ buffered' = TRUE
  /\ UNCHANGED <<journalVars, loaded, cacheVars, runVars, sub, live, clientVars>>

(* flushLocked, by its timer, by an event that follows, or at the end. *)
SubFlushes ==
  /\ buffered /\ buffered' = FALSE
  /\ PublishOrFail(run, "child")
  /\ UNCHANGED <<runVars, sub, live>>

SettlesUnflushed ==
  /\ sub = "running"
  /\ sub' = "settled"
  /\ PublishOrFail(run, "settled")
  /\ UNCHANGED <<runVars, buffered, live>>
SubSettles ==
  /\ sub = "running" /\ ~buffered
  /\ sub' = "settled"
  /\ PublishOrFail(run, "settled")
  /\ UNCHANGED <<runVars, buffered, live>>

SubOver ==
  /\ sub = "settled" /\ live
  /\ live' = FALSE
  /\ UNCHANGED <<journalVars, loaded, cacheVars, runVars, sub, buffered, clientVars>>

(* The task is not saved: its end is not journaled, and it goes on counting  *)
(* live until the session is unloaded.                                       *)
SubUnsaved ==
  /\ sub = "running"
  /\ sub' = "unsaved"
  /\ PublishOrFail(run, "text")
  /\ UNCHANGED <<runVars, buffered, live>>

-----------------------------------------------------------------------------
(* Reading. *)

Broken == {i \in 1..Len(file) : file[i] = Torn} \cup (IF partial THEN {Len(file) + 1} ELSE {})

(* journalStartLocked, and the lines scanJournal goes through from there     *)
(* until it has enough, cannot go on, or is at the end.                      *)
ScanStart(n) ==
  LET before == {m.offset : m \in {k \in marks : k.seq <= n}}
  IN 1 + Most(before \cup {0})
Wanted(n, i) == {j \in ScanStart(n)..i : file[j].seq > n}
Enough(n, i) ==
  \/ Cardinality(Wanted(n, i)) = CacheLimit
  \/ \E j \in Wanted(n, i) : file[j].kind \in Large
ScanEnd(n) ==
  Least({i \in ScanStart(n)..(Len(file) + 1) :
           i \in Broken \/ i = Len(file) + 1 \/ Enough(n, i)})
Scanned(n) == ScanStart(n)..(IF ScanEnd(n) > Len(file) THEN Len(file) ELSE ScanEnd(n))
Replayed(n) == After(SubSeq(file, ScanStart(n), Most(Scanned(n) \cup {0})), n)

(* eventsAfterLocked: from the tail if nothing that was wanted has left it.  *)
TailServesTruncated(n) == ~truncated \/ tail # <<>>
TailServes(n) == ~truncated \/ (tail # <<>> /\ n >= tail[1].seq - 1)

Replay(n) == IF TailServes(n) THEN After(tail, n) ELSE Replayed(n)
ReplayFails(n) == ~TailServes(n) /\ ScanEnd(n) \in Broken
ReplayMarks(n) ==
  marks' = IF TailServes(n) THEN marks ELSE Marked(marks, file, Scanned(n))

(* A terminal event waits until its run lets go of the session. *)
HeldBack(e) == Active /\ e.run = run /\ e.kind = "end"
NothingHeldBack(batch) == batch
Deliverable(batch) ==
  LET held == {i \in 1..Len(batch) : HeldBack(batch[i])}
  IN IF held = {} THEN batch ELSE SubSeq(batch, 1, Least(held) - 1)

Connect(c) ==
  /\ loaded /\ stream[c] \in {"off", "over"}
  /\ c \in watchers => \E e \in Journaled : e.kind = "started"
  /\ stream' = [stream EXCEPT ![c] = IF c \in Readers THEN "look" ELSE "ask"]
  /\ UNCHANGED <<journalVars, loaded, cacheVars, runVars, subVars, watchers, pending,
                 asked, cursor, got>>

(* subagentLive, before the events are looked at. *)
Ask(c) ==
  /\ stream[c] = "ask"
  /\ asked' = [asked EXCEPT ![c] = live]
  /\ stream' = [stream EXCEPT ![c] = "look"]
  /\ UNCHANGED <<journalVars, loaded, cacheVars, runVars, subVars, watchers, pending,
                 cursor, got>>

Waits(c) == IF c \in Readers THEN Active ELSE asked[c]

Look(c) ==
  LET batch == Replay(cursor[c])
      out == IF c \in Readers THEN Deliverable(batch) ELSE batch IN
  /\ stream[c] = "look" /\ ~ReplayFails(cursor[c])
  /\ ReplayMarks(cursor[c])
  /\ pending' = [pending EXCEPT ![c] = out]
  /\ stream' = [stream EXCEPT ![c] =
       IF out # <<>> THEN "send" ELSE IF Waits(c) THEN "asleep" ELSE "over"]
  /\ asked' = [asked EXCEPT ![c] = FALSE]
  /\ UNCHANGED <<journalVars, loaded, nextSeq, tail, truncated, runVars, subVars,
                 watchers, cursor, got>>

LookError(c) ==
  /\ stream[c] = "look" /\ ReplayFails(cursor[c])
  /\ ReplayMarks(cursor[c])
  /\ stream' = [stream EXCEPT ![c] = "off"]
  /\ asked' = [asked EXCEPT ![c] = FALSE]
  /\ UNCHANGED <<journalVars, loaded, nextSeq, tail, truncated, runVars, subVars,
                 watchers, pending, cursor, got>>

(* A reader is done after a terminal event; a watcher gets its subagent's.   *)
Send(c) ==
  LET e == Head(pending[c]) IN
  /\ stream[c] = "send"
  /\ cursor' = [cursor EXCEPT ![c] = e.seq]
  /\ got' = [got EXCEPT ![c] = @ \cup (IF c \in Readers \/ IsChild(e) THEN {e} ELSE {})]
  /\ IF c \in Readers /\ e.kind = "end"
       THEN /\ stream' = [stream EXCEPT ![c] = "over"]
            /\ pending' = [pending EXCEPT ![c] = <<>>]
       ELSE /\ pending' = [pending EXCEPT ![c] = Tail(@)]
            /\ stream' = IF Tail(pending[c]) # <<>> THEN stream
                         ELSE [stream EXCEPT ![c] = IF c \in Readers THEN "look" ELSE "ask"]
  /\ UNCHANGED <<journalVars, loaded, cacheVars, runVars, subVars, watchers, asked>>

Heartbeat(c) ==
  /\ stream[c] = "asleep"
  /\ stream' = [stream EXCEPT ![c] = IF c \in Readers THEN "look" ELSE "ask"]
  /\ UNCHANGED <<journalVars, loaded, cacheVars, runVars, subVars, watchers, pending,
                 asked, cursor, got>>

(* The connection breaks; the client goes on from its own cursor. *)
Drop(c) ==
  /\ stream[c] \notin {"off", "over"}
  /\ stream' = [stream EXCEPT ![c] = "off"]
  /\ pending' = [pending EXCEPT ![c] = <<>>]
  /\ asked' = [asked EXCEPT ![c] = FALSE]
  /\ UNCHANGED <<journalVars, loaded, cacheVars, runVars, subVars, watchers, cursor,
                 got>>

-----------------------------------------------------------------------------
(* Edits of the history, eviction and restarts. *)

(* allEventsLocked: unless the tail is the whole, the journal must be read;  *)
(* and there is a message to edit.                                           *)
Whole == IF truncated THEN Events(file) ELSE tail
Edited(keep) ==
  LET kept == Pick(Whole, {i \in 1..Len(Whole) : Whole[i].run \in keep})
  IN Append(kept, EventAt(nextSeq + 1, IF kept = <<>> THEN 0 ELSE Last(kept).run, "rebased"))

MayEdit == loaded /\ runs > 0 /\ phase = "none" /\ nextSeq < MaxSeq /\ (truncated => Broken = {})

EditReusesSeq(keep) ==
  LET lines == Edited(keep) IN
  /\ MayEdit
  /\ file' = lines /\ partial' = FALSE /\ marks' = {}
  /\ nextSeq' = Len(lines)
  /\ Cache(lines, FALSE)
  /\ Wake
  /\ UNCHANGED <<loaded, runVars, subVars, watchers, pending, asked, cursor, got>>
Edit(keep) ==
  /\ MayEdit
  /\ file' = Edited(keep) /\ partial' = FALSE /\ marks' = {}
  /\ nextSeq' = nextSeq + 1
  /\ Cache(Edited(keep), FALSE)
  /\ Wake
  /\ UNCHANGED <<loaded, runVars, subVars, watchers, pending, asked, cursor, got>>

Unloaded ==
  /\ loaded' = FALSE /\ nextSeq' = 0 /\ tail' = <<>> /\ truncated' = FALSE /\ marks' = {}
  /\ run' = 0

Evict ==
  /\ loaded /\ phase = "none" /\ (live => sub = "unsaved")
  /\ \A c \in Clients : stream[c] \in {"off", "over"}
  /\ Unloaded
  /\ buffered' = FALSE /\ live' = FALSE
  /\ UNCHANGED <<journalVars, phase, runs, sub, clientVars>>

Crash ==
  /\ loaded /\ Unloaded
  /\ partial' \in {partial, TornWrites} /\ (partial => partial')
  /\ phase' = "none"
  /\ sub' = (IF sub = "none" THEN "none" ELSE "settled")
  /\ buffered' = FALSE /\ live' = FALSE
  /\ stream' = [c \in Clients |-> IF stream[c] = "over" THEN "over" ELSE "off"]
  /\ pending' = [c \in Clients |-> <<>>] /\ asked' = [c \in Clients |-> FALSE]
  /\ UNCHANGED <<file, runs, watchers, cursor, got>>

(* loadJournal, which refuses a journal it cannot read. *)
Load ==
  /\ ~loaded /\ Broken = {}
  /\ loaded' = TRUE
  /\ Cache(file, FALSE)
  /\ nextSeq' = (IF file = <<>> THEN 0 ELSE Last(file).seq)
  /\ run' = (IF file = <<>> THEN 0 ELSE Last(file).run)
  /\ marks' = Marked({}, file, 1..Len(file))
  /\ UNCHANGED <<journalVars, phase, runs, subVars, clientVars>>

-----------------------------------------------------------------------------
Running ==
  \/ Accept("running") \/ Accept("compacting") \/ AcceptAborts
  \/ PublishText \/ TextFails

Ending == EndRun \/ CommitCompaction \/ RunDone

Subagent == SubStarts \/ SubStarted \/ SubText \/ SubFlushes \/ SubSettles \/ SubOver
            \/ SubUnsaved

Serve(c) == Connect(c) \/ Ask(c) \/ Look(c) \/ Send(c)

Next ==
  \/ Running \/ Ending \/ Subagent
  \/ \E c \in Clients : Serve(c) \/ LookError(c) \/ Heartbeat(c) \/ Drop(c)
  \/ \E keep \in SUBSET (0..MaxRuns) : Edit(keep)
  \/ Evict \/ Crash \/ Load

Spec == Init /\ [][Next]_vars

-----------------------------------------------------------------------------
(* Properties. *)

TypeOK ==
  /\ file \in Seq(Event \cup {Torn}) /\ partial \in BOOLEAN
  /\ loaded \in BOOLEAN /\ nextSeq \in 0..MaxSeq
  /\ tail \in Seq(Event) /\ Len(tail) <= CacheLimit /\ truncated \in BOOLEAN
  /\ marks \subseteq [seq : 1..MaxSeq, offset : 1..MaxSeq]
  /\ run \in 0..MaxRuns /\ phase \in {"none", "running", "compacting", "ending"}
  /\ runs \in 0..MaxRuns
  /\ sub \in {"none", "starting", "running", "settled", "unsaved"}
  /\ buffered \in BOOLEAN /\ live \in BOOLEAN
  /\ watchers \in SUBSET Clients
  /\ stream \in [Clients -> {"off", "ask", "look", "send", "asleep", "over"}]
  /\ pending \in [Clients -> Seq(Event)] /\ asked \in [Clients -> BOOLEAN]
  /\ cursor \in [Clients -> 0..MaxSeq] /\ got \in [Clients -> SUBSET Event]

(* The events stand in the journal in the order of their numbers.            *)
JournalOrdered ==
  \A i, j \in 1..Len(file) :
    i < j /\ file[i] # Torn /\ file[j] # Torn => file[i].seq < file[j].seq

(* And a mark splits them: those before it are not after its number, those   *)
(* from it on are.                                                           *)
MarksSplit ==
  \A m \in marks, i \in 1..Len(file) :
    file[i] # Torn => (i <= m.offset <=> file[i].seq <= m.seq)

(* What a reader relies on to start anywhere in the journal. *)
JournalSound == JournalOrdered /\ MarksSplit

(* Whatever the tail, the marks, edits, evictions and restarts did meanwhile, *)
(* a client has received every event up to its cursor that the journal holds. *)
NothingSkipped ==
  \A c \in Clients : \A e \in Journaled :
    e.seq <= cursor[c] /\ (c \in watchers => IsChild(e)) => e \in got[c]

(* A client that has seen a run end may start the next at once: that run no  *)
(* longer holds the session.                                                 *)
EndMeansFree ==
  \A c \in Readers : \A e \in got[c] : e.kind = "end" /\ e.run = run => ~Active

(* A stream sleeps only while there is nothing to read but the end of the    *)
(* run that is still on.                                                     *)
SleepersHaveNoNews ==
  \A c \in Clients : stream[c] = "asleep" =>
    LET news == {e \in Known : e.seq > cursor[c]} IN
    IF c \in Readers
      THEN Active /\ \A e \in news : \E h \in news : h.seq <= e.seq /\ HeldBack(h)
      ELSE news = {}

(* Both: what a stream shows of the end of a run, and its silence, can be    *)
(* relied on.                                                                *)
StreamsAreTimely == EndMeansFree /\ SleepersHaveNoNews

(* A watcher's stream ends by itself only with everything its subagent said. *)
WatchersSeeAll ==
  \A c \in watchers : stream[c] = "over" =>
    ~live /\ {e \in Journaled : IsChild(e)} \subseteq got[c]

-----------------------------------------------------------------------------
(* The inductive invariant. *)

(* How far the numbers go: what a load would find, while it can find anything. *)
NumberedTo ==
  IF loaded THEN nextSeq ELSE IF file = <<>> THEN 0 ELSE Last(file).seq

(* Numbers are given in order, so there are no more lines than numbers, and the *)
(* last line, if it can be read, has the last one.                              *)
NumbersSound ==
  /\ Len(file) <= MaxSeq
  /\ loaded =>
       /\ Len(file) <= nextSeq
       /\ \A e \in Known : e.seq <= nextSeq
       /\ \A m \in marks : m.seq <= nextSeq /\ m.offset <= Len(file)
       /\ file = <<>> => nextSeq = 0
       /\ file # <<>> /\ Last(file) # Torn => Last(file).seq = nextSeq
  /\ ~loaded => nextSeq = 0 /\ tail = <<>> /\ marks = {}

(* The tail is in order and has all events from its first on, or all there are. *)
TailOrdered == \A i, j \in 1..Len(tail) : i < j => tail[i].seq < tail[j].seq
TailComplete ==
  loaded => \A e \in Journaled :
    ~truncated \/ (tail # <<>> /\ e.seq >= tail[1].seq)
    => \E i \in 1..Len(tail) : tail[i] = e

(* A cached event that the file does not hold was in a line that cannot be read, *)
(* at its place in the order.                                                      *)
StandsFor(i, e) ==
  /\ file[i] = Torn
  /\ \A j \in 1..Len(file) : file[j] # Torn => (j < i <=> file[j].seq < e.seq)
  /\ \A m \in marks : i <= m.offset <=> e.seq <= m.seq
LostKnown ==
  \A k \in 1..Len(tail) : tail[k] \in Journaled \/ \E i \in 1..Len(file) : StandsFor(i, tail[k])
TailSound == TailOrdered /\ TailComplete /\ LostKnown

(* Run ids are given in order too; a run holds only a loaded session. *)
RunsSound ==
  /\ run <= runs
  /\ \A e \in Known : e.run <= runs
  /\ \A c \in Clients : \A e \in got[c] : e.run <= runs
  /\ phase # "none" => loaded

(* Only a subagent that counts live has anything left to say; once it does not,   *)
(* it has started and never counts again.                                          *)
SubagentSound ==
  /\ live => loaded /\ sub # "none"
  /\ sub \in {"starting", "running"} => live
  /\ buffered => live /\ sub \in {"running", "unsaved"}
  /\ sub = "none" => \A e \in Known : ~IsChild(e)

(* What a stream is to send comes from a loaded session, is in order, after the    *)
(* cursor and without a gap; the end of a run waits until the run lets go.          *)
PendingSound(c) ==
  LET out == pending[c] IN
  /\ stream[c] = "send" <=> out # <<>>
  /\ \A i \in 1..Len(out) :
       /\ cursor[c] < out[i].seq /\ out[i].seq <= nextSeq /\ out[i].run <= runs
       /\ \A j \in 1..Len(out) : i < j => out[i].seq < out[j].seq
       /\ c \in Readers /\ out[i].kind = "end" /\ out[i].run = run => ~Active
  /\ out # <<>> => \A e \in Known :
       cursor[c] < e.seq /\ e.seq <= Last(out).seq => \E i \in 1..Len(out) : out[i] = e

(* A watcher is served once its subagent started, and without having found it live *)
(* looks only after its end.                                                         *)
WatcherSound(c) ==
  /\ stream[c] # "off" => sub # "none"
  /\ stream[c] = "look" /\ ~asked[c] => ~live
  /\ stream[c] = "over" => ~live /\ \A e \in Known : IsChild(e) => e \in got[c]

(* A client has received all it wants up to its cursor, of what is known. *)
ClientSound(c) ==
  /\ stream[c] \notin {"off", "over"} => loaded
  /\ loaded \/ Broken = {} => cursor[c] <= NumberedTo
  /\ \A e \in Known :
       e.seq <= cursor[c] /\ (c \in watchers => IsChild(e)) => e \in got[c]
  /\ PendingSound(c)
  /\ c \in watchers => WatcherSound(c)

ClientsSound == \A c \in Clients : ClientSound(c)

IInv ==
  /\ TypeOK /\ JournalSound /\ NumbersSound /\ TailSound /\ RunsSound /\ SubagentSound
  /\ ClientsSound /\ StreamsAreTimely
=============================================================================
