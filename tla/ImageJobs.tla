------------------------------ MODULE ImageJobs ------------------------------
(***************************************************************************)
(* One image job of internal/imaging: the durable record that clients and  *)
(* the scheduler's workers change in transactions of the store, the        *)
(* workers that call the provider between two transactions, and the end    *)
(* of the process at any point.  A transaction of Store.Update is atomic   *)
(* and durable, so it is one action; everything a worker knows is lost     *)
(* with the process.                                                       *)
(***************************************************************************)
EXTENDS Integers, Sequences, FiniteSets

CONSTANTS
  Items,              \* the images the job asks for
  Outs,               \* the pictures a provider may return for one of them
  MaxAttempts,        \* submissions of an item before it fails (3)
  MaxQueryFailures,   \* failed lookups in a row before the result is unknown (5)
  ConnectionLimit,    \* calls at a time to one connection (2)
  MaxStops,           \* bound: ends of the process
  MaxReconciles       \* bound: explicit reopenings

ASSUME ItemsFinite == IsFiniteSet(Items) /\ Items # {}
ASSUME LimitsPositive ==
  /\ MaxAttempts \in Nat \ {0}
  /\ MaxQueryFailures \in Nat \ {0}
  /\ ConnectionLimit \in Nat \ {0}
ASSUME BoundsNatural == MaxStops \in Nat /\ MaxReconciles \in Nat

VARIABLES
  status,     \* ImageJob.Status, "absent" before acceptance
  deleted,    \* the record has a DeletedAt
  target,     \* what the frozen target can do
  item,       \* status of each item
  attempts,   \* each submission of an item, and whether it is known not to be sent
  handle,     \* the item has a provider handle
  failures,   \* QueryFailures of an item
  leased,     \* the item has a lease owner
  published,  \* how often each picture was added to the item's assets
  expired,    \* the job's deadline has passed
  mode,       \* the process: "down", "recovering", "up" or "closing"
  worker,     \* what the goroutine of an item is doing
  accepted,   \* submissions of an item the provider accepted, and charges for
  stops, reconciles

record == <<status, deleted, target, item, attempts, handle, failures, leased, published>>
vars == <<record, expired, mode, worker, accepted, stops, reconciles>>

-----------------------------------------------------------------------------
Final == {"succeeded", "partial_succeeded", "failed", "cancelled", "result_unknown"}
Statuses == Final \cup {"queued", "running", "saving"}
Deliveries == {"not_sent", "rejected", "uncertain"}

\* All that is ever asked of a recorded delivery.
Recorded(d) == IF d = "not_sent" THEN "unsent" ELSE "maybe"
Attempt == {"unsent", "maybe"}

\* The items whose goroutine is in Scheduler.running.
Running == {i \in Items : worker[i].at # "idle"}

\* A goroutine that has claimed its item and not yet released its lease.
Holding == {i \in Items : worker[i].at \in {"calling", "saving", "leaving"}}

Worker == [at : {"idle", "picked", "calling", "saving", "leaving"},
           kind : {"none", "submit", "poll", "reconcile", "cancel"},
           sent : BOOLEAN, todo : SUBSET Outs, lost : BOOLEAN]

Idle == [at |-> "idle", kind |-> "none", sent |-> FALSE, todo |-> {}, lost |-> FALSE]

Leave(i) == worker' = [worker EXCEPT ![i] = [Idle EXCEPT !.at = "leaving"]]

\* aggregateJob: the job's status from those of its items.
Aggregate(s, its) ==
  LET has(S) == \E i \in Items : its[i] \in S
      good == has({"succeeded", "partial_succeeded"})
  IN CASE s \in Final -> s
       [] s \notin Final /\ has(Statuses \ Final) ->
            IF s = "cancel_requested" THEN s ELSE "running"
       [] OTHER ->
            IF has({"result_unknown"}) THEN "result_unknown"
            ELSE IF good /\ has({"partial_succeeded", "failed", "cancelled"})
                 THEN "partial_succeeded"
            ELSE IF good THEN "succeeded"
            ELSE IF has({"cancelled"}) THEN "cancelled"
            ELSE "failed"

\* Settle item i with s and aggregate the job.
Put(i, s) ==
  /\ item' = [item EXCEPT ![i] = s]
  /\ status' = Aggregate(status, item')

-----------------------------------------------------------------------------
Init ==
  /\ status = "absent" /\ deleted = FALSE
  /\ target \in [cancel : BOOLEAN, reconcile : BOOLEAN]
  /\ item = [i \in Items |-> "queued"]
  /\ attempts = [i \in Items |-> <<>>]
  /\ handle = [i \in Items |-> FALSE]
  /\ failures = [i \in Items |-> 0]
  /\ leased = [i \in Items |-> FALSE]
  /\ published = [i \in Items |-> [o \in Outs |-> 0]]
  /\ expired = FALSE /\ mode = "up"
  /\ worker = [i \in Items |-> Idle]
  /\ accepted = [i \in Items |-> 0]
  /\ stops = 0 /\ reconciles = 0

-----------------------------------------------------------------------------
(* Clients                                                                 *)

\* CreateJob accepts the job; a retry with the same key finds it.
Create ==
  /\ mode = "up" /\ status = "absent"
  /\ status' = "queued"
  /\ UNCHANGED <<deleted, target, item, attempts, handle, failures, leased, published,
                 expired, mode, worker, accepted, stops, reconciles>>

Live == status # "absent" /\ ~deleted

\* Seeded fault: a handle of a finished item counts as work a provider could stop.
CancelAsksFinished ==
  LET ask == target.cancel /\ \E i \in Items : handle[i]
  IN
  /\ mode # "down" /\ Live
  /\ status \notin Final \cup {"cancel_requested"}
  /\ status' = IF ask THEN "cancel_requested" ELSE "cancelled"
  /\ item' = [i \in Items |->
                IF item[i] = "queued" \/ (~ask /\ item[i] \notin Final)
                THEN "cancelled" ELSE item[i]]
  /\ UNCHANGED <<deleted, target, attempts, handle, failures, leased, published,
                 expired, mode, worker, accepted, stops, reconciles>>

\* CancelJob: queued items are cancelled at once, and everything is when no provider
\* can be asked to stop.
CancelJob ==
  LET submitted == \E i \in Items : attempts[i] # <<>>
      remote == \E i \in Items : handle[i] /\ item[i] \notin Final
      ask == submitted /\ remote /\ target.cancel
  IN
  /\ mode # "down" /\ Live
  /\ status \notin Final \cup {"cancel_requested"}
  /\ status' = IF ask THEN "cancel_requested" ELSE "cancelled"
  /\ item' = [i \in Items |->
                IF item[i] = "queued" \/ (~ask /\ item[i] \notin Final)
                THEN "cancelled" ELSE item[i]]
  /\ UNCHANGED <<deleted, target, attempts, handle, failures, leased, published,
                 expired, mode, worker, accepted, stops, reconciles>>

\* ReconcileJob reopens unknown items for lookups, all of them or none.
ReconcileJob ==
  LET unknown == {i \in Items : item[i] = "result_unknown"}
  IN
  /\ mode # "down" /\ Live /\ reconciles < MaxReconciles
  /\ status = "result_unknown"
  /\ \A i \in unknown : handle[i] \/ target.reconcile
  /\ item' = [i \in Items |-> IF i \in unknown THEN "running" ELSE item[i]]
  /\ failures' = [i \in Items |-> IF i \in unknown THEN 0 ELSE failures[i]]
  /\ status' = "running" /\ expired' = FALSE /\ reconciles' = reconciles + 1
  /\ UNCHANGED <<deleted, target, attempts, handle, leased, published, mode, worker,
                 accepted, stops>>

\* Seeded fault: a job that is over is deleted under its last worker.
DeleteIgnoresLease ==
  /\ mode # "down" /\ Live
  /\ status \in Final
  /\ deleted' = TRUE
  /\ UNCHANGED <<status, target, item, attempts, handle, failures, leased, published,
                 expired, mode, worker, accepted, stops, reconciles>>

\* DeleteJob refuses a job that is not over, or that a worker still holds.
DeleteJob ==
  /\ mode # "down" /\ Live
  /\ status \in Final
  /\ \A i \in Items : ~leased[i]
  /\ deleted' = TRUE
  /\ UNCHANGED <<status, target, item, attempts, handle, failures, leased, published,
                 expired, mode, worker, accepted, stops, reconciles>>

-----------------------------------------------------------------------------
(* The dispatcher and the claim of an item                                 *)

\* Submitted items that are not over, and items with a goroutine, count for the limit
\* on new submissions.
Active == {i \in Items : \/ i \in Running
                         \/ item[i] \notin Final \cup {"queued"} /\ attempts[i] # <<>>}

\* Seeded fault: submitted items wait for a free submission slot as well.
PickWaitsForSlot(i) ==
  /\ mode = "up" /\ Live
  /\ status \notin Final /\ item[i] \notin Final
  /\ worker[i] = Idle
  /\ Cardinality(Running) < ConnectionLimit
  /\ Cardinality(Active) < ConnectionLimit
  /\ worker' = [worker EXCEPT ![i].at = "picked"]
  /\ UNCHANGED <<record, expired, mode, accepted, stops, reconciles>>

\* Scheduler.loop starts a goroutine for an item; the claim comes later.
Pick(i) ==
  /\ mode = "up" /\ Live
  /\ status \notin Final /\ item[i] \notin Final
  /\ worker[i] = Idle
  /\ Cardinality(Running) < ConnectionLimit
  /\ item[i] = "queued" => Cardinality(Active) < ConnectionLimit
  /\ worker' = [worker EXCEPT ![i].at = "picked"]
  /\ UNCHANGED <<record, expired, mode, accepted, stops, reconciles>>

\* The claim finds that there is nothing to do, or is cut off by the shutdown.
ClaimNothing(i) ==
  /\ worker[i].at = "picked"
  /\ \/ deleted
     \/ status \in Final
     \/ item[i] \in Final
     \/ mode = "closing"
  /\ worker' = [worker EXCEPT ![i] = Idle]
  /\ UNCHANGED <<record, expired, mode, accepted, stops, reconciles>>

Claimable(i) ==
  /\ worker[i].at = "picked" /\ Live
  /\ status \notin Final /\ item[i] \notin Final

\* The claim settles an item whose job is past its deadline.
ClaimLate(i) ==
  /\ Claimable(i) /\ expired
  /\ Put(i, IF attempts[i] = <<>> THEN "failed" ELSE "result_unknown")
  /\ worker' = [worker EXCEPT ![i] = Idle]
  /\ UNCHANGED <<deleted, target, attempts, handle, failures, leased, published,
                 expired, mode, accepted, stops, reconciles>>

\* Seeded fault: an item without a handle is submitted again.
KindResubmits(i) ==
  CASE status = "cancel_requested" -> "cancel"
    [] status # "cancel_requested" /\ handle[i] -> "poll"
    [] OTHER -> "submit"

\* What the claim decides to do with an item.
Kind(i) ==
  CASE status = "cancel_requested" -> "cancel"
    [] status # "cancel_requested" /\ handle[i] -> "poll"
    [] status # "cancel_requested" /\ ~handle[i] /\ item[i] = "queued" -> "submit"
    [] OTHER -> "reconcile"

\* The claim takes the lease and records a submission before it is made.
Claim(i) ==
  LET kind == Kind(i)
  IN
  /\ Claimable(i) /\ ~expired
  /\ leased' = [leased EXCEPT ![i] = TRUE]
  /\ worker' = [worker EXCEPT ![i] = [Idle EXCEPT !.at = "calling", !.kind = kind]]
  /\ \/ /\ kind = "submit"
        /\ attempts' = [attempts EXCEPT ![i] = Append(@, "maybe")]
        /\ item' = [item EXCEPT ![i] = "running"]
        /\ status' = "running"
     \/ /\ kind # "submit"
        /\ UNCHANGED <<attempts, item, status>>
  /\ UNCHANGED <<deleted, target, handle, failures, published, expired, mode,
                 accepted, stops, reconciles>>

-----------------------------------------------------------------------------
(* The provider's answer, and the transaction that settles it              *)

Calling(i, kinds) == worker[i].at = "calling" /\ worker[i].kind \in kinds

\* The provider accepts a submission, whatever becomes of its answer.
ProviderAccepts(i) ==
  /\ Calling(i, {"submit"}) /\ ~worker[i].sent
  /\ accepted' = [accepted EXCEPT ![i] = @ + 1]
  /\ worker' = [worker EXCEPT ![i].sent = TRUE]
  /\ UNCHANGED <<record, expired, mode, stops, reconciles>>

\* The end of finish: nothing but the handle is kept once the job is over.
Settle(i, s) ==
  IF status \in Final THEN UNCHANGED <<item, status>> ELSE Put(i, s)

Delivered(i, d) ==
  attempts' = IF status \in Final THEN attempts
              ELSE [attempts EXCEPT ![i][Len(attempts[i])] = Recorded(d)]

\* Seeded fault: a submission that was not sent is retried without end.
RetryAlways(i, d) ==
  CASE d = "not_sent" -> "queued"
    [] d = "rejected" -> "failed"
    [] OTHER -> "running"

\* What a failed submission makes of its item.
AfterFailure(i, d) ==
  CASE d = "not_sent" -> IF Len(attempts[i]) < MaxAttempts THEN "queued" ELSE "failed"
    [] d = "rejected" -> "failed"
    [] OTHER -> "running"

\* A submission failed.  Adapters report "not_sent" only for what the provider never
\* saw, and "rejected" for what it refused.
SubmitFails(i, d) ==
  /\ Calling(i, {"submit"})
  /\ worker[i].sent => d = "uncertain"
  /\ Delivered(i, d)
  /\ Settle(i, AfterFailure(i, d))
  /\ Leave(i)
  /\ UNCHANGED <<deleted, target, handle, failures, leased, published, expired, mode,
                 accepted, stops, reconciles>>

\* A lookup, or the preparation of the connection for any later call, failed.
QueryFails(i, e) ==
  LET gaveUp == e \in {"auth", "unsupported"} \/ failures[i] + 1 >= MaxQueryFailures
  IN
  /\ Calling(i, {"poll", "reconcile", "cancel"})
  /\ Settle(i, IF gaveUp THEN "result_unknown" ELSE "running")
  /\ failures' = IF status \in Final THEN failures
                 ELSE [failures EXCEPT ![i] = @ + 1]
  /\ Leave(i)
  /\ UNCHANGED <<deleted, target, attempts, handle, leased, published, expired, mode,
                 accepted, stops, reconciles>>

\* A call that the provider answers: a submission it accepted, or a lookup it supports.
Answered(i) ==
  \/ Calling(i, {"submit"}) /\ worker[i].sent
  \/ Calling(i, {"poll"})
  \/ Calling(i, {"reconcile"}) /\ target.reconcile

\* The provider answered without pictures; h says whether it gave a task handle.
CallReturns(i, state, h) ==
  LET known == handle[i] \/ h
  IN
  /\ Answered(i)
  /\ handle' = [handle EXCEPT ![i] = known]
  /\ failures' = IF status \in Final THEN failures ELSE [failures EXCEPT ![i] = 0]
  /\ Settle(i, CASE state = "pending" -> IF known THEN "running" ELSE "result_unknown"
                 [] state = "completed" ->
                      IF \E o \in Outs : published[i][o] > 0 THEN "succeeded" ELSE "failed"
                 [] state = "failed" -> "failed"
                 [] OTHER -> "result_unknown")
  /\ Leave(i)
  /\ UNCHANGED <<deleted, target, attempts, leased, published, expired, mode,
                 accepted, stops, reconciles>>

\* The provider answered with pictures: the item is saving before any of them is.
BeginSave(i, h, pictures) ==
  /\ Answered(i)
  /\ handle' = [handle EXCEPT ![i] = @ \/ h]
  /\ IF status \in Final THEN UNCHANGED <<item, status>>
     ELSE /\ item' = [item EXCEPT ![i] = "saving"]
          /\ status' = IF status = "cancel_requested" THEN status ELSE "saving"
  /\ worker' = [worker EXCEPT ![i].at = "saving", ![i].todo = pictures]
  /\ UNCHANGED <<deleted, target, attempts, failures, leased, published, expired, mode,
                 accepted, stops, reconciles>>

\* Seeded fault: a picture is published again when its call is repeated.
PublishAgain(i, o) ==
  /\ worker[i].at = "saving" /\ o \in worker[i].todo
  /\ published' = [published EXCEPT ![i][o] = @ + 1]
  /\ worker' = [worker EXCEPT ![i].todo = @ \ {o}]
  /\ UNCHANGED <<status, deleted, target, item, attempts, handle, failures, leased,
                 expired, mode, accepted, stops, reconciles>>

\* A downloaded picture is added to the job, unless a repeated lookup brought it again.
Publish(i, o) ==
  LET known == worker[i].kind # "submit" /\ published[i][o] > 0
  IN
  /\ worker[i].at = "saving" /\ o \in worker[i].todo
  /\ published' = [published EXCEPT ![i][o] = IF known THEN @ ELSE @ + 1]
  /\ worker' = [worker EXCEPT ![i].todo = @ \ {o}]
  /\ UNCHANGED <<status, deleted, target, item, attempts, handle, failures, leased,
                 expired, mode, accepted, stops, reconciles>>

\* A picture could not be saved: three downloads failed or the deadline passed.
SaveFails(i, o) ==
  /\ worker[i].at = "saving" /\ o \in worker[i].todo
  /\ worker' = [worker EXCEPT ![i].todo = @ \ {o}, ![i].lost = TRUE]
  /\ UNCHANGED <<record, expired, mode, accepted, stops, reconciles>>

\* Every picture was tried: the item is settled by what was saved, now or earlier.
FinishSaved(i) ==
  LET some == \E o \in Outs : published[i][o] > 0
  IN
  /\ worker[i].at = "saving" /\ worker[i].todo = {}
  /\ failures' = IF status \in Final THEN failures ELSE [failures EXCEPT ![i] = 0]
  /\ Settle(i, IF ~some THEN "failed"
               ELSE IF worker[i].lost THEN "partial_succeeded" ELSE "succeeded")
  /\ Leave(i)
  /\ UNCHANGED <<deleted, target, attempts, handle, leased, published, expired, mode,
                 accepted, stops, reconciles>>

\* finishCancel: the item is cancelled whatever the provider said.
CancelReturns(i) ==
  /\ Calling(i, {"cancel"})
  /\ Settle(i, "cancelled")
  /\ Leave(i)
  /\ UNCHANGED <<deleted, target, attempts, handle, failures, leased, published, expired,
                 mode, accepted, stops, reconciles>>

\* A shutdown cuts a call or a download off and leaves the record for the next start.
Abandon(i) ==
  /\ mode = "closing"
  /\ \/ worker[i].at = "calling" /\ worker[i].kind # "cancel"
     \/ worker[i].at = "saving" /\ worker[i].todo = {} /\ worker[i].lost /\ ~expired
  /\ Leave(i)
  /\ UNCHANGED <<record, expired, mode, accepted, stops, reconciles>>

\* The lease is released after everything else, and the goroutine is gone.
Release(i) ==
  /\ worker[i].at = "leaving"
  /\ leased' = [leased EXCEPT ![i] = FALSE]
  /\ worker' = [worker EXCEPT ![i] = Idle]
  /\ UNCHANGED <<status, deleted, target, item, attempts, handle, failures, published,
                 expired, mode, accepted, stops, reconciles>>

-----------------------------------------------------------------------------
(* Time, and the end and start of the process                              *)

Expire ==
  /\ status # "absent" /\ ~expired
  /\ expired' = TRUE
  /\ UNCHANGED <<record, mode, worker, accepted, stops, reconciles>>

\* Close: no new goroutines, and the running ones are awaited.
Shutdown ==
  /\ mode = "up" /\ stops < MaxStops
  /\ mode' = "closing" /\ stops' = stops + 1
  /\ UNCHANGED <<record, expired, worker, accepted, reconciles>>

Stopped ==
  /\ mode = "closing" /\ Running = {}
  /\ mode' = "down"
  /\ UNCHANGED <<record, expired, worker, accepted, stops, reconciles>>

Crash ==
  /\ mode # "down" /\ stops < MaxStops
  /\ mode' = "down" /\ stops' = stops + 1
  /\ worker' = [i \in Items |-> Idle]
  /\ UNCHANGED <<record, expired, accepted, reconciles>>

\* Start: recoverLeases, for deleted jobs too ...
RecoverLeases ==
  /\ mode = "down"
  /\ mode' = "recovering"
  /\ leased' = [i \in Items |-> FALSE]
  /\ UNCHANGED <<status, deleted, target, item, attempts, handle, failures, published,
                 expired, worker, accepted, stops, reconciles>>

\* ... and then the items, of which none goes back to the queue.
RecoverJob ==
  LET interrupted(i) ==
        \/ item[i] = "saving"
        \/ /\ item[i] = "queued" /\ attempts[i] # <<>>
           /\ attempts[i][Len(attempts[i])] = "maybe"
      found == {i \in Items : interrupted(i)}
  IN
  /\ mode = "recovering"
  /\ mode' = "up"
  /\ IF Live /\ status \notin Final /\ found # {}
     THEN /\ item' = [i \in Items |-> IF i \in found THEN "running" ELSE item[i]]
          /\ status' = Aggregate(status, item')
     ELSE UNCHANGED <<item, status>>
  /\ UNCHANGED <<deleted, target, attempts, handle, failures, leased, published, expired,
                 worker, accepted, stops, reconciles>>

-----------------------------------------------------------------------------
Work(i) ==
  \/ Claim(i) \/ ClaimLate(i) \/ ClaimNothing(i)
  \/ ProviderAccepts(i)
  \/ \E d \in Deliveries : SubmitFails(i, d)
  \/ \E e \in {"auth", "unsupported", "transient"} : QueryFails(i, e)
  \/ \E state \in {"pending", "completed", "failed", "unknown"}, h \in BOOLEAN :
       CallReturns(i, state, h)
  \/ \E h \in BOOLEAN, pictures \in SUBSET Outs \ {{}} : BeginSave(i, h, pictures)
  \/ \E o \in Outs : Publish(i, o) \/ SaveFails(i, o)
  \/ FinishSaved(i) \/ CancelReturns(i) \/ Abandon(i) \/ Release(i)

Next ==
  \/ Create \/ CancelJob \/ ReconcileJob \/ DeleteJob
  \/ \E i \in Items : Pick(i) \/ Work(i)
  \/ Expire \/ Shutdown \/ Stopped \/ Crash \/ RecoverLeases \/ RecoverJob

Spec == Init /\ [][Next]_vars

\* The dispatcher and its goroutines keep running, calls and downloads have time-outs,
\* time passes, and a process that ended is started again.
Fairness ==
  /\ \A i \in Items : WF_vars(Pick(i)) /\ WF_vars(Work(i))
  /\ WF_vars(Expire) /\ WF_vars(Stopped) /\ WF_vars(RecoverLeases) /\ WF_vars(RecoverJob)

FairSpec == Spec /\ Fairness

-----------------------------------------------------------------------------
(* Properties                                                              *)

\* Every variable has its type; an item is submitted at most MaxAttempts times.
TypeOK ==
  /\ status \in Statuses \cup {"absent", "cancel_requested"}
  /\ deleted \in BOOLEAN /\ expired \in BOOLEAN
  /\ target \in [cancel : BOOLEAN, reconcile : BOOLEAN]
  /\ item \in [Items -> Statuses]
  /\ attempts \in [Items -> Seq(Attempt)]
  /\ \A i \in Items : Len(attempts[i]) <= MaxAttempts
  /\ handle \in [Items -> BOOLEAN]
  /\ failures \in [Items -> 0 .. MaxQueryFailures]
  /\ leased \in [Items -> BOOLEAN]
  /\ published \in [Items -> [Outs -> Nat]]
  /\ mode \in {"down", "recovering", "up", "closing"}
  /\ worker \in [Items -> Worker]
  /\ accepted \in [Items -> Nat]
  /\ stops \in 0 .. MaxStops /\ reconciles \in 0 .. MaxReconciles

\* An image is paid for at most once: whatever crashes, time-outs, retries and reopenings
\* happen, the provider never accepts a second submission of an item.
ChargedOnce == \A i \in Items : accepted[i] <= 1

\* A picture the provider made is added to the job once, also when a crash between its
\* publication and the end of its item makes the next worker fetch it again.
PublishedOnce == \A i \in Items, o \in Outs : published[i][o] <= 1

\* Both: neither the user's money nor the job's gallery shows that anything was repeated.
OncePerItem == ChargedOnce /\ PublishedOnce

\* A job is over exactly when all its items are: no cancellation, late answer or
\* restart leaves a job that nothing will ever finish.
NeverStuck == status \in Final <=> \A i \in Items : item[i] \in Final

\* While the process runs, an item has a lease exactly while a worker uses it, and a job
\* with one is not deleted, though it may have been cancelled long ago.
LeaseCoversWork ==
  /\ \A i \in Holding : leased[i] /\ ~deleted
  /\ mode # "down" => \A i \in Items : leased[i] => i \in Holding

\* A job that is over keeps its status, items and submissions, although workers may
\* still be answering for it; only an unknown one is reopened.  Once a cancellation is
\* requested nothing more is submitted.
SettledStays ==
  [][/\ status \in Final \ {"result_unknown"} => UNCHANGED <<status, item, attempts>>
     /\ status = "cancel_requested" => \A i \in Items : Len(attempts'[i]) = Len(attempts[i])]_vars

\* Every accepted job is over eventually, or was deleted when it was.
JobSettles == status # "absent" ~> status \in Final

-----------------------------------------------------------------------------
(* The inductive invariant: the invariants above, and why they stay        *)

\* A worker between its claim and its settling transaction.
Working(i) == worker[i].at \in {"calling", "saving"}

\* Goroutines belong to a process that has recovered.
DownIsIdle == mode \in {"down", "recovering"} => \A i \in Items : worker[i].at = "idle"

\* Only a cancellation ends a job under a working goroutine; otherwise its item is open,
\* and back in the queue only if a cancellation is pending.
WorkIsOpen ==
  \A i \in Items : Working(i) =>
    /\ status # "absent" /\ (status \in Final => status = "cancelled")
    /\ status \notin Final => item[i] \notin Final
    /\ item[i] = "queued" => status \in Final \cup {"cancel_requested"}
    /\ worker[i].at = "saving" => item[i] # "queued"

\* A queued item left no trace at the provider, and may be submitted once more.
QueuedIsUnsent ==
  \A i \in Items : item[i] = "queued" =>
    /\ accepted[i] = 0 /\ ~handle[i]
    /\ \A o \in Outs : published[i][o] = 0
    /\ Len(attempts[i]) < MaxAttempts

\* What holds of the call that submits an item.
SubmissionIsFirst ==
  \A i \in Items : worker[i].kind = "submit" =>
    /\ worker[i].at \in {"calling", "saving"}
    /\ attempts[i] # <<>> /\ item[i] # "queued"
    /\ worker[i].at = "calling" =>
         /\ ~handle[i]
         /\ accepted[i] = IF worker[i].sent THEN 1 ELSE 0
         /\ \A o \in Outs : published[i][o] = 0
    /\ worker[i].at = "saving" => \A o \in worker[i].todo : published[i][o] = 0

\* An open item may fail at least one more lookup.
LookupsLeft == \A i \in Items : item[i] \notin Final => failures[i] < MaxQueryFailures

\* A job with an unknown result has an item to reopen.
UnknownHasItem == status = "result_unknown" => \E i \in Items : item[i] = "result_unknown"

IInv ==
  /\ TypeOK /\ NeverStuck /\ LeaseCoversWork /\ ChargedOnce /\ PublishedOnce
  /\ DownIsIdle /\ WorkIsOpen /\ QueuedIsUnsent /\ SubmissionIsFirst /\ LookupsLeft
  /\ UnknownHasItem

=============================================================================
