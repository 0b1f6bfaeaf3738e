-------------------------- MODULE ImageJobs_proofs --------------------------
(***************************************************************************)
(* Theorems of ImageJobs, for every number of items, pictures, attempts,   *)
(* stops and reopenings.  IInv is shown inductive; what the runs check     *)
(* follows from it.                                                        *)
(***************************************************************************)
EXTENDS ImageJobs, TLAPS, SequenceTheorems

JobStatuses == Statuses \cup {"absent", "cancel_requested"}

(* What aggregateJob makes of a job that is not over. *)
LEMMA AggregateOpen ==
  ASSUME NEW s \in JobStatuses \ Final, NEW its \in [Items -> Statuses]
  PROVE  /\ Aggregate(s, its) \in JobStatuses
         /\ Aggregate(s, its) # "absent"
         /\ Aggregate(s, its) \in Final <=> \A i \in Items : its[i] \in Final
         /\ Aggregate(s, its) \notin Final =>
              Aggregate(s, its) = IF s = "cancel_requested" THEN s ELSE "running"
         /\ Aggregate(s, its) = "result_unknown" =>
              \E i \in Items : its[i] = "result_unknown"
<1>1. CASE \A i \in Items : its[i] \in Final
  BY <1>1 DEF Aggregate, JobStatuses, Statuses, Final
<1>2. CASE \E i \in Items : its[i] \in Statuses \ Final
  BY <1>2 DEF Aggregate, JobStatuses, Statuses, Final
<1> QED BY <1>1, <1>2

(* A job that is over keeps its status. *)
LEMMA AggregateFinal ==
  ASSUME NEW s \in Final, NEW its
  PROVE  Aggregate(s, its) = s
BY DEF Aggregate

(* A status with which an item leaves no open work behind it is seen in the job. *)
LEMMA SettleFacts ==
  ASSUME TypeOK, NeverStuck, status # "absent",
         NEW i \in Items, NEW s \in Statuses, Settle(i, s)
  PROVE  /\ item' \in [Items -> Statuses]
         /\ \A j \in Items : j # i => item'[j] = item[j]
         /\ status \in Final => item' = item /\ status' = status
         /\ status \notin Final => item'[i] = s
         /\ status' \in JobStatuses /\ status' # "absent"
         /\ status' \in Final <=> \A j \in Items : item'[j] \in Final
         /\ status \notin Final /\ status' \notin Final =>
              status' = IF status = "cancel_requested" THEN status ELSE "running"
         /\ status \notin Final /\ status' = "result_unknown" =>
              \E j \in Items : item'[j] = "result_unknown"
<1>1. CASE status \in Final
  BY <1>1 DEF Settle, TypeOK, NeverStuck, JobStatuses, Statuses, Final
<1>2. CASE status \notin Final
  <2>1. item' = [item EXCEPT ![i] = s] /\ status' = Aggregate(status, item')
    BY <1>2 DEF Settle, Put
  <2>2. item \in [Items -> Statuses] /\ status \in JobStatuses \ Final
    BY <1>2 DEF TypeOK, JobStatuses
  <2>3. item' \in [Items -> Statuses] /\ item'[i] = s
        /\ \A j \in Items : j # i => item'[j] = item[j]
    BY <2>1, <2>2
  <2> QED BY <1>2, <2>1, <2>2, <2>3, AggregateOpen
<1> QED BY <1>1, <1>2

LEMMA LeaveFacts ==
  ASSUME TypeOK, NEW i \in Items, Leave(i)
  PROVE  /\ worker' \in [Items -> Worker]
         /\ worker'[i].at = "leaving" /\ worker'[i].kind = "none"
         /\ \A j \in Items : j # i => worker'[j] = worker[j]
BY DEF TypeOK, Leave, Idle, Worker

-----------------------------------------------------------------------------
(* The transactions that settle an item at the end of its call. *)
LEMMA SettlingInv ==
  ASSUME IInv, NEW i \in Items, Working(i), NEW s \in Statuses, Settle(i, s), Leave(i),
         UNCHANGED <<deleted, target, leased, published, expired, mode, accepted, stops,
                     reconciles>>,
         attempts' \in [Items -> Seq(Attempt)],
         Len(attempts'[i]) = Len(attempts[i]),
         \A j \in Items : j # i => attempts'[j] = attempts[j],
         handle' \in [Items -> BOOLEAN],
         \A j \in Items : j # i => handle'[j] = handle[j],
         failures' \in [Items -> 0 .. MaxQueryFailures],
         \A j \in Items : j # i => failures'[j] = failures[j],
         status \notin Final /\ s \notin Final => failures'[i] < MaxQueryFailures,
         s = "queued" => /\ accepted[i] = 0 /\ ~handle'[i]
                         /\ \A o \in Outs : published[i][o] = 0
                         /\ Len(attempts[i]) < MaxAttempts
  PROVE  IInv'
<1> USE DEF IInv
<1>1. status # "absent" /\ (status \in Final => item[i] \in Final)
  BY DEF WorkIsOpen, NeverStuck
<1>2. /\ item' \in [Items -> Statuses]
      /\ \A j \in Items : j # i => item'[j] = item[j]
      /\ status \in Final => item' = item /\ status' = status
      /\ status \notin Final => item'[i] = s
      /\ status' \in JobStatuses /\ status' # "absent"
      /\ status' \in Final <=> \A j \in Items : item'[j] \in Final
      /\ status \notin Final /\ status' \notin Final =>
           status' = IF status = "cancel_requested" THEN status ELSE "running"
      /\ status \notin Final /\ status' = "result_unknown" =>
           \E j \in Items : item'[j] = "result_unknown"
  BY <1>1, SettleFacts
<1>3. /\ worker' \in [Items -> Worker]
      /\ worker'[i].at = "leaving" /\ worker'[i].kind = "none"
      /\ \A j \in Items : j # i => worker'[j] = worker[j]
  BY LeaveFacts
<1>4. TypeOK'
  BY <1>2, <1>3 DEF TypeOK, JobStatuses
<1>5. NeverStuck'
  BY <1>2 DEF NeverStuck
<1>6. LeaseCoversWork'
  BY <1>3 DEF LeaseCoversWork, Holding, Working
<1>7. ChargedOnce' /\ PublishedOnce'
  BY DEF ChargedOnce, PublishedOnce
<1>8. DownIsIdle'
  BY <1>3 DEF DownIsIdle, Working
<1>9. WorkIsOpen'
  BY <1>2, <1>3 DEF WorkIsOpen, Working, Final
<1>10. QueuedIsUnsent'
  BY <1>1, <1>2 DEF QueuedIsUnsent, Final
<1>11. SubmissionIsFirst'
  <2>1. SubmissionIsFirst /\ accepted' = accepted /\ published' = published
    OBVIOUS
  <2> SUFFICES ASSUME NEW j \in Items, worker'[j].kind = "submit"
               PROVE  /\ worker'[j].at \in {"calling", "saving"}
                      /\ attempts'[j] # <<>> /\ item'[j] # "queued"
                      /\ worker'[j].at = "calling" =>
                           /\ ~handle'[j]
                           /\ accepted'[j] = IF worker'[j].sent THEN 1 ELSE 0
                           /\ \A o \in Outs : published'[j][o] = 0
                      /\ worker'[j].at = "saving" =>
                           \A o \in worker'[j].todo : published'[j][o] = 0
    BY DEF SubmissionIsFirst
  <2> HIDE DEF IInv
  <2>2. j # i
    BY <1>3
  <2>3. /\ worker'[j] = worker[j] /\ item'[j] = item[j]
        /\ attempts'[j] = attempts[j] /\ (handle'[j] <=> handle[j])
    BY <1>2, <1>3, <2>2
  <2> QED BY <2>1, <2>3 DEF SubmissionIsFirst
<1>12. LookupsLeft'
  <2>1. item'[i] \notin Final => failures'[i] < MaxQueryFailures
    BY <1>1, <1>2
  <2>2. \A j \in Items : j # i => item'[j] = item[j] /\ failures'[j] = failures[j]
    BY <1>2
  <2> QED BY <2>1, <2>2 DEF LookupsLeft
<1>13. UnknownHasItem'
  BY <1>2 DEF UnknownHasItem, Final
<1> QED BY <1>4, <1>5, <1>6, <1>7, <1>8, <1>9, <1>10, <1>11, <1>12, <1>13

LEMMA SubmitFailsInv ==
  ASSUME IInv, NEW i \in Items, NEW d \in Deliveries, SubmitFails(i, d)
  PROVE  IInv'
<1> USE DEF IInv
<1>1. Working(i) /\ worker[i].kind = "submit" /\ worker[i].at = "calling"
  BY DEF SubmitFails, Calling, Working
<1>2. AfterFailure(i, d) \in Statuses
  BY DEF AfterFailure, Statuses, Final
<1>3. /\ attempts' \in [Items -> Seq(Attempt)]
      /\ Len(attempts'[i]) = Len(attempts[i])
      /\ \A j \in Items : j # i => attempts'[j] = attempts[j]
  <2>1. CASE status \in Final
    BY <2>1 DEF SubmitFails, Delivered, TypeOK
  <2>2. CASE status \notin Final
    <3>1. attempts' = [attempts EXCEPT ![i] = [@ EXCEPT ![Len(attempts[i])] = Recorded(d)]]
      BY <2>2 DEF SubmitFails, Delivered
    <3>2. attempts \in [Items -> Seq(Attempt)] /\ Recorded(d) \in Attempt
      BY DEF TypeOK, Recorded, Attempt
    <3>3. attempts[i] \in Seq(Attempt) /\ Len(attempts[i]) \in 1 .. Len(attempts[i])
      BY <1>1, <3>2 DEF SubmissionIsFirst
    <3>4. /\ [attempts[i] EXCEPT ![Len(attempts[i])] = Recorded(d)] \in Seq(Attempt)
          /\ Len([attempts[i] EXCEPT ![Len(attempts[i])] = Recorded(d)]) = Len(attempts[i])
      BY <3>2, <3>3, ExceptSeq
    <3> QED BY <3>1, <3>2, <3>4
  <2> QED BY <2>1, <2>2
<1>4. AfterFailure(i, d) = "queued" =>
        /\ accepted[i] = 0 /\ ~handle[i]
        /\ \A o \in Outs : published[i][o] = 0
        /\ Len(attempts[i]) < MaxAttempts
  BY <1>1 DEF SubmitFails, AfterFailure, SubmissionIsFirst, Deliveries
<1>5. status \notin Final => failures[i] < MaxQueryFailures
  BY <1>1 DEF WorkIsOpen, LookupsLeft
<1> QED BY <1>1, <1>2, <1>3, <1>4, <1>5, SettlingInv DEF SubmitFails, TypeOK

LEMMA QueryFailsInv ==
  ASSUME IInv, NEW i \in Items, NEW e, QueryFails(i, e)
  PROVE  IInv'
<1> USE DEF IInv
<1> DEFINE gaveUp == e \in {"auth", "unsupported"} \/ failures[i] + 1 >= MaxQueryFailures
           s == IF gaveUp THEN "result_unknown" ELSE "running"
<1>1. Working(i)
  BY DEF QueryFails, Calling, Working
<1>2. s \in Statuses /\ s # "queued" /\ (s \notin Final => ~gaveUp)
  BY DEF Statuses, Final
<1>3. Settle(i, s) /\ Leave(i)
  BY DEF QueryFails
<1>4. failures \in [Items -> 0 .. MaxQueryFailures] /\ MaxQueryFailures \in Nat
  BY LimitsPositive DEF TypeOK
<1>5. failures[i] \in 0 .. MaxQueryFailures
      /\ (status \notin Final => failures[i] < MaxQueryFailures)
  BY <1>1, <1>4 DEF WorkIsOpen, LookupsLeft
<1>6. failures' = IF status \in Final THEN failures ELSE [failures EXCEPT ![i] = @ + 1]
  BY DEF QueryFails
<1>7. /\ failures' \in [Items -> 0 .. MaxQueryFailures]
      /\ \A j \in Items : j # i => failures'[j] = failures[j]
      /\ status \notin Final => failures'[i] = failures[i] + 1
  BY <1>4, <1>5, <1>6
<1>8. status \notin Final /\ s \notin Final => failures'[i] < MaxQueryFailures
  BY <1>2, <1>4, <1>5, <1>7
<1>9. /\ UNCHANGED <<deleted, target, attempts, handle, leased, published, expired, mode,
                     accepted, stops, reconciles>>
      /\ attempts \in [Items -> Seq(Attempt)] /\ handle \in [Items -> BOOLEAN]
  BY DEF QueryFails, TypeOK
<1> HIDE DEF s, gaveUp
<1> QED BY <1>1, <1>2, <1>3, <1>7, <1>8, <1>9, SettlingInv

LEMMA CallReturnsInv ==
  ASSUME IInv, NEW i \in Items, NEW state, NEW h \in BOOLEAN, CallReturns(i, state, h)
  PROVE  IInv'
<1> USE DEF IInv
<1> DEFINE known == handle[i] \/ h
           s == CASE state = "pending" -> IF known THEN "running" ELSE "result_unknown"
                  [] state = "completed" ->
                       IF \E o \in Outs : published[i][o] > 0 THEN "succeeded" ELSE "failed"
                  [] state = "failed" -> "failed"
                  [] OTHER -> "result_unknown"
<1>1. Working(i)
  BY DEF CallReturns, Answered, Calling, Working
<1>2. s \in Statuses /\ s # "queued"
  <2>1. CASE state = "pending"
    BY <2>1 DEF Statuses, Final
  <2>2. CASE state = "completed"
    BY <2>2 DEF Statuses, Final
  <2>3. CASE state \notin {"pending", "completed"}
    BY <2>3 DEF Statuses, Final
  <2> QED BY <2>1, <2>2, <2>3
<1>3. Settle(i, s) /\ Leave(i)
  BY DEF CallReturns
<1>4. handle' = [handle EXCEPT ![i] = known] /\ handle \in [Items -> BOOLEAN]
  BY DEF CallReturns, TypeOK
<1>5. /\ handle' \in [Items -> BOOLEAN]
      /\ \A j \in Items : j # i => handle'[j] = handle[j]
  BY <1>4
<1>6. failures \in [Items -> 0 .. MaxQueryFailures] /\ MaxQueryFailures \in Nat \ {0}
  BY LimitsPositive DEF TypeOK
<1>7. failures' = IF status \in Final THEN failures ELSE [failures EXCEPT ![i] = 0]
  BY DEF CallReturns
<1>8. /\ failures' \in [Items -> 0 .. MaxQueryFailures]
      /\ \A j \in Items : j # i => failures'[j] = failures[j]
      /\ status \notin Final => failures'[i] < MaxQueryFailures
  BY <1>6, <1>7
<1>9. /\ UNCHANGED <<deleted, target, attempts, leased, published, expired, mode,
                     accepted, stops, reconciles>>
      /\ attempts \in [Items -> Seq(Attempt)]
  BY DEF CallReturns, TypeOK
<1> HIDE DEF s, known
<1> QED BY <1>1, <1>2, <1>3, <1>5, <1>8, <1>9, SettlingInv

LEMMA FinishSavedInv ==
  ASSUME IInv, NEW i \in Items, FinishSaved(i)
  PROVE  IInv'
<1> USE DEF IInv
<1> DEFINE some == \E o \in Outs : published[i][o] > 0
           s == IF ~some THEN "failed"
                ELSE IF worker[i].lost THEN "partial_succeeded" ELSE "succeeded"
<1>1. Working(i)
  BY DEF FinishSaved, Working
<1>2. s \in Statuses /\ s # "queued"
  BY DEF Statuses, Final
<1>3. Settle(i, s) /\ Leave(i)
  BY DEF FinishSaved
<1>4. failures \in [Items -> 0 .. MaxQueryFailures] /\ MaxQueryFailures \in Nat \ {0}
  BY LimitsPositive DEF TypeOK
<1>5. failures' = IF status \in Final THEN failures ELSE [failures EXCEPT ![i] = 0]
  BY DEF FinishSaved
<1>6. /\ failures' \in [Items -> 0 .. MaxQueryFailures]
      /\ \A j \in Items : j # i => failures'[j] = failures[j]
      /\ status \notin Final => failures'[i] < MaxQueryFailures
  BY <1>4, <1>5
<1>7. /\ UNCHANGED <<deleted, target, attempts, handle, leased, published, expired, mode,
                     accepted, stops, reconciles>>
      /\ attempts \in [Items -> Seq(Attempt)] /\ handle \in [Items -> BOOLEAN]
  BY DEF FinishSaved, TypeOK
<1> HIDE DEF s, some
<1> QED BY <1>1, <1>2, <1>3, <1>6, <1>7, SettlingInv

LEMMA CancelReturnsInv ==
  ASSUME IInv, NEW i \in Items, CancelReturns(i)
  PROVE  IInv'
<1> USE DEF IInv
<1>1. Working(i)
  BY DEF CancelReturns, Calling, Working
<1>2. "cancelled" \in Statuses \cap Final
  BY DEF Statuses, Final
<1> QED BY <1>1, <1>2, SettlingInv DEF CancelReturns, TypeOK

(* Steps of the dispatcher and of the claim. *)
LEMMA PickInv ==
  ASSUME IInv, NEW i \in Items, Pick(i)
  PROVE  IInv'
<1> USE DEF IInv
<1>1. worker[i].at = "idle" /\ worker[i].kind = "none" /\ mode = "up"
  BY DEF Pick, Idle
<1>2. /\ worker' \in [Items -> Worker]
      /\ worker'[i].at = "picked" /\ worker'[i].kind = "none"
      /\ \A j \in Items : j # i => worker'[j] = worker[j]
  BY <1>1, ZenonT(60) DEF Pick, TypeOK, Worker
<1>3. UNCHANGED <<record, expired, mode, accepted, stops, reconciles>>
  BY DEF Pick
<1>4. TypeOK'
  BY <1>2, <1>3 DEF TypeOK, record
<1>5. NeverStuck'
  BY <1>3 DEF NeverStuck, record
<1>6. LeaseCoversWork'
  BY <1>1, <1>2, <1>3 DEF LeaseCoversWork, Holding, record
<1>7. ChargedOnce'
  BY <1>3 DEF ChargedOnce, record
<1>8. PublishedOnce'
  BY <1>3 DEF PublishedOnce, record
<1>9. DownIsIdle'
  BY <1>1, <1>2, <1>3 DEF DownIsIdle, record
<1>10. WorkIsOpen'
  BY <1>1, <1>2, <1>3 DEF WorkIsOpen, Working, record
<1>11. QueuedIsUnsent'
  BY <1>3 DEF QueuedIsUnsent, record
<1>12. SubmissionIsFirst'
  BY <1>1, <1>2, <1>3 DEF SubmissionIsFirst, record
<1>13. LookupsLeft'
  BY <1>3 DEF LookupsLeft, record
<1>14. UnknownHasItem'
  BY <1>3 DEF UnknownHasItem, record
<1> QED BY <1>4, <1>5, <1>6, <1>7, <1>8, <1>9, <1>10, <1>11, <1>12, <1>13, <1>14

LEMMA ClaimNothingInv ==
  ASSUME IInv, NEW i \in Items, ClaimNothing(i)
  PROVE  IInv'
<1> USE DEF IInv
<1>1. worker[i].at = "picked"
  BY DEF ClaimNothing
<1>2. /\ worker' \in [Items -> Worker]
      /\ worker'[i].at = "idle" /\ worker'[i].kind = "none"
      /\ \A j \in Items : j # i => worker'[j] = worker[j]
  BY DEF ClaimNothing, TypeOK, Worker, Idle
<1>3. UNCHANGED <<record, expired, mode, accepted, stops, reconciles>>
  BY DEF ClaimNothing
<1>4. TypeOK'
  BY <1>2, <1>3 DEF TypeOK, record
<1>5. NeverStuck'
  BY <1>3 DEF NeverStuck, record
<1>6. LeaseCoversWork'
  BY <1>1, <1>2, <1>3 DEF LeaseCoversWork, Holding, record
<1>7. ChargedOnce'
  BY <1>3 DEF ChargedOnce, record
<1>8. PublishedOnce'
  BY <1>3 DEF PublishedOnce, record
<1>9. DownIsIdle'
  BY <1>1, <1>2, <1>3 DEF DownIsIdle, record
<1>10. WorkIsOpen'
  BY <1>1, <1>2, <1>3 DEF WorkIsOpen, Working, record
<1>11. QueuedIsUnsent'
  BY <1>3 DEF QueuedIsUnsent, record
<1>12. SubmissionIsFirst'
  BY <1>1, <1>2, <1>3 DEF SubmissionIsFirst, record
<1>13. LookupsLeft'
  BY <1>3 DEF LookupsLeft, record
<1>14. UnknownHasItem'
  BY <1>3 DEF UnknownHasItem, record
<1> QED BY <1>4, <1>5, <1>6, <1>7, <1>8, <1>9, <1>10, <1>11, <1>12, <1>13, <1>14

LEMMA ClaimLateInv ==
  ASSUME IInv, NEW i \in Items, ClaimLate(i)
  PROVE  IInv'
<1> USE DEF IInv
<1>1. /\ worker[i].at = "picked" /\ status # "absent" /\ status \notin Final
      /\ UNCHANGED <<deleted, target, attempts, handle, failures, leased, published,
                     expired, mode, accepted, stops, reconciles>>
  BY DEF ClaimLate, Claimable, Live
<1>2. /\ worker' \in [Items -> Worker]
      /\ worker'[i].at = "idle" /\ worker'[i].kind = "none"
      /\ \A j \in Items : j # i => worker'[j] = worker[j]
  BY DEF ClaimLate, TypeOK, Worker, Idle
<1>3. PICK s \in Final \cap Statuses : Settle(i, s)
  BY <1>1 DEF ClaimLate, Settle, Final, Statuses
<1>4. /\ item' \in [Items -> Statuses] /\ item'[i] \in Final
      /\ \A j \in Items : j # i => item'[j] = item[j]
      /\ status' \in JobStatuses /\ status' # "absent"
      /\ status' \in Final <=> \A j \in Items : item'[j] \in Final
      /\ status' \notin Final =>
           status' = IF status = "cancel_requested" THEN status ELSE "running"
      /\ status' = "result_unknown" => \E j \in Items : item'[j] = "result_unknown"
  BY <1>1, <1>3, SettleFacts
<1>5. TypeOK'
  BY <1>1, <1>2, <1>4 DEF TypeOK, JobStatuses
<1>6. NeverStuck'
  BY <1>1, <1>3, <1>4 DEF NeverStuck, Final
<1>7. LeaseCoversWork'
  BY <1>1, <1>2 DEF LeaseCoversWork, Holding
<1>8. ChargedOnce'
  BY <1>1 DEF ChargedOnce
<1>9. PublishedOnce'
  BY <1>1 DEF PublishedOnce
<1>10. DownIsIdle'
  BY <1>1, <1>2 DEF DownIsIdle
<1>11. WorkIsOpen'
  BY <1>1, <1>2, <1>3, <1>4 DEF WorkIsOpen, Working, Final
<1>12. QueuedIsUnsent'
  BY <1>1, <1>4 DEF QueuedIsUnsent, Final
<1>13. SubmissionIsFirst'
  BY <1>1, <1>2, <1>4 DEF SubmissionIsFirst, Final
<1>14. LookupsLeft'
  BY <1>1, <1>3, <1>4 DEF LookupsLeft, Final
<1>15. UnknownHasItem'
  BY <1>1, <1>3, <1>4 DEF UnknownHasItem, Final
<1> QED BY <1>5, <1>6, <1>7, <1>8, <1>9, <1>10, <1>11, <1>12, <1>13, <1>14, <1>15

LEMMA ClaimQueryInv ==
  ASSUME IInv, NEW i \in Items, Claim(i), Kind(i) # "submit"
  PROVE  IInv'
<1> USE DEF IInv
<1>1. /\ worker[i].at = "picked" /\ Live /\ status \notin Final /\ item[i] \notin Final
      /\ UNCHANGED <<deleted, target, handle, failures, published, expired, mode,
                     accepted, stops, reconciles>>
  BY DEF Claim, Claimable
<1>2. mode \notin {"down", "recovering"}
  BY <1>1 DEF DownIsIdle
<1>3. Kind(i) \in {"poll", "reconcile", "cancel"}
  BY DEF Kind
<1>4. /\ worker' \in [Items -> Worker]
      /\ worker'[i].at = "calling" /\ worker'[i].kind = Kind(i)
      /\ \A j \in Items : j # i => worker'[j] = worker[j]
  BY <1>3 DEF Claim, TypeOK, Worker, Idle
<1>5. /\ leased' \in [Items -> BOOLEAN] /\ leased'[i]
      /\ \A j \in Items : j # i => leased'[j] = leased[j]
  BY DEF Claim, TypeOK
<1>6. UNCHANGED <<attempts, item, status>>
  BY DEF Claim
<1>7. status # "cancel_requested" => item[i] # "queued"
  BY DEF Kind, QueuedIsUnsent
<1>8. TypeOK'
  BY <1>1, <1>4, <1>5, <1>6 DEF TypeOK
<1>9. NeverStuck'
  BY <1>1, <1>3, <1>6, <1>7 DEF NeverStuck
<1>10. LeaseCoversWork'
  BY <1>1, <1>2, <1>4, <1>5 DEF LeaseCoversWork, Holding, Live
<1>11. ChargedOnce'
  BY <1>1 DEF ChargedOnce
<1>12. PublishedOnce'
  BY <1>1 DEF PublishedOnce
<1>13. DownIsIdle'
  BY <1>1, <1>2, <1>4 DEF DownIsIdle
<1>14. WorkIsOpen'
  BY <1>1, <1>4, <1>6, <1>7 DEF WorkIsOpen, Working, Live
<1>15. QueuedIsUnsent'
  BY <1>1, <1>3, <1>6, <1>7 DEF QueuedIsUnsent
<1>16. SubmissionIsFirst'
  BY <1>1, <1>3, <1>4, <1>6, <1>7 DEF SubmissionIsFirst
<1>17. LookupsLeft'
  BY <1>1, <1>3, <1>6, <1>7 DEF LookupsLeft
<1>18. UnknownHasItem'
  BY <1>1, <1>3, <1>6, <1>7 DEF UnknownHasItem
<1> QED BY <1>8, <1>9, <1>10, <1>11, <1>12, <1>13, <1>14, <1>15, <1>16, <1>17, <1>18

LEMMA ClaimSubmitInv ==
  ASSUME IInv, NEW i \in Items, Claim(i), Kind(i) = "submit"
  PROVE  IInv'
<1> USE DEF IInv
<1>1. /\ worker[i].at = "picked" /\ Live /\ status \notin Final /\ item[i] \notin Final
      /\ UNCHANGED <<deleted, target, handle, failures, published, expired, mode,
                     accepted, stops, reconciles>>
  BY DEF Claim, Claimable
<1>2. mode \notin {"down", "recovering"}
  BY <1>1 DEF DownIsIdle
<1>3. status # "cancel_requested" /\ ~handle[i] /\ item[i] = "queued"
  BY DEF Kind
<1>4. /\ worker' \in [Items -> Worker]
      /\ worker'[i].at = "calling" /\ worker'[i].kind = "submit"
      /\ \A j \in Items : j # i => worker'[j] = worker[j]
      /\ ~worker'[i].sent
  BY DEF Claim, TypeOK, Worker, Idle
<1>5. /\ leased' \in [Items -> BOOLEAN] /\ leased'[i]
      /\ \A j \in Items : j # i => leased'[j] = leased[j]
  BY DEF Claim, TypeOK
<1>6. /\ status' = "running"
      /\ item' = [item EXCEPT ![i] = "running"]
      /\ attempts' = [attempts EXCEPT ![i] = Append(@, "maybe")]
  BY DEF Claim
<1>7. /\ item' \in [Items -> Statuses] /\ item'[i] = "running"
      /\ \A j \in Items : j # i => item'[j] = item[j]
  BY <1>6 DEF TypeOK, Statuses
<1>8. /\ attempts \in [Items -> Seq(Attempt)] /\ "maybe" \in Attempt
      /\ Append(attempts[i], "maybe") \in Seq(Attempt)
      /\ Len(Append(attempts[i], "maybe")) = Len(attempts[i]) + 1
  BY AppendProperties DEF TypeOK, Attempt
<1>9. /\ attempts' \in [Items -> Seq(Attempt)]
      /\ Len(attempts'[i]) = Len(attempts[i]) + 1 /\ attempts'[i] # <<>>
      /\ \A j \in Items : j # i => attempts'[j] = attempts[j]
  BY <1>6, <1>8
<1>10. Len(attempts[i]) \in Nat /\ Len(attempts'[i]) <= MaxAttempts
  BY <1>3, <1>8, <1>9, LimitsPositive DEF QueuedIsUnsent
<1>11. TypeOK'
  BY <1>1, <1>4, <1>5, <1>6, <1>7, <1>9, <1>10 DEF TypeOK
<1>12. NeverStuck'
  BY <1>1, <1>3, <1>6, <1>7 DEF NeverStuck, Final
<1>13. LeaseCoversWork'
  BY <1>1, <1>2, <1>4, <1>5 DEF LeaseCoversWork, Holding, Live
<1>14. ChargedOnce'
  BY <1>1 DEF ChargedOnce
<1>15. PublishedOnce'
  BY <1>1 DEF PublishedOnce
<1>16. DownIsIdle'
  BY <1>1, <1>2, <1>4 DEF DownIsIdle
<1>17. WorkIsOpen'
  BY <1>1, <1>3, <1>4, <1>6, <1>7 DEF WorkIsOpen, Working, Final
<1>18. QueuedIsUnsent'
  BY <1>1, <1>3, <1>6, <1>7, <1>8, <1>9, <1>10 DEF QueuedIsUnsent, Final
<1>19. SubmissionIsFirst'
  BY <1>1, <1>3, <1>4, <1>7, <1>9 DEF SubmissionIsFirst, QueuedIsUnsent
<1>20. LookupsLeft'
  BY <1>1, <1>3, <1>6, <1>7 DEF LookupsLeft, Final
<1>21. UnknownHasItem'
  BY <1>1, <1>3, <1>6, <1>7 DEF UnknownHasItem, Final
<1> QED BY <1>11, <1>12, <1>13, <1>14, <1>15, <1>16, <1>17, <1>18, <1>19, <1>20, <1>21

(* Steps of a call. *)
LEMMA ProviderAcceptsInv ==
  ASSUME IInv, NEW i \in Items, ProviderAccepts(i)
  PROVE  IInv'
<1> USE DEF IInv
<1>1. /\ worker[i].at = "calling" /\ worker[i].kind = "submit" /\ ~worker[i].sent
      /\ UNCHANGED <<record, expired, mode, stops, reconciles>>
  BY DEF ProviderAccepts, Calling
<1>2. /\ worker' \in [Items -> Worker]
      /\ worker'[i].at = "calling" /\ worker'[i].kind = "submit"
      /\ \A j \in Items : j # i => worker'[j] = worker[j]
      /\ worker'[i].sent
  BY <1>1, ZenonT(60) DEF ProviderAccepts, TypeOK, Worker
<1>3. accepted[i] = 0 /\ item[i] # "queued"
  BY <1>1 DEF SubmissionIsFirst
<1>4. accepted' \in [Items -> Nat] /\ accepted'[i] = 1
      /\ \A j \in Items : j # i => accepted'[j] = accepted[j]
  BY <1>3 DEF ProviderAccepts, TypeOK
<1>5. TypeOK'
  BY <1>1, <1>2, <1>4 DEF TypeOK, record
<1>6. NeverStuck'
  BY <1>1, <1>3 DEF NeverStuck, record
<1>7. LeaseCoversWork'
  BY <1>1, <1>2 DEF LeaseCoversWork, Holding, record
<1>8. ChargedOnce'
  BY <1>3, <1>4 DEF ChargedOnce, record
<1>9. PublishedOnce'
  BY <1>1 DEF PublishedOnce, record
<1>10. DownIsIdle'
  BY <1>1, <1>2 DEF DownIsIdle, record
<1>11. WorkIsOpen'
  BY <1>1, <1>2, <1>3 DEF WorkIsOpen, Working, record
<1>12. QueuedIsUnsent'
  BY <1>1, <1>3, <1>4 DEF QueuedIsUnsent, record
<1>13. SubmissionIsFirst'
  BY <1>1, <1>2, <1>3, <1>4 DEF SubmissionIsFirst, record
<1>14. LookupsLeft'
  BY <1>1, <1>3 DEF LookupsLeft, record
<1>15. UnknownHasItem'
  BY <1>1, <1>3 DEF UnknownHasItem, record
<1> QED BY <1>5, <1>6, <1>7, <1>8, <1>9, <1>10, <1>11, <1>12, <1>13, <1>14, <1>15

LEMMA BeginSaveInv ==
  ASSUME IInv, NEW i \in Items, NEW g \in BOOLEAN, NEW pictures \in SUBSET Outs,
         BeginSave(i, g, pictures)
  PROVE  IInv'
<1> USE DEF IInv
<1>1. /\ worker[i].at = "calling"
      /\ UNCHANGED <<deleted, target, attempts, failures, leased, published, expired, mode,
                     accepted, stops, reconciles>>
  BY DEF BeginSave, Answered, Calling
<1>2. /\ worker' \in [Items -> Worker]
      /\ worker'[i].at = "saving" /\ worker'[i].kind = worker[i].kind
      /\ worker'[i].todo \subseteq Outs
      /\ \A j \in Items : j # i => worker'[j] = worker[j]
  <2> DEFINE w == [worker[i] EXCEPT !.at = "saving", !.todo = pictures]
  <2>1. worker \in [Items -> Worker] /\ worker' = [worker EXCEPT ![i] = w]
    BY DEF BeginSave, TypeOK
  <2>2. w \in Worker /\ w.at = "saving" /\ w.kind = worker[i].kind /\ w.todo \subseteq Outs
    BY <2>1 DEF Worker
  <2> HIDE DEF w
  <2> QED BY <2>1, <2>2
<1>3. /\ handle' \in [Items -> BOOLEAN]
      /\ \A j \in Items : j # i => handle'[j] = handle[j]
  BY DEF BeginSave, TypeOK
<1>4. /\ status # "absent"
      /\ status \in Final => item[i] \in Final
  BY <1>1 DEF WorkIsOpen, Working, NeverStuck
<1>5. /\ item' \in [Items -> Statuses] /\ item'[i] # "queued"
      /\ status \in Final => item' = item /\ status' = status
      /\ \A j \in Items : j # i => item'[j] = item[j]
  BY <1>4 DEF BeginSave, TypeOK, Statuses, Final
<1>6. status \notin Final =>
        /\ item'[i] = "saving" /\ status' \in {"saving", "cancel_requested"}
        /\ status' = "cancel_requested" <=> status = "cancel_requested"
  BY DEF BeginSave, TypeOK
<1>7. "saving" \notin Final /\ "cancel_requested" \notin Final /\ "queued" \notin Final
      /\ {"saving"} \subseteq Statuses
  BY DEF Final, Statuses
<1>8. status \notin Final => item[i] \notin Final
  BY <1>1 DEF WorkIsOpen, Working
<1>9. TypeOK'
  BY <1>1, <1>2, <1>3, <1>5, <1>6 DEF TypeOK
<1>10. NeverStuck'
  BY <1>4, <1>5, <1>6, <1>7, <1>8 DEF NeverStuck
<1>11. LeaseCoversWork'
  BY <1>1, <1>2 DEF LeaseCoversWork, Holding
<1>12. ChargedOnce'
  BY <1>1 DEF ChargedOnce
<1>13. PublishedOnce'
  BY <1>1 DEF PublishedOnce
<1>14. DownIsIdle'
  BY <1>1, <1>2 DEF DownIsIdle
<1>15. WorkIsOpen'
  BY <1>1, <1>2, <1>4, <1>5, <1>6, <1>7, <1>8 DEF WorkIsOpen, Working
<1>16. QueuedIsUnsent'
  BY <1>1, <1>3, <1>4, <1>5, <1>6, <1>7, <1>8 DEF QueuedIsUnsent
<1>17. SubmissionIsFirst'
  BY <1>1, <1>2, <1>3, <1>4, <1>5, <1>6, <1>7, <1>8 DEF SubmissionIsFirst
<1>18. LookupsLeft'
  BY <1>1, <1>4, <1>5, <1>6, <1>7, <1>8 DEF LookupsLeft
<1>19. UnknownHasItem'
  BY <1>4, <1>5, <1>6, <1>7, <1>8 DEF UnknownHasItem
<1> QED BY <1>9, <1>10, <1>11, <1>12, <1>13, <1>14, <1>15, <1>16, <1>17, <1>18, <1>19

LEMMA PublishInv ==
  ASSUME IInv, NEW i \in Items, NEW o \in Outs, Publish(i, o)
  PROVE  IInv'
<1> USE DEF IInv
<1>1. /\ worker[i].at = "saving" /\ o \in worker[i].todo
      /\ UNCHANGED <<status, deleted, target, item, attempts, handle, failures, leased,
                     expired, mode, accepted, stops, reconciles>>
  BY DEF Publish
<1>2. /\ worker' \in [Items -> Worker]
      /\ worker'[i].at = "saving" /\ worker'[i].kind = worker[i].kind
      /\ worker'[i].todo = worker[i].todo \ {o}
      /\ \A j \in Items : j # i => worker'[j] = worker[j]
  BY <1>1 DEF Publish, TypeOK, Worker
<1>3. published[i][o] \in Nat /\ published[i][o] <= 1
  BY DEF TypeOK, PublishedOnce
<1>4. worker[i].kind = "submit" => published[i][o] = 0
  BY <1>1 DEF SubmissionIsFirst
<1>5. /\ published' \in [Items -> [Outs -> Nat]] /\ published'[i][o] <= 1
      /\ \A q \in Outs : q # o => published'[i][q] = published[i][q]
      /\ \A j \in Items : j # i => published'[j] = published[j]
  BY <1>3, <1>4 DEF Publish, TypeOK
<1>6. item[i] # "queued" /\ worker[i].todo \subseteq Outs
  BY <1>1 DEF WorkIsOpen, Working, TypeOK, Worker
<1>7. TypeOK'
  BY <1>1, <1>2, <1>5 DEF TypeOK
<1>8. NeverStuck'
  BY <1>1, <1>6 DEF NeverStuck
<1>9. LeaseCoversWork'
  BY <1>1, <1>2, <1>4, <1>6 DEF LeaseCoversWork, Holding
<1>10. ChargedOnce'
  BY <1>1 DEF ChargedOnce
<1>11. PublishedOnce'
  BY <1>3, <1>4, <1>5 DEF PublishedOnce
<1>12. DownIsIdle'
  BY <1>1, <1>2, <1>4, <1>6 DEF DownIsIdle
<1>13. WorkIsOpen'
  BY <1>1, <1>2, <1>4, <1>6 DEF WorkIsOpen, Working
<1>14. QueuedIsUnsent'
  BY <1>1, <1>3, <1>4, <1>5, <1>6, ZenonT(60) DEF QueuedIsUnsent
<1>15. SubmissionIsFirst'
  <2>1. worker[i].kind = "submit" =>
        /\ attempts[i] # <<>>
        /\ \A q \in worker'[i].todo : published'[i][q] = 0
    BY <1>1, <1>2, <1>5, <1>6 DEF SubmissionIsFirst
  <2> SUFFICES ASSUME NEW j \in Items, worker'[j].kind = "submit"
               PROVE  /\ worker'[j].at \in {"calling", "saving"}
                      /\ attempts'[j] # <<>> /\ item'[j] # "queued"
                      /\ worker'[j].at = "calling" =>
                           /\ ~handle'[j]
                           /\ accepted'[j] = IF worker'[j].sent THEN 1 ELSE 0
                           /\ \A q \in Outs : published'[j][q] = 0
                      /\ worker'[j].at = "saving" =>
                           \A q \in worker'[j].todo : published'[j][q] = 0
    BY DEF SubmissionIsFirst
  <2>2. CASE j = i
    BY <1>1, <1>2, <1>6, <2>1, <2>2
  <2>3. CASE j # i
    <3>1. /\ worker'[j] = worker[j] /\ published'[j] = published[j]
          /\ worker[j].kind = "submit"
          /\ UNCHANGED <<attempts, item, handle, accepted>>
      BY <1>1, <1>2, <1>5, <2>3
    <3> QED BY <3>1 DEF SubmissionIsFirst
  <2> QED BY <2>2, <2>3
<1>16. LookupsLeft'
  BY <1>1, <1>6 DEF LookupsLeft
<1>17. UnknownHasItem'
  BY <1>1, <1>6 DEF UnknownHasItem
<1> QED BY <1>7, <1>8, <1>9, <1>10, <1>11, <1>12, <1>13, <1>14, <1>15, <1>16, <1>17

LEMMA SaveFailsInv ==
  ASSUME IInv, NEW i \in Items, NEW o \in Outs, SaveFails(i, o)
  PROVE  IInv'
<1> USE DEF IInv
<1>1. /\ worker[i].at = "saving"
      /\ UNCHANGED <<record, expired, mode, accepted, stops, reconciles>>
  BY DEF SaveFails
<1>2. /\ worker' \in [Items -> Worker]
      /\ worker'[i].at = "saving" /\ worker'[i].kind = worker[i].kind
      /\ worker'[i].todo \subseteq worker[i].todo
      /\ \A j \in Items : j # i => worker'[j] = worker[j]
  BY <1>1, ZenonT(60) DEF SaveFails, TypeOK, Worker
<1>3. TypeOK'
  BY <1>1, <1>2 DEF TypeOK, record
<1>4. NeverStuck'
  BY <1>1 DEF NeverStuck, record
<1>5. LeaseCoversWork'
  BY <1>1, <1>2 DEF LeaseCoversWork, Holding, record
<1>6. ChargedOnce'
  BY <1>1 DEF ChargedOnce, record
<1>7. PublishedOnce'
  BY <1>1 DEF PublishedOnce, record
<1>8. DownIsIdle'
  BY <1>1, <1>2 DEF DownIsIdle, record
<1>9. WorkIsOpen'
  BY <1>1, <1>2 DEF WorkIsOpen, Working, record
<1>10. QueuedIsUnsent'
  BY <1>1 DEF QueuedIsUnsent, record
<1>11. SubmissionIsFirst'
  BY <1>1, <1>2 DEF SubmissionIsFirst, record
<1>12. LookupsLeft'
  BY <1>1 DEF LookupsLeft, record
<1>13. UnknownHasItem'
  BY <1>1 DEF UnknownHasItem, record
<1> QED BY <1>3, <1>4, <1>5, <1>6, <1>7, <1>8, <1>9, <1>10, <1>11, <1>12, <1>13

LEMMA AbandonInv ==
  ASSUME IInv, NEW i \in Items, Abandon(i)
  PROVE  IInv'
<1> USE DEF IInv
<1>1. /\ worker[i].at \in {"calling", "saving"} /\ mode = "closing"
      /\ UNCHANGED <<record, expired, mode, accepted, stops, reconciles>>
  BY DEF Abandon
<1>2. /\ worker' \in [Items -> Worker]
      /\ worker'[i].at = "leaving" /\ worker'[i].kind = "none"
      /\ \A j \in Items : j # i => worker'[j] = worker[j]
  BY LeaveFacts DEF Abandon
<1>3. TypeOK'
  BY <1>1, <1>2 DEF TypeOK, record
<1>4. NeverStuck'
  BY <1>1 DEF NeverStuck, record
<1>5. LeaseCoversWork'
  BY <1>1, <1>2 DEF LeaseCoversWork, Holding, record
<1>6. ChargedOnce'
  BY <1>1 DEF ChargedOnce, record
<1>7. PublishedOnce'
  BY <1>1 DEF PublishedOnce, record
<1>8. DownIsIdle'
  BY <1>1, <1>2 DEF DownIsIdle, record
<1>9. WorkIsOpen'
  BY <1>1, <1>2 DEF WorkIsOpen, Working, record
<1>10. QueuedIsUnsent'
  BY <1>1 DEF QueuedIsUnsent, record
<1>11. SubmissionIsFirst'
  BY <1>1, <1>2 DEF SubmissionIsFirst, record
<1>12. LookupsLeft'
  BY <1>1 DEF LookupsLeft, record
<1>13. UnknownHasItem'
  BY <1>1 DEF UnknownHasItem, record
<1> QED BY <1>3, <1>4, <1>5, <1>6, <1>7, <1>8, <1>9, <1>10, <1>11, <1>12, <1>13

LEMMA ReleaseInv ==
  ASSUME IInv, NEW i \in Items, Release(i)
  PROVE  IInv'
<1> USE DEF IInv
<1>1. /\ worker[i].at = "leaving"
      /\ UNCHANGED <<status, deleted, target, item, attempts, handle, failures, published,
                     expired, mode, accepted, stops, reconciles>>
  BY DEF Release
<1>2. /\ worker' \in [Items -> Worker]
      /\ worker'[i].at = "idle" /\ worker'[i].kind = "none"
      /\ \A j \in Items : j # i => worker'[j] = worker[j]
  BY DEF Release, TypeOK, Worker, Idle
<1>3. /\ leased' \in [Items -> BOOLEAN] /\ ~leased'[i]
      /\ \A j \in Items : j # i => leased'[j] = leased[j]
  BY DEF Release, TypeOK
<1>4. TypeOK'
  BY <1>1, <1>2, <1>3 DEF TypeOK
<1>5. NeverStuck'
  BY <1>1 DEF NeverStuck
<1>6. LeaseCoversWork'
  BY <1>1, <1>2, <1>3 DEF LeaseCoversWork, Holding
<1>7. ChargedOnce'
  BY <1>1 DEF ChargedOnce
<1>8. PublishedOnce'
  BY <1>1 DEF PublishedOnce
<1>9. DownIsIdle'
  BY <1>1, <1>2 DEF DownIsIdle
<1>10. WorkIsOpen'
  BY <1>1, <1>2 DEF WorkIsOpen, Working
<1>11. QueuedIsUnsent'
  BY <1>1 DEF QueuedIsUnsent
<1>12. SubmissionIsFirst'
  BY <1>1, <1>2 DEF SubmissionIsFirst
<1>13. LookupsLeft'
  BY <1>1 DEF LookupsLeft
<1>14. UnknownHasItem'
  BY <1>1 DEF UnknownHasItem
<1> QED BY <1>4, <1>5, <1>6, <1>7, <1>8, <1>9, <1>10, <1>11, <1>12, <1>13, <1>14

(* Steps of clients. *)
LEMMA CreateInv ==
  ASSUME IInv, Create
  PROVE  IInv'
<1> USE DEF IInv
<1>1. /\ status = "absent" /\ status' = "queued" /\ "queued" \in Statuses \ Final
      /\ "absent" \notin Final
  BY DEF Create, Statuses, Final
<1>2. UNCHANGED <<deleted, target, item, attempts, handle, failures, leased, published,
                  expired, mode, worker, accepted, stops, reconciles>>
  BY DEF Create
<1>3. TypeOK'
  BY <1>1, <1>2 DEF TypeOK
<1>4. NeverStuck'
  BY <1>1, <1>2 DEF NeverStuck
<1>5. LeaseCoversWork'
  BY <1>2 DEF LeaseCoversWork, Holding
<1>6. ChargedOnce'
  BY <1>2 DEF ChargedOnce
<1>7. PublishedOnce'
  BY <1>2 DEF PublishedOnce
<1>8. DownIsIdle'
  BY <1>2 DEF DownIsIdle
<1>9. WorkIsOpen'
  BY <1>1, <1>2 DEF WorkIsOpen, Working
<1>10. QueuedIsUnsent'
  BY <1>2 DEF QueuedIsUnsent
<1>11. SubmissionIsFirst'
  BY <1>2 DEF SubmissionIsFirst
<1>12. LookupsLeft'
  BY <1>2 DEF LookupsLeft
<1>13. UnknownHasItem'
  BY <1>1, <1>2 DEF UnknownHasItem
<1> QED BY <1>3, <1>4, <1>5, <1>6, <1>7, <1>8, <1>9, <1>10, <1>11, <1>12, <1>13

LEMMA CancelJobInv ==
  ASSUME IInv, CancelJob
  PROVE  IInv'
<1> USE DEF IInv
<1>1. UNCHANGED <<deleted, target, attempts, handle, failures, leased, published,
                  expired, mode, worker, accepted, stops, reconciles>>
  BY DEF CancelJob
<1>2. /\ status # "absent" /\ status \notin Final \cup {"cancel_requested"}
      /\ status' \in {"cancel_requested", "cancelled"}
  BY DEF CancelJob, Live
<1>3. {"cancelled"} \subseteq Final \cap Statuses /\ "cancel_requested" \notin Final
      /\ "queued" \notin Final
  BY DEF Final, Statuses
<1>4. /\ item' \in [Items -> Statuses]
      /\ \A i \in Items :
           /\ item'[i] # "queued"
           /\ item[i] \in Final => item'[i] \in Final
           /\ item'[i] \notin Final => item'[i] = item[i]
  BY <1>3 DEF CancelJob, TypeOK
<1>5. status' = "cancelled" => \A i \in Items : item'[i] \in Final
  BY <1>3 DEF CancelJob, TypeOK
<1>6. status' = "cancel_requested" =>
        /\ \E i \in Items : handle[i] /\ item[i] \notin Final
        /\ \A i \in Items : item'[i] = IF item[i] = "queued" THEN "cancelled" ELSE item[i]
  BY <1>3 DEF CancelJob, TypeOK
<1>7. status' = "cancel_requested" => \E i \in Items : item'[i] \notin Final
  BY <1>6 DEF QueuedIsUnsent
<1>8. TypeOK'
  BY <1>1, <1>2, <1>3, <1>4, <1>5, <1>6, <1>7 DEF TypeOK
<1>9. NeverStuck'
  BY <1>2, <1>3, <1>4, <1>5, <1>6, <1>7 DEF NeverStuck
<1>10. LeaseCoversWork'
  BY <1>1 DEF LeaseCoversWork, Holding
<1>11. ChargedOnce'
  BY <1>1 DEF ChargedOnce
<1>12. PublishedOnce'
  BY <1>1 DEF PublishedOnce
<1>13. DownIsIdle'
  BY <1>1 DEF DownIsIdle
<1>14. WorkIsOpen'
  BY <1>1, <1>2, <1>3, <1>4, <1>6 DEF WorkIsOpen, Working
<1>15. QueuedIsUnsent'
  BY <1>1, <1>3, <1>4, <1>5, <1>6, <1>7 DEF QueuedIsUnsent
<1>16. SubmissionIsFirst'
  BY <1>1, <1>3, <1>4, <1>5, <1>6, <1>7 DEF SubmissionIsFirst
<1>17. LookupsLeft'
  BY <1>1, <1>3, <1>4, <1>5, <1>6, <1>7 DEF LookupsLeft
<1>18. UnknownHasItem'
  BY <1>2, <1>3, <1>4, <1>5, <1>6, <1>7 DEF UnknownHasItem
<1> QED BY <1>8, <1>9, <1>10, <1>11, <1>12, <1>13, <1>14, <1>15, <1>16, <1>17, <1>18

LEMMA ReconcileJobInv ==
  ASSUME IInv, ReconcileJob
  PROVE  IInv'
<1> USE DEF IInv
<1>1. /\ UNCHANGED <<deleted, target, attempts, handle, leased, published, mode, worker,
                     accepted, stops>>
      /\ status = "result_unknown" /\ status' = "running"
      /\ expired' = FALSE /\ reconciles' = reconciles + 1 /\ reconciles < MaxReconciles
  BY DEF ReconcileJob
<1>2. {"result_unknown", "running"} \subseteq Statuses /\ "running" \notin Final
      /\ "result_unknown" \in Final
  BY DEF Final, Statuses
<1>3. \A i \in Items : ~Working(i)
  BY <1>1, <1>2 DEF WorkIsOpen
<1>4. /\ item' \in [Items -> Statuses]
      /\ \A i \in Items : item'[i] = IF item[i] = "result_unknown" THEN "running" ELSE item[i]
  BY <1>2 DEF ReconcileJob, TypeOK
<1>5. /\ failures' \in [Items -> 0 .. MaxQueryFailures]
      /\ \A i \in Items :
           failures'[i] = IF item[i] = "result_unknown" THEN 0 ELSE failures[i]
  BY LimitsPositive DEF ReconcileJob, TypeOK
<1>6. reconciles' \in 0 .. MaxReconciles
  BY <1>1, BoundsNatural DEF TypeOK
<1>7. \E i \in Items : item[i] = "result_unknown"
  BY <1>1 DEF UnknownHasItem
<1>8. TypeOK'
  BY <1>1, <1>2, <1>4, <1>5, <1>6 DEF TypeOK
<1>9. NeverStuck'
  BY <1>1, <1>2, <1>4, <1>5, <1>7 DEF NeverStuck
<1>10. LeaseCoversWork'
  BY <1>1, <1>3 DEF LeaseCoversWork, Holding
<1>11. ChargedOnce'
  BY <1>1 DEF ChargedOnce
<1>12. PublishedOnce'
  BY <1>1 DEF PublishedOnce
<1>13. DownIsIdle'
  BY <1>1, <1>3 DEF DownIsIdle
<1>14. WorkIsOpen'
  BY <1>1, <1>2, <1>3, <1>4, <1>5, <1>7 DEF WorkIsOpen, Working
<1>15. QueuedIsUnsent'
  BY <1>1, <1>2, <1>4, <1>5, <1>7 DEF QueuedIsUnsent
<1>16. SubmissionIsFirst'
  BY <1>1, <1>2, <1>3, <1>4, <1>5, <1>7 DEF SubmissionIsFirst
<1>17. LookupsLeft'
  BY <1>2, <1>4, <1>5, <1>7, LimitsPositive DEF LookupsLeft
<1>18. UnknownHasItem'
  BY <1>1, <1>2, <1>4, <1>5, <1>7 DEF UnknownHasItem
<1> QED BY <1>8, <1>9, <1>10, <1>11, <1>12, <1>13, <1>14, <1>15, <1>16, <1>17, <1>18

LEMMA DeleteJobInv ==
  ASSUME IInv, DeleteJob
  PROVE  IInv'
<1> USE DEF IInv
<1>1. /\ UNCHANGED <<status, target, item, attempts, handle, failures, leased, published,
                     expired, mode, worker, accepted, stops, reconciles>>
      /\ deleted' = TRUE /\ \A i \in Items : ~leased[i]
  BY DEF DeleteJob
<1>2. TypeOK'
  BY <1>1 DEF TypeOK
<1>3. NeverStuck'
  BY <1>1 DEF NeverStuck
<1>4. LeaseCoversWork'
  BY <1>1 DEF LeaseCoversWork, Holding
<1>5. ChargedOnce'
  BY <1>1 DEF ChargedOnce
<1>6. PublishedOnce'
  BY <1>1 DEF PublishedOnce
<1>7. DownIsIdle'
  BY <1>1 DEF DownIsIdle
<1>8. WorkIsOpen'
  BY <1>1 DEF WorkIsOpen, Working
<1>9. QueuedIsUnsent'
  BY <1>1 DEF QueuedIsUnsent
<1>10. SubmissionIsFirst'
  BY <1>1 DEF SubmissionIsFirst
<1>11. LookupsLeft'
  BY <1>1 DEF LookupsLeft
<1>12. UnknownHasItem'
  BY <1>1 DEF UnknownHasItem
<1> QED BY <1>2, <1>3, <1>4, <1>5, <1>6, <1>7, <1>8, <1>9, <1>10, <1>11, <1>12

(* Time, and the end and start of the process. *)
LEMMA ClockInv ==
  ASSUME IInv, Expire \/ Shutdown \/ Stopped
  PROVE  IInv'
<1> USE DEF IInv
<1>1. /\ UNCHANGED <<record, worker, accepted, reconciles>>
      /\ expired' \in BOOLEAN /\ stops' \in 0 .. MaxStops
      /\ mode' \in {mode, "closing", "down"}
  <2>1. CASE Expire
    BY <2>1 DEF Expire, TypeOK
  <2>2. CASE Shutdown
    BY <2>2, BoundsNatural DEF Shutdown, TypeOK
  <2>3. CASE Stopped
    BY <2>3 DEF Stopped, TypeOK
  <2> QED BY <2>1, <2>2, <2>3
<1>2. mode' = mode \/ (mode = "up" /\ mode' = "closing")
      \/ (mode = "closing" /\ mode' = "down" /\ Running = {})
  BY DEF Expire, Shutdown, Stopped
<1>3. TypeOK'
  BY <1>1, <1>2 DEF TypeOK, record
<1>4. NeverStuck'
  BY <1>1 DEF NeverStuck, record
<1>5. LeaseCoversWork'
  BY <1>1, <1>2 DEF LeaseCoversWork, Holding, record, Running
<1>6. ChargedOnce'
  BY <1>1 DEF ChargedOnce, record
<1>7. PublishedOnce'
  BY <1>1 DEF PublishedOnce, record
<1>8. DownIsIdle'
  BY <1>1, <1>2 DEF DownIsIdle, record, Running
<1>9. WorkIsOpen'
  BY <1>1 DEF WorkIsOpen, Working, record
<1>10. QueuedIsUnsent'
  BY <1>1 DEF QueuedIsUnsent, record
<1>11. SubmissionIsFirst'
  BY <1>1 DEF SubmissionIsFirst, record
<1>12. LookupsLeft'
  BY <1>1 DEF LookupsLeft, record
<1>13. UnknownHasItem'
  BY <1>1 DEF UnknownHasItem, record
<1> QED BY <1>3, <1>4, <1>5, <1>6, <1>7, <1>8, <1>9, <1>10, <1>11, <1>12, <1>13

LEMMA CrashInv ==
  ASSUME IInv, Crash
  PROVE  IInv'
<1> USE DEF IInv
<1>1. /\ UNCHANGED <<record, expired, accepted, reconciles>>
      /\ mode' = "down" /\ stops' \in 0 .. MaxStops
  BY BoundsNatural DEF Crash, TypeOK
<1>2. /\ worker' \in [Items -> Worker]
      /\ \A i \in Items : worker'[i].at = "idle" /\ worker'[i].kind = "none"
  BY DEF Crash, Idle, Worker
<1>3. TypeOK'
  BY <1>1, <1>2 DEF TypeOK, record
<1>4. NeverStuck'
  BY <1>1 DEF NeverStuck, record
<1>5. LeaseCoversWork'
  BY <1>1, <1>2 DEF LeaseCoversWork, Holding, record
<1>6. ChargedOnce'
  BY <1>1 DEF ChargedOnce, record
<1>7. PublishedOnce'
  BY <1>1 DEF PublishedOnce, record
<1>8. DownIsIdle'
  BY <1>1, <1>2 DEF DownIsIdle, record
<1>9. WorkIsOpen'
  BY <1>1, <1>2 DEF WorkIsOpen, Working, record
<1>10. QueuedIsUnsent'
  BY <1>1 DEF QueuedIsUnsent, record
<1>11. SubmissionIsFirst'
  BY <1>1, <1>2 DEF SubmissionIsFirst, record
<1>12. LookupsLeft'
  BY <1>1 DEF LookupsLeft, record
<1>13. UnknownHasItem'
  BY <1>1 DEF UnknownHasItem, record
<1> QED BY <1>3, <1>4, <1>5, <1>6, <1>7, <1>8, <1>9, <1>10, <1>11, <1>12, <1>13

LEMMA RecoverLeasesInv ==
  ASSUME IInv, RecoverLeases
  PROVE  IInv'
<1> USE DEF IInv
<1>1. /\ UNCHANGED <<status, deleted, target, item, attempts, handle, failures, published,
                     expired, worker, accepted, stops, reconciles>>
      /\ mode = "down" /\ mode' = "recovering"
      /\ leased' = [i \in Items |-> FALSE]
  BY DEF RecoverLeases
<1>2. \A i \in Items : worker[i].at = "idle"
  BY <1>1 DEF DownIsIdle
<1>3. TypeOK'
  BY <1>1 DEF TypeOK
<1>4. NeverStuck'
  BY <1>1 DEF NeverStuck
<1>5. LeaseCoversWork'
  BY <1>1, <1>2 DEF LeaseCoversWork, Holding
<1>6. ChargedOnce'
  BY <1>1 DEF ChargedOnce
<1>7. PublishedOnce'
  BY <1>1 DEF PublishedOnce
<1>8. DownIsIdle'
  BY <1>1, <1>2 DEF DownIsIdle
<1>9. WorkIsOpen'
  BY <1>1, <1>2 DEF WorkIsOpen, Working
<1>10. QueuedIsUnsent'
  BY <1>1 DEF QueuedIsUnsent
<1>11. SubmissionIsFirst'
  BY <1>1, <1>2 DEF SubmissionIsFirst
<1>12. LookupsLeft'
  BY <1>1 DEF LookupsLeft
<1>13. UnknownHasItem'
  BY <1>1 DEF UnknownHasItem
<1> QED BY <1>3, <1>4, <1>5, <1>6, <1>7, <1>8, <1>9, <1>10, <1>11, <1>12, <1>13

LEMMA RecoverJobInv ==
  ASSUME IInv, RecoverJob
  PROVE  IInv'
<1> USE DEF IInv
<1>1. /\ UNCHANGED <<deleted, target, attempts, handle, failures, leased, published, expired,
                     worker, accepted, stops, reconciles>>
      /\ mode = "recovering" /\ mode' = "up"
  BY DEF RecoverJob
<1>2. \A i \in Items : worker[i].at = "idle"
  BY <1>1 DEF DownIsIdle
<1>3. /\ item' \in [Items -> Statuses]
      /\ \A i \in Items :
           \/ item'[i] = item[i]
           \/ item'[i] = "running" /\ item[i] \in {"saving", "queued"}
  BY DEF RecoverJob, TypeOK, Statuses
<1>4. {"saving", "queued", "running"} \cap Final = {} /\ "absent" \notin Final
  BY DEF Final
<1>5. \A i \in Items : item'[i] \in Final <=> item[i] \in Final
  BY <1>3, <1>4
<1>6. \/ status' = status
      \/ /\ status \in JobStatuses \ Final /\ status # "absent"
         /\ status' = Aggregate(status, item')
  BY DEF RecoverJob, Live, TypeOK, JobStatuses
<1>7. /\ status' \in JobStatuses /\ (status' \in Final <=> \A i \in Items : item'[i] \in Final)
      /\ status' = "result_unknown" => \E i \in Items : item'[i] = "result_unknown"
  <2>1. CASE status' = status
    <3>1. status = "result_unknown" => item' = item
      BY <1>4 DEF RecoverJob, Final
    <3> QED BY <2>1, <3>1, <1>5 DEF NeverStuck, UnknownHasItem, TypeOK, JobStatuses
  <2>2. CASE status' # status
    BY <2>2, <1>3, <1>6, AggregateOpen
  <2> QED BY <2>1, <2>2
<1>8. TypeOK'
  BY <1>1, <1>3, <1>7 DEF TypeOK, JobStatuses
<1>9. NeverStuck'
  BY <1>3, <1>4, <1>5, <1>6, <1>7 DEF NeverStuck
<1>10. LeaseCoversWork'
  BY <1>1, <1>2 DEF LeaseCoversWork, Holding
<1>11. ChargedOnce'
  BY <1>1 DEF ChargedOnce
<1>12. PublishedOnce'
  BY <1>1 DEF PublishedOnce
<1>13. DownIsIdle'
  BY <1>1, <1>2 DEF DownIsIdle
<1>14. WorkIsOpen'
  BY <1>1, <1>2, <1>3, <1>4, <1>5, <1>6, <1>7 DEF WorkIsOpen, Working
<1>15. QueuedIsUnsent'
  BY <1>1, <1>3, <1>4, <1>5, <1>6, <1>7 DEF QueuedIsUnsent
<1>16. SubmissionIsFirst'
  BY <1>1, <1>2, <1>3, <1>4, <1>5, <1>6, <1>7 DEF SubmissionIsFirst
<1>17. LookupsLeft'
  BY <1>1, <1>3, <1>4, <1>5, <1>6, <1>7 DEF LookupsLeft
<1>18. UnknownHasItem'
  BY <1>3, <1>4, <1>5, <1>6, <1>7 DEF UnknownHasItem
<1> QED BY <1>8, <1>9, <1>10, <1>11, <1>12, <1>13, <1>14, <1>15, <1>16, <1>17, <1>18

-----------------------------------------------------------------------------
(* The invariant of the specification, and what follows from it.           *)
LEMMA WorkInv ==
  ASSUME IInv, NEW i \in Items, Work(i)
  PROVE  IInv'
<1>1. CASE Claim(i)
  BY <1>1, ClaimQueryInv, ClaimSubmitInv
<1>2. CASE ClaimLate(i)
  BY <1>2, ClaimLateInv
<1>3. CASE ClaimNothing(i)
  BY <1>3, ClaimNothingInv
<1>4. CASE ProviderAccepts(i)
  BY <1>4, ProviderAcceptsInv
<1>5. CASE \E d \in Deliveries : SubmitFails(i, d)
  BY <1>5, SubmitFailsInv
<1>6. CASE \E e \in {"auth", "unsupported", "transient"} : QueryFails(i, e)
  BY <1>6, QueryFailsInv
<1>7. CASE \E state \in {"pending", "completed", "failed", "unknown"}, h \in BOOLEAN :
             CallReturns(i, state, h)
  BY <1>7, CallReturnsInv
<1>8. CASE \E h \in BOOLEAN, pictures \in SUBSET Outs \ {{}} : BeginSave(i, h, pictures)
  BY <1>8, BeginSaveInv
<1>9. CASE \E o \in Outs : Publish(i, o) \/ SaveFails(i, o)
  BY <1>9, PublishInv, SaveFailsInv
<1>10. CASE FinishSaved(i) \/ CancelReturns(i)
  BY <1>10, FinishSavedInv, CancelReturnsInv
<1>11. CASE Abandon(i) \/ Release(i)
  BY <1>11, AbandonInv, ReleaseInv
<1> QED BY <1>1, <1>2, <1>3, <1>4, <1>5, <1>6, <1>7, <1>8, <1>9, <1>10, <1>11 DEF Work

LEMMA InitInv ==
  ASSUME Init
  PROVE  IInv
<1>1. TypeOK
  <2>1. /\ attempts \in [Items -> Seq(Attempt)]
        /\ \A i \in Items : Len(attempts[i]) = 0
    BY DEF Init
  <2>2. worker \in [Items -> Worker]
    BY DEF Init, Worker, Idle
  <2>3. item \in [Items -> Statuses] /\ "absent" \in Statuses \cup {"absent"}
    BY DEF Init, Statuses
  <2>4. /\ failures \in [Items -> 0 .. MaxQueryFailures]
        /\ stops \in 0 .. MaxStops /\ reconciles \in 0 .. MaxReconciles
    BY LimitsPositive, BoundsNatural DEF Init
  <2>5. published \in [Items -> [Outs -> Nat]] /\ accepted \in [Items -> Nat]
    BY DEF Init
  <2>6. /\ status \in Statuses \cup {"absent", "cancel_requested"}
        /\ deleted \in BOOLEAN /\ expired \in BOOLEAN
        /\ target \in [cancel : BOOLEAN, reconcile : BOOLEAN]
        /\ handle \in [Items -> BOOLEAN] /\ leased \in [Items -> BOOLEAN]
        /\ mode \in {"down", "recovering", "up", "closing"}
    BY DEF Init
  <2>7. \A i \in Items : Len(attempts[i]) <= MaxAttempts
    BY <2>1, LimitsPositive
  <2> QED BY <2>1, <2>2, <2>3, <2>4, <2>5, <2>6, <2>7 DEF TypeOK
<1>2. NeverStuck /\ UnknownHasItem
  BY ItemsFinite DEF Init, NeverStuck, UnknownHasItem, Final
<1>3. LeaseCoversWork /\ DownIsIdle /\ WorkIsOpen /\ SubmissionIsFirst
  BY DEF Init, LeaseCoversWork, DownIsIdle, WorkIsOpen, SubmissionIsFirst, Holding,
         Working, Idle
<1>4. ChargedOnce /\ PublishedOnce
  BY DEF Init, ChargedOnce, PublishedOnce
<1>5. QueuedIsUnsent /\ LookupsLeft
  BY LimitsPositive DEF Init, QueuedIsUnsent, LookupsLeft
<1> QED BY <1>1, <1>2, <1>3, <1>4, <1>5 DEF IInv

LEMMA NextInv ==
  ASSUME IInv, [Next]_vars
  PROVE  IInv'
<1>1. CASE Create \/ CancelJob \/ ReconcileJob \/ DeleteJob
  BY <1>1, CreateInv, CancelJobInv, ReconcileJobInv, DeleteJobInv
<1>2. CASE \E i \in Items : Pick(i) \/ Work(i)
  BY <1>2, PickInv, WorkInv
<1>3. CASE Expire \/ Shutdown \/ Stopped
  BY <1>3, ClockInv
<1>4. CASE Crash \/ RecoverLeases \/ RecoverJob
  BY <1>4, CrashInv, RecoverLeasesInv, RecoverJobInv
<1>5. CASE UNCHANGED vars
  BY <1>5 DEF vars, record, IInv, TypeOK, NeverStuck, LeaseCoversWork, ChargedOnce,
              PublishedOnce, DownIsIdle, WorkIsOpen, QueuedIsUnsent, SubmissionIsFirst,
              LookupsLeft, UnknownHasItem, Holding, Working
<1> QED BY <1>1, <1>2, <1>3, <1>4, <1>5 DEF Next

(* The invariant that explains the others holds in every reachable state of the job,    *)
(* its workers and the process.                                                         *)
THEOREM InvariantHolds == Spec => []IInv
<1>1. Init => IInv
  BY InitInv
<1>2. IInv /\ [Next]_vars => IInv'
  BY NextInv
<1> QED BY <1>1, <1>2, PTL DEF Spec

(* The record and the workers keep their types; in particular finish and the claim      *)
(* never submit an item more than MaxAttempts times.                                    *)
THEOREM TypeCorrect == Spec => []TypeOK
<1>1. IInv => TypeOK
  BY DEF IInv
<1> QED BY <1>1, InvariantHolds, PTL

(* The provider accepts each item at most once: the claim submits only queued items,    *)
(* and neither finish nor recovery queues one that may have been accepted; and finish   *)
(* adds each picture to the job at most once, whatever is looked up again.              *)
THEOREM NothingIsRepeated == Spec => []OncePerItem
<1>1. IInv => OncePerItem
  BY DEF IInv, OncePerItem
<1> QED BY <1>1, InvariantHolds, PTL

(* A job is over exactly when its items are, so the dispatcher never passes over one    *)
(* that still has something to do, nor works for one that has not.                      *)
THEOREM JobsNeverStick == Spec => []NeverStuck
<1>1. IInv => NeverStuck
  BY DEF IInv
<1> QED BY <1>1, InvariantHolds, PTL

(* Leases are held exactly while goroutines use their items, and DeleteJob leaves those *)
(* alone.                                                                               *)
THEOREM LeasesCoverWork == Spec => []LeaseCoversWork
<1>1. IInv => LeaseCoversWork
  BY DEF IInv
<1> QED BY <1>1, InvariantHolds, PTL

(* What a step of a goroutine leaves of a job that is over or being cancelled. *)
LEMMA WorkKeepsSettled ==
  ASSUME IInv, NEW i \in Items, Work(i)
  PROVE  /\ status \in Final => UNCHANGED <<status, item, attempts>>
         /\ status = "cancel_requested" =>
              \A j \in Items : Len(attempts'[j]) = Len(attempts[j])
<1> USE DEF IInv
<1>1. CASE Claim(i) \/ ClaimLate(i) \/ ClaimNothing(i)
  <2>1. status = "cancel_requested" => Kind(i) # "submit"
    BY DEF Kind
  <2> QED BY <1>1, <2>1 DEF Claim, ClaimLate, ClaimNothing, Claimable, record
<1>2. CASE ProviderAccepts(i) \/ Abandon(i) \/ Release(i)
           \/ \E o \in Outs : Publish(i, o) \/ SaveFails(i, o)
  BY <1>2 DEF ProviderAccepts, Abandon, Release, Publish, SaveFails, record
<1>3. CASE \E d \in Deliveries : SubmitFails(i, d)
  <2>1. PICK d \in Deliveries : SubmitFails(i, d)
    BY <1>3
  <2>2. attempts[i] \in Seq(Attempt) /\ attempts[i] # <<>>
    BY <2>1 DEF TypeOK, SubmitFails, Calling, SubmissionIsFirst
  <2>3. CASE status \in Final
    BY <2>1, <2>3 DEF SubmitFails, Delivered, Settle, Final
  <2>4. CASE status \notin Final
    <3>1. attempts' = [attempts EXCEPT ![i] = [@ EXCEPT ![Len(attempts[i])] = Recorded(d)]]
      BY <2>1, <2>4 DEF SubmitFails, Delivered
    <3>2. /\ Len(attempts[i]) \in 1 .. Len(attempts[i]) /\ Recorded(d) \in Attempt
          /\ attempts \in [Items -> Seq(Attempt)]
      BY <2>2 DEF TypeOK, Recorded, Attempt
    <3>3. Len([attempts[i] EXCEPT ![Len(attempts[i])] = Recorded(d)]) = Len(attempts[i])
      BY <2>2, <3>2, ExceptSeq
    <3> QED BY <2>4, <3>1, <3>2, <3>3
  <2> QED BY <2>3, <2>4
<1>4. CASE \E e \in {"auth", "unsupported", "transient"} : QueryFails(i, e)
  BY <1>4 DEF QueryFails, Settle, Final
<1>5. CASE \E state \in {"pending", "completed", "failed", "unknown"}, h \in BOOLEAN :
             CallReturns(i, state, h)
  BY <1>5 DEF CallReturns, Settle, Final
<1>6. CASE \E h \in BOOLEAN, pictures \in SUBSET Outs \ {{}} : BeginSave(i, h, pictures)
  BY <1>6 DEF BeginSave
<1>7. CASE FinishSaved(i) \/ CancelReturns(i)
  BY <1>7 DEF FinishSaved, CancelReturns, Settle, Final
<1> QED BY <1>1, <1>2, <1>3, <1>4, <1>5, <1>6, <1>7 DEF Work

(* A job that is over stays as it is, whatever its goroutines, clients or restarts do,  *)
(* unless ReconcileJob reopens an unknown result; a cancelled one submits nothing.      *)
THEOREM SettledJobsStay == Spec => SettledStays
<1> DEFINE Kept == /\ status \in Final \ {"result_unknown"} =>
                        UNCHANGED <<status, item, attempts>>
                   /\ status = "cancel_requested" =>
                        \A i \in Items : Len(attempts'[i]) = Len(attempts[i])
<1>1. IInv /\ [Next]_vars => [Kept]_vars
  <2> SUFFICES ASSUME IInv, Next PROVE Kept
    OBVIOUS
  <2>1. CASE Create \/ CancelJob \/ ReconcileJob \/ DeleteJob
    BY <2>1 DEF Create, CancelJob, ReconcileJob, DeleteJob, Final
  <2>2. CASE \E i \in Items : Pick(i) \/ Work(i)
    BY <2>2, WorkKeepsSettled DEF Pick, record
  <2>3. CASE Expire \/ Shutdown \/ Stopped \/ Crash
    BY <2>3 DEF Expire, Shutdown, Stopped, Crash, record
  <2>4. CASE RecoverLeases \/ RecoverJob
    BY <2>4 DEF RecoverLeases, RecoverJob, Live
  <2> QED BY <2>1, <2>2, <2>3, <2>4 DEF Next
<1> QED BY <1>1, InvariantHolds, PTL DEF Spec, SettledStays

=============================================================================
