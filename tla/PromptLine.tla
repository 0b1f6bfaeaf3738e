----------------------------- MODULE PromptLine -----------------------------
(***************************************************************************)
(* What a session promises about prompts, without files, workers, runs or  *)
(* crashes: a line of requests, each executed at most once and only from   *)
(* the head of the line, or directly while nobody stands or is held in it. *)
(* SessionQueue implements this specification.                             *)
(***************************************************************************)
EXTENDS Integers, Sequences, SequencesExt

CONSTANTS Ids   (* request identities *)

VARIABLES
  line,         (* the requests in order                                    *)
  held,         (* requests taken out of the line for editing               *)
  status        (* what became of each identity                             *)

lineVars == <<line, held, status>>

Status == {"new", "queued", "executed", "dropped"}

LineTypeOK ==
  /\ line \in Seq(Ids)
  /\ held \in SUBSET Ids
  /\ status \in [Ids -> Status]

LineInit ==
  /\ line = <<>>
  /\ held = {}
  /\ status = [r \in Ids |-> "new"]

(* A new request joins at the end, or at the front when it interrupts. *)
Join(r) ==
  /\ status[r] = "new"
  /\ line' \in {Append(line, r), <<r>> \o line}
  /\ status' = [status EXCEPT ![r] = "queued"]
  /\ UNCHANGED held

Hold(i) ==
  /\ i \in DOMAIN line
  /\ line' = RemoveAt(line, i)
  /\ held' = held \cup {line[i]}
  /\ UNCHANGED status

Return(r) ==
  /\ r \in held
  /\ \E i \in 1..Len(line) + 1 : line' = InsertAt(line, i, r)
  /\ held' = held \ {r}
  /\ UNCHANGED status

(* Neighbours swap, or one request moves to the front. *)
Reorder ==
  /\ \/ \E i \in 1..Len(line) - 1 :
          line' = [line EXCEPT ![i] = line[i + 1], ![i + 1] = line[i]]
     \/ \E i \in DOMAIN line : line' = <<line[i]>> \o RemoveAt(line, i)
  /\ UNCHANGED <<held, status>>

(* A request leaves the line; if it was never executed it never will be. *)
Withdraw(i) ==
  /\ i \in DOMAIN line
  /\ line' = RemoveAt(line, i)
  /\ status' = [status EXCEPT ![line[i]] = IF @ = "queued" THEN "dropped" ELSE @]
  /\ UNCHANGED held

ExecuteHead ==
  /\ line # <<>>
  /\ status[Head(line)] = "queued"
  /\ status' = [status EXCEPT ![Head(line)] = "executed"]
  /\ UNCHANGED <<line, held>>

ExecuteDirect(r) ==
  /\ line = <<>> /\ held = {}
  /\ status[r] = "new"
  /\ status' = [status EXCEPT ![r] = "executed"]
  /\ UNCHANGED <<line, held>>

LineNext ==
  \/ \E r \in Ids : Join(r) \/ Return(r) \/ ExecuteDirect(r)
  \/ \E i \in DOMAIN line : Hold(i) \/ Withdraw(i)
  \/ Reorder
  \/ ExecuteHead

LineSpec == LineInit /\ [][LineNext]_lineVars
=============================================================================
