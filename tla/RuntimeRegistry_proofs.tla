------------------------ MODULE RuntimeRegistry_proofs ------------------------
(***************************************************************************)
(* Theorems of RuntimeRegistry, for every choice of its constants.  IInv   *)
(* is shown inductive; what the runs check follows from it.                *)
(***************************************************************************)
EXTENDS RuntimeRegistry, TLAPS, SequenceTheorems, FiniteSetTheorems

(* The holders of an object are finitely many. *)
LEMMA HoldersAreFinite == \A i : IsFiniteSet(Holders(i)) /\ Cardinality(Holders(i)) \in Nat
<1>1. \A i : Holders(i) \in SUBSET Handlers
  BY DEF Holders
<1> QED BY <1>1, HandlersAssumption, FS_Subset, FS_CardinalityType

(* Holders of an object depend on the rt fields alone. *)
LEMMA SameHolders ==
  ASSUME \A q \in Handlers : h'[q].rt = h[q].rt, NEW i
  PROVE  Holders(i)' = Holders(i)
BY DEF Holders

(* A handler's record after it moved, and after it also took or gave up a memory runtime. *)
LEMMA GoesTo ==
  ASSUME h \in [Handlers -> Handler], NEW p \in Handlers, NEW place \in Place,
         h' = [h EXCEPT ![p].at = place]
  PROVE  /\ h' \in [Handlers -> Handler]
         /\ h'[p].rt = h[p].rt /\ h'[p].at = place /\ h'[p].mem = h[p].mem
         /\ \A q \in Handlers : q # p => h'[q] = h[q]
<1>1. h[p] \in Handler
  OBVIOUS
<1>2. [h[p] EXCEPT !.at = place] \in Handler
  BY <1>1 DEF Handler
<1> QED BY <1>1, <1>2 DEF Handler

LEMMA MovesTo ==
  ASSUME h \in [Handlers -> Handler], NEW p \in Handlers, NEW place \in Place,
         NEW m \in Memories \cup {None}, h' = [h EXCEPT ![p].mem = m, ![p].at = place]
  PROVE  /\ h' \in [Handlers -> Handler]
         /\ h'[p].rt = h[p].rt /\ h'[p].at = place /\ h'[p].mem = m
         /\ \A q \in Handlers : q # p => h'[q] = h[q]
<1>1. h[p] \in Handler
  OBVIOUS
<1>2. [h[p] EXCEPT !.mem = m, !.at = place] \in Handler
  BY <1>1 DEF Handler
<1> QED BY <1>1, <1>2 DEF Handler

-----------------------------------------------------------------------------
(* Steps of one handler that change nothing but its place. *)
AtRest == {"idle", "lookup", "storeLoad", "enter", "build", "read", "register", "find",
           "probe", "checking", "leased", "release"}

LEMMA StaysInv ==
  ASSUME IInv, NEW p \in Handlers,
         UNCHANGED <<diskVars, registered, inst, lockVars, open, closer, evictions>>,
         h' \in [Handlers -> Handler],
         \A q \in Handlers : q # p => h'[q] = h[q],
         h'[p].rt = h[p].rt, h'[p].mem = h[p].mem,
         h[p].at \in AtRest, h'[p].at \in AtRest,
         h'[p].at \in Leased <=> h[p].at \in Leased,
         h[p].mem # None => h'[p].at \in Building
  PROVE  IInv'
<1> USE DEF IInv, diskVars, lockVars
<1>1. TypeOK'
  BY DEF TypeOK
<1>2. LeasesHeld'
  BY DEF LeasesHeld
<1>3. \A i : Holders(i)' = Holders(i)
  BY DEF Holders
<1>4. LeasesCounted'
  BY <1>3 DEF LeasesCounted
<1>5. LeaseKeepsInstance'
  BY DEF LeaseKeepsInstance
<1>6. LocksHeld'
  BY DEF LocksHeld, AtRest
<1>7. DeletedIsMarked'
  BY DEF DeletedIsMarked, AtRest
<1>8. SingleOwners'
  BY DEF SingleOwners
<1>9. OwnedRuntimes' /\ CloseFindsAll'
  BY DEF OwnedRuntimes, Owned, CloseFindsAll
<1> QED BY <1>1, <1>2, <1>4, <1>5, <1>6, <1>7, <1>8, <1>9

(* A handler leases the registered session, and closes what it built for itself. *)
LEMMA LeaseInv ==
  ASSUME IInv, NEW p \in Handlers, NEW place \in {"checking", "leased"},
         registered # None, h[p].at \in {"lookup", "enter", "register", "find"},
         Lease(p, place), open' = open \ {h[p].mem},
         UNCHANGED <<diskVars, registered, lockVars, closer, evictions>>
  PROVE  IInv'
<1> USE DEF IInv, diskVars, lockVars
<1> DEFINE i == registered
<1>1. /\ h' = [h EXCEPT ![p].rt = i, ![p].at = place, ![p].mem = None]
      /\ inst' = [inst EXCEPT ![i].leases = @ + 1]
  BY DEF Lease
<1>2. /\ h \in [Handlers -> Handler] /\ i \in Instances
      /\ inst \in [Instances -> Instance] /\ inst[i].leases \in Nat
  BY DEF TypeOK, Instance
<1>3. /\ h' \in [Handlers -> Handler]
      /\ h'[p].rt = i /\ h'[p].at = place /\ h'[p].mem = None
      /\ \A q \in Handlers : q # p => h'[q] = h[q]
  BY <1>1, <1>2 DEF Handler, Place, Leased
<1>4. /\ inst' \in [Instances -> Instance]
      /\ inst'[i].leases = inst[i].leases + 1
      /\ \A j \in Instances :
           inst'[j].deleted = inst[j].deleted /\ inst'[j].mem = inst[j].mem
  BY <1>1, <1>2 DEF Instance
<1> HIDE DEF i
<1>5. TypeOK'
  BY <1>3, <1>4 DEF TypeOK
<1>6. LeasesHeld'
  BY <1>3, <1>2, NoneAssumption DEF LeasesHeld, Leased
<1>7. LeasesCounted'
  <2>1. h[p].rt = None
    BY DEF LeasesHeld, Leased
  <2>2. p \notin Holders(i) /\ Holders(i)' = Holders(i) \cup {p}
    BY <2>1, <1>3, <1>2, NoneAssumption DEF Holders, i
  <2>3. Cardinality(Holders(i))' = Cardinality(Holders(i)) + 1
    BY <2>2, HoldersAreFinite, FS_AddElement
  <2> QED BY <2>3, <1>4 DEF LeasesCounted, i
<1>8. LeaseKeepsInstance'
  BY <1>2, <1>3, <1>4 DEF LeaseKeepsInstance, i
<1>9. LocksHeld'
  <2>1. \A j \in Instances : rtmu[j] # p
    BY DEF LocksHeld
  <2>2. mu # p
    BY DEF LocksHeld
  <2> QED BY <1>3, <2>1, <2>2 DEF LocksHeld
<1>10. DeletedIsMarked'
  <2>1. \A q \in Handlers : h[q].at \in Leased => h[q].rt \in Instances
    BY DEF LeaseKeepsInstance
  <2> QED BY <2>1, <1>2, <1>3, <1>4 DEF DeletedIsMarked, Leased, i
<1>11. SingleOwners'
  BY <1>3, <1>4 DEF SingleOwners
<1>12. OwnedRuntimes'
  <2>1. \A m : m \in open' <=> m \in Owned' /\ m # None
    BY <1>3, <1>4, <1>2 DEF OwnedRuntimes, Owned, SingleOwners, i
  <2> QED BY <2>1, <1>4, <1>2 DEF OwnedRuntimes, i
<1>13. CloseFindsAll'
  BY DEF CloseFindsAll
<1> QED BY <1>5, <1>6, <1>7, <1>8, <1>9, <1>10, <1>11, <1>12, <1>13

(* A load is given up, and what it built is closed. *)
LEMMA AbandonInv ==
  ASSUME IInv, NEW p \in Handlers, h[p].at \in {"build", "register"},
         Abandon(p), UNCHANGED <<diskVars, lockVars, closer, evictions>>
  PROVE  IInv'
<1> USE DEF IInv, diskVars, lockVars
<1>1. /\ h' = [h EXCEPT ![p] = Resting] /\ open' = open \ {h[p].mem}
      /\ UNCHANGED <<registered, inst>>
  BY DEF Abandon, Answers, ClosesUnadopted
<1>2. /\ h' \in [Handlers -> Handler]
      /\ h'[p] = Resting
      /\ \A q \in Handlers : q # p => h'[q] = h[q]
  BY <1>1 DEF TypeOK, Handler, Place, Resting
<1>3. h[p].rt = None /\ \A q \in Handlers : h'[q].rt = h[q].rt
  BY <1>2 DEF LeasesHeld, Leased, Resting
<1>4. TypeOK'
  BY <1>1, <1>2 DEF TypeOK
<1>5. LeasesHeld'
  BY <1>2 DEF LeasesHeld, Leased, Resting
<1>6. LeasesCounted'
  BY <1>1, <1>3, SameHolders DEF LeasesCounted
<1>7. LeaseKeepsInstance'
  BY <1>1, <1>2 DEF LeaseKeepsInstance, Leased, Resting
<1>8. LocksHeld'
  BY <1>1, <1>2 DEF LocksHeld, Resting
<1>9. DeletedIsMarked'
  BY <1>1, <1>2 DEF DeletedIsMarked, Resting
<1>10. SingleOwners'
  BY <1>1, <1>2 DEF SingleOwners, Resting
<1>11. OwnedRuntimes'
  <2>1. \A m : m \in open' <=> m \in Owned' /\ m # None
    BY <1>1, <1>2 DEF OwnedRuntimes, Owned, SingleOwners, Resting, TypeOK
  <2> QED BY <2>1, <1>1 DEF OwnedRuntimes
<1>12. CloseFindsAll'
  BY <1>1 DEF CloseFindsAll
<1> QED BY <1>4, <1>5, <1>6, <1>7, <1>8, <1>9, <1>10, <1>11, <1>12

(* A load has built its memory runtime. *)
LEMMA BuildInv ==
  ASSUME IInv, NEW p \in Handlers, Build(p)
  PROVE  IInv'
<1> USE DEF IInv, diskVars, lockVars
<1>1. CASE Abandon(p)
  BY <1>1, AbandonInv DEF Build
<1>2. ASSUME NEW m \in Memories, Unopened(m), open' = open \cup {m},
             h' = [h EXCEPT ![p].mem = m, ![p].at = "read"],
             UNCHANGED <<registered, inst>>
      PROVE  IInv'
  <2>0. UNCHANGED <<diskVars, lockVars, closer, evictions>> /\ h[p].at = "build"
    BY DEF Build
  <2>1. /\ h' \in [Handlers -> Handler]
        /\ h'[p].rt = h[p].rt /\ h'[p].at = "read" /\ h'[p].mem = m
        /\ \A q \in Handlers : q # p => h'[q] = h[q]
    BY <1>2, MovesTo DEF TypeOK, Place
  <2>2. h[p].mem = None /\ h[p].rt = None /\ m # None
    BY <2>0, NoneAssumption DEF LeasesHeld, Leased, Building
  <2>3. TypeOK'
    BY <1>2, <2>0, <2>1 DEF TypeOK
  <2>4. LeasesHeld'
    BY <2>0, <2>1 DEF LeasesHeld, Leased, Building
  <2>5. LeasesCounted'
    BY <1>2, <2>1, SameHolders DEF LeasesCounted
  <2>6. LeaseKeepsInstance'
    BY <1>2, <2>1 DEF LeaseKeepsInstance, Leased
  <2>7. LocksHeld'
    BY <2>0, <2>1 DEF LocksHeld
  <2>8. DeletedIsMarked'
    BY <1>2, <2>0, <2>1 DEF DeletedIsMarked
  <2>9. SingleOwners'
    BY <1>2, <2>1 DEF SingleOwners, Unopened
  <2>10. OwnedRuntimes'
    <3>1. \A n : n \in open' <=> n \in Owned' /\ n # None
      BY <1>2, <2>1, <2>2 DEF OwnedRuntimes, Owned
    <3> QED BY <3>1, <1>2, <2>0 DEF OwnedRuntimes
  <2>11. CloseFindsAll'
    BY <1>2, <2>0 DEF CloseFindsAll
  <2> QED BY <2>3, <2>4, <2>5, <2>6, <2>7, <2>8, <2>9, <2>10, <2>11
<1> QED BY <1>1, <1>2 DEF Build

(* A load installs its session, with the lease of its request. *)
LEMMA InstallInv ==
  ASSUME IInv, NEW p \in Handlers, h[p].at = "register", mu = None,
         ~RefusesLoad, InstallsWhenVacant(p),
         UNCHANGED <<diskVars, lockVars, closer, evictions>>
  PROVE  IInv'
<1> USE DEF IInv, diskVars, lockVars
<1>0. registered = None /\ stored /\ ~Closed
  BY DEF InstallsWhenVacant, RefusesLoad, TypeOK
<1>1. PICK i \in Instances :
        /\ Unused(i)
        /\ registered' = i
        /\ inst' = [inst EXCEPT ![i] = Fresh(h[p].seq, h[p].mem)]
        /\ h' = [h EXCEPT ![p].rt = i, ![p].at = "leased", ![p].mem = None]
        /\ open' = open
  BY DEF InstallsWhenVacant, Installs
<1>2. /\ h' \in [Handlers -> Handler]
      /\ h'[p].rt = i /\ h'[p].at = "leased" /\ h'[p].mem = None
      /\ \A q \in Handlers : q # p => h'[q] = h[q]
  BY <1>1 DEF TypeOK, Handler, Place, Leased
<1>3. /\ inst' \in [Instances -> Instance]
      /\ inst'[i] = Fresh(h[p].seq, h[p].mem)
      /\ \A j \in Instances : j # i => inst'[j] = inst[j]
  BY <1>1 DEF TypeOK, Handler, Instance, Fresh
<1>4. h[p].rt = None /\ i # None /\ \A q \in Handlers : h[q].rt # i
  BY <1>1, NoneAssumption DEF LeasesHeld, Leased, Unused, Holders
<1>5. TypeOK'
  BY <1>1, <1>2, <1>3 DEF TypeOK
<1>6. LeasesHeld'
  BY <1>2, <1>4 DEF LeasesHeld, Leased
<1>7. LeasesCounted'
  <2>1. Holders(i)' = {p}
    BY <1>2, <1>4 DEF Holders
  <2>2. Cardinality(Holders(i)') = 1
    BY <2>1, FS_Singleton
  <2> QED BY <2>2, <1>1, <1>3 DEF LeasesCounted, Fresh
<1>8. LeaseKeepsInstance'
  BY <1>0, <1>1, <1>2, <1>3, <1>4, NoneAssumption DEF LeaseKeepsInstance
<1>9. LocksHeld'
  <2>1. \A j \in Instances : rtmu[j] # p
    BY DEF LocksHeld
  <2>2. mu # p
    BY DEF LocksHeld
  <2> QED BY <1>2, <2>1, <2>2 DEF LocksHeld
<1>10. DeletedIsMarked'
  <2>1. \A q \in Handlers : h[q].at # "coldRead"
    BY NoneAssumption DEF LocksHeld
  <2>2. \A q \in Handlers : q # p /\ h[q].at \in Leased => inst'[h[q].rt] = inst[h[q].rt]
    BY <1>3, <1>4 DEF LeaseKeepsInstance
  <2>3. inst'[i].deleted = FALSE
    BY <1>3 DEF Fresh
  <2> QED BY <1>0, <1>1, <1>2, <2>1, <2>2, <2>3 DEF DeletedIsMarked, Leased
<1>11. SingleOwners'
  <2>1. inst'[i].mem = h[p].mem /\ inst'[i].deleted = FALSE
    BY <1>3 DEF Fresh
  <2>2. \A j \in Instances : j # registered' \/ inst'[j].deleted => inst'[j].mem = None
    <3>1. ~inst'[i].deleted
      BY <2>1
    <3>2. \A j \in Instances : inst[j].mem = None
      BY <1>0, NoneAssumption DEF SingleOwners
    <3>3. \A j \in Instances : j # i => inst'[j].mem = None
      BY <1>3, <3>2
    <3> QED BY <1>1, <3>1, <3>3
  <2>3. \A q \in Handlers : h'[q].mem # None =>
          q # p /\ h'[q] = h[q] /\ h[q].mem # h[p].mem
    BY <1>2 DEF SingleOwners
  <2>4. \A q \in Handlers : h'[q].mem # None =>
          /\ \A r \in Handlers : h'[r].mem = h'[q].mem => r = q
          /\ \A j \in Instances : inst'[j].mem # h'[q].mem
    BY <1>2, <1>3, <2>1, <2>3 DEF SingleOwners
  <2> QED BY <2>2, <2>4 DEF SingleOwners
<1>12. OwnedRuntimes'
  <2>1. inst'[i].mem = h[p].mem
    BY <1>3 DEF Fresh
  <2>2. \A m : m \in open' <=> m \in Owned' /\ m # None
    BY <1>0, <1>1, <1>2, <1>4, <2>1 DEF OwnedRuntimes, Owned
  <2> QED BY <2>2, <1>0 DEF OwnedRuntimes, Closed
<1>13. CloseFindsAll'
  BY <1>0 DEF CloseFindsAll, Closed
<1> QED BY <1>5, <1>6, <1>7, <1>8, <1>9, <1>10, <1>11, <1>12, <1>13

(* A request gives its lease back. *)
LEMMA ReleaseInv ==
  ASSUME IInv, NEW p \in Handlers, Release(p)
  PROVE  IInv'
<1> USE DEF IInv, diskVars, lockVars
<1> DEFINE i == h[p].rt
<1>1. /\ h[p].at = "release" /\ i \in Instances
      /\ inst' = [inst EXCEPT ![i].leases = Less(@)]
      /\ h' = [h EXCEPT ![p] = Resting]
      /\ UNCHANGED <<diskVars, registered, lockVars, open, closer, evictions>>
  BY DEF Release, Answers, LeaseKeepsInstance, Leased
<1>2. /\ h' \in [Handlers -> Handler]
      /\ h'[p] = Resting
      /\ \A q \in Handlers : q # p => h'[q] = h[q]
  BY <1>1 DEF TypeOK, Handler, Place, Resting
<1>3. /\ inst' \in [Instances -> Instance]
      /\ inst'[i].leases = Less(inst[i].leases)
      /\ \A j \in Instances :
           inst'[j].deleted = inst[j].deleted /\ inst'[j].mem = inst[j].mem
      /\ \A j \in Instances : j # i => inst'[j] = inst[j]
  <2>1. inst \in [Instances -> Instance] /\ inst[i] \in Instance
    BY <1>1 DEF TypeOK
  <2>2. Less(inst[i].leases) \in Nat
    BY <2>1 DEF Instance, Less
  <2>3. inst' = [inst EXCEPT ![i] = [inst[i] EXCEPT !.leases = Less(inst[i].leases)]]
    BY <1>1, <2>1
  <2>4. [inst[i] EXCEPT !.leases = Less(inst[i].leases)] \in Instance
    BY <2>1, <2>2 DEF Instance
  <2> HIDE DEF i
  <2> QED BY <1>1, <2>1, <2>3, <2>4 DEF Instance
<1>4. h[p].mem = None
  BY <1>1 DEF LeasesHeld, Building
<1>5. TypeOK'
  BY <1>1, <1>2, <1>3 DEF TypeOK
<1>6. LeasesHeld'
  BY <1>2 DEF LeasesHeld, Leased, Resting
<1>7. LeasesCounted'
  <2>1. CASE registered = i
    <3>1. p \in Holders(i) /\ Holders(registered)' = Holders(i) \ {p}
      BY <2>1, <1>1, <1>2, NoneAssumption DEF Holders, Resting
    <3>2. Cardinality(Holders(registered)') = Cardinality(Holders(i)) - 1
      BY <3>1, HoldersAreFinite, FS_RemoveElement
    <3>3. inst[i].leases = Cardinality(Holders(i)) /\ Cardinality(Holders(registered)') \in Nat
      <4>1. registered # None
        BY <2>1, <1>1, NoneAssumption
      <4>2. Holders(registered)' \in SUBSET Holders(i)
        BY <3>1
      <4> QED BY <4>1, <4>2, <2>1, HoldersAreFinite, FS_Subset, FS_CardinalityType
              DEF LeasesCounted
    <3> QED BY <2>1, <1>1, <1>3, <3>2, <3>3, HoldersAreFinite DEF LeasesCounted, Less
  <2>2. CASE registered # i /\ registered # None
    <3>1. Holders(registered)' = Holders(registered)
      BY <2>2, <1>1, <1>2 DEF Holders, Resting
    <3> QED BY <3>1, <2>2, <1>1, <1>3 DEF LeasesCounted, TypeOK
  <2>3. CASE registered = None
    BY <2>3, <1>1 DEF LeasesCounted
  <2> QED BY <2>1, <2>2, <2>3
<1>8. LeaseKeepsInstance'
  BY <1>1, <1>2, <1>3 DEF LeaseKeepsInstance, Leased, Resting
<1>9. LocksHeld'
  <2>1. \A j \in Instances : rtmu[j] # p
    BY <1>1 DEF LocksHeld
  <2>2. mu # p
    BY <1>1 DEF LocksHeld
  <2> QED BY <1>1, <1>2, <2>1, <2>2 DEF LocksHeld, Resting
<1>10. DeletedIsMarked'
  <2>1. \A q \in Handlers : h[q].at \in Leased => h[q].rt \in Instances
    BY DEF LeaseKeepsInstance
  <2> QED BY <1>1, <1>2, <1>3, <2>1 DEF DeletedIsMarked, Leased, Resting, TypeOK
<1>11. SingleOwners'
  BY <1>1, <1>2, <1>3, <1>4 DEF SingleOwners, Resting
<1>12. OwnedRuntimes'
  <2>1. \A m : m \in open' <=> m \in Owned' /\ m # None
    BY <1>1, <1>2, <1>3, <1>4 DEF OwnedRuntimes, Owned, Resting, TypeOK
  <2> QED BY <2>1, <1>1, <1>3 DEF OwnedRuntimes, TypeOK
<1>13. CloseFindsAll'
  BY <1>1 DEF CloseFindsAll
<1> QED BY <1>5, <1>6, <1>7, <1>8, <1>9, <1>10, <1>11, <1>12, <1>13

-----------------------------------------------------------------------------
(* Work on a leased session. *)

(* publish touches the journal and the position of the session. *)
LEMMA PublishInv ==
  ASSUME IInv, NEW p \in Handlers, Publish(p)
  PROVE  IInv'
<1> USE DEF IInv, diskVars, lockVars
<1> DEFINE i == h[p].rt
<1>1. /\ i \in Instances
      /\ journal' = Append(journal, inst[i].seq + 1)
      /\ inst' = [inst EXCEPT ![i].seq = @ + 1]
      /\ UNCHANGED <<stored, registered, lockVars, open, h, closer, evictions>>
  BY DEF Publish, LeaseKeepsInstance, Leased
<1>2. /\ inst' \in [Instances -> Instance]
      /\ \A j \in Instances :
           /\ inst'[j].deleted = inst[j].deleted /\ inst'[j].mem = inst[j].mem
           /\ inst'[j].leases = inst[j].leases
  <2>1. inst \in [Instances -> Instance] /\ inst[i] \in Instance
    BY <1>1 DEF TypeOK
  <2>2. inst[i].seq + 1 \in Nat
    BY <2>1 DEF Instance
  <2> QED BY <1>1, <2>1, <2>2 DEF Instance
<1>3. TypeOK'
  <2>1. inst[i].seq + 1 \in Nat
    BY <1>1 DEF TypeOK, Instance
  <2>2. journal' \in Seq(Nat)
    BY <1>1, <2>1 DEF TypeOK
  <2> QED BY <1>1, <1>2, <2>2 DEF TypeOK
<1>4. LeasesHeld' /\ LocksHeld' /\ CloseFindsAll'
  BY <1>1 DEF LeasesHeld, LocksHeld, CloseFindsAll
<1>5. LeasesCounted'
  BY <1>1, <1>2, SameHolders DEF LeasesCounted, TypeOK
<1>6. LeaseKeepsInstance'
  BY <1>1, <1>2 DEF LeaseKeepsInstance
<1>7. DeletedIsMarked'
  <2>1. \A q \in Handlers : h[q].at \in Leased => h[q].rt \in Instances
    BY DEF LeaseKeepsInstance
  <2> QED BY <1>1, <1>2, <2>1 DEF DeletedIsMarked, Leased, TypeOK
<1>8. SingleOwners'
  BY <1>1, <1>2 DEF SingleOwners
<1>9. OwnedRuntimes'
  <2>1. \A m : m \in open' <=> m \in Owned' /\ m # None
    BY <1>1, <1>2 DEF OwnedRuntimes, Owned, TypeOK
  <2> QED BY <2>1, <1>1, <1>2 DEF OwnedRuntimes, TypeOK
<1> QED BY <1>3, <1>4, <1>5, <1>6, <1>7, <1>8, <1>9

(* A switch takes rt.mu. *)
LEMMA SwitchInv ==
  ASSUME IInv, NEW p \in Handlers, Switch(p)
  PROVE  IInv'
<1> USE DEF IInv, diskVars, lockVars
<1> DEFINE i == h[p].rt
<1>1. /\ h[p].at = "leased" /\ i \in Instances /\ rtmu[i] = None
      /\ rtmu' = [rtmu EXCEPT ![i] = p]
      /\ h' = [h EXCEPT ![p].at = "switching"]
      /\ UNCHANGED <<diskVars, registered, inst, mu, open, closer, evictions>>
  BY DEF Switch, Goes, LeaseKeepsInstance, Leased
<1> HIDE DEF i
<1>2. /\ h' \in [Handlers -> Handler]
      /\ h'[p].rt = h[p].rt /\ h'[p].at = "switching" /\ h'[p].mem = h[p].mem
      /\ \A q \in Handlers : q # p => h'[q] = h[q]
  <2>1. h \in [Handlers -> Handler]
    BY DEF TypeOK
  <2> QED BY <1>1, <2>1 DEF Handler, Place, Leased
<1> USE DEF i
<1>3. TypeOK'
  BY <1>1, <1>2 DEF TypeOK
<1>4. LeasesHeld'
  BY <1>1, <1>2 DEF LeasesHeld, Leased, Building
<1>5. LeasesCounted' /\ LeaseKeepsInstance'
  BY <1>1, <1>2, SameHolders DEF LeasesCounted, LeaseKeepsInstance, Leased
<1>6. LocksHeld'
  BY <1>1, <1>2, NoneAssumption DEF LocksHeld, TypeOK
<1>7. DeletedIsMarked'
  BY <1>1, <1>2 DEF DeletedIsMarked
<1>8. SingleOwners' /\ OwnedRuntimes' /\ CloseFindsAll'
  BY <1>1, <1>2 DEF SingleOwners, OwnedRuntimes, Owned, CloseFindsAll
<1> QED BY <1>3, <1>4, <1>5, <1>6, <1>7, <1>8

(* The handler that keeps rt.mu gives it up, and goes to its release. *)
LEMMA UnlockKeepsLocks ==
  ASSUME TypeOK, LocksHeld, NEW p \in Handlers, h[p].at \in {"switching", "adopting"},
         h[p].rt \in Instances, Unlock(p), UNCHANGED mu,
         h'[p].at = "release", h'[p].rt = h[p].rt,
         \A q \in Handlers : q # p => h'[q] = h[q]
  PROVE  LocksHeld'
BY NoneAssumption DEF LocksHeld, Unlock, TypeOK

LEMMA RebuildInv ==
  ASSUME IInv, NEW p \in Handlers, Rebuild(p)
  PROVE  IInv'
<1> USE DEF IInv, diskVars, lockVars
<1>0. /\ h[p].at = "switching" /\ h[p].rt \in Instances /\ h[p].mem = None
      /\ UNCHANGED <<diskVars, registered, inst, mu, closer, evictions>>
  BY DEF Rebuild, LeaseKeepsInstance, LeasesHeld, Leased, Building
<1>1. ASSUME Goes(p, "release"), Unlock(p), UNCHANGED open
      PROVE  IInv'
  <2>1. /\ h' \in [Handlers -> Handler]
        /\ h'[p].rt = h[p].rt /\ h'[p].at = "release" /\ h'[p].mem = h[p].mem
        /\ \A q \in Handlers : q # p => h'[q] = h[q]
    BY <1>1, GoesTo DEF Goes, TypeOK, Place, Leased
  <2>2. TypeOK'
    BY <1>0, <1>1, <2>1 DEF TypeOK, Unlock
  <2>3. LeasesHeld'
    BY <1>0, <2>1 DEF LeasesHeld, Leased
  <2>4. LeasesCounted' /\ LeaseKeepsInstance'
    BY <1>0, <2>1, SameHolders DEF LeasesCounted, LeaseKeepsInstance, Leased
  <2>5. LocksHeld'
    BY <1>0, <1>1, <2>1, UnlockKeepsLocks
  <2>6. DeletedIsMarked'
    BY <1>0, <2>1 DEF DeletedIsMarked
  <2>7. SingleOwners' /\ OwnedRuntimes' /\ CloseFindsAll'
    BY <1>0, <1>1, <2>1 DEF SingleOwners, OwnedRuntimes, Owned, CloseFindsAll
  <2> QED BY <2>2, <2>3, <2>4, <2>5, <2>6, <2>7
<1>2. ASSUME stored, NEW m \in Memories, Unopened(m), open' = open \cup {m},
             h' = [h EXCEPT ![p].mem = m, ![p].at = "adopting"], UNCHANGED rtmu
      PROVE  IInv'
  <2>1. /\ h' \in [Handlers -> Handler]
        /\ h'[p].rt = h[p].rt /\ h'[p].at = "adopting" /\ h'[p].mem = m
        /\ \A q \in Handlers : q # p => h'[q] = h[q]
    BY <1>2, MovesTo DEF TypeOK, Place, Leased
  <2>2. m # None
    BY NoneAssumption
  <2>3. TypeOK'
    BY <1>0, <1>2, <2>1 DEF TypeOK
  <2>4. LeasesHeld'
    BY <1>0, <2>1 DEF LeasesHeld, Leased, Building
  <2>5. LeasesCounted' /\ LeaseKeepsInstance'
    BY <1>0, <2>1, SameHolders DEF LeasesCounted, LeaseKeepsInstance, Leased
  <2>6. LocksHeld'
    BY <1>0, <1>2, <2>1 DEF LocksHeld
  <2>7. DeletedIsMarked'
    <3>1. ~inst[h[p].rt].deleted
      BY <1>0, <1>2 DEF DeletedIsMarked
    <3> QED BY <1>0, <2>1, <3>1 DEF DeletedIsMarked
  <2>8. SingleOwners'
    BY <1>0, <1>2, <2>1 DEF SingleOwners, Unopened
  <2>9. OwnedRuntimes'
    <3>1. \A n : n \in open' <=> n \in Owned' /\ n # None
      BY <1>0, <1>2, <2>1, <2>2 DEF OwnedRuntimes, Owned
    <3> QED BY <3>1, <1>0 DEF OwnedRuntimes
  <2>10. CloseFindsAll'
    BY <1>0 DEF CloseFindsAll
  <2> QED BY <2>3, <2>4, <2>5, <2>6, <2>7, <2>8, <2>9, <2>10
<1> QED BY <1>1, <1>2 DEF Rebuild

(* The new runtime takes the place of the old one, or is closed itself. *)
LEMMA AdoptInv ==
  ASSUME IInv, NEW p \in Handlers, Adopt(p)
  PROVE  IInv'
<1> USE DEF IInv, diskVars, lockVars
<1> DEFINE i == h[p].rt
<1>1. /\ h[p].at = "adopting" /\ i \in Instances /\ mu = None
      /\ h' = [h EXCEPT ![p].at = "release", ![p].mem = None]
      /\ Unlock(p)
      /\ UNCHANGED <<diskVars, registered, mu, closer, evictions>>
  BY DEF Adopt, LeaseKeepsInstance, Leased
<1>2. ~inst[i].deleted /\ registered = i /\ registered # None
  BY <1>1, NoneAssumption DEF DeletedIsMarked, LeaseKeepsInstance, Leased
<1>3. /\ h' \in [Handlers -> Handler]
      /\ h'[p].rt = i /\ h'[p].at = "release" /\ h'[p].mem = None
      /\ \A q \in Handlers : q # p => h'[q] = h[q]
  <2>1. h \in [Handlers -> Handler] /\ h[p] \in Handler
    BY DEF TypeOK
  <2> HIDE DEF i
  <2> QED BY <1>1, <2>1 DEF Handler, Place, Leased, i
<1>4. LocksHeld'
  BY <1>1, <1>3, UnlockKeepsLocks
<1>5. LeasesHeld'
  BY <1>1, <1>3 DEF LeasesHeld, Leased
<1>6. \A j : Holders(j)' = Holders(j)
  BY <1>3 DEF Holders
<1>7. rtmu' \in [Instances -> Handlers \cup {None}]
  BY <1>1 DEF TypeOK, Unlock
<1>8. CloseFindsAll'
  BY <1>1 DEF CloseFindsAll
<1>9. CASE Closed
  <2>1. open' = open \ {h[p].mem} /\ UNCHANGED inst
    BY <1>9 DEF Adopt, ClosesUnadopted
  <2>2. TypeOK'
    BY <1>1, <1>3, <1>7, <2>1 DEF TypeOK
  <2>3. LeasesCounted' /\ LeaseKeepsInstance' /\ DeletedIsMarked'
    BY <1>1, <1>3, <1>6, <2>1
       DEF LeasesCounted, LeaseKeepsInstance, DeletedIsMarked, Leased
  <2>4. SingleOwners'
    BY <1>1, <1>3, <2>1 DEF SingleOwners
  <2>5. OwnedRuntimes'
    <3>1. \A n : n \in open' <=> n \in Owned' /\ n # None
      BY <1>1, <1>2, <1>3, <2>1 DEF OwnedRuntimes, Owned, SingleOwners
    <3> QED BY <3>1, <1>1, <2>1 DEF OwnedRuntimes
  <2> QED BY <2>2, <2>3, <2>4, <2>5, <1>4, <1>5, <1>8
<1>10. CASE ~Closed
  <2>1. open' = open \ {inst[i].mem} /\ inst' = [inst EXCEPT ![i].mem = h[p].mem]
    BY <1>10 DEF Adopt
  <2>2. h[p].mem \in Memories \cup {None}
    BY DEF TypeOK, Handler
  <2>3. /\ inst' \in [Instances -> Instance]
        /\ inst'[i].mem = h[p].mem
        /\ \A j \in Instances : j # i => inst'[j] = inst[j]
        /\ \A j \in Instances :
             inst'[j].deleted = inst[j].deleted /\ inst'[j].leases = inst[j].leases
    <3>1. inst \in [Instances -> Instance]
      BY DEF TypeOK
    <3> HIDE DEF i
    <3> QED BY <1>1, <2>1, <2>2, <3>1 DEF Instance
  <2>4. TypeOK'
    BY <1>1, <1>3, <1>7, <2>1, <2>3 DEF TypeOK
  <2>5. LeasesCounted'
    BY <1>1, <1>2, <1>6, <2>3 DEF LeasesCounted
  <2>6. LeaseKeepsInstance' /\ DeletedIsMarked'
    BY <1>1, <1>2, <1>3, <2>3 DEF LeaseKeepsInstance, DeletedIsMarked, Leased
  <2>7. SingleOwners'
    <3>1. \A q \in Handlers : q # p /\ h[q].mem # None => h[q].mem # h[p].mem
      BY DEF SingleOwners
    <3> QED BY <1>1, <1>2, <1>3, <2>3, <3>1 DEF SingleOwners
  <2>8. OwnedRuntimes'
    <3>1. \A n : n \in open' <=> n \in Owned' /\ n # None
      <4>1. inst[i].mem # None => inst[i].mem # h[p].mem
        BY <1>1 DEF SingleOwners
      <4>2. \A q \in Handlers : q # p /\ h[q].mem # None => h[q].mem # inst[i].mem
        BY <1>1 DEF SingleOwners
      <4> QED BY <1>1, <1>2, <1>3, <2>1, <2>3, <4>1, <4>2
              DEF OwnedRuntimes, Owned, SingleOwners
    <3>2. closer'.at # "closed"
      BY <1>1, <1>10 DEF Closed
    <3> QED BY <3>1, <3>2 DEF OwnedRuntimes
  <2> QED BY <2>4, <2>5, <2>6, <2>7, <2>8, <1>4, <1>5, <1>8
<1> QED BY <1>9, <1>10

(* The session is deleted, and its object marked. *)
LEMMA DeleteInv ==
  ASSUME IInv, NEW p \in Handlers, Delete(p)
  PROVE  IInv'
<1> USE DEF IInv, diskVars, lockVars
<1> DEFINE i == h[p].rt
<1>1. /\ h[p].at = "leased" /\ i \in Instances /\ rtmu[i] = None
      /\ ~inst[i].deleted
      /\ stored' = FALSE /\ journal' = <<>>
      /\ open' = open \ {inst[i].mem}
      /\ inst' = [inst EXCEPT ![i].deleted = TRUE, ![i].mem = None]
      /\ h' = [h EXCEPT ![p].at = "unregister"]
      /\ UNCHANGED <<registered, lockVars, closer, evictions>>
  BY DEF Delete, Goes, LeaseKeepsInstance, Leased
<1>2. registered = i /\ registered # None
  BY <1>1, NoneAssumption DEF LeaseKeepsInstance, Leased
<1>3. /\ h' \in [Handlers -> Handler]
      /\ h'[p].rt = i /\ h'[p].at = "unregister" /\ h'[p].mem = h[p].mem
      /\ \A q \in Handlers : q # p => h'[q] = h[q]
  <2>1. h \in [Handlers -> Handler] /\ h[p] \in Handler
    BY DEF TypeOK
  <2> HIDE DEF i
  <2> QED BY <1>1, <2>1 DEF Handler, Place, Leased, i
<1>4. /\ inst' \in [Instances -> Instance]
      /\ inst'[i].deleted /\ inst'[i].mem = None
      /\ \A j \in Instances : j # i => inst'[j] = inst[j]
      /\ \A j \in Instances : inst'[j].leases = inst[j].leases
  <2>1. inst \in [Instances -> Instance]
    BY DEF TypeOK
  <2> HIDE DEF i
  <2>2. inst[i] \in Instance /\ [inst[i] EXCEPT !.deleted = TRUE, !.mem = None] \in Instance
    BY <1>1, <2>1 DEF Instance
  <2>3. inst' = [inst EXCEPT ![i] = [inst[i] EXCEPT !.deleted = TRUE, !.mem = None]]
    BY <1>1
  <2>4. inst'[i] = [inst[i] EXCEPT !.deleted = TRUE, !.mem = None]
        /\ \A j \in Instances : j # i => inst'[j] = inst[j]
    BY <1>1, <2>1, <2>3
  <2> QED BY <1>1, <2>1, <2>2, <2>3, <2>4 DEF Instance
<1>5. h[p].mem = None
  BY <1>1 DEF LeasesHeld, Building
<1>6. TypeOK'
  <2>1. journal' \in Seq(Nat)
    BY <1>1
  <2>2. stored' \in BOOLEAN
    BY <1>1
  <2>3. open' \subseteq Memories
    BY <1>1 DEF TypeOK
  <2> HIDE DEF i
  <2> QED BY <1>1, <1>3, <1>4, <2>1, <2>2, <2>3 DEF TypeOK
<1>7. LeasesHeld'
  BY <1>1, <1>3 DEF LeasesHeld, Leased, Building
<1>8. LeasesCounted'
  <2>1. \A j : Holders(j)' = Holders(j)
    BY <1>3 DEF Holders
  <2> QED BY <1>1, <1>2, <1>4, <2>1 DEF LeasesCounted
<1>9. LeaseKeepsInstance'
  BY <1>1, <1>2, <1>3, <1>4 DEF LeaseKeepsInstance, Leased
<1>10. LocksHeld'
  BY <1>1, <1>3 DEF LocksHeld
<1>11. DeletedIsMarked'
  <2>1. \A q \in Handlers : h[q].at # "coldRead"
    BY <1>2 DEF DeletedIsMarked
  <2>2. \A q \in Handlers : h[q].at = "adopting" => h[q].rt \in Instances /\ h[q].rt # i
    BY <1>1, NoneAssumption DEF LocksHeld, LeaseKeepsInstance, Leased
  <2>3. \A q \in Handlers : h[q].at = "unregister" => h[q].rt \in Instances
    BY DEF LeaseKeepsInstance, Leased
  <2>4. \A q \in Handlers : h[q].at = "unregister" => inst'[h[q].rt].deleted
    BY <1>4, <2>3 DEF DeletedIsMarked
  <2>5. \A q \in Handlers : h[q].at = "adopting" => ~inst'[h[q].rt].deleted
    BY <1>4, <2>2 DEF DeletedIsMarked
  <2> QED BY <1>1, <1>2, <1>3, <1>4, <2>1, <2>4, <2>5 DEF DeletedIsMarked
<1>12. SingleOwners'
  <2>1. \A j \in Instances : j # registered' \/ inst'[j].deleted => inst'[j].mem = None
    BY <1>1, <1>2, <1>4 DEF SingleOwners
  <2>2. \A q \in Handlers : h'[q].mem = h[q].mem
    BY <1>3
  <2> QED BY <1>4, <2>1, <2>2 DEF SingleOwners
<1>13. OwnedRuntimes'
  <2>1. \A n : n \in open' <=> n \in Owned' /\ n # None
    BY <1>1, <1>2, <1>3, <1>4, <1>5 DEF OwnedRuntimes, Owned, SingleOwners
  <2> QED BY <2>1, <1>1, <1>2, <1>4 DEF OwnedRuntimes
<1>14. CloseFindsAll'
  BY <1>1 DEF CloseFindsAll
<1> QED BY <1>6, <1>7, <1>8, <1>9, <1>10, <1>11, <1>12, <1>13, <1>14

(* A second deletion finds the object marked. *)
LEMMA DeletedAlreadyInv ==
  ASSUME IInv, NEW p \in Handlers, DeletedAlready(p)
  PROVE  IInv'
<1> USE DEF IInv, diskVars, lockVars
<1>1. /\ h[p].at = "leased" /\ inst[h[p].rt].deleted
      /\ h' = [h EXCEPT ![p].at = "unregister"]
      /\ UNCHANGED <<diskVars, registered, inst, lockVars, open, closer, evictions>>
  BY DEF DeletedAlready, Goes
<1>2. /\ h' \in [Handlers -> Handler]
      /\ h'[p].rt = h[p].rt /\ h'[p].at = "unregister" /\ h'[p].mem = h[p].mem
      /\ \A q \in Handlers : q # p => h'[q] = h[q]
  BY <1>1, GoesTo DEF TypeOK, Place, Leased
<1>3. TypeOK'
  BY <1>1, <1>2 DEF TypeOK
<1>4. LeasesHeld'
  BY <1>1, <1>2 DEF LeasesHeld, Leased, Building
<1>5. LeasesCounted' /\ LeaseKeepsInstance'
  BY <1>1, <1>2, SameHolders DEF LeasesCounted, LeaseKeepsInstance, Leased
<1>6. LocksHeld'
  BY <1>1, <1>2 DEF LocksHeld
<1>7. DeletedIsMarked'
  BY <1>1, <1>2 DEF DeletedIsMarked
<1>8. SingleOwners' /\ OwnedRuntimes' /\ CloseFindsAll'
  BY <1>1, <1>2 DEF SingleOwners, OwnedRuntimes, Owned, CloseFindsAll
<1> QED BY <1>3, <1>4, <1>5, <1>6, <1>7, <1>8

(* The deleted session leaves the registry. *)
LEMMA UnregisterInv ==
  ASSUME IInv, NEW p \in Handlers, Unregister(p)
  PROVE  IInv'
<1> USE DEF IInv, diskVars, lockVars
<1>1. /\ h[p].at = "unregister" /\ h[p].rt \in Instances /\ mu = None
      /\ registered' = IF registered = h[p].rt THEN None ELSE registered
      /\ h' = [h EXCEPT ![p].at = "release"]
      /\ UNCHANGED <<diskVars, inst, lockVars, open, closer, evictions>>
      /\ inst[h[p].rt].deleted
  BY DEF Unregister, Goes, LeaseKeepsInstance, Leased, DeletedIsMarked
<1>2. /\ h' \in [Handlers -> Handler]
      /\ h'[p].rt = h[p].rt /\ h'[p].at = "release" /\ h'[p].mem = h[p].mem
      /\ \A q \in Handlers : q # p => h'[q] = h[q]
  BY <1>1, GoesTo DEF TypeOK, Place, Leased
<1>3. inst[h[p].rt].mem = None
  BY <1>1 DEF SingleOwners
<1>4. TypeOK'
  BY <1>1, <1>2 DEF TypeOK
<1>5. LeasesHeld'
  BY <1>1, <1>2 DEF LeasesHeld, Leased, Building
<1>6. LeasesCounted'
  <2>1. \A j : Holders(j)' = Holders(j)
    BY <1>2 DEF Holders
  <2> QED BY <1>1, <2>1 DEF LeasesCounted
<1>7. LeaseKeepsInstance'
  BY <1>1, <1>2 DEF LeaseKeepsInstance, Leased
<1>8. LocksHeld'
  BY <1>1, <1>2 DEF LocksHeld
<1>9. DeletedIsMarked'
  BY <1>1, <1>2 DEF DeletedIsMarked
<1>10. SingleOwners'
  <2>1. \A j \in Instances : j # registered' \/ inst'[j].deleted => inst'[j].mem = None
    BY <1>1, <1>3 DEF SingleOwners
  <2>2. \A q \in Handlers : h'[q].mem = h[q].mem
    BY <1>2
  <2> QED BY <1>1, <2>1, <2>2 DEF SingleOwners
<1>11. OwnedRuntimes'
  <2>1. \A n : n \in open' <=> n \in Owned' /\ n # None
    BY <1>1, <1>2, <1>3 DEF OwnedRuntimes, Owned
  <2> QED BY <2>1, <1>1, <1>3 DEF OwnedRuntimes
<1>12. CloseFindsAll'
  BY <1>1 DEF CloseFindsAll
<1> QED BY <1>4, <1>5, <1>6, <1>7, <1>8, <1>9, <1>10, <1>11, <1>12

-----------------------------------------------------------------------------
(* Reads under s.mu. *)

(* A read takes s.mu. *)
LEMMA LockInv ==
  ASSUME IInv, NEW p \in Handlers, mu = None, mu' = p,
         NEW place \in {"coldRead", "probing"},
         h[p].at \in {"find", "probe"}, Goes(p, place),
         place = "coldRead" => registered = None /\ stored,
         UNCHANGED <<diskVars, registered, inst, rtmu, open, closer, evictions>>
  PROVE  IInv'
<1> USE DEF IInv, diskVars, lockVars
<1>1. /\ h' \in [Handlers -> Handler]
      /\ h'[p].rt = h[p].rt /\ h'[p].at = place /\ h'[p].mem = h[p].mem
      /\ \A q \in Handlers : q # p => h'[q] = h[q]
  BY GoesTo DEF Goes, TypeOK, Place, Leased
<1>2. TypeOK'
  BY <1>1 DEF TypeOK
<1>3. LeasesHeld'
  BY <1>1 DEF LeasesHeld, Leased, Building
<1>4. LeasesCounted' /\ LeaseKeepsInstance'
  BY <1>1, SameHolders DEF LeasesCounted, LeaseKeepsInstance, Leased
<1>5. LocksHeld'
  BY <1>1, NoneAssumption DEF LocksHeld
<1>6. DeletedIsMarked'
  BY <1>1 DEF DeletedIsMarked
<1>7. SingleOwners' /\ OwnedRuntimes' /\ CloseFindsAll'
  BY <1>1 DEF SingleOwners, OwnedRuntimes, Owned, CloseFindsAll
<1> QED BY <1>2, <1>3, <1>4, <1>5, <1>6, <1>7

(* A read is answered; it gives up s.mu if it had it. *)
LEMMA AnswerInv ==
  ASSUME IInv, NEW p \in Handlers, Answers(p),
         h[p].at \in {"storeLoad", "enter", "find", "coldRead", "probe", "probing"},
         mu' = IF h[p].at \in {"coldRead", "probing"} THEN None ELSE mu,
         UNCHANGED <<diskVars, registered, inst, rtmu, open, closer, evictions>>
  PROVE  IInv'
<1> USE DEF IInv, diskVars, lockVars
<1>1. h[p].rt = None /\ h[p].mem = None
  BY DEF LeasesHeld, Leased, Building
<1>2. /\ h' \in [Handlers -> Handler]
      /\ h'[p].rt = None /\ h'[p].at = "idle" /\ h'[p].mem = None
      /\ \A q \in Handlers : q # p => h'[q] = h[q]
  BY DEF Answers, TypeOK, Handler, Place, Resting
<1>3. TypeOK'
  BY <1>2 DEF TypeOK
<1>4. LeasesHeld'
  BY <1>2 DEF LeasesHeld, Leased
<1>5. LeasesCounted' /\ LeaseKeepsInstance'
  BY <1>1, <1>2, SameHolders DEF LeasesCounted, LeaseKeepsInstance, Leased
<1>6. LocksHeld'
  <2>1. \A j \in Instances : rtmu[j] # p
    BY DEF LocksHeld
  <2> QED BY <1>2, <2>1, NoneAssumption DEF LocksHeld
<1>7. DeletedIsMarked'
  BY <1>2 DEF DeletedIsMarked
<1>8. SingleOwners' /\ OwnedRuntimes' /\ CloseFindsAll'
  <2>1. \A q \in Handlers : h'[q].mem = h[q].mem
    BY <1>1, <1>2
  <2> QED BY <2>1 DEF SingleOwners, OwnedRuntimes, Owned, CloseFindsAll
<1> QED BY <1>3, <1>4, <1>5, <1>6, <1>7, <1>8

-----------------------------------------------------------------------------
(* The reaper and Close. *)

LEMMA ReapInv ==
  ASSUME IInv, Reap
  PROVE  IInv'
<1> USE DEF IInv, diskVars, lockVars
<1> DEFINE i == registered
<1>1. /\ i \in Instances /\ i # None /\ mu = None /\ ~Closed
      /\ inst[i].leases = 0
      /\ open' = open \ {inst[i].mem}
      /\ inst' = [inst EXCEPT ![i].closing = TRUE, ![i].mem = None]
      /\ registered' = None
      /\ evictions' = evictions + 1
      /\ UNCHANGED <<diskVars, lockVars, h, closer>>
  BY DEF Reap, MayBeReaped, TypeOK
<1>2. \A q \in Handlers : h[q].rt # i
  <2>1. Cardinality(Holders(i)) = 0
    BY <1>1 DEF LeasesCounted
  <2>2. Holders(i) = {}
    BY <2>1, HoldersAreFinite, FS_EmptySet
  <2> QED BY <2>2 DEF Holders
<1>3. /\ inst' \in [Instances -> Instance]
      /\ inst'[i].mem = None
      /\ \A j \in Instances : j # i => inst'[j] = inst[j]
      /\ \A j \in Instances : inst'[j].deleted = inst[j].deleted
  <2>1. inst \in [Instances -> Instance]
    BY DEF TypeOK
  <2> HIDE DEF i
  <2> QED BY <1>1, <2>1 DEF Instance
<1>4. TypeOK'
  <2>1. evictions' \in Nat
    BY <1>1 DEF TypeOK
  <2>2. open' \subseteq Memories
    BY <1>1 DEF TypeOK
  <2> QED BY <1>1, <1>3, <2>1, <2>2 DEF TypeOK
<1>5. LeasesHeld' /\ LeasesCounted' /\ LocksHeld'
  BY <1>1 DEF LeasesHeld, LeasesCounted, LocksHeld
<1>6. LeaseKeepsInstance'
  BY <1>1, <1>2, <1>3 DEF LeaseKeepsInstance
<1>7. DeletedIsMarked'
  <2>1. \A q \in Handlers : h[q].at \in {"unregister", "adopting"} => h[q].rt \in Instances
    BY DEF LeaseKeepsInstance, Leased
  <2>2. \A q \in Handlers : h[q].at = "unregister" => inst'[h[q].rt].deleted
    BY <1>3, <2>1 DEF DeletedIsMarked
  <2>3. \A q \in Handlers : h[q].at = "adopting" => ~inst'[h[q].rt].deleted
    BY <1>3, <2>1 DEF DeletedIsMarked
  <2>4. \A q \in Handlers : h[q].at # "coldRead"
    BY <1>1 DEF DeletedIsMarked
  <2> QED BY <1>1, <1>3, <2>2, <2>3, <2>4 DEF DeletedIsMarked
<1>8. SingleOwners'
  <2>1. \A j \in Instances : inst'[j].mem = None
    BY <1>1, <1>3 DEF SingleOwners
  <2> QED BY <1>1, <2>1 DEF SingleOwners
<1>9. OwnedRuntimes'
  <2>1. \A n : n \in open' <=> n \in Owned' /\ n # None
    BY <1>1, <1>3 DEF OwnedRuntimes, Owned, SingleOwners
  <2> QED BY <2>1, <1>1 DEF OwnedRuntimes
<1>10. CloseFindsAll'
  BY <1>1 DEF CloseFindsAll
<1> QED BY <1>4, <1>5, <1>6, <1>7, <1>8, <1>9, <1>10

(* Close goes on without touching an object. *)
LEMMA CollectInv ==
  ASSUME IInv, CloseBegins \/ CloseCollects
  PROVE  IInv'
<1> USE DEF IInv, diskVars, lockVars
<1>1. UNCHANGED <<diskVars, registered, inst, lockVars, open, h, evictions>>
  BY DEF CloseBegins, CloseCollects
<1>2. TypeOK'
  <2>1. CASE CloseBegins
    <3>1. closer' = [closer EXCEPT !.at = "collect"]
      BY <2>1 DEF CloseBegins
    <3>2. closer' \in Closer /\ closer'.at = "collect"
      BY <3>1 DEF TypeOK, Closer
    <3> QED BY <1>1, <3>2 DEF TypeOK
  <2>2. CASE CloseCollects
    <3>1. /\ closer'.at = IF registered = None THEN "closed" ELSE "mark"
          /\ closer'.rt = registered
          /\ closer' \in Closer
      BY <2>2 DEF CloseCollects, TypeOK, Closer
    <3> QED BY <1>1, <3>1 DEF TypeOK
  <2> QED BY <2>1, <2>2
<1>3. /\ LeasesHeld' /\ LeaseKeepsInstance' /\ LocksHeld'
      /\ DeletedIsMarked' /\ SingleOwners'
  BY <1>1 DEF LeasesHeld, LeaseKeepsInstance, LocksHeld, DeletedIsMarked, SingleOwners
<1>4. LeasesCounted'
  BY <1>1, SameHolders DEF LeasesCounted
<1>5. OwnedRuntimes' /\ CloseFindsAll'
  <2>1. closer'.at = "closed" => registered = None
    BY DEF CloseBegins, CloseCollects, TypeOK, Closer
  <2>2. closer'.at \in {"mark", "finish", "closed"} => registered = closer'.rt
    BY DEF CloseBegins, CloseCollects, TypeOK, Closer
  <2> QED BY <1>1, <2>1, <2>2 DEF OwnedRuntimes, Owned, CloseFindsAll
<1> QED BY <1>2, <1>3, <1>4, <1>5

LEMMA CloseMarksInv ==
  ASSUME IInv, CloseMarks
  PROVE  IInv'
<1> USE DEF IInv, diskVars, lockVars
<1> DEFINE i == closer.rt
<1>1. /\ closer.at = "mark" /\ i \in Instances
      /\ inst' = [inst EXCEPT ![i].closing = TRUE]
      /\ closer' = [closer EXCEPT !.at = "finish"]
      /\ UNCHANGED <<diskVars, registered, lockVars, open, h, evictions>>
  BY DEF CloseMarks, TypeOK
<1>2. /\ inst' \in [Instances -> Instance]
      /\ \A j \in Instances :
           /\ inst'[j].deleted = inst[j].deleted /\ inst'[j].mem = inst[j].mem
           /\ inst'[j].leases = inst[j].leases
  <2>1. inst \in [Instances -> Instance]
    BY DEF TypeOK
  <2> HIDE DEF i
  <2> QED BY <1>1, <2>1 DEF Instance
<1>3. closer' \in Closer /\ closer'.at = "finish" /\ closer'.rt = i
  BY <1>1 DEF TypeOK, Closer
<1>4. TypeOK'
  BY <1>1, <1>2, <1>3 DEF TypeOK
<1>5. LeasesHeld' /\ LocksHeld'
  BY <1>1 DEF LeasesHeld, LocksHeld
<1>6. LeasesCounted'
  BY <1>1, <1>2, SameHolders DEF LeasesCounted, TypeOK
<1>7. LeaseKeepsInstance'
  BY <1>1, <1>2 DEF LeaseKeepsInstance
<1>8. DeletedIsMarked'
  <2>1. \A q \in Handlers : h[q].at \in Leased => h[q].rt \in Instances
    BY DEF LeaseKeepsInstance
  <2> QED BY <1>1, <1>2, <2>1 DEF DeletedIsMarked, Leased, TypeOK
<1>9. SingleOwners'
  BY <1>1, <1>2 DEF SingleOwners
<1>10. OwnedRuntimes'
  <2>1. \A m : m \in open' <=> m \in Owned' /\ m # None
    BY <1>1, <1>2 DEF OwnedRuntimes, Owned, TypeOK
  <2> QED BY <2>1, <1>3 DEF OwnedRuntimes
<1>11. CloseFindsAll'
  BY <1>1, <1>3 DEF CloseFindsAll
<1> QED BY <1>4, <1>5, <1>6, <1>7, <1>8, <1>9, <1>10, <1>11

LEMMA CloseFinishesInv ==
  ASSUME IInv, CloseFinishes
  PROVE  IInv'
<1> USE DEF IInv, diskVars, lockVars
<1> DEFINE i == closer.rt
<1>1. /\ closer.at = "finish" /\ i \in Instances
      /\ open' = open \ {inst[i].mem}
      /\ inst' = [inst EXCEPT ![i].mem = None]
      /\ closer' = [closer EXCEPT !.at = "closed"]
      /\ UNCHANGED <<diskVars, registered, lockVars, h, evictions>>
  BY DEF CloseFinishes, TypeOK
<1>2. /\ inst' \in [Instances -> Instance]
      /\ inst'[i].mem = None
      /\ \A j \in Instances : j # i => inst'[j] = inst[j]
      /\ \A j \in Instances :
           inst'[j].deleted = inst[j].deleted /\ inst'[j].leases = inst[j].leases
  <2>1. inst \in [Instances -> Instance]
    BY DEF TypeOK
  <2> HIDE DEF i
  <2> QED BY <1>1, <2>1 DEF Instance
<1>3. closer' \in Closer /\ closer'.at = "closed" /\ closer'.rt = i
  BY <1>1 DEF TypeOK, Closer
<1>4. TypeOK'
  <2>1. open' \subseteq Memories
    BY <1>1 DEF TypeOK
  <2> QED BY <1>1, <1>2, <1>3, <2>1 DEF TypeOK
<1>5. LeasesHeld' /\ LocksHeld'
  BY <1>1 DEF LeasesHeld, LocksHeld
<1>6. LeasesCounted'
  BY <1>1, <1>2, SameHolders DEF LeasesCounted, TypeOK
<1>7. LeaseKeepsInstance'
  BY <1>1, <1>2 DEF LeaseKeepsInstance
<1>8. DeletedIsMarked'
  <2>1. \A q \in Handlers : h[q].at \in Leased => h[q].rt \in Instances
    BY DEF LeaseKeepsInstance
  <2> QED BY <1>1, <1>2, <2>1 DEF DeletedIsMarked, Leased, TypeOK
<1>9. SingleOwners'
  <2>1. \A j \in Instances : j # registered' \/ inst'[j].deleted => inst'[j].mem = None
    BY <1>1, <1>2 DEF SingleOwners
  <2> QED BY <1>1, <1>2, <2>1, NoneAssumption DEF SingleOwners
<1>10. registered \in {None, i}
  BY <1>1 DEF CloseFindsAll
<1>11. OwnedRuntimes'
  <2>1. \A m : m \in open' <=> m \in Owned' /\ m # None
    BY <1>1, <1>2, <1>10 DEF OwnedRuntimes, Owned, SingleOwners
  <2> QED BY <2>1, <1>1, <1>2, <1>10 DEF OwnedRuntimes
<1>12. CloseFindsAll'
  BY <1>1, <1>3, <1>10 DEF CloseFindsAll
<1> QED BY <1>4, <1>5, <1>6, <1>7, <1>8, <1>9, <1>11, <1>12

-----------------------------------------------------------------------------
(* The invariant is inductive. *)

LEMMA InitInv == Init => IInv
<1> SUFFICES ASSUME Init PROVE IInv
  OBVIOUS
<1> USE DEF Init
<1>1. Resting \in Handler /\ Resting.at = "idle" /\ Resting.rt = None /\ Resting.mem = None
  BY DEF Resting, Handler, Place
<1>2. h \in [Handlers -> Handler] /\ \A p \in Handlers : h[p] = Resting
  BY <1>1
<1>3. NoInstance \in Instance /\ NoInstance.mem = None /\ ~NoInstance.deleted
  BY DEF NoInstance, Instance
<1>4. inst \in [Instances -> Instance] /\ \A i \in Instances : inst[i] = NoInstance
  BY <1>3
<1>5. closer \in Closer /\ closer.at = "serving"
  BY DEF Closer
<1>6. journal \in Seq(Nat)
  <2>1. PICK n \in 0..MaxEvents : journal = [k \in 1..n |-> k]
    OBVIOUS
  <2>2. n \in Nat /\ journal \in [1..n -> Nat]
    BY <2>1, BoundsAssumption
  <2> QED BY <2>2
<1>7. TypeOK
  BY <1>2, <1>4, <1>5, <1>6 DEF TypeOK
<1>8. LeasesHeld /\ LeaseKeepsInstance /\ LocksHeld
  BY <1>1, <1>2, NoneAssumption DEF LeasesHeld, Leased, LeaseKeepsInstance, LocksHeld
<1>9. LeasesCounted /\ CloseFindsAll
  BY <1>5 DEF LeasesCounted, CloseFindsAll
<1>10. DeletedIsMarked /\ SingleOwners
  BY <1>1, <1>2, <1>3, <1>4 DEF DeletedIsMarked, SingleOwners
<1>11. OwnedRuntimes
  BY <1>1, <1>2, <1>5 DEF OwnedRuntimes, Owned
<1> QED BY <1>7, <1>8, <1>9, <1>10, <1>11 DEF IInv

(* A handler goes from one place at rest to another. *)
LEMMA GoesInv ==
  ASSUME IInv, NEW p \in Handlers, NEW place \in AtRest, h[p].at \in AtRest,
         place \in Leased <=> h[p].at \in Leased,
         h[p].at \in Building => place \in Building,
         Goes(p, place),
         UNCHANGED <<diskVars, registered, inst, lockVars, open, closer, evictions>>
  PROVE  IInv'
<1>1. /\ h' \in [Handlers -> Handler]
      /\ h'[p].rt = h[p].rt /\ h'[p].at = place /\ h'[p].mem = h[p].mem
      /\ \A q \in Handlers : q # p => h'[q] = h[q]
  <2>1. h \in [Handlers -> Handler] /\ h[p] \in Handler
    BY DEF IInv, TypeOK
  <2>2. place \in Place
    BY DEF AtRest, Place, Leased
  <2> QED BY <2>1, <2>2 DEF Goes, Handler
<1>2. h[p].mem # None => h'[p].at \in Building
  BY <1>1 DEF IInv, LeasesHeld
<1> QED BY <1>1, <1>2, StaysInv

LEMMA LoadInv ==
  ASSUME IInv, NEW p \in Handlers, LoadStep(p)
  PROVE  IInv'
<1> USE DEF diskVars, lockVars
<1>1. CASE Lookup(p)
  <2>1. CASE registered # None
    <3>1. h[p].mem = None /\ open' = open \ {h[p].mem}
      BY <1>1, NoneAssumption DEF Lookup, IInv, LeasesHeld, Building, TypeOK
    <3> QED BY <1>1, <2>1, <3>1, LeaseInv DEF Lookup
  <2>2. CASE registered = None
    BY <1>1, <2>2, GoesInv DEF Lookup, AtRest, Leased, Building
  <2> QED BY <2>1, <2>2
<1>2. CASE StoreLoad(p)
  <2>1. CASE stored
    BY <1>2, <2>1, GoesInv DEF StoreLoad, AtRest, Leased, Building
  <2>2. CASE ~stored
    BY <1>2, <2>2, AnswerInv DEF StoreLoad
  <2> QED BY <2>1, <2>2
<1>3. CASE Enter(p)
  <2>1. CASE Closed /\ Answers(p) /\ UNCHANGED inst
    BY <1>3, <2>1, AnswerInv DEF Enter
  <2>2. CASE registered # None /\ Lease(p, "checking")
    <3>1. h[p].mem = None /\ open' = open \ {h[p].mem}
      BY <1>3, NoneAssumption DEF Enter, IInv, LeasesHeld, Building, TypeOK
    <3> QED BY <1>3, <2>2, <3>1, LeaseInv DEF Enter
  <2>3. CASE Goes(p, "build") /\ UNCHANGED inst
    BY <1>3, <2>3, GoesInv DEF Enter, AtRest, Leased, Building
  <2> QED BY <1>3, <2>1, <2>2, <2>3 DEF Enter
<1>4. CASE Build(p)
  BY <1>4, BuildInv
<1>5. CASE ReadJournal(p)
  <2>1. PICK n \in ToSet(journal) \cup {0} :
          h' = [h EXCEPT ![p].seq = n, ![p].at = "register"]
    BY <1>5 DEF ReadJournal
  <2>2. n \in Nat
    BY <2>1 DEF IInv, TypeOK, ToSet
  <2>3. /\ h' \in [Handlers -> Handler]
        /\ h'[p].rt = h[p].rt /\ h'[p].at = "register" /\ h'[p].mem = h[p].mem
        /\ \A q \in Handlers : q # p => h'[q] = h[q]
    <3>1. h \in [Handlers -> Handler] /\ h[p] \in Handler
      BY DEF IInv, TypeOK
    <3> QED BY <2>1, <2>2, <3>1 DEF Handler, Place
  <2> QED BY <1>5, <2>3, StaysInv DEF ReadJournal, AtRest, Leased, Building
<1>6. CASE Register(p)
  <2>0. /\ h[p].at = "register" /\ mu = None
        /\ UNCHANGED <<diskVars, lockVars, closer, evictions>>
    BY <1>6 DEF Register
  <2>1. CASE Abandon(p)
    BY <2>0, <2>1, AbandonInv
  <2>2. CASE JoinsExisting(p)
    BY <2>0, <2>2, LeaseInv DEF JoinsExisting, ClosesUnadopted
  <2>3. CASE ~RefusesLoad /\ InstallsWhenVacant(p)
    BY <2>0, <2>3, InstallInv
  <2> QED BY <1>6, <2>1, <2>2, <2>3 DEF Register
<1>7. CASE CheckDeleted(p)
  BY <1>7, GoesInv DEF CheckDeleted, AtRest, Leased, Building
<1>8. CASE Release(p)
  BY <1>8, ReleaseInv
<1> QED BY <1>1, <1>2, <1>3, <1>4, <1>5, <1>6, <1>7, <1>8 DEF LoadStep

LEMMA WorkInv ==
  ASSUME IInv, NEW p \in Handlers, WorkStep(p)
  PROVE  IInv'
<1>1. CASE Finish(p)
  BY <1>1, GoesInv DEF Finish, AtRest, Leased, Building
<1> QED BY <1>1, PublishInv, SwitchInv, RebuildInv, AdoptInv, DeleteInv, DeletedAlreadyInv,
           UnregisterInv
        DEF WorkStep

LEMMA ReadInv ==
  ASSUME IInv, NEW p \in Handlers, ReadStep(p)
  PROVE  IInv'
<1> USE DEF diskVars, lockVars
<1>1. CASE Find(p)
  <2>0. /\ h[p].at = "find" /\ mu = None
        /\ UNCHANGED <<diskVars, registered, rtmu, open, closer, evictions>>
    BY <1>1 DEF Find
  <2>1. CASE registered # None /\ Lease(p, "leased") /\ UNCHANGED mu
    <3>1. h[p].mem = None /\ open' = open \ {h[p].mem}
      BY <2>0, NoneAssumption DEF IInv, LeasesHeld, Building, TypeOK
    <3> QED BY <2>0, <2>1, <3>1, LeaseInv
  <2>2. CASE Answers(p) /\ UNCHANGED <<inst, mu>>
    BY <2>0, <2>2, AnswerInv
  <2>3. CASE registered = None /\ stored /\ Goes(p, "coldRead") /\ Locks(p) /\ UNCHANGED inst
    BY <2>0, <2>3, LockInv DEF Locks
  <2> QED BY <1>1, <2>1, <2>2, <2>3 DEF Find
<1>2. CASE ColdRead(p)
  BY <1>2, AnswerInv DEF ColdRead
<1>3. CASE Probe(p)
  <2>0. /\ h[p].at = "probe" /\ mu = None
        /\ UNCHANGED <<diskVars, registered, inst, rtmu, open, closer, evictions>>
    BY <1>3 DEF Probe
  <2>1. CASE mu' = p /\ Goes(p, "probing")
    BY <2>0, <2>1, LockInv
  <2>2. CASE UNCHANGED mu /\ Answers(p)
    BY <2>0, <2>2, AnswerInv
  <2> QED BY <1>3, <2>1, <2>2 DEF Probe
<1>4. CASE Probing(p)
  BY <1>4, AnswerInv DEF Probing
<1> QED BY <1>1, <1>2, <1>3, <1>4 DEF ReadStep

LEMMA BeginInv ==
  ASSUME IInv, NEW p \in Handlers, NEW k \in Kinds, Begin(p, k)
  PROVE  IInv'
<1>1. h' = [h EXCEPT ![p] = [Resting EXCEPT !.kind = k, !.at = FirstPlace(k)]]
  BY DEF Begin
<1>2. FirstPlace(k) \in {"lookup", "find", "probe"}
  BY DEF FirstPlace
<1>3. [Resting EXCEPT !.kind = k, !.at = FirstPlace(k)] \in Handler
  BY <1>2, KindsAssumption DEF Resting, Handler, Place
<1>4. h[p].at = "idle" /\ h[p].rt = None /\ h[p].mem = None
  BY DEF Begin, IInv, LeasesHeld, Leased, Building
<1>5. /\ h' \in [Handlers -> Handler]
      /\ h'[p].rt = None /\ h'[p].at = FirstPlace(k) /\ h'[p].mem = None
      /\ \A q \in Handlers : q # p => h'[q] = h[q]
  BY <1>1, <1>3 DEF IInv, TypeOK, Resting
<1> QED BY <1>2, <1>4, <1>5, StaysInv DEF Begin, AtRest, Leased

LEMMA StutterInv ==
  ASSUME IInv, UNCHANGED vars
  PROVE  IInv'
<1> USE DEF vars, diskVars, lockVars
<1>1. TypeOK' /\ LeasesHeld' /\ LeaseKeepsInstance' /\ LocksHeld'
  BY DEF IInv, TypeOK, LeasesHeld, LeaseKeepsInstance, LocksHeld
<1>2. LeasesCounted'
  BY SameHolders DEF IInv, LeasesCounted
<1>3. DeletedIsMarked' /\ SingleOwners' /\ OwnedRuntimes' /\ CloseFindsAll'
  BY DEF IInv, DeletedIsMarked, SingleOwners, OwnedRuntimes, Owned, CloseFindsAll
<1> QED BY <1>1, <1>2, <1>3 DEF IInv

LEMMA NextInv == IInv /\ [Next]_vars => IInv'
<1> SUFFICES ASSUME IInv, [Next]_vars PROVE IInv'
  OBVIOUS
<1>1. CASE \E p \in Handlers, k \in Kinds : Begin(p, k)
  BY <1>1, BeginInv
<1>2. CASE \E p \in Handlers : LoadStep(p) \/ WorkStep(p) \/ ReadStep(p)
  BY <1>2, LoadInv, WorkInv, ReadInv
<1>3. CASE Reap
  BY <1>3, ReapInv
<1>4. CASE CloseStep
  BY <1>4, CollectInv, CloseMarksInv, CloseFinishesInv DEF CloseStep
<1>5. CASE UNCHANGED vars
  BY <1>5, StutterInv
<1> QED BY <1>1, <1>2, <1>3, <1>4, <1>5 DEF Next

(* The strengthened invariant of the registry holds in every behaviour: leases,  *)
(* locks, deletion marks and memory runtimes agree, whatever the interleaving.     *)
THEOREM InvariantHolds == Spec => []IInv
BY InitInv, NextInv, PTL DEF Spec

-----------------------------------------------------------------------------
(* What follows. *)

(* Every variable keeps its type (the state loadRuntime and its peers share). *)
THEOREM TypeCorrect == Spec => []TypeOK
<1>1. IInv => TypeOK
  BY DEF IInv
<1> QED BY <1>1, InvariantHolds, PTL

(* reapRuntimes and deleteSession never leave a request with an object that was    *)
(* neither deleted nor is registered.                                                *)
THEOREM LeasesKeepInstances == Spec => []LeaseKeepsInstance
<1>1. IInv => LeaseKeepsInstance
  BY DEF IInv
<1> QED BY <1>1, InvariantHolds, PTL

(* loadRuntime, rebuildAgentLocked, reapRuntimes, deleteSession and Close between  *)
(* them close every memory runtime nobody owns, and no other.                        *)
THEOREM RuntimesAreOwned == Spec => []OwnedRuntimes
<1>1. IInv => OwnedRuntimes
  BY DEF IInv
<1> QED BY <1>1, InvariantHolds, PTL

(* Once Close has collected, loadRuntime registers nothing. *)
THEOREM CloseFindsEverySession == Spec => []CloseFindsAll
<1>1. IInv => CloseFindsAll
  BY DEF IInv
<1> QED BY <1>1, InvariantHolds, PTL

(* No load, failed switch, eviction, deletion or Close leaks a memory runtime,     *)
(* and Close waits for every session.                                                *)
THEOREM NothingIsLeaked == Spec => []NothingLeaks
<1>1. IInv => NothingLeaks
  BY DEF IInv, NothingLeaks
<1> QED BY <1>1, InvariantHolds, PTL

(* Only publish and deleteSession write the session's files, and only with the     *)
(* registered session in hands.                                                     *)
LEMMA WritersHoldTheSession ==
  ASSUME IInv, NEW p \in Handlers, Publish(p) \/ Delete(p)
  PROVE  /\ registered # None /\ h[p].rt = registered
         /\ ~inst[registered].deleted /\ stored
<1>1. h[p].at = "leased" /\ ~inst[h[p].rt].deleted
  BY DEF Publish, Delete
<1>2. h[p].rt \in Instances /\ h[p].rt = registered
  BY <1>1 DEF IInv, LeaseKeepsInstance, Leased
<1> QED BY <1>1, <1>2, NoneAssumption DEF IInv, DeletedIsMarked

LEMMA OthersLeaveTheFiles ==
  ASSUME [Next]_vars, \A p \in Handlers : ~Publish(p) /\ ~Delete(p)
  PROVE  UNCHANGED diskVars
<1> USE DEF diskVars
<1>1. ASSUME NEW p \in Handlers, LoadStep(p) PROVE UNCHANGED diskVars
  BY <1>1 DEF LoadStep, Lookup, StoreLoad, Enter, Build, ReadJournal, Register,
             CheckDeleted, Release
<1>2. ASSUME NEW p \in Handlers, WorkStep(p) PROVE UNCHANGED diskVars
  BY <1>2 DEF WorkStep, Finish, Switch, Rebuild, Adopt, DeletedAlready, Unregister
<1>3. ASSUME NEW p \in Handlers, ReadStep(p) PROVE UNCHANGED diskVars
  BY <1>3 DEF ReadStep, Find, ColdRead, Probe, Probing
<1>4. CASE Reap \/ CloseStep
  BY <1>4 DEF Reap, CloseStep, CloseBegins, CloseCollects, CloseMarks, CloseFinishes
<1> QED BY <1>1, <1>2, <1>3, <1>4 DEF Next, Begin, vars

(* deleteSession is final: nothing is written for the session afterwards. *)
THEOREM DeletedIsFinal == Spec => DeletedStaysDeleted
<1>1. ASSUME IInv, [Next]_vars, ~stored
      PROVE  ~stored' /\ Len(journal') <= Len(journal)
  <2>1. \A p \in Handlers : ~Publish(p) /\ ~Delete(p)
    BY <1>1, WritersHoldTheSession
  <2>2. stored' = stored /\ journal' = journal
    BY <1>1, <2>1, OthersLeaveTheFiles DEF diskVars
  <2>3. Len(journal) \in Nat
    BY <1>1 DEF IInv, TypeOK
  <2>4. ~stored'
    BY <1>1, <2>2
  <2>5. Len(journal') <= Len(journal)
    BY <2>2, <2>3
  <2> QED BY <2>4, <2>5
<1> QED BY <1>1, InvariantHolds, PTL DEF Spec, DeletedStaysDeleted

(* historyRuntime and trajectorySnapshot read the files of a cold session while     *)
(* nobody writes them.                                                               *)
THEOREM ColdReadsAreQuiet == Spec => ColdReadIsQuiet
<1>1. ASSUME IInv, [Next]_vars, NEW p \in Handlers, h[p].at = "coldRead"
      PROVE  UNCHANGED diskVars
  <2>1. registered = None
    BY <1>1 DEF IInv, DeletedIsMarked
  <2>2. \A q \in Handlers : ~Publish(q) /\ ~Delete(q)
    BY <1>1, <2>1, WritersHoldTheSession
  <2> QED BY <1>1, <2>2, OthersLeaveTheFiles
<1>2. IInv /\ [Next]_vars =>
        [\A p \in Handlers : h[p].at = "coldRead" => diskVars' = diskVars]_vars
  BY <1>1
<1> QED BY <1>2, InvariantHolds, PTL DEF Spec, ColdReadIsQuiet

-----------------------------------------------------------------------------
(* Until the reaper takes a session away, whoever may write the journal knows      *)
(* its last number.                                                                  *)
PositionsKnown ==
  evictions = 0 /\ stored =>
    /\ registered # None => \A n \in ToSet(journal) : n <= inst[registered].seq
    /\ registered = None => \A p \in Handlers : h[p].at = "register" =>
                              \A n \in ToSet(journal) : n <= h[p].seq

LEMMA InitOrder == Init => PositionsKnown /\ OrderedUntilEviction
<1> SUFFICES ASSUME Init PROVE PositionsKnown /\ OrderedUntilEviction
  OBVIOUS
<1>1. registered = None /\ \A p \in Handlers : h[p].at = "idle"
  BY DEF Init, Resting
<1>2. PICK n \in 0..MaxEvents : journal = [k \in 1..n |-> k]
  BY DEF Init
<1>3. DOMAIN journal = 1..n /\ \A k \in 1..n : journal[k] = k
  BY <1>2
<1>4. JournalIsOrdered
  BY <1>3 DEF JournalIsOrdered
<1> QED BY <1>1, <1>4 DEF PositionsKnown, OrderedUntilEviction

(* An entry larger than all before it keeps the journal ordered. *)
LEMMA AppendKeepsOrder ==
  ASSUME journal \in Seq(Nat), JournalIsOrdered, NEW n \in Nat,
         \A k \in ToSet(journal) : k < n, journal' = Append(journal, n)
  PROVE  JournalIsOrdered' /\ \A k \in ToSet(journal') : k <= n
<1>1. /\ Len(journal') = Len(journal) + 1
      /\ \A k \in 1..Len(journal) : journal'[k] = journal[k]
      /\ journal'[Len(journal) + 1] = n
      /\ DOMAIN journal = 1..Len(journal) /\ DOMAIN journal' = 1..Len(journal')
  OBVIOUS
<1>2. \A k \in DOMAIN journal : journal[k] \in ToSet(journal) /\ journal[k] < n
  BY <1>1 DEF ToSet
<1>3. ASSUME NEW i \in DOMAIN journal', NEW j \in DOMAIN journal', i < j
      PROVE  journal'[i] < journal'[j]
  <2>1. i \in DOMAIN journal
    BY <1>1, <1>3
  <2>2. CASE j = Len(journal) + 1
    BY <1>1, <1>2, <2>1, <2>2
  <2>3. CASE j # Len(journal) + 1
    BY <1>1, <1>3, <2>1, <2>3 DEF JournalIsOrdered
  <2> QED BY <2>2, <2>3
<1>4. ASSUME NEW k \in ToSet(journal') PROVE k <= n
  <2>1. PICK i \in DOMAIN journal' : journal'[i] = k
    BY <1>4 DEF ToSet
  <2>2. CASE i = Len(journal) + 1
    BY <1>1, <2>1, <2>2
  <2>3. CASE i # Len(journal) + 1
    <3>1. i \in DOMAIN journal /\ journal[i] = k
      BY <1>1, <2>1, <2>3
    <3>2. k < n /\ k \in Nat
      BY <1>1, <1>2, <3>1
    <3> QED BY <3>2
  <2> QED BY <2>2, <2>3
<1> QED BY <1>3, <1>4 DEF JournalIsOrdered

(* Most steps touch neither the files nor a position. *)
LEMMA OrderKept ==
  ASSUME PositionsKnown, OrderedUntilEviction,
         UNCHANGED <<diskVars, registered, evictions>>,
         registered # None => inst'[registered].seq = inst[registered].seq,
         \A q \in Handlers : h'[q].at = "register" =>
           h[q].at = "register" /\ h'[q].seq = h[q].seq
  PROVE  PositionsKnown' /\ OrderedUntilEviction'
BY DEF diskVars, PositionsKnown, OrderedUntilEviction, JournalIsOrdered

(* A lease changes no position. *)
LEMMA LeaseOrder ==
  ASSUME IInv, PositionsKnown, OrderedUntilEviction, NEW p \in Handlers,
         NEW place \in {"checking", "leased"}, registered # None,
         Lease(p, place), UNCHANGED <<diskVars, registered, evictions>>
  PROVE  PositionsKnown' /\ OrderedUntilEviction'
<1>1. inst'[registered].seq = inst[registered].seq
  <2>1. inst \in [Instances -> Instance] /\ registered \in Instances
    BY DEF IInv, TypeOK
  <2> QED BY <2>1 DEF Lease, Instance
<1>2. h \in [Handlers -> Handler]
  BY DEF IInv, TypeOK
<1>3. \A q \in Handlers : h'[q].at = "register" => h'[q] = h[q]
  BY <1>2 DEF Lease, Handler
<1> QED BY <1>1, <1>3, OrderKept

LEMMA LoadOrder ==
  ASSUME IInv, PositionsKnown, OrderedUntilEviction, NEW p \in Handlers, LoadStep(p)
  PROVE  PositionsKnown' /\ OrderedUntilEviction'
<1> USE DEF diskVars
<1>0. h \in [Handlers -> Handler] /\ inst \in [Instances -> Instance] /\ journal \in Seq(Nat)
  BY DEF IInv, TypeOK
<1>1. CASE UNCHANGED <<diskVars, registered, inst, evictions>> /\ Answers(p)
  <2>1. \A q \in Handlers : h'[q].at = "register" => h'[q] = h[q]
    BY <1>0, <1>1 DEF Answers, Resting
  <2> QED BY <1>1, <2>1, OrderKept
<1>2. ASSUME NEW place \in Place \ {"register"}, Goes(p, place),
             UNCHANGED <<diskVars, registered, inst, evictions>>
      PROVE  PositionsKnown' /\ OrderedUntilEviction'
  <2>1. \A q \in Handlers : h'[q].at = "register" => h'[q] = h[q]
    BY <1>0, <1>2 DEF Goes, Handler
  <2> QED BY <1>2, <2>1, OrderKept
<1>3. CASE Lookup(p)
  <2>1. CASE Lease(p, "checking") /\ registered # None
    BY <1>3, <2>1, LeaseOrder DEF Lookup
  <2>2. CASE Goes(p, "storeLoad") /\ UNCHANGED inst
    BY <1>2, <1>3, <2>2 DEF Lookup, Place
  <2> QED BY <1>3, <2>1, <2>2 DEF Lookup
<1>4. CASE StoreLoad(p)
  BY <1>1, <1>2, <1>4 DEF StoreLoad, Place
<1>5. CASE Enter(p)
  <2>1. CASE Lease(p, "checking") /\ registered # None
    BY <1>5, <2>1, LeaseOrder DEF Enter
  <2>2. CASE Goes(p, "build") /\ UNCHANGED inst
    BY <1>2, <1>5, <2>2 DEF Enter, Place
  <2>3. CASE Answers(p) /\ UNCHANGED inst
    BY <1>1, <1>5, <2>3 DEF Enter
  <2> QED BY <1>5, <2>1, <2>2, <2>3 DEF Enter
<1>6. CASE Build(p)
  <2>1. CASE Abandon(p)
    BY <1>1, <1>6, <2>1 DEF Build, Abandon
  <2>2. ASSUME NEW m \in Memories, h' = [h EXCEPT ![p].mem = m, ![p].at = "read"],
               UNCHANGED <<registered, inst>>
        PROVE  PositionsKnown' /\ OrderedUntilEviction'
    <3>1. \A q \in Handlers : h'[q].at = "register" => h'[q] = h[q]
      BY <1>0, <2>2 DEF Handler
    <3> QED BY <1>6, <2>2, <3>1, OrderKept DEF Build
  <2> QED BY <1>6, <2>1, <2>2 DEF Build
<1>7. CASE ReadJournal(p)
  <2>1. PICK n \in ToSet(journal) \cup {0} :
          LargestOf(journal, n) /\ h' = [h EXCEPT ![p].seq = n, ![p].at = "register"]
    BY <1>7 DEF ReadJournal
  <2>2. /\ h'[p].seq = n
        /\ \A q \in Handlers : q # p => h'[q] = h[q]
    BY <1>0, <2>1 DEF Handler
  <2>3. \A k \in ToSet(journal) : k <= n
    BY <2>1 DEF LargestOf
  <2>4. UNCHANGED <<diskVars, registered, inst, evictions>>
    BY <1>7 DEF ReadJournal
  <2>5. OrderedUntilEviction'
    BY <2>4 DEF OrderedUntilEviction, JournalIsOrdered
  <2>6. PositionsKnown'
    BY <2>2, <2>3, <2>4 DEF PositionsKnown
  <2> QED BY <2>5, <2>6
<1>8. CASE Register(p)
  <2>0. UNCHANGED <<diskVars, evictions>> /\ h[p].at = "register"
    BY <1>8 DEF Register
  <2>1. CASE Abandon(p)
    BY <1>1, <2>0, <2>1 DEF Abandon
  <2>2. CASE JoinsExisting(p)
    BY <2>0, <2>2, LeaseOrder DEF JoinsExisting
  <2>3. CASE InstallsWhenVacant(p)
    <3>1. PICK i \in Instances :
            registered' = i /\ inst' = [inst EXCEPT ![i] = Fresh(h[p].seq, h[p].mem)]
      BY <2>3 DEF InstallsWhenVacant, Installs
    <3>2. inst'[registered'].seq = h[p].seq /\ registered' # None /\ registered = None
      BY <1>0, <2>3, <3>1, NoneAssumption DEF Fresh, InstallsWhenVacant
    <3>3. OrderedUntilEviction'
      BY <2>0 DEF OrderedUntilEviction, JournalIsOrdered
    <3>4. PositionsKnown'
      BY <2>0, <3>2 DEF PositionsKnown
    <3> QED BY <3>3, <3>4
  <2> QED BY <1>8, <2>1, <2>2, <2>3 DEF Register
<1>9. CASE CheckDeleted(p)
  BY <1>2, <1>9 DEF CheckDeleted, Place, Leased
<1>10. CASE Release(p)
  <2>1. \A q \in Handlers : h'[q].at = "register" => h'[q] = h[q]
    BY <1>0, <1>10 DEF Release, Answers, Resting
  <2>2. \A j \in Instances : inst'[j].seq = inst[j].seq
    BY <1>0, <1>10 DEF Release, Instance
  <2>3. registered # None => inst'[registered].seq = inst[registered].seq
    BY <2>2 DEF IInv, TypeOK
  <2> QED BY <1>10, <2>1, <2>3, OrderKept DEF Release
<1> QED BY <1>3, <1>4, <1>5, <1>6, <1>7, <1>8, <1>9, <1>10 DEF LoadStep

LEMMA WorkOrder ==
  ASSUME IInv, PositionsKnown, OrderedUntilEviction, NEW p \in Handlers, WorkStep(p)
  PROVE  PositionsKnown' /\ OrderedUntilEviction'
<1> USE DEF diskVars
<1>0. h \in [Handlers -> Handler] /\ inst \in [Instances -> Instance] /\ journal \in Seq(Nat)
  BY DEF IInv, TypeOK
<1>1. CASE Finish(p) \/ Switch(p) \/ Rebuild(p) \/ DeletedAlready(p)
  <2>1. \A q \in Handlers : h'[q].at = "register" => h'[q] = h[q]
    BY <1>0, <1>1 DEF Finish, Switch, Rebuild, DeletedAlready, Goes, Handler
  <2> QED BY <1>1, <2>1, OrderKept DEF Finish, Switch, Rebuild, DeletedAlready
<1>2. CASE Publish(p)
  <2>1. h[p].rt = registered /\ registered \in Instances /\ stored /\ registered # None
    BY <1>2, WritersHoldTheSession DEF IInv, TypeOK
  <2> DEFINE n == inst[registered].seq + 1
  <2>2. inst[registered].seq \in Nat
    BY <1>0, <2>1 DEF Instance
  <2>3. journal' = Append(journal, n) /\ inst'[registered].seq = n /\ n \in Nat
    BY <1>0, <1>2, <2>1, <2>2 DEF Publish, Instance
  <2>4. UNCHANGED <<stored, registered, evictions>>
    BY <1>2 DEF Publish
  <2>5. CASE evictions = 0
    <3>1. \A k \in ToSet(journal) : k \in Nat /\ k <= inst[registered].seq
      BY <1>0, <2>1, <2>5 DEF PositionsKnown, ToSet
    <3>2. \A k \in ToSet(journal) : k < n
      BY <2>2, <3>1
    <3>3. JournalIsOrdered
      BY <2>5 DEF OrderedUntilEviction
    <3> HIDE DEF n
    <3>4. JournalIsOrdered' /\ \A k \in ToSet(journal') : k <= n
      BY <1>0, <2>3, <3>2, <3>3, AppendKeepsOrder
    <3> QED BY <2>1, <2>3, <2>4, <3>4 DEF PositionsKnown, OrderedUntilEviction
  <2>6. CASE evictions # 0
    BY <2>4, <2>6 DEF PositionsKnown, OrderedUntilEviction
  <2> QED BY <2>5, <2>6
<1>3. CASE Adopt(p)
  <2>1. \A q \in Handlers : h'[q].at = "register" => h'[q] = h[q]
    BY <1>0, <1>3 DEF Adopt, Handler
  <2>2. \A j \in Instances : inst'[j].seq = inst[j].seq
    <3>1. h[p].rt \in Instances
      BY <1>3 DEF Adopt, IInv, LeaseKeepsInstance, Leased
    <3>2. \/ inst' = inst
          \/ inst' = [inst EXCEPT ![h[p].rt] = [inst[h[p].rt] EXCEPT !.mem = h[p].mem]]
      BY <1>3 DEF Adopt
    <3>3. [inst[h[p].rt] EXCEPT !.mem = h[p].mem].seq = inst[h[p].rt].seq
      BY <1>0, <3>1 DEF Instance
    <3> QED BY <1>0, <3>1, <3>2, <3>3
  <2>3. registered # None => inst'[registered].seq = inst[registered].seq
    BY <2>2 DEF IInv, TypeOK
  <2> QED BY <1>3, <2>1, <2>3, OrderKept DEF Adopt
<1>4. CASE Delete(p)
  <2>1. ~stored' /\ journal' = <<>>
    BY <1>4 DEF Delete
  <2>2. DOMAIN journal' = {}
    BY <2>1
  <2> QED BY <2>1, <2>2 DEF PositionsKnown, OrderedUntilEviction, JournalIsOrdered
<1>5. CASE Unregister(p)
  <2>1. ~stored
    BY <1>5 DEF Unregister, IInv, DeletedIsMarked, LeaseKeepsInstance, Leased
  <2> QED BY <1>5, <2>1 DEF Unregister, PositionsKnown, OrderedUntilEviction, JournalIsOrdered
<1> QED BY <1>1, <1>2, <1>3, <1>4, <1>5 DEF WorkStep

LEMMA OtherOrder ==
  ASSUME IInv, PositionsKnown, OrderedUntilEviction,
         \/ \E p \in Handlers, k \in Kinds : Begin(p, k)
         \/ \E p \in Handlers : ReadStep(p)
         \/ Reap \/ CloseStep \/ UNCHANGED vars
  PROVE  PositionsKnown' /\ OrderedUntilEviction'
<1> USE DEF diskVars
<1>0. h \in [Handlers -> Handler] /\ inst \in [Instances -> Instance]
  BY DEF IInv, TypeOK
<1>1. ASSUME NEW p \in Handlers, NEW k \in Kinds, Begin(p, k)
      PROVE  PositionsKnown' /\ OrderedUntilEviction'
  <2>1. \A q \in Handlers : h'[q].at = "register" => h'[q] = h[q]
    BY <1>0, <1>1 DEF Begin, FirstPlace, Resting
  <2> QED BY <1>1, <2>1, OrderKept DEF Begin
<1>2. ASSUME NEW p \in Handlers, ReadStep(p)
      PROVE  PositionsKnown' /\ OrderedUntilEviction'
  <2>1. CASE Find(p) /\ registered # None /\ Lease(p, "leased")
    BY <2>1, LeaseOrder DEF Find
  <2>2. CASE /\ UNCHANGED <<diskVars, registered, inst, evictions>>
             /\ Answers(p) \/ Goes(p, "coldRead") \/ Goes(p, "probing")
    <3>1. \A q \in Handlers : h'[q].at = "register" => h'[q] = h[q]
      BY <1>0, <2>2 DEF Answers, Goes, Resting, Handler
    <3> QED BY <2>2, <3>1, OrderKept
  <2> QED BY <1>2, <2>1, <2>2 DEF ReadStep, Find, ColdRead, Probe, Probing
<1>3. CASE Reap
  <2>1. evictions' # 0
    BY <1>3 DEF Reap, IInv, TypeOK
  <2> QED BY <2>1 DEF PositionsKnown, OrderedUntilEviction
<1>4. CASE CloseStep
  <2>1. UNCHANGED <<diskVars, registered, evictions, h>>
    BY <1>4 DEF CloseStep, CloseBegins, CloseCollects, CloseMarks, CloseFinishes
  <2>2. \A j \in Instances : inst'[j].seq = inst[j].seq
    BY <1>0, <1>4
       DEF CloseStep, CloseBegins, CloseCollects, CloseMarks, CloseFinishes, Instance
  <2>3. registered # None => inst'[registered].seq = inst[registered].seq
    BY <2>2 DEF IInv, TypeOK
  <2> QED BY <2>1, <2>3, OrderKept
<1>5. CASE UNCHANGED vars
  BY <1>5, OrderKept DEF vars
<1> QED BY <1>1, <1>2, <1>3, <1>4, <1>5

(* loadJournal and publish keep the journal ordered as long as reapRuntimes has     *)
(* taken no session away.                                                              *)
THEOREM OrderUntilEviction == Spec => []OrderedUntilEviction
<1>1. ASSUME IInv, PositionsKnown, OrderedUntilEviction, [Next]_vars
      PROVE  PositionsKnown' /\ OrderedUntilEviction'
  BY <1>1, LoadOrder, WorkOrder, OtherOrder DEF Next
<1>2. IInv /\ (PositionsKnown /\ OrderedUntilEviction) /\ [Next]_vars => (PositionsKnown /\ OrderedUntilEviction)'
  BY <1>1
<1>3. Spec => [](PositionsKnown /\ OrderedUntilEviction)
  BY <1>2, InitOrder, InvariantHolds, PTL DEF Spec
<1> QED BY <1>3, PTL
=============================================================================
