------------------------ MODULE SessionEvents_proofs ------------------------
(***************************************************************************)
(* Theorems of SessionEvents, for every choice of its constants.           *)
(*                                                                         *)
(* The argument goes from the lists to the journal to the streams: what    *)
(* Pick selects; that every change of the journal keeps its order, its     *)
(* marks and the agreement of the tail with it; that a read of the events  *)
(* after a number is complete, from the tail or from a scan of the file;   *)
(* and that what holds of a client is kept by a step of the server, by the *)
(* loss of the session from memory, and by the steps of its own stream.    *)
(***************************************************************************)
EXTENDS SessionEvents, FiniteSetTheorems, WellFoundedInduction, NaturalsInduction, TLAPS

-----------------------------------------------------------------------------
(* The lists that Pick selects. *)

(* A non-empty set of natural numbers has a least element, and Least finds it. *)
LEMMA LeastOf ==
  ASSUME NEW S \in SUBSET Nat, S # {}
  PROVE  Least(S) \in S /\ \A m \in S : Least(S) <= m
<1> DEFINE Below == {p \in Nat \X Nat : p[1] < p[2]}
<1>1. IsWellFoundedOn(Below, Nat)
  BY NatLessThanWellFounded DEF OpToRel
<1> HIDE DEF Below
<1>2. PICK i \in S : \A j \in S : <<j, i>> \notin Below
  BY <1>1, WFMin, Zenon
<1>3. \A j \in S : ~(j < i)
  BY <1>2 DEF Below
<1>4. \A j \in S : i <= j
  BY <1>3
<1> QED BY <1>4 DEF Least

(* A bounded one has a greatest, and Most finds it. *)
LEMMA MostOf ==
  ASSUME NEW N \in Nat, NEW S \in SUBSET (0..N), S # {}
  PROVE  Most(S) \in S /\ \A m \in S : m <= Most(S)
<1> DEFINE U == {k \in 0..N : N - k \in S}
<1>1. U \in SUBSET Nat /\ U # {}
  <2>1. PICK t \in S : TRUE
    OBVIOUS
  <2>2. N - t \in 0..N /\ N - (N - t) = t
    BY <2>1
  <2> QED BY <2>2
<1>2. Least(U) \in U /\ \A v \in U : Least(U) <= v
  BY <1>1, LeastOf
<1>3. PICK u \in U : \A v \in U : u <= v
  BY <1>2
<1>4. N - u \in S
  BY <1>3
<1>5. ASSUME NEW j \in S PROVE j <= N - u
  <2>1. j \in 0..N /\ N - j \in 0..N /\ N - (N - j) = j
    OBVIOUS
  <2>2. u <= N - j /\ u \in 0..N
    BY <1>3, <2>1
  <2> QED BY <2>1, <2>2
<1> QED BY <1>4, <1>5 DEF Most

(* What Pick returns. *)

(* Its recursion has a solution: the least length without one would follow one *)
(* that has.                                                                      *)
Solves(f, s, S, n) ==
  f = [k \in 0..n |-> IF k = 0 THEN <<>>
                      ELSE IF k \in S THEN Append(f[k - 1], s[k]) ELSE f[k - 1]]

(* The equations that define Pick have a solution: a least length without one cannot be. *)
LEMMA PickSolvable ==
  ASSUME NEW s, NEW S, NEW N \in Nat
  PROVE  \E f : Solves(f, s, S, N)
<1> DEFINE Bad == {n \in Nat : ~\E f : Solves(f, s, S, n)}
<1> SUFFICES ASSUME Bad # {} PROVE FALSE
  OBVIOUS
<1>1. PICK n \in Bad : \A m \in Bad : n <= m
  <2>1. Bad \in SUBSET Nat
    OBVIOUS
  <2> HIDE DEF Bad
  <2> QED BY <2>1, LeastOf
<1>2. n # 0
  <2>1. Solves([k \in 0..0 |-> <<>>], s, S, 0)
    BY DEF Solves
  <2> QED BY <2>1, <1>1
<1>3. n - 1 \in Nat /\ n - 1 \notin Bad
  BY <1>1, <1>2
<1>4. PICK f : Solves(f, s, S, n - 1)
  BY <1>3
<1> DEFINE g == [k \in 0..n |-> IF k < n THEN f[k]
                   ELSE IF n \in S THEN Append(f[n - 1], s[n]) ELSE f[n - 1]]
<1>5. ASSUME NEW k \in 0..n
      PROVE  g[k] = IF k = 0 THEN <<>>
                    ELSE IF k \in S THEN Append(g[k - 1], s[k]) ELSE g[k - 1]
  <2>1. n \in Nat /\ n - 1 \in 0..n
    BY <1>3
  <2>2. CASE k = n
    <3>1. g[n] = IF n \in S THEN Append(f[n - 1], s[n]) ELSE f[n - 1]
      BY <2>1
    <3>2. g[n - 1] = f[n - 1]
      BY <2>1
    <3> QED BY <3>1, <3>2, <2>2, <1>2
  <2>3. CASE k # n
    <3>1. k \in 0..(n - 1) /\ k < n
      BY <2>1, <2>3
    <3>2. f[k] = IF k = 0 THEN <<>>
                 ELSE IF k \in S THEN Append(f[k - 1], s[k]) ELSE f[k - 1]
      BY <1>4, <3>1 DEF Solves
    <3>3. g[k] = f[k]
      BY <3>1
    <3>4. k # 0 => k - 1 \in 0..n /\ g[k - 1] = f[k - 1]
      BY <3>1, <2>1
    <3> QED BY <3>2, <3>3, <3>4
  <2> QED BY <2>2, <2>3
<1>6. Solves(g, s, S, n)
  <2>1. DOMAIN g = 0..n /\ g = [k \in 0..n |-> g[k]]
    OBVIOUS
  <2> HIDE DEF g
  <2> QED BY <2>1, <1>5 DEF Solves
<1> QED BY <1>6, <1>1

(* Pick is the solution at the end. *)
LEMMA PickIsSolution ==
  ASSUME NEW T, NEW s \in Seq(T), NEW S
  PROVE  \E f : Solves(f, s, S, Len(s)) /\ Pick(s, S) = f[Len(s)]
<1>1. \E f : Solves(f, s, S, Len(s))
  BY PickSolvable, Len(s) \in Nat
<1>2. \E f : f = [k \in 0..Len(s) |->
               IF k = 0 THEN <<>>
               ELSE IF k \in S THEN Append(f[k - 1], s[k]) ELSE f[k - 1]]
  BY <1>1 DEF Solves
<1> QED BY <1>2 DEF Pick, Solves

(* The solution at n is made of the elements at the places of S up to n, in order: *)
(* each place of S has its position there.                                          *)
Places(g, s, S, n) ==
  \E h \in [1..Len(g) -> 1..n] :
    /\ \A k \in 1..Len(g) : h[k] \in S /\ g[k] = s[h[k]]
    /\ \A k, l \in 1..Len(g) : k < l => h[k] < h[l]
    /\ \A i \in S : i \in 1..n => \E k \in 1..Len(g) : h[k] = i

(* A solution is not changed by a place that is not asked for. *)
LEMMA PlacesStay ==
  ASSUME NEW T, NEW s \in Seq(T), NEW S, NEW n \in Nat, NEW g \in Seq(T),
         Places(g, s, S, n), n + 1 \notin S
  PROVE  Places(g, s, S, n + 1)
<1>1. PICK h \in [1..Len(g) -> 1..n] :
        /\ \A k \in 1..Len(g) : h[k] \in S /\ g[k] = s[h[k]]
        /\ \A k, l \in 1..Len(g) : k < l => h[k] < h[l]
        /\ \A i \in S : i \in 1..n => \E k \in 1..Len(g) : h[k] = i
  BY DEF Places
<1>2. h \in [1..Len(g) -> 1..(n + 1)]
  OBVIOUS
<1>3. \A i \in S : i \in 1..(n + 1) => i \in 1..n
  OBVIOUS
<1> QED BY <1>1, <1>2, <1>3 DEF Places

(* One that is asked for adds its element at the end. *)
LEMMA PlacesGrow ==
  ASSUME NEW T, NEW s \in Seq(T), NEW S, NEW n \in Nat, NEW g \in Seq(T),
         Places(g, s, S, n), n + 1 \in S, n + 1 <= Len(s)
  PROVE  Places(Append(g, s[n + 1]), s, S, n + 1)
<1>1. PICK h \in [1..Len(g) -> 1..n] :
        /\ \A k \in 1..Len(g) : h[k] \in S /\ g[k] = s[h[k]]
        /\ \A k, l \in 1..Len(g) : k < l => h[k] < h[l]
        /\ \A i \in S : i \in 1..n => \E k \in 1..Len(g) : h[k] = i
  BY DEF Places
<1> DEFINE a == Append(g, s[n + 1])
           m == Len(g)
           hh == [k \in 1..(m + 1) |-> IF k <= m THEN h[k] ELSE n + 1]
<1>2. /\ m \in Nat /\ Len(a) = m + 1 /\ s[n + 1] \in T
      /\ a[m + 1] = s[n + 1] /\ \A k \in 1..m : a[k] = g[k]
  OBVIOUS
<1>3. hh \in [1..(m + 1) -> 1..(n + 1)]
  BY <1>2
<1>4. \A k \in 1..m : hh[k] = h[k] /\ hh[k] \in 1..n
  BY <1>2
<1>5. hh[m + 1] = n + 1
  BY <1>2
<1>6. \A k \in 1..(m + 1) : k \in 1..m \/ k = m + 1
  BY <1>2
<1> HIDE DEF hh, a
<1>7. \A k \in 1..(m + 1) : hh[k] \in S /\ a[k] = s[hh[k]]
  BY <1>1, <1>2, <1>4, <1>5, <1>6
<1>8. \A k, l \in 1..(m + 1) : k < l => hh[k] < hh[l]
  BY <1>1, <1>2, <1>4, <1>5, <1>6
<1>9. ASSUME NEW i \in S, i \in 1..(n + 1) PROVE \E k \in 1..(m + 1) : hh[k] = i
  <2>1. CASE i = n + 1
    BY <2>1, <1>2, <1>5
  <2>2. CASE i # n + 1
    <3>1. i \in 1..n
      BY <1>9, <2>2
    <3>2. PICK k \in 1..m : h[k] = i
      BY <1>1, <3>1
    <3> QED BY <3>2, <1>2, <1>4
  <2> QED BY <2>1, <2>2
<1>10. Places(a, s, S, n + 1)
  <2>1. Len(a) = m + 1
    BY <1>2
  <2>2. hh \in [1..Len(a) -> 1..(n + 1)]
    BY <2>1, <1>3
  <2>3. /\ \A k \in 1..Len(a) : hh[k] \in S /\ a[k] = s[hh[k]]
        /\ \A k, l \in 1..Len(a) : k < l => hh[k] < hh[l]
        /\ \A i \in S : i \in 1..(n + 1) => \E k \in 1..Len(a) : hh[k] = i
    BY <2>1, <1>7, <1>8, <1>9
  <2> HIDE DEF m
  <2> QED BY <2>2, <2>3 DEF Places
<1> QED BY <1>10 DEF a

(* So the solution has the places up to any length: a least length where it has not cannot be. *)
LEMMA SolutionPlaces ==
  ASSUME NEW T, NEW s \in Seq(T), NEW S, NEW f, Solves(f, s, S, Len(s))
  PROVE  f[Len(s)] \in Seq(T) /\ Places(f[Len(s)], s, S, Len(s))
<1> DEFINE N == Len(s)
           Good(n) == f[n] \in Seq(T) /\ Places(f[n], s, S, n)
           Bad == {n \in 0..N : ~Good(n)}
<1> SUFFICES ASSUME Bad # {} PROVE FALSE
  <2>1. N \in 0..N
    OBVIOUS
  <2> QED BY <2>1
<1>1. PICK n \in Bad : \A m \in Bad : n <= m
  <2>1. Bad \in SUBSET Nat
    OBVIOUS
  <2> HIDE DEF Bad
  <2> QED BY <2>1, LeastOf
<1>2. \A k \in 0..N : f[k] = IF k = 0 THEN <<>>
                             ELSE IF k \in S THEN Append(f[k - 1], s[k]) ELSE f[k - 1]
  BY DEF Solves
<1>3. Good(0)
  <2>1. f[0] = <<>> /\ N \in Nat
    BY <1>2
  <2>2. Places(<<>>, s, S, 0)
    <3>1. Len(<<>>) = 0 /\ 1..0 = {}
      OBVIOUS
    <3>2. PICK h : h = [k \in {} |-> 0]
      OBVIOUS
    <3>3. h \in [{} -> 1..0]
      BY <3>2
    <3>4. h \in [1..Len(<<>>) -> 1..0]
      BY <3>1, <3>3, Zenon
    <3>5. \A k : k \notin 1..Len(<<>>) /\ k \notin 1..0
      BY <3>1
    <3> QED BY <3>4, <3>5, Zenon DEF Places
  <2> QED BY <2>1, <2>2
<1>4. n # 0 /\ n \in 0..N /\ ~Good(n)
  BY <1>3
<1>5. n - 1 \in 0..N /\ Good(n - 1) /\ n - 1 \in Nat /\ (n - 1) + 1 = n /\ n <= Len(s)
  BY <1>1, <1>4
<1>6. Good(n)
  <2>1. CASE n \in S
    <3>0. n \in 0..N
      BY <1>4
    <3>1. f[n] = Append(f[n - 1], s[n])
      BY <1>2, <1>4, <3>0, <2>1
    <3>4. s[n] \in T
      BY <1>4, <1>5
    <3>2. Places(Append(f[n - 1], s[n]), s, S, n)
      BY <1>5, <2>1, PlacesGrow
    <3> QED BY <3>1, <3>2, <3>4, <1>5
  <2>2. CASE n \notin S
    <3>1. f[n] = f[n - 1]
      BY <1>2, <1>4, <1>5, <2>2
    <3>2. Places(f[n - 1], s, S, n)
      BY <1>5, <2>2, PlacesStay
    <3> QED BY <3>1, <3>2, <1>5
  <2> QED BY <2>1, <2>2
<1> QED BY <1>4, <1>6

(* A list r of the elements of s at the places in S and of no others, in order: if     *)
(* those are in the order of their numbers, so is r.                                      *)
IsPick(r, s, S) ==
  /\ \A k \in 1..Len(r) : \E i \in 1..Len(s) : i \in S /\ r[k] = s[i]
  /\ \A i \in 1..Len(s) : i \in S => \E k \in 1..Len(r) : r[k] = s[i]
  /\ (\A i, j \in 1..Len(s) : i < j /\ i \in S /\ j \in S => s[i].seq < s[j].seq)
     => \A k, l \in 1..Len(r) : k < l => r[k].seq < r[l].seq

(* What Pick is used for: its elements are those at the places asked for, in their order. *)
LEMMA PickKeeps ==
  ASSUME NEW T, NEW s \in Seq(T), NEW S
  PROVE  Pick(s, S) \in Seq(T) /\ IsPick(Pick(s, S), s, S)
<1>1. Pick(s, S) \in Seq(T) /\ Places(Pick(s, S), s, S, Len(s))
  BY PickIsSolution, SolutionPlaces
<1>2. PICK g : g = Pick(s, S)
  OBVIOUS
<1>3. PICK h \in [1..Len(g) -> 1..Len(s)] :
        /\ \A k \in 1..Len(g) : h[k] \in S /\ g[k] = s[h[k]]
        /\ \A k, l \in 1..Len(g) : k < l => h[k] < h[l]
        /\ \A i \in S : i \in 1..Len(s) => \E k \in 1..Len(g) : h[k] = i
  BY <1>1, <1>2 DEF Places
<1>4. \A k \in 1..Len(g) : \E i \in 1..Len(s) : i \in S /\ g[k] = s[i]
  BY <1>3
<1>5. \A i \in 1..Len(s) : i \in S => \E k \in 1..Len(g) : g[k] = s[i]
  BY <1>3
<1>6. (\A i, j \in 1..Len(s) : i < j /\ i \in S /\ j \in S => s[i].seq < s[j].seq)
      => \A k, l \in 1..Len(g) : k < l => g[k].seq < g[l].seq
  BY <1>3
<1>7. IsPick(g, s, S)
  BY <1>4, <1>5, <1>6 DEF IsPick
<1> QED BY <1>1, <1>2, <1>7

(* Numbers that grow are at least the positions they are at. *)
LEMMA GrowingNumbers ==
  ASSUME NEW s \in Seq(Event), \A i, j \in 1..Len(s) : i < j => s[i].seq < s[j].seq
  PROVE  \A i \in 1..Len(s) : i <= s[i].seq
<1> DEFINE Bad == {i \in 1..Len(s) : s[i].seq < i}
<1>1. \A i \in 1..Len(s) : s[i].seq \in Nat \ {0}
  <2> TAKE i \in 1..Len(s)
  <2>1. s[i] \in Event
    OBVIOUS
  <2>2. s[i].seq \in 1..MaxSeq
    BY <2>1 DEF Event
  <2> QED BY <2>2, LimitAssumption
<1> SUFFICES ASSUME Bad # {} PROVE FALSE
  BY <1>1
<1>2. PICK n \in Bad : \A m \in Bad : n <= m
  <2>1. Bad \in SUBSET Nat
    OBVIOUS
  <2> HIDE DEF Bad
  <2> QED BY <2>1, LeastOf
<1>3. n # 1
  BY <1>1, <1>2
<1>4. n - 1 \in 1..Len(s) /\ n \in 1..Len(s) /\ n - 1 < n
  BY <1>3
<1>5. s[n - 1].seq < s[n].seq
  BY <1>4
<1>6. n - 1 \in Bad
  BY <1>1, <1>2, <1>4, <1>5
<1> QED BY <1>2, <1>4, <1>6

-----------------------------------------------------------------------------
(* Events, and the tail that is cut from a list of them. *)

(* The fields of an event; no event is a torn line. *)
LEMMA EventFields ==
  ASSUME NEW e \in Event
  PROVE  /\ e.seq \in 1..MaxSeq /\ e.seq \in Nat /\ e.seq > 0 /\ e # Torn
         /\ e.run \in 0..MaxRuns /\ e.run \in Nat /\ e.kind \in Kinds
<1>1. e.seq \in 1..MaxSeq /\ e.run \in 0..MaxRuns /\ e.kind \in Kinds
  BY DEF Event
<1>2. Torn.seq = 0
  BY DEF Torn
<1> QED BY <1>1, <1>2, LimitAssumption

(* A list in the order of its numbers. *)
Growing(s) == \A i, j \in 1..Len(s) : i < j => s[i].seq < s[j].seq

(* Where the tail starts: within the list or after its end, and late enough to keep *)
(* no more than the tail may hold.                                                     *)
LEMMA CacheStarts ==
  ASSUME NEW events \in Seq(Event)
  PROVE  /\ CacheStart(events) \in 1..(Len(events) + 1)
         /\ Len(events) - CacheStart(events) + 1 <= CacheLimit
<1> DEFINE n == Len(events)
           large == {i \in 1..n : events[i].kind \in Large}
           first == IF n > CacheLimit THEN n - CacheLimit + 1 ELSE 1
           S == {first} \cup {i + 1 : i \in large}
<1>1. n \in Nat /\ n + 1 \in Nat /\ CacheLimit \in Nat \ {0}
  BY LimitAssumption
<1>2. first \in 1..(n + 1) /\ n - first + 1 <= CacheLimit
  BY <1>1
<1>3. {i + 1 : i \in large} \subseteq 1..(n + 1)
  BY <1>1
<1>4. S \in SUBSET (0..(n + 1)) /\ S # {} /\ first \in S /\ S \subseteq 1..(n + 1)
  BY <1>1, <1>2, <1>3
<1> HIDE DEF S, first, large
<1>5. Most(S) \in S /\ \A m \in S : m <= Most(S)
  BY <1>1, <1>4, MostOf, Zenon
<1>6. CacheStart(events) = Most(S)
  BY DEF CacheStart, S, first, large
<1>7. Most(S) \in 1..(n + 1) /\ first <= Most(S)
  BY <1>4, <1>5
<1> QED BY <1>1, <1>2, <1>6, <1>7

(* The tail made of a list is a part of it, in order, and has all of its events, or *)
(* if it is cut all from its first event on.                                          *)
LEMMA CacheKeeps ==
  ASSUME NEW events \in Seq(Event), NEW was \in BOOLEAN, Growing(events),
         Cache(events, was)
  PROVE  /\ tail' \in Seq(Event) /\ Len(tail') <= CacheLimit /\ truncated' \in BOOLEAN
         /\ TailOrdered'
         /\ was => truncated'
         /\ \A k \in 1..Len(tail') : \E i \in 1..Len(events) : tail'[k] = events[i]
         /\ \A i \in 1..Len(events) :
              ~truncated' \/ (tail' # <<>> /\ events[i].seq >= tail'[1].seq)
              => \E k \in 1..Len(tail') : tail'[k] = events[i]
<1> DEFINE n == Len(events)  p == CacheStart(events)  t == tail'
<1>1. n \in Nat /\ p \in 1..(n + 1) /\ n - p + 1 <= CacheLimit
  BY CacheStarts
<1>2. t = SubSeq(events, p, n) /\ truncated' = (was \/ p > 1)
  BY DEF Cache
<1> HIDE DEF p
<1>3. t \in Seq(Event) /\ Len(t) = n - p + 1 /\ \A k \in 1..Len(t) : t[k] = events[k + p - 1]
  BY <1>1, <1>2
<1>4. TailOrdered'
  <2>1. \A k \in 1..Len(t) : k + p - 1 \in 1..n
    BY <1>1, <1>3
  <2>2. ASSUME NEW i \in 1..Len(t), NEW j \in 1..Len(t), i < j
        PROVE  t[i].seq < t[j].seq
    <3>1. i + p - 1 \in 1..n /\ j + p - 1 \in 1..n /\ i + p - 1 < j + p - 1
      BY <2>1, <2>2, <1>1
    <3>2. t[i] = events[i + p - 1] /\ t[j] = events[j + p - 1]
      BY <1>3
    <3> QED BY <3>1, <3>2 DEF Growing
  <2> QED BY <2>2 DEF TailOrdered
<1>5. \A k \in 1..Len(t) : \E i \in 1..n : t[k] = events[i]
  <2>1. \A k \in 1..Len(t) : k + p - 1 \in 1..n
    BY <1>1, <1>3
  <2> QED BY <2>1, <1>3
<1>6. ASSUME NEW i \in 1..n, ~truncated' \/ (t # <<>> /\ events[i].seq >= t[1].seq)
      PROVE  \E k \in 1..Len(t) : t[k] = events[i]
  <2>1. i >= p
    <3>1. CASE ~truncated'
      <4>1. ~(p > 1)
        BY <3>1, <1>2, Zenon
      <4> QED BY <4>1, <1>1
    <3>2. CASE t # <<>> /\ events[i].seq >= t[1].seq
      <4>1. 1 \in 1..Len(t)
        BY <3>2, <1>3
      <4>2. p \in 1..n /\ t[1] = events[p]
        BY <4>1, <1>1, <1>3
      <4>3. events[i] \in Event /\ events[p] \in Event
        BY <4>2
      <4>4. events[i].seq \in Nat /\ events[p].seq \in Nat
        BY <4>3, EventFields
      <4>5. ~(events[i].seq < events[p].seq)
        BY <3>2, <4>2, <4>4
      <4> QED BY <4>2, <4>5, <1>1 DEF Growing
    <3> QED BY <1>6, <3>1, <3>2
  <2>2. i - p + 1 \in 1..Len(t) /\ (i - p + 1) + p - 1 = i
    BY <2>1, <1>1, <1>3
  <2> QED BY <2>2, <1>3
<1>7. truncated' \in BOOLEAN /\ (was => truncated')
  BY <1>2
<1> QED BY <1>1, <1>3, <1>4, <1>5, <1>6, <1>7

-----------------------------------------------------------------------------
(* The journal: what every change of it keeps. *)

(* The part of the invariant that is about the journal and its tail alone. *)
JournalType ==
  /\ file \in Seq(Event \cup {Torn}) /\ partial \in BOOLEAN
  /\ loaded \in BOOLEAN /\ nextSeq \in 0..MaxSeq
  /\ tail \in Seq(Event) /\ Len(tail) <= CacheLimit /\ truncated \in BOOLEAN
  /\ marks \subseteq [seq : 1..MaxSeq, offset : 1..MaxSeq]
JournalInv == JournalType /\ JournalSound /\ NumbersSound /\ TailSound

(* Lines and cached events, and what is known, as the types give it. *)
LEMMA LinesAre ==
  ASSUME JournalType
  PROVE  /\ Len(file) \in Nat /\ Len(tail) \in Nat /\ nextSeq \in Nat
         /\ \A i \in 1..Len(file) : file[i] # Torn => file[i] \in Event
         /\ \A k \in 1..Len(tail) : tail[k] \in Event
         /\ \A m \in marks : m.seq \in Nat /\ m.offset \in Nat
         /\ Journaled \subseteq Event /\ Known \subseteq Event
         /\ \A e : e \in Journaled <=> e # Torn /\ \E i \in 1..Len(file) : file[i] = e
         /\ \A e : e \in Known <=> e \in Journaled \/ \E k \in 1..Len(tail) : tail[k] = e
<1>1. file \in Seq(Event \cup {Torn}) /\ tail \in Seq(Event)
  BY DEF JournalType
<1>2. \A i \in 1..Len(file) : file[i] \in Event \cup {Torn}
  BY <1>1
<1>3. \A k \in 1..Len(tail) : tail[k] \in Event
  BY <1>1
<1>4. \A m \in marks : m.seq \in Nat /\ m.offset \in Nat
  <2> TAKE m \in marks
  <2>1. m \in [seq : 1..MaxSeq, offset : 1..MaxSeq]
    BY DEF JournalType
  <2> QED BY <2>1, LimitAssumption
<1>5. nextSeq \in Nat
  BY LimitAssumption DEF JournalType
<1> QED BY <1>1, <1>2, <1>3, <1>4, <1>5 DEF Journaled, Known

(* The same of the next state. *)
LEMMA LinesAreNext ==
  ASSUME JournalType'
  PROVE  /\ Journaled' \subseteq Event /\ Known' \subseteq Event
         /\ \A e : e \in Journaled' <=> e # Torn /\ \E i \in 1..Len(file') : file'[i] = e
         /\ \A e : e \in Known' <=> e \in Journaled' \/ \E k \in 1..Len(tail') : tail'[k] = e
<1>1. file' \in Seq(Event \cup {Torn}) /\ tail' \in Seq(Event)
  BY DEF JournalType
<1>2. \A i \in 1..Len(file') : file'[i] \in Event \cup {Torn}
  BY <1>1
<1>3. \A k \in 1..Len(tail') : tail'[k] \in Event
  BY <1>1
<1> QED BY <1>2, <1>3 DEF Journaled, Known

(* The journal's part depends on nothing else. *)
LEMMA JournalStays ==
  ASSUME JournalInv,
         file' = file, partial' = partial, loaded' = loaded, nextSeq' = nextSeq,
         tail' = tail, truncated' = truncated, marks' = marks
  PROVE  JournalInv' /\ Known' = Known /\ Journaled' = Journaled
BY DEF JournalInv, JournalType, JournalSound, JournalOrdered, MarksSplit, NumbersSound,
       TailSound, TailOrdered, TailComplete, LostKnown, StandsFor, Known, Journaled, Last

(* A list r that is s followed by t. *)
IsCat(r, s, t) ==
  /\ Len(r) = Len(s) + Len(t) /\ Len(s) \in Nat /\ Len(t) \in Nat
  /\ \A i \in 1..Len(s) : i \in 1..(Len(s) + Len(t)) /\ r[i] = s[i]
  /\ \A k \in 1..Len(t) : Len(s) + k \in 1..(Len(s) + Len(t)) /\ r[Len(s) + k] = t[k]
  /\ \A i \in 1..(Len(s) + Len(t)) : i \in 1..Len(s) \/ \E k \in 1..Len(t) : i = Len(s) + k

(* The concatenation of two lists is one. *)
LEMMA CatIs ==
  ASSUME NEW T, NEW s \in Seq(T), NEW t \in Seq(T)
  PROVE  s \o t \in Seq(T) /\ IsCat(s \o t, s, t)
<1>1. /\ s \o t \in Seq(T) /\ Len(s \o t) = Len(s) + Len(t)
      /\ Len(s) \in Nat /\ Len(t) \in Nat
  OBVIOUS
<1>2. \A i \in 1..Len(s) : i \in 1..(Len(s) + Len(t)) /\ (s \o t)[i] = s[i]
  OBVIOUS
<1>3. \A k \in 1..Len(t) :
        Len(s) + k \in 1..(Len(s) + Len(t)) /\ (s \o t)[Len(s) + k] = t[k]
  OBVIOUS
<1>4. ASSUME NEW i \in 1..(Len(s) + Len(t)), i \notin 1..Len(s)
      PROVE  \E k \in 1..Len(t) : i = Len(s) + k
  <2>1. i - Len(s) \in 1..Len(t) /\ i = Len(s) + (i - Len(s))
    BY <1>1, <1>4
  <2> QED BY <2>1
<1> QED BY <1>1, <1>2, <1>3, <1>4 DEF IsCat

(* Events with the next numbers are appended to the tail, and each to the file unless *)
(* its line merges with the rest of a failed write; a mark may be set at the end.         *)
LEMMA AppendKeepsJournal ==
  ASSUME JournalInv, loaded, loaded', partial' \in BOOLEAN,
         NEW new \in Seq(Event), NEW lines \in Seq(Event \cup {Torn}),
         Len(lines) = Len(new), Len(new) > 0, nextSeq + Len(new) <= MaxSeq,
         \A i \in 1..Len(new) : new[i].seq = nextSeq + i /\ lines[i] \in {new[i], Torn},
         file' = file \o lines, nextSeq' = nextSeq + Len(new),
         Cache(tail \o new, truncated),
         \/ marks' = marks
         \/ marks' = marks \cup {[seq |-> nextSeq + Len(new), offset |-> Len(file) + Len(new)]}
  PROVE  JournalInv' /\ \A e \in Known' : e \in Known \/ \E i \in 1..Len(new) : new[i] = e
<1> DEFINE N == Len(file)  L == Len(new)  M == Len(tail)
           mark == [seq |-> nextSeq + L, offset |-> N + L]
<1>1. /\ N \in Nat /\ M \in Nat /\ nextSeq \in Nat /\ L \in Nat \ {0} /\ N <= nextSeq
      /\ \A i \in 1..N : file[i] # Torn => file[i] \in Event
      /\ \A k \in 1..M : tail[k] \in Event
      /\ \A m \in marks : m.seq \in Nat /\ m.offset \in Nat /\ m.seq <= nextSeq /\ m.offset <= N
  BY LinesAre DEF JournalInv, NumbersSound
<1>2. \A e \in Known : e.seq \in Nat /\ e.seq <= nextSeq
  BY LinesAre, EventFields DEF JournalInv, NumbersSound
<1>3. \A i \in 1..N : file[i] # Torn => file[i].seq \in Nat /\ file[i].seq <= nextSeq
  BY <1>2, LinesAre DEF JournalInv
<1>4. \A k \in 1..M : tail[k].seq \in Nat /\ tail[k].seq <= nextSeq
  BY <1>2, LinesAre DEF JournalInv
<1>5. /\ file' \in Seq(Event \cup {Torn}) /\ Len(file') = N + L
      /\ \A i \in 1..N : i \in 1..(N + L) /\ file'[i] = file[i]
      /\ \A i \in 1..L : N + i \in 1..(N + L) /\ file'[N + i] = lines[i]
      /\ \A i \in 1..(N + L) : i \in 1..N \/ \E k \in 1..L : i = N + k
  <2>1. file \in Seq(Event \cup {Torn})
    BY DEF JournalInv, JournalType
  <2>2. file \o lines \in Seq(Event \cup {Torn}) /\ IsCat(file \o lines, file, lines)
    BY <2>1, CatIs
  <2>3. file' \in Seq(Event \cup {Torn}) /\ IsCat(file', file, lines)
    BY <2>2
  <2>4. Len(lines) = L
    OBVIOUS
  <2> QED BY <2>3, <2>4 DEF IsCat
<1>6. \A i \in 1..L : lines[i] # Torn => lines[i] = new[i] /\ lines[i].seq = nextSeq + i
  OBVIOUS
<1>7. \A i \in 1..(N + L) : i \in 1..N \/ \E k \in 1..L : i = N + k
  BY <1>5
<1>8. /\ tail \o new \in Seq(Event) /\ Len(tail \o new) = M + L
      /\ \A k \in 1..M : k \in 1..(M + L) /\ (tail \o new)[k] = tail[k]
      /\ \A k \in 1..L : M + k \in 1..(M + L) /\ (tail \o new)[M + k] = new[k]
      /\ \A i \in 1..(M + L) : i \in 1..M \/ \E k \in 1..L : i = M + k
  <2>1. tail \in Seq(Event)
    BY DEF JournalInv, JournalType
  <2>2. tail \o new \in Seq(Event) /\ IsCat(tail \o new, tail, new)
    BY <2>1, CatIs
  <2> QED BY <2>2 DEF IsCat
<1>9. \A k \in 1..(M + L) : k \in 1..M \/ \E i \in 1..L : k = M + i
  BY <1>8
<1>10. Growing(tail \o new)
  <2>1. \A i, j \in 1..M : i < j => tail[i].seq < tail[j].seq
    BY DEF JournalInv, TailSound, TailOrdered
  <2> SUFFICES ASSUME NEW i \in 1..(M + L), NEW j \in 1..(M + L), i < j
               PROVE  (tail \o new)[i].seq < (tail \o new)[j].seq
    BY <1>8 DEF Growing
  <2>2. CASE i \in 1..M /\ j \in 1..M
    BY <2>1, <2>2, <1>8
  <2>3. CASE i \in 1..M /\ j \notin 1..M
    <3>1. PICK l \in 1..L : j = M + l
      BY <2>3, <1>9
    <3> QED BY <3>1, <2>3, <1>4, <1>8, <1>1
  <2>4. CASE i \notin 1..M
    <3>1. PICK k \in 1..L : i = M + k
      BY <2>4, <1>9
    <3>3. j \notin 1..M
      BY <2>4, <1>1
    <3>2. PICK l \in 1..L : j = M + l
      BY <3>3, <1>9
    <3> QED BY <3>1, <3>2, <1>8, <1>1
  <2> QED BY <2>2, <2>3, <2>4
<1>11. /\ tail' \in Seq(Event) /\ Len(tail') <= CacheLimit /\ truncated' \in BOOLEAN
       /\ TailOrdered'
       /\ truncated => truncated'
       /\ \A k \in 1..Len(tail') : \E i \in 1..(M + L) : tail'[k] = (tail \o new)[i]
       /\ \A i \in 1..(M + L) :
            ~truncated' \/ (tail' # <<>> /\ (tail \o new)[i].seq >= tail'[1].seq)
            => \E k \in 1..Len(tail') : tail'[k] = (tail \o new)[i]
  <2>1. truncated \in BOOLEAN
    BY DEF JournalInv, JournalType
  <2>2. PICK ev \in Seq(Event) : ev = tail \o new
    BY <1>8
  <2>3. Growing(ev) /\ Cache(ev, truncated) /\ Len(ev) = M + L
    BY <2>2, <1>8, <1>10
  <2>4. /\ tail' \in Seq(Event) /\ Len(tail') <= CacheLimit /\ truncated' \in BOOLEAN
        /\ TailOrdered'
        /\ truncated => truncated'
        /\ \A k \in 1..Len(tail') : \E i \in 1..Len(ev) : tail'[k] = ev[i]
        /\ \A i \in 1..Len(ev) :
             ~truncated' \/ (tail' # <<>> /\ ev[i].seq >= tail'[1].seq)
             => \E k \in 1..Len(tail') : tail'[k] = ev[i]
    BY <2>1, <2>3, CacheKeeps
  <2> HIDE DEF M, L
  <2> QED BY <2>2, <2>3, <2>4
<1>12. JournalType'
  <2>1. mark \in [seq : 1..MaxSeq, offset : 1..MaxSeq]
    BY <1>1, LimitAssumption
  <2>2. marks' \subseteq [seq : 1..MaxSeq, offset : 1..MaxSeq]
    BY <2>1 DEF JournalInv, JournalType
  <2>3. nextSeq' \in 0..MaxSeq /\ loaded' \in BOOLEAN
    BY <1>1, LimitAssumption
  <2> QED BY <2>2, <2>3, <1>5, <1>11 DEF JournalType
<1>13. \A k \in 1..Len(tail') : \/ \E i \in 1..M : tail'[k] = tail[i]
                               \/ \E i \in 1..L : tail'[k] = new[i]
  <2> TAKE k \in 1..Len(tail')
  <2>1. PICK i \in 1..(M + L) : tail'[k] = (tail \o new)[i]
    BY <1>11
  <2>2. CASE i \in 1..M
    BY <2>1, <2>2, <1>8
  <2>3. CASE \E l \in 1..L : i = M + l
    BY <2>1, <2>3, <1>8
  <2> QED BY <2>2, <2>3, <1>9
<1>14. \A e : e \in Journaled' <=> e \in Journaled \/ \E i \in 1..L : lines[i] = e /\ e # Torn
  <2>1. \A e : e \in Journaled' <=> e # Torn /\ \E i \in 1..(N + L) : file'[i] = e
    BY <1>5, <1>12, LinesAreNext
  <2>2. \A e : e \in Journaled <=> e # Torn /\ \E i \in 1..N : file[i] = e
    BY LinesAre DEF JournalInv
  <2> TAKE e
  <2>3. ASSUME e \in Journaled' PROVE e \in Journaled \/ \E i \in 1..L : lines[i] = e /\ e # Torn
    <3>1. PICK i \in 1..(N + L) : file'[i] = e /\ e # Torn
      BY <2>1, <2>3
    <3>2. CASE i \in 1..N
      BY <3>1, <3>2, <2>2, <1>5
    <3>3. CASE \E k \in 1..L : i = N + k
      BY <3>1, <3>3, <1>5
    <3> QED BY <3>2, <3>3, <1>7
  <2>4. ASSUME e \in Journaled PROVE e \in Journaled'
    BY <2>1, <2>2, <2>4, <1>5
  <2>5. ASSUME NEW i \in 1..L, lines[i] = e, e # Torn PROVE e \in Journaled'
    BY <2>1, <2>5, <1>5
  <2> QED BY <2>3, <2>4, <2>5
<1>15. \A e \in Known' : e \in Known \/ \E i \in 1..L : new[i] = e
  <2> TAKE e \in Known'
  <2>1. e \in Journaled' \/ \E k \in 1..Len(tail') : tail'[k] = e
    BY <1>12, LinesAreNext
  <2>2. ASSUME e \in Journaled \/ \E i \in 1..M : tail[i] = e PROVE e \in Known
    BY <2>2, LinesAre DEF JournalInv
  <2>3. CASE e \in Journaled'
    BY <2>2, <2>3, <1>6, <1>14
  <2>4. CASE \E k \in 1..Len(tail') : tail'[k] = e
    BY <2>2, <2>4, <1>13
  <2> QED BY <2>1, <2>3, <2>4
<1>16. marks' \subseteq marks \cup {mark}
  OBVIOUS
<1>17. JournalSound'
  <2>1. \A i, j \in 1..N :
          i < j /\ file[i] # Torn /\ file[j] # Torn => file[i].seq < file[j].seq
    BY DEF JournalInv, JournalSound, JournalOrdered
  <2>2. ASSUME NEW i \in 1..(N + L), NEW j \in 1..(N + L), i < j,
               file'[i] # Torn, file'[j] # Torn
        PROVE  file'[i].seq < file'[j].seq
    <3>1. CASE i \in 1..N /\ j \in 1..N
      BY <2>1, <2>2, <3>1, <1>5
    <3>2. CASE i \in 1..N /\ j \notin 1..N
      <4>1. PICK l \in 1..L : j = N + l
        BY <3>2, <1>7
      <4> QED BY <4>1, <2>2, <3>2, <1>1, <1>3, <1>5, <1>6
    <3>3. CASE i \notin 1..N
      <4>1. PICK k \in 1..L : i = N + k
        BY <3>3, <1>7
      <4>3. j \notin 1..N
        BY <3>3, <2>2, <1>1
      <4>2. PICK l \in 1..L : j = N + l
        BY <4>3, <1>7
      <4>4. file'[i] = lines[k] /\ file'[j] = lines[l]
        BY <4>1, <4>2, <1>5
      <4>5. file'[i].seq = nextSeq + k /\ file'[j].seq = nextSeq + l
        BY <4>4, <2>2, <1>6
      <4>6. k < l
        BY <4>1, <4>2, <2>2, <1>1
      <4> QED BY <4>5, <4>6, <1>1
    <3> QED BY <3>1, <3>2, <3>3
  <2>3. ASSUME NEW m \in marks', NEW i \in 1..(N + L), file'[i] # Torn
        PROVE  i <= m.offset <=> file'[i].seq <= m.seq
    <3>1. CASE m \in marks /\ i \in 1..N
      BY <3>1, <2>3, <1>5 DEF JournalInv, JournalSound, MarksSplit
    <3>2. CASE m \in marks /\ i \notin 1..N
      <4>1. PICK l \in 1..L : i = N + l
        BY <3>2, <1>7
      <4>2. file'[i].seq = nextSeq + l
        BY <4>1, <2>3, <1>5, <1>6
      <4> QED BY <4>1, <4>2, <3>2, <1>1
    <3>3. CASE m = mark /\ i \in 1..N
      BY <3>3, <2>3, <1>1, <1>3, <1>5
    <3>4. CASE m = mark /\ i \notin 1..N
      <4>1. PICK l \in 1..L : i = N + l
        BY <3>4, <1>7
      <4>2. file'[i].seq = nextSeq + l
        BY <4>1, <2>3, <1>5, <1>6
      <4> QED BY <4>1, <4>2, <3>4, <1>1
    <3> QED BY <3>1, <3>2, <3>3, <3>4, <1>16
  <2> QED BY <2>2, <2>3, <1>5 DEF JournalSound, JournalOrdered, MarksSplit
<1>18. NumbersSound'
  <2>1. Len(file') <= nextSeq' /\ Len(file') <= MaxSeq /\ Len(file') # 0
    BY <1>1, <1>5, LimitAssumption
  <2>2. \A e \in Known' : e.seq <= nextSeq'
    BY <1>1, <1>2, <1>15
  <2>3. \A m \in marks' : m.seq <= nextSeq' /\ m.offset <= Len(file')
    BY <1>1, <1>5, <1>16
  <2>4. Last(file)' = lines[L]
    <3>1. L \in 1..L /\ Len(file') = N + L
      BY <1>1, <1>5
    <3> QED BY <3>1, <1>5 DEF Last
  <2>5. lines[L] # Torn => lines[L].seq = nextSeq'
    <3>1. L \in 1..L
      BY <1>1
    <3> QED BY <3>1, <1>6
  <2>6. file' # <<>>
    BY <2>1
  <2> QED BY <2>1, <2>2, <2>3, <2>4, <2>5, <2>6 DEF NumbersSound
<1>19. TailComplete'
  <2> SUFFICES ASSUME NEW e \in Journaled',
                      ~truncated' \/ (tail' # <<>> /\ e.seq >= tail'[1].seq)
               PROVE  \E i \in 1..Len(tail') : tail'[i] = e
    BY DEF TailComplete
  <2>1. SUFFICES \E k \in 1..(M + L) : (tail \o new)[k] = e
    BY <1>11
  <2>2. CASE e \notin Journaled
    <3>1. PICK i \in 1..L : new[i] = e
      BY <2>2, <1>6, <1>14
    <3> QED BY <3>1, <1>8
  <2>3. CASE e \in Journaled
    <3>1. ~truncated \/ (tail # <<>> /\ e.seq >= tail[1].seq)
      <4>1. CASE ~truncated
        BY <4>1
      <4>2. CASE truncated
        <5>1. tail' # <<>> /\ e.seq >= tail'[1].seq
          BY <4>2, <1>11
        <5>2. 1 \in 1..Len(tail')
          BY <5>1, <1>11
        <5>3. e.seq \in Nat /\ e.seq <= nextSeq
          BY <2>3, <1>2, LinesAre DEF JournalInv
        <5>7. \A i \in 1..L : tail'[1] # new[i]
          BY <5>1, <5>3, <1>1
        <5>4. PICK i \in 1..M : tail'[1] = tail[i]
          BY <5>2, <5>7, <1>13
        <5>5. tail # <<>> /\ 1 \in 1..M
          BY <5>4, <1>1
        <5>6. tail[1].seq <= tail[i].seq
          <6>1. i = 1 \/ 1 < i
            BY <5>4
          <6> QED BY <6>1, <5>4, <5>5, <1>4 DEF JournalInv, TailSound, TailOrdered
        <5> QED BY <5>1, <5>3, <5>4, <5>5, <5>6, <1>4
      <4> QED BY <4>1, <4>2
    <3>2. PICK k \in 1..M : tail[k] = e
      BY <2>3, <3>1 DEF JournalInv, TailSound, TailComplete
    <3> QED BY <3>2, <1>1, <1>8
  <2> QED BY <2>2, <2>3
<1>20. ASSUME NEW i \in 1..N, NEW e, StandsFor(i, e), e.seq \in Nat, e.seq <= nextSeq
       PROVE  StandsFor(i, e)'
  <2>1. /\ file[i] = Torn
        /\ \A j \in 1..N : file[j] # Torn => (j < i <=> file[j].seq < e.seq)
        /\ \A m \in marks : i <= m.offset <=> e.seq <= m.seq
    BY <1>20 DEF StandsFor
  <2>2. file'[i] = Torn
    BY <2>1, <1>5
  <2>3. ASSUME NEW j \in 1..(N + L), file'[j] # Torn
        PROVE  j < i <=> file'[j].seq < e.seq
    <3>1. CASE j \in 1..N
      BY <3>1, <2>1, <2>3, <1>5
    <3>2. CASE j \notin 1..N
      <4>1. PICK l \in 1..L : j = N + l
        BY <3>2, <1>7
      <4>2. file'[j].seq = nextSeq + l
        BY <4>1, <2>3, <1>5, <1>6
      <4> QED BY <4>1, <4>2, <1>1, <1>20
    <3> QED BY <3>1, <3>2
  <2>4. ASSUME NEW m \in marks' PROVE i <= m.offset <=> e.seq <= m.seq
    <3>1. CASE m \in marks
      BY <3>1, <2>1
    <3>2. CASE m = mark
      BY <3>2, <1>1, <1>20
    <3> QED BY <3>1, <3>2, <1>16
  <2> QED BY <2>2, <2>3, <2>4, <1>5 DEF StandsFor
<1>21. ASSUME NEW l \in 1..L, lines[l] = Torn
       PROVE  \E i \in 1..(N + L) : file'[i] = Torn
                /\ (\A j \in 1..(N + L) : file'[j] # Torn => (j < i <=> file'[j].seq < new[l].seq))
                /\ (\A m \in marks' : i <= m.offset <=> new[l].seq <= m.seq)
  <2>1. N + l \in 1..(N + L) /\ file'[N + l] = Torn /\ new[l].seq = nextSeq + l
    BY <1>1, <1>5, <1>21
  <2>2. ASSUME NEW j \in 1..(N + L), file'[j] # Torn
        PROVE  j < N + l <=> file'[j].seq < new[l].seq
    <3>1. CASE j \in 1..N
      BY <3>1, <2>1, <2>2, <1>1, <1>3, <1>5
    <3>2. CASE j \notin 1..N
      <4>1. PICK k \in 1..L : j = N + k
        BY <3>2, <1>7
      <4>3. file'[j] = lines[k]
        BY <4>1, <1>5
      <4>2. file'[j].seq = nextSeq + k
        BY <4>3, <2>2, <1>6
      <4>4. N + k < N + l <=> nextSeq + k < nextSeq + l
        BY <1>1
      <4> QED BY <4>1, <4>2, <2>1, <4>4
    <3> QED BY <3>1, <3>2
  <2>3. ASSUME NEW m \in marks' PROVE N + l <= m.offset <=> new[l].seq <= m.seq
    <3>1. CASE m \in marks
      BY <3>1, <2>1, <1>1
    <3>2. CASE m = mark
      BY <3>2, <2>1, <1>1
    <3> QED BY <3>1, <3>2, <1>16
  <2> QED BY <2>1, <2>2, <2>3
<1>22. LostKnown'
  <2> SUFFICES ASSUME NEW k \in 1..Len(tail'), tail'[k] \notin Journaled'
               PROVE  \E i \in 1..Len(file') : StandsFor(i, tail[k])'
    BY DEF LostKnown
  <2>1. CASE \E i \in 1..M : tail'[k] = tail[i]
    <3>1. PICK p \in 1..M : tail'[k] = tail[p]
      BY <2>1
    <3>2. tail[p] \notin Journaled
      BY <3>1, <1>14
    <3>3. PICK i \in 1..N : StandsFor(i, tail[p])
      BY <3>2 DEF JournalInv, TailSound, LostKnown
    <3>4. PICK e : e = tail[p]
      OBVIOUS
    <3>5. e.seq \in Nat /\ e.seq <= nextSeq
      BY <3>4, <1>4
    <3>6. StandsFor(i, e)'
      BY <3>3, <3>4, <3>5, <1>20
    <3>7. i \in 1..Len(file') /\ tail'[k] = e
      BY <3>1, <3>4, <1>1, <1>5
    <3> QED BY <3>6, <3>7 DEF StandsFor
  <2>2. CASE \E i \in 1..L : tail'[k] = new[i]
    <3>1. PICK l \in 1..L : tail'[k] = new[l]
      BY <2>2
    <3>2. lines[l] = Torn
      <4>1. lines[l] \in {new[l], Torn} /\ new[l] \in Event
        OBVIOUS
      <4> QED BY <4>1, <3>1, <1>14, EventFields
    <3> QED BY <3>1, <3>2, <1>5, <1>21 DEF StandsFor
  <2> QED BY <2>1, <2>2, <1>13
<1> QED BY <1>11, <1>12, <1>15, <1>17, <1>18, <1>19, <1>22 DEF JournalInv, TailSound

(* An event the program makes is one. *)
LEMMA EventMade ==
  ASSUME NEW n \in Nat, n < MaxSeq, NEW r \in 0..MaxRuns, NEW kind \in Kinds
  PROVE  /\ EventAt(n + 1, r, kind) \in Event /\ EventAt(n + 1, r, kind).seq = n + 1
         /\ EventAt(n + 1, r, kind).run = r /\ EventAt(n + 1, r, kind).kind = kind
<1>1. n + 1 \in 1..MaxSeq
  BY LimitAssumption
<1> QED BY <1>1 DEF EventAt, Event

(* To append an element is to concatenate a list of one. *)
LEMMA AppendIsCat ==
  ASSUME NEW T, NEW s \in Seq(T), NEW x \in T
  PROVE  Append(s, x) = s \o <<x>> /\ <<x>> \in Seq(T) /\ Len(<<x>>) = 1 /\ <<x>>[1] = x
OBVIOUS

(* One event is published: the journal's part is kept, and the event is the only new one. *)
LEMMA PublishKeepsJournal ==
  ASSUME JournalInv, NEW r \in 0..MaxRuns, NEW kind \in Kinds, Publish(r, kind)
  PROVE  /\ JournalInv' /\ nextSeq' = nextSeq + 1
         /\ \A e \in Known' : e \in Known \/ e = EventAt(nextSeq + 1, r, kind)
<1> DEFINE e == EventAt(nextSeq + 1, r, kind)  line == IF partial THEN Torn ELSE e
<1>1. /\ nextSeq \in Nat /\ nextSeq < MaxSeq /\ nextSeq + 1 <= MaxSeq
      /\ file \in Seq(Event \cup {Torn}) /\ tail \in Seq(Event)
  BY LinesAre, LimitAssumption DEF JournalInv, JournalType, Publish
<1>2. e \in Event /\ e.seq = nextSeq + 1
  BY <1>1, EventMade
<1>3. /\ loaded /\ loaded' /\ partial' \in BOOLEAN /\ nextSeq' = nextSeq + 1
      /\ file' = Append(file, line) /\ Cache(Append(tail, e), truncated)
  BY <1>2 DEF Publish, Persist
<1>4. \/ marks' = marks
      \/ marks' = marks \cup {[seq |-> nextSeq + 1, offset |-> Len(file) + 1]}
  BY <1>2 DEF Publish, Persist
<1>5. line \in Event \cup {Torn} /\ line \in {e, Torn}
  BY <1>2
<1> HIDE DEF e, line
<1>6. /\ file' = file \o <<line>> /\ <<line>> \in Seq(Event \cup {Torn})
      /\ Len(<<line>>) = 1 /\ <<line>>[1] = line
  BY <1>1, <1>3, <1>5, AppendIsCat
<1>7. /\ Append(tail, e) = tail \o <<e>> /\ <<e>> \in Seq(Event)
      /\ Len(<<e>>) = 1 /\ <<e>>[1] = e
  BY <1>1, <1>2, AppendIsCat
<1>8. PICK new \in Seq(Event), lines \in Seq(Event \cup {Torn}) :
        new = <<e>> /\ lines = <<line>>
  BY <1>6, <1>7
<1>9. /\ Len(lines) = 1 /\ Len(new) = 1 /\ new[1] = e /\ lines[1] = line
      /\ file' = file \o lines /\ Cache(tail \o new, truncated)
  BY <1>3, <1>6, <1>7, <1>8
<1>10. \A i \in 1..Len(new) : new[i].seq = nextSeq + i /\ lines[i] \in {new[i], Torn}
  <2>1. \A i \in 1..Len(new) : i = 1
    BY <1>9
  <2> QED BY <2>1, <1>2, <1>5, <1>9
<1>11. /\ Len(lines) = Len(new) /\ Len(new) > 0 /\ nextSeq + Len(new) <= MaxSeq
       /\ nextSeq' = nextSeq + Len(new)
       /\ \/ marks' = marks
          \/ marks' = marks \cup {[seq |-> nextSeq + Len(new), offset |-> Len(file) + Len(new)]}
  BY <1>1, <1>3, <1>4, <1>9
<1>12. JournalInv' /\ \A x \in Known' : x \in Known \/ \E i \in 1..Len(new) : new[i] = x
  BY <1>3, <1>9, <1>10, <1>11, AppendKeepsJournal
<1>13. \A x \in Known' : x \in Known \/ x = e
  <2>1. \A i \in 1..Len(new) : i = 1
    BY <1>9
  <2> QED BY <2>1, <1>9, <1>12
<1> QED BY <1>3, <1>12, <1>13 DEF e

(* A compaction's two events. *)
LEMMA CommitKeepsJournal ==
  ASSUME JournalInv, run \in 0..MaxRuns, CommitCompaction
  PROVE  /\ JournalInv' /\ nextSeq' = nextSeq + 2
         /\ \A e \in Known' : \/ e \in Known \/ e = EventAt(nextSeq + 1, run, "text")
                              \/ e = EventAt(nextSeq + 2, run, "end")
<1> DEFINE a == EventAt(nextSeq + 1, run, "text")  b == EventAt(nextSeq + 2, run, "end")
           first == IF partial THEN Torn ELSE a
<1>1. /\ nextSeq \in Nat /\ nextSeq + 1 \in Nat /\ nextSeq < MaxSeq /\ nextSeq + 1 < MaxSeq
      /\ nextSeq + 2 <= MaxSeq /\ (nextSeq + 1) + 1 = nextSeq + 2
  BY LinesAre, LimitAssumption DEF JournalInv, JournalType, CommitCompaction
<1>2. a \in Event /\ a.seq = nextSeq + 1 /\ b \in Event /\ b.seq = nextSeq + 2
  <2>1. "text" \in Kinds /\ "end" \in Kinds
    BY DEF Kinds
  <2>2. a \in Event /\ a.seq = nextSeq + 1
    BY <1>1, <2>1, EventMade
  <2>3. EventAt((nextSeq + 1) + 1, run, "end") \in Event
        /\ EventAt((nextSeq + 1) + 1, run, "end").seq = (nextSeq + 1) + 1
    BY <1>1, <2>1, EventMade
  <2> QED BY <1>1, <2>2, <2>3
<1>3. /\ loaded /\ loaded' /\ partial' \in BOOLEAN /\ nextSeq' = nextSeq + 2 /\ marks' = marks
      /\ file' = file \o <<first, b>> /\ Cache(tail \o <<a, b>>, truncated)
  BY DEF CommitCompaction
<1>5. first \in Event \cup {Torn} /\ first \in {a, Torn}
  BY <1>2
<1> HIDE DEF a, b, first
<1>8. PICK new \in Seq(Event), lines \in Seq(Event \cup {Torn}) :
        new = <<a, b>> /\ lines = <<first, b>>
  <2>1. <<a, b>> \in Seq(Event)
    BY <1>2
  <2>2. <<first, b>> \in Seq(Event \cup {Torn})
    BY <1>2, <1>5
  <2> QED BY <2>1, <2>2
<1>9. /\ Len(lines) = 2 /\ Len(new) = 2
      /\ new[1] = a /\ lines[1] = first /\ new[2] = b /\ lines[2] = b
      /\ file' = file \o lines /\ Cache(tail \o new, truncated)
  BY <1>3, <1>8
<1>10. \A i \in 1..Len(new) : new[i].seq = nextSeq + i /\ lines[i] \in {new[i], Torn}
  <2>1. \A i \in 1..Len(new) : i = 1 \/ i = 2
    BY <1>9
  <2> QED BY <2>1, <1>2, <1>5, <1>9
<1>11. /\ Len(lines) = Len(new) /\ Len(new) > 0 /\ nextSeq + Len(new) <= MaxSeq
       /\ nextSeq' = nextSeq + Len(new)
  BY <1>1, <1>3, <1>9
<1>12. JournalInv' /\ \A x \in Known' : x \in Known \/ \E i \in 1..Len(new) : new[i] = x
  BY <1>3, <1>9, <1>10, <1>11, AppendKeepsJournal
<1>13. \A x \in Known' : x \in Known \/ x = a \/ x = b
  <2>1. \A i \in 1..Len(new) : i = 1 \/ i = 2
    BY <1>9
  <2> QED BY <2>1, <1>9, <1>12
<1> QED BY <1>3, <1>12, <1>13 DEF a, b

(* A write that fails changes neither what is known nor its order. *)
LEMMA FailureKeepsJournal ==
  ASSUME JournalInv, PublishFails
  PROVE  JournalInv' /\ Known' = Known /\ nextSeq' = nextSeq /\ file' = file
<1>1. partial' \in BOOLEAN
  BY FaultAssumption DEF PublishFails, JournalInv, JournalType
<1>2. /\ file' = file /\ loaded' = loaded /\ nextSeq' = nextSeq
      /\ tail' = tail /\ truncated' = truncated /\ marks' = marks
  BY DEF PublishFails, cacheVars
<1>3. JournalType' /\ Known' = Known /\ Journaled' = Journaled
  BY <1>1, <1>2 DEF JournalInv, JournalType, Known, Journaled
<1>4. JournalSound' /\ NumbersSound' /\ TailSound'
  BY <1>2, <1>3 DEF JournalInv, JournalSound, JournalOrdered, MarksSplit, NumbersSound,
    TailSound, TailOrdered, TailComplete, LostKnown, StandsFor, Last
<1> QED BY <1>2, <1>3, <1>4 DEF JournalInv

(* A file of readable lines in order, with the tail and marks made from it. *)
LEMMA FreshKeepsJournal ==
  ASSUME loaded' = TRUE, partial' \in BOOLEAN, nextSeq' \in 0..MaxSeq,
         NEW lines \in Seq(Event), file' = lines, Growing(lines), Cache(lines, FALSE),
         lines = <<>> => nextSeq' = 0, lines # <<>> => Last(lines).seq = nextSeq',
         \A m \in marks' : \E i \in 1..Len(lines) : m = [seq |-> lines[i].seq, offset |-> i]
  PROVE  JournalInv' /\ \A e : e \in Known' <=> \E i \in 1..Len(lines) : lines[i] = e
<1>1. /\ tail' \in Seq(Event) /\ Len(tail') <= CacheLimit /\ truncated' \in BOOLEAN
      /\ TailOrdered'
      /\ \A k \in 1..Len(tail') : \E i \in 1..Len(lines) : tail'[k] = lines[i]
      /\ \A i \in 1..Len(lines) :
           ~truncated' \/ (tail' # <<>> /\ lines[i].seq >= tail'[1].seq)
           => \E k \in 1..Len(tail') : tail'[k] = lines[i]
  BY CacheKeeps
<1>2. \A i \in 1..Len(lines) :
        lines[i] \in Event /\ lines[i].seq \in 1..MaxSeq /\ lines[i].seq \in Nat
        /\ lines[i] # Torn /\ i <= lines[i].seq
  <2> TAKE i \in 1..Len(lines)
  <2>1. lines[i] \in Event
    OBVIOUS
  <2>2. i <= lines[i].seq
    BY GrowingNumbers DEF Growing
  <2> QED BY <2>1, <2>2, EventFields
<1>3. Len(lines) \in Nat /\ nextSeq' \in Nat /\ MaxSeq \in Nat
  BY LimitAssumption
<1>4. /\ Len(lines) <= nextSeq'
      /\ \A i \in 1..Len(lines) : lines[i].seq <= nextSeq'
  <2>1. CASE lines = <<>>
    BY <2>1, <1>3
  <2>2. CASE lines # <<>>
    <3>1. Len(lines) \in 1..Len(lines) /\ lines[Len(lines)].seq = nextSeq'
      BY <2>2 DEF Last
    <3>2. \A i \in 1..Len(lines) : i = Len(lines) \/ i < Len(lines)
      BY <1>3
    <3> QED BY <3>1, <3>2, <1>2, <1>3 DEF Growing
  <2> QED BY <2>1, <2>2
<1>5. JournalType'
  <2>1. marks' \subseteq [seq : 1..MaxSeq, offset : 1..MaxSeq]
    <3> SUFFICES ASSUME NEW m \in marks' PROVE m \in [seq : 1..MaxSeq, offset : 1..MaxSeq]
      OBVIOUS
    <3>1. PICK i \in 1..Len(lines) : m = [seq |-> lines[i].seq, offset |-> i]
      OBVIOUS
    <3>2. i \in 1..MaxSeq
      BY <1>2, <1>3
    <3> QED BY <3>1, <3>2, <1>2
  <2>2. lines \in Seq(Event \cup {Torn})
    OBVIOUS
  <2> QED BY <2>1, <2>2, <1>1 DEF JournalType
<1>6. \A e : e \in Journaled' <=> \E i \in 1..Len(lines) : lines[i] = e
  BY <1>2, <1>5, LinesAreNext
<1>7. \A e : e \in Known' <=> \E i \in 1..Len(lines) : lines[i] = e
  BY <1>1, <1>5, <1>6, LinesAreNext
<1>8. JournalSound'
  <2>1. JournalOrdered'
    BY DEF JournalOrdered, Growing
  <2>2. ASSUME NEW m \in marks', NEW i \in 1..Len(lines)
        PROVE  i <= m.offset <=> lines[i].seq <= m.seq
    <3>1. PICK k \in 1..Len(lines) : m = [seq |-> lines[k].seq, offset |-> k]
      OBVIOUS
    <3>2. i < k => lines[i].seq < lines[k].seq
      BY DEF Growing
    <3>3. k < i => lines[k].seq < lines[i].seq
      BY DEF Growing
    <3>4. lines[i].seq \in Nat /\ lines[k].seq \in Nat /\ m.seq = lines[k].seq /\ m.offset = k
      BY <3>1, <1>2
    <3>5. i < k \/ i = k \/ k < i
      BY <1>3
    <3> QED BY <3>2, <3>3, <3>4, <3>5
  <2> QED BY <2>1, <2>2 DEF JournalSound, MarksSplit
<1>9. NumbersSound'
  <2>1. \A m \in marks' : m.seq <= nextSeq' /\ m.offset <= Len(lines)
    <3> TAKE m \in marks'
    <3>1. PICK i \in 1..Len(lines) : m = [seq |-> lines[i].seq, offset |-> i]
      OBVIOUS
    <3> QED BY <3>1, <1>3, <1>4
  <2>2. \A e \in Known' : e.seq <= nextSeq'
    BY <1>4, <1>7
  <2>3. Len(lines) <= MaxSeq
    BY <1>3, <1>4
  <2>4. Last(file)' = Last(lines)
    BY DEF Last
  <2> QED BY <2>1, <2>2, <2>3, <2>4, <1>4 DEF NumbersSound
<1>10. TailSound'
  <2>1. TailComplete'
    BY <1>1, <1>6 DEF TailComplete
  <2>2. LostKnown'
    BY <1>1, <1>6 DEF LostKnown
  <2> QED BY <2>1, <2>2, <1>1 DEF TailSound
<1> QED BY <1>5, <1>7, <1>8, <1>9, <1>10 DEF JournalInv

(* A sequence is one of all sets that hold its elements. *)
LEMMA ElementsOf ==
  ASSUME NEW T, NEW s \in Seq(T), NEW U, \A k \in 1..Len(s) : s[k] \in U
  PROVE  s \in Seq(U)
OBVIOUS

(* What an edit of the history goes over: known events, in order. *)
LEMMA WholeIs ==
  ASSUME JournalInv
  PROVE  Whole \in Seq(Event) /\ Growing(Whole) /\ \A k \in 1..Len(Whole) : Whole[k] \in Known
<1>1. file \in Seq(Event \cup {Torn}) /\ tail \in Seq(Event)
  BY DEF JournalInv, JournalType
<1>2. CASE ~truncated
  <2>1. Whole = tail
    BY <1>2 DEF Whole
  <2>2. \A k \in 1..Len(tail) : tail[k] \in Known
    BY LinesAre DEF JournalInv
  <2> QED BY <2>1, <2>2, <1>1 DEF JournalInv, TailSound, TailOrdered, Growing
<1>3. CASE truncated
  <2> DEFINE S == {i \in 1..Len(file) : file[i] # Torn}
  <2>1. Whole = Pick(file, S)
    BY <1>3 DEF Whole, Events
  <2>2. Whole \in Seq(Event \cup {Torn}) /\ IsPick(Whole, file, S)
    BY <1>1, <2>1, PickKeeps
  <2>7. PICK w : w = Whole
    OBVIOUS
  <2>3. /\ w \in Seq(Event \cup {Torn})
        /\ \A k \in 1..Len(w) : \E i \in 1..Len(file) : i \in S /\ w[k] = file[i]
        /\ (\A i, j \in 1..Len(file) : i < j /\ i \in S /\ j \in S => file[i].seq < file[j].seq)
           => \A k, l \in 1..Len(w) : k < l => w[k].seq < w[l].seq
    BY <2>2, <2>7 DEF IsPick
  <2>4. \A k \in 1..Len(w) : w[k] \in Journaled /\ w[k] \in Known /\ w[k] \in Event
    BY <2>3, LinesAre DEF JournalInv
  <2>5. Growing(w)
    BY <2>3 DEF JournalInv, JournalSound, JournalOrdered, Growing
  <2>6. w \in Seq(Event)
    BY <2>3, <2>4, ElementsOf
  <2> QED BY <2>4, <2>5, <2>6, <2>7
<1> QED BY <1>2, <1>3

(* An edit keeps known events and adds one with the next number. *)
LEMMA EditKeepsJournal ==
  ASSUME JournalInv, runs \in 0..MaxRuns, \A e \in Known : e.run <= runs,
         NEW keep, Edit(keep)
  PROVE  /\ JournalInv' /\ nextSeq' = nextSeq + 1
         /\ \A e \in Known' :
              e \in Known \/ (e.seq = nextSeq + 1 /\ e.run <= runs /\ e.kind = "rebased")
<1> DEFINE S == {i \in 1..Len(Whole) : Whole[i].run \in keep}
<1>1. /\ Whole \in Seq(Event) /\ Growing(Whole)
      /\ \A k \in 1..Len(Whole) : Whole[k] \in Known
  BY WholeIs
<1>2. PICK kept : kept = Pick(Whole, S)
  OBVIOUS
<1>3. /\ kept \in Seq(Event)
      /\ \A k \in 1..Len(kept) : \E i \in 1..Len(Whole) : i \in S /\ kept[k] = Whole[i]
      /\ (\A i, j \in 1..Len(Whole) : i < j /\ i \in S /\ j \in S => Whole[i].seq < Whole[j].seq)
         => \A k, l \in 1..Len(kept) : k < l => kept[k].seq < kept[l].seq
  <2>1. Pick(Whole, S) \in Seq(Event) /\ IsPick(Pick(Whole, S), Whole, S)
    BY <1>1, PickKeeps
  <2>2. kept \in Seq(Event) /\ IsPick(kept, Whole, S)
    BY <1>2, <2>1
  <2> QED BY <2>2 DEF IsPick
<1>4. Growing(kept) /\ \A k \in 1..Len(kept) : kept[k] \in Known
  BY <1>1, <1>3 DEF Growing
<1>5. /\ nextSeq \in Nat /\ nextSeq < MaxSeq /\ nextSeq + 1 \in 0..MaxSeq /\ nextSeq + 1 \in Nat
      /\ loaded /\ loaded' = TRUE
      /\ file' = Edited(keep) /\ partial' = FALSE /\ marks' = {} /\ nextSeq' = nextSeq + 1
      /\ Cache(Edited(keep), FALSE)
  <2>1. nextSeq < MaxSeq /\ loaded
    BY DEF Edit, MayEdit
  <2>2. nextSeq \in Nat /\ nextSeq + 1 \in 0..MaxSeq /\ nextSeq + 1 \in Nat
    BY <2>1, LinesAre, LimitAssumption DEF JournalInv
  <2>3. loaded' = TRUE
    BY <2>1, Zenon DEF Edit
  <2> QED BY <2>1, <2>2, <2>3 DEF Edit
<1>6. \A k \in 1..Len(kept) :
        kept[k] \in Event /\ kept[k].seq \in Nat /\ kept[k].seq <= nextSeq /\ kept[k].run <= runs
        /\ kept[k].run \in 0..MaxRuns
  BY <1>3, <1>4, <1>5, EventFields DEF JournalInv, NumbersSound
<1>7. PICK r : r = IF kept = <<>> THEN 0 ELSE Last(kept).run
  OBVIOUS
<1>8. r \in 0..MaxRuns /\ r <= runs
  <2>1. kept # <<>> => Len(kept) \in 1..Len(kept)
    BY <1>3
  <2> QED BY <2>1, <1>6, <1>7, LimitAssumption DEF Last
<1>9. PICK e : e = EventAt(nextSeq + 1, r, "rebased")
  OBVIOUS
<1>10. e \in Event /\ e.seq = nextSeq + 1 /\ e.run = r /\ e.kind = "rebased"
  <2>1. "rebased" \in Kinds
    BY DEF Kinds
  <2> QED BY <2>1, <1>5, <1>8, <1>9, EventMade
<1>11. Edited(keep) = Append(kept, e)
  BY <1>2, <1>7, <1>9 DEF Edited
<1>12. PICK lines : lines = Append(kept, e)
  OBVIOUS
<1>13. /\ lines \in Seq(Event) /\ Len(lines) = Len(kept) + 1 /\ Len(kept) \in Nat
       /\ \A k \in 1..Len(kept) : lines[k] = kept[k]
       /\ lines[Len(kept) + 1] = e /\ lines # <<>>
  BY <1>3, <1>10, <1>12
<1>14. \A k \in 1..Len(lines) : k \in 1..Len(kept) \/ k = Len(kept) + 1
  BY <1>13
<1>15. Growing(lines)
  <2> SUFFICES ASSUME NEW i \in 1..Len(lines), NEW j \in 1..Len(lines), i < j
               PROVE  lines[i].seq < lines[j].seq
    BY DEF Growing
  <2>1. i \in 1..Len(kept)
    BY <1>13
  <2>2. CASE j \in 1..Len(kept)
    BY <2>1, <2>2, <1>4, <1>13 DEF Growing
  <2>3. CASE j = Len(kept) + 1
    BY <2>1, <2>3, <1>5, <1>6, <1>10, <1>13
  <2> QED BY <2>2, <2>3, <1>14
<1>16. Last(lines).seq = nextSeq'
  BY <1>5, <1>10, <1>13 DEF Last
<1>17. JournalInv' /\ \A x : x \in Known' <=> \E i \in 1..Len(lines) : lines[i] = x
  <2>1. /\ loaded' = TRUE /\ partial' \in BOOLEAN /\ nextSeq' \in 0..MaxSeq
        /\ file' = lines /\ Cache(lines, FALSE) /\ marks' = {}
    BY <1>5, <1>11, <1>12
  <2> QED BY <2>1, <1>13, <1>15, <1>16, FreshKeepsJournal
<1> QED BY <1>4, <1>5, <1>8, <1>10, <1>13, <1>14, <1>17

(* A load finds what the file holds, and goes on from its last number. *)
LEMMA LoadKeepsJournal ==
  ASSUME JournalInv, Load
  PROVE  JournalInv' /\ Known' \subseteq Known /\ nextSeq' = NumberedTo
<1>1. /\ ~loaded /\ Broken = {} /\ loaded' = TRUE /\ Cache(file, FALSE)
      /\ nextSeq' = (IF file = <<>> THEN 0 ELSE Last(file).seq)
      /\ marks' = Marked({}, file, 1..Len(file)) /\ file' = file /\ partial' = partial
  BY DEF Load, journalVars
<1>2. \A i \in 1..Len(file) : file[i] # Torn /\ file[i] \in Event
  BY <1>1, LinesAre DEF Broken, JournalInv
<1>3. PICK lines : lines = file
  OBVIOUS
<1>4. lines \in Seq(Event)
  BY <1>2, <1>3, ElementsOf DEF JournalInv, JournalType
<1>5. Growing(lines)
  BY <1>2, <1>3 DEF JournalInv, JournalSound, JournalOrdered, Growing
<1>6. lines # <<>> => Len(lines) \in 1..Len(lines)
  BY <1>4
<1>7. nextSeq' \in 0..MaxSeq
  <2>1. lines # <<>> => Last(lines) \in Event
    BY <1>4, <1>6 DEF Last
  <2>2. lines # <<>> => Last(lines).seq \in 1..MaxSeq
    BY <2>1, EventFields
  <2> QED BY <2>2, <1>1, <1>3, LimitAssumption
<1>8. \A m \in marks' : \E i \in 1..Len(lines) : m = [seq |-> lines[i].seq, offset |-> i]
  BY <1>1, <1>3 DEF Marked
<1>9. JournalInv' /\ \A x : x \in Known' <=> \E i \in 1..Len(lines) : lines[i] = x
  <2>1. /\ loaded' = TRUE /\ partial' \in BOOLEAN /\ file' = lines /\ Cache(lines, FALSE)
        /\ (lines = <<>> => nextSeq' = 0) /\ (lines # <<>> => Last(lines).seq = nextSeq')
    BY <1>1, <1>3 DEF JournalInv, JournalType
  <2> QED BY <2>1, <1>4, <1>5, <1>7, <1>8, FreshKeepsJournal
<1>10. Known' \subseteq Known
  BY <1>2, <1>3, <1>9, LinesAre DEF JournalInv
<1> QED BY <1>1, <1>9, <1>10 DEF NumberedTo

(* A session that is unloaded leaves its file. *)
LEMMA UnloadKeepsJournal ==
  ASSUME JournalInv, Unloaded, file' = file, partial' \in BOOLEAN
  PROVE  JournalInv' /\ Known' = Journaled
<1>1. /\ loaded' = FALSE /\ nextSeq' = 0 /\ tail' = <<>> /\ truncated' = FALSE /\ marks' = {}
  BY DEF Unloaded
<1>2. JournalType'
  <2>1. tail' \in Seq(Event) /\ Len(tail') <= CacheLimit
    BY <1>1, LimitAssumption
  <2>2. nextSeq' \in 0..MaxSeq
    BY <1>1, LimitAssumption
  <2> QED BY <1>1, <2>1, <2>2 DEF JournalInv, JournalType
<1>3. Journaled' = Journaled /\ Known' = Journaled
  BY <1>1 DEF Journaled, Known
<1>4. JournalSound' /\ NumbersSound' /\ TailSound'
  BY <1>1 DEF JournalInv, JournalSound, JournalOrdered, MarksSplit, NumbersSound, TailSound,
    TailOrdered, TailComplete, LostKnown
<1> QED BY <1>2, <1>3, <1>4 DEF JournalInv

-----------------------------------------------------------------------------
(* Reading: the tail and the scan of the file. *)

(* What an action reads of the events after n: in order, without a gap, and empty only *)
(* if there are none.                                                                     *)
Complete(r, n) ==
  /\ r \in Seq(Event) /\ Growing(r)
  /\ \A k \in 1..Len(r) : r[k] \in Known /\ n < r[k].seq
  /\ \A e \in Known : n < e.seq /\ (r # <<>> => e.seq <= Last(r).seq)
                      => \E k \in 1..Len(r) : r[k] = e

(* A scan starts after lines that are not wanted, readable or not, and ends at the first *)
(* line that cannot be read, or where it has enough, or at the end.                         *)
LEMMA ScanIs ==
  ASSUME JournalInv, loaded, NEW n \in Nat
  PROVE  /\ ScanStart(n) \in 1..(Len(file) + 1)
         /\ \A i \in 1..Len(file) : file[i] # Torn /\ i < ScanStart(n) => file[i].seq <= n
         /\ \A i \in 1..Len(file) : \A e \in Event :
              StandsFor(i, e) /\ n < e.seq => ScanStart(n) <= i
         /\ ScanEnd(n) \in ScanStart(n)..(Len(file) + 1)
         /\ \A i \in ScanStart(n)..(ScanEnd(n) - 1) : i \notin Broken
         /\ ScanEnd(n) \in Broken \/ ScanEnd(n) = Len(file) + 1 \/ Enough(n, ScanEnd(n))
<1> DEFINE N == Len(file)
           B == {m.offset : m \in {k \in marks : k.seq <= n}} \cup {0}
           a == ScanStart(n)
           E == {i \in a..(N + 1) : i \in Broken \/ i = N + 1 \/ Enough(n, i)}
<1>1. /\ N \in Nat /\ \A m \in marks : m.offset \in 0..N /\ m.seq \in Nat
      /\ \A i \in 1..N : file[i] # Torn => file[i].seq \in Nat
  <2>1. \A i \in 1..N : file[i] # Torn => file[i].seq \in Nat
    BY LinesAre, EventFields DEF JournalInv
  <2> QED BY <2>1, LinesAre DEF JournalInv, NumbersSound
<1>2. B \in SUBSET (0..N) /\ B # {}
  BY <1>1
<1>3. a = 1 + Most(B)
  BY DEF ScanStart
<1>4. Most(B) \in B /\ Most(B) \in 0..N
  <2> HIDE DEF B
  <2> QED BY <1>1, <1>2, MostOf
<1>5. a \in 1..(N + 1)
  BY <1>1, <1>3, <1>4
<1>6. a = 1 \/ \E m \in marks : m.seq <= n /\ a = m.offset + 1
  <2>1. PICK b : b = Most(B)
    OBVIOUS
  <2>2. a = 1 + b /\ b \in B
    BY <2>1, <1>3, <1>4
  <2>3. b = 0 \/ \E m \in marks : m.seq <= n /\ b = m.offset
    BY <2>2
  <2>4. CASE b = 0
    BY <2>2, <2>4
  <2>5. CASE \E m \in marks : m.seq <= n /\ b = m.offset
    <3>1. PICK m \in marks : m.seq <= n /\ b = m.offset
      BY <2>5
    <3>2. a = m.offset + 1
      BY <2>2, <3>1, <1>1
    <3> QED BY <3>1, <3>2
  <2> QED BY <2>3, <2>4, <2>5
<1>7. ASSUME NEW i \in 1..N, file[i] # Torn, i < a PROVE file[i].seq <= n
  <2>1. PICK m \in marks : m.seq <= n /\ a = m.offset + 1
    BY <1>6, <1>7
  <2>2. i <= m.offset
    BY <2>1, <1>1, <1>7
  <2>3. file[i].seq <= m.seq
    BY <2>2, <1>7 DEF JournalInv, JournalSound, MarksSplit
  <2> QED BY <2>1, <2>3, <1>1, <1>7
<1>8. ASSUME NEW i \in 1..N, NEW e \in Event, StandsFor(i, e), n < e.seq PROVE a <= i
  <2>1. e.seq \in Nat
    BY EventFields
  <2>2. CASE a = 1
    BY <2>2
  <2>3. CASE \E m \in marks : m.seq <= n /\ a = m.offset + 1
    <3>1. PICK m \in marks : m.seq <= n /\ a = m.offset + 1
      BY <2>3
    <3>2. ~(e.seq <= m.seq)
      BY <3>1, <2>1, <1>1, <1>8
    <3>3. ~(i <= m.offset)
      BY <3>2, <1>8 DEF StandsFor
    <3> QED BY <3>1, <3>3, <1>1
  <2> QED BY <2>2, <2>3, <1>6
<1>9. E \in SUBSET Nat /\ N + 1 \in E
  BY <1>1, <1>5
<1>10. ScanEnd(n) = Least(E)
  BY DEF ScanEnd
<1>11. Least(E) \in E /\ \A m \in E : Least(E) <= m
  <2> HIDE DEF E
  <2> QED BY <1>9, LeastOf
<1>12. PICK z : z = ScanEnd(n)
  OBVIOUS
<1>13. z \in E /\ \A m \in E : z <= m
  BY <1>10, <1>11, <1>12
<1>14. z \in a..(N + 1) /\ (z \in Broken \/ z = N + 1 \/ Enough(n, z))
  BY <1>13
<1>15. \A i \in a..(z - 1) : i \notin Broken
  <2> SUFFICES ASSUME NEW i \in a..(z - 1), i \in Broken PROVE FALSE
    OBVIOUS
  <2>1. i \in a..(N + 1) /\ ~(z <= i)
    BY <1>1, <1>5, <1>14
  <2>2. i \in E
    BY <2>1
  <2> QED BY <2>1, <2>2, <1>13
<1> QED BY <1>5, <1>7, <1>8, <1>12, <1>14, <1>15

(* The lines a scan goes through, when it can go on: all can be read. *)
LEMMA ScannedIs ==
  ASSUME JournalInv, loaded, NEW n \in Nat, ScanEnd(n) \notin Broken
  PROVE  \E z \in 0..Len(file) :
           /\ Scanned(n) = ScanStart(n)..z
           /\ z = Most(Scanned(n) \cup {0}) \/ Scanned(n) = {}
           /\ \A i \in ScanStart(n)..z : i \in 1..Len(file) /\ file[i] # Torn
           /\ z = Len(file) \/ (Enough(n, z) /\ z >= ScanStart(n))
<1> DEFINE N == Len(file)  a == ScanStart(n)  e == ScanEnd(n)
           z == IF e > N THEN N ELSE e
<1>1. /\ N \in Nat /\ a \in 1..(N + 1) /\ e \in a..(N + 1)
      /\ \A i \in a..(e - 1) : i \notin Broken
      /\ e = N + 1 \/ Enough(n, e)
  BY ScanIs, LinesAre DEF JournalInv
<1>2. z \in 0..N /\ Scanned(n) = a..z
  BY <1>1 DEF Scanned
<1>3. ASSUME NEW i \in a..z PROVE i \in 1..N /\ file[i] # Torn
  <2>1. i \in 1..N /\ (i \in a..(e - 1) \/ i = e)
    BY <1>1, <1>2
  <2>2. i \notin Broken
    BY <2>1, <1>1
  <2> QED BY <2>1, <2>2 DEF Broken
<1>4. z = N \/ (Enough(n, z) /\ z >= a)
  <2>1. CASE e = N + 1
    BY <2>1, <1>1
  <2>2. CASE e # N + 1
    <3>1. z = e
      BY <2>2, <1>1
    <3> QED BY <3>1, <2>2, <1>1
  <2> QED BY <2>1, <2>2
<1>5. z = Most(Scanned(n) \cup {0}) \/ Scanned(n) = {}
  <2> SUFFICES ASSUME Scanned(n) # {} PROVE z = Most(Scanned(n) \cup {0})
    OBVIOUS
  <2> DEFINE S == Scanned(n) \cup {0}
  <2>1. a <= z /\ z \in S /\ S \in SUBSET (0..N) /\ \A i \in S : i <= z
    BY <1>1, <1>2
  <2> HIDE DEF S
  <2>2. Most(S) \in S /\ \A m \in S : m <= Most(S)
    BY <2>1, <1>1, MostOf
  <2>3. Most(S) \in 0..N /\ Most(S) <= z /\ z <= Most(S)
    BY <2>1, <2>2
  <2>4. z = Most(S)
    BY <2>3, <1>2
  <2> QED BY <2>4 DEF S
<1>6. PICK y : y = z
  OBVIOUS
<1>7. /\ y \in 0..N /\ Scanned(n) = a..y
      /\ y = Most(Scanned(n) \cup {0}) \/ Scanned(n) = {}
      /\ \A i \in a..y : i \in 1..N /\ file[i] # Torn
      /\ y = N \/ (Enough(n, y) /\ y >= a)
  <2> HIDE DEF z, a, N
  <2> QED BY <1>2, <1>3, <1>4, <1>5, <1>6
<1> QED BY <1>7

(* A list r of the events after n of a list s, in order. *)
IsAfter(r, s, n) ==
  /\ r \in Seq(Event) /\ Growing(r)
  /\ \A k \in 1..Len(r) : r[k].seq > n /\ \E i \in 1..Len(s) : r[k] = s[i]
  /\ \A i \in 1..Len(s) : s[i].seq > n => \E k \in 1..Len(r) : r[k] = s[i]

(* After is what it says, for events in order. *)
LEMMA AfterIs ==
  ASSUME NEW T, NEW s \in Seq(T), NEW n,
         \A k \in 1..Len(s) : s[k] \in Event, Growing(s)
  PROVE  IsAfter(After(s, n), s, n)
<1> DEFINE S == {i \in 1..Len(s) : s[i].seq > n}
<1>1. PICK r : r = After(s, n)
  OBVIOUS
<1>2. r = Pick(s, S)
  BY <1>1 DEF After
<1>3. Pick(s, S) \in Seq(T) /\ IsPick(Pick(s, S), s, S)
  BY PickKeeps
<1>4. /\ r \in Seq(T)
      /\ \A k \in 1..Len(r) : \E i \in 1..Len(s) : i \in S /\ r[k] = s[i]
      /\ \A i \in 1..Len(s) : i \in S => \E k \in 1..Len(r) : r[k] = s[i]
      /\ (\A i, j \in 1..Len(s) : i < j /\ i \in S /\ j \in S => s[i].seq < s[j].seq)
         => \A k, l \in 1..Len(r) : k < l => r[k].seq < r[l].seq
  BY <1>2, <1>3 DEF IsPick
<1>5. Growing(r)
  BY <1>4 DEF Growing
<1>6. \A k \in 1..Len(r) : r[k] \in Event
  BY <1>4
<1>7. r \in Seq(Event)
  BY <1>4, <1>6, ElementsOf
<1>8. IsAfter(r, s, n)
  BY <1>4, <1>5, <1>7 DEF IsAfter
<1> QED BY <1>1, <1>8

(* The tail, when it serves, has all there is after n. *)
LEMMA TailReplay ==
  ASSUME JournalInv, loaded, NEW n \in Nat, TailServes(n)
  PROVE  Complete(After(tail, n), n)
<1>1. tail \in Seq(Event) /\ Growing(tail) /\ \A k \in 1..Len(tail) : tail[k] \in Event
  BY LinesAre DEF JournalInv, JournalType, TailSound, TailOrdered, Growing
<1>2. PICK r : r = After(tail, n)
  OBVIOUS
<1>3. /\ r \in Seq(Event) /\ Growing(r)
      /\ \A k \in 1..Len(r) : r[k].seq > n /\ \E i \in 1..Len(tail) : r[k] = tail[i]
      /\ \A i \in 1..Len(tail) : tail[i].seq > n => \E k \in 1..Len(r) : r[k] = tail[i]
  BY <1>1, <1>2, AfterIs DEF IsAfter
<1>4. \A k \in 1..Len(r) : r[k] \in Known /\ r[k].seq \in Nat /\ n < r[k].seq
  BY <1>3, LinesAre, EventFields DEF JournalInv
<1>5. ASSUME NEW e \in Known, n < e.seq PROVE \E k \in 1..Len(r) : r[k] = e
  <2>1. e.seq \in Nat
    BY LinesAre, EventFields DEF JournalInv
  <2>2. \E i \in 1..Len(tail) : tail[i] = e
    <3>1. CASE e \notin Journaled
      BY <3>1, LinesAre DEF JournalInv
    <3>2. CASE e \in Journaled
      <4>1. ~truncated \/ (tail # <<>> /\ n >= tail[1].seq - 1)
        BY DEF TailServes
      <4>2. tail # <<>> => tail[1] \in Event
        BY <1>1
      <4>3. tail # <<>> => tail[1].seq \in Nat
        BY <4>2, EventFields
      <4>4. ~truncated \/ (tail # <<>> /\ e.seq >= tail[1].seq)
        BY <4>1, <4>3, <2>1, <1>5
      <4> QED BY <3>2, <4>4 DEF JournalInv, TailSound, TailComplete
    <3> QED BY <3>1, <3>2
  <2>3. PICK i \in 1..Len(tail) : tail[i] = e
    BY <2>2
  <2>4. tail[i].seq > n
    BY <2>1, <2>3, <1>5
  <2> QED BY <2>3, <2>4, <1>3
<1> QED BY <1>2, <1>3, <1>4, <1>5 DEF Complete

(* The lines from a to z, all readable, as a list of events in order. *)
IsSpan(s, a, z) ==
  /\ s \in Seq(Event \cup {Torn}) /\ Growing(s) /\ \A k \in 1..Len(s) : s[k] \in Event
  /\ \A k \in 1..Len(s) : \E i \in a..z : s[k] = file[i]
  /\ \A i \in a..z : \E k \in 1..Len(s) : s[k] = file[i]

(* A stretch of readable lines is one of events. *)
LEMMA LinesFrom ==
  ASSUME JournalInv, NEW a \in 1..(Len(file) + 1), NEW z \in 0..Len(file),
         \A i \in a..z : i \in 1..Len(file) /\ file[i] # Torn
  PROVE  IsSpan(SubSeq(file, a, z), a, z)
<1>4. PICK s : s = SubSeq(file, a, z)
  OBVIOUS
<1>1. file \in Seq(Event \cup {Torn}) /\ Len(file) \in Nat
  BY LinesAre DEF JournalInv, JournalType
<1>2. CASE a > z
  <2>1. s = <<>> /\ a..z = {}
    BY <1>1, <1>2, <1>4
  <2>2. IsSpan(s, a, z)
    BY <2>1 DEF Growing, IsSpan
  <2> QED BY <2>2, <1>4
<1>3. CASE a <= z
  <2>1. /\ s \in Seq(Event \cup {Torn}) /\ Len(s) = z - a + 1
        /\ \A k \in 1..Len(s) : s[k] = file[k + a - 1]
    BY <1>1, <1>3, <1>4
  <2>2. \A k \in 1..Len(s) : k + a - 1 \in a..z
    BY <1>1, <1>3, <2>1
  <2>3. \A k \in 1..Len(s) : s[k] = file[k + a - 1] /\ s[k] \in Event /\ s[k] # Torn
    BY <2>1, <2>2, LinesAre DEF JournalInv
  <2>4. \A i \in a..z : i - a + 1 \in 1..Len(s) /\ s[i - a + 1] = file[i]
    <3> TAKE i \in a..z
    <3>1. i - a + 1 \in 1..Len(s) /\ (i - a + 1) + a - 1 = i
      BY <1>1, <1>3, <2>1
    <3> QED BY <3>1, <2>1
  <2>5. Growing(s)
    <3> SUFFICES ASSUME NEW i \in 1..Len(s), NEW j \in 1..Len(s), i < j
                 PROVE  s[i].seq < s[j].seq
      BY DEF Growing
    <3>1. /\ i + a - 1 \in 1..Len(file) /\ j + a - 1 \in 1..Len(file)
          /\ i + a - 1 < j + a - 1 /\ file[i + a - 1] # Torn /\ file[j + a - 1] # Torn
      BY <1>1, <2>2
    <3> QED BY <3>1, <2>3 DEF JournalInv, JournalSound, JournalOrdered
  <2>6. \A k \in 1..Len(s) : \E i \in a..z : s[k] = file[i]
    BY <2>1, <2>2
  <2>7. \A i \in a..z : \E k \in 1..Len(s) : s[k] = file[i]
    BY <2>4
  <2>8. IsSpan(s, a, z)
    BY <2>1, <2>3, <2>5, <2>6, <2>7 DEF IsSpan
  <2> QED BY <2>8, <1>4
<1> QED BY <1>1, <1>2, <1>3

(* A scan that can go on has all there is after n, up to the last event it found. *)
LEMMA ScanReplay ==
  ASSUME JournalInv, loaded, NEW n \in Nat, ScanEnd(n) \notin Broken
  PROVE  Complete(Replayed(n), n)
<1> DEFINE a == ScanStart(n)  N == Len(file)
<1>1. PICK z \in 0..N :
        /\ Scanned(n) = a..z
        /\ z = Most(Scanned(n) \cup {0}) \/ Scanned(n) = {}
        /\ \A i \in a..z : i \in 1..N /\ file[i] # Torn
        /\ z = N \/ (Enough(n, z) /\ z >= a)
  BY ScannedIs
<1>2. /\ a \in 1..(N + 1) /\ N \in Nat
      /\ \A i \in 1..N : file[i] # Torn /\ i < a => file[i].seq <= n
      /\ \A i \in 1..N : \A e \in Event : StandsFor(i, e) /\ n < e.seq => a <= i
  BY ScanIs, LinesAre DEF JournalInv
<1> HIDE DEF a
<1>3. PICK s : s = SubSeq(file, a, Most(Scanned(n) \cup {0}))
  OBVIOUS
<1>4. /\ s \in Seq(Event \cup {Torn}) /\ Growing(s) /\ \A k \in 1..Len(s) : s[k] \in Event
      /\ \A k \in 1..Len(s) : \E i \in a..z : s[k] = file[i]
      /\ \A i \in a..z : \E k \in 1..Len(s) : s[k] = file[i]
  <2>1. CASE z = Most(Scanned(n) \cup {0})
    <3>1. s = SubSeq(file, a, z)
      BY <1>3, <2>1
    <3>2. IsSpan(SubSeq(file, a, z), a, z)
      BY <1>1, <1>2, LinesFrom
    <3> QED BY <3>1, <3>2 DEF IsSpan
  <2>2. CASE Scanned(n) = {}
    <3>1. Most(Scanned(n) \cup {0}) = 0
      <4>1. Scanned(n) \cup {0} \in SUBSET (0..0) /\ Scanned(n) \cup {0} # {}
        BY <2>2
      <4>2. Most(Scanned(n) \cup {0}) \in Scanned(n) \cup {0}
        BY <4>1, MostOf
      <4> QED BY <4>2, <2>2
    <3>2. s = <<>>
      BY <3>1, <1>2, <1>3 DEF JournalInv, JournalType
    <3> QED BY <3>2, <2>2, <1>1 DEF Growing
  <2> QED BY <2>1, <2>2, <1>1
<1>5. PICK r : r = After(s, n)
  OBVIOUS
<1>6. r = Replayed(n)
  BY <1>3, <1>5 DEF Replayed, a
<1>7. /\ r \in Seq(Event) /\ Growing(r)
      /\ \A k \in 1..Len(r) : r[k].seq > n /\ \E i \in 1..Len(s) : r[k] = s[i]
      /\ \A i \in 1..Len(s) : s[i].seq > n => \E k \in 1..Len(r) : r[k] = s[i]
  <2>1. IsAfter(r, s, n)
    BY <1>4, <1>5, AfterIs
  <2> QED BY <2>1 DEF IsAfter
<1>8. \A k \in 1..Len(r) : r[k] \in Event /\ r[k].seq \in Nat
  BY <1>7, EventFields
<1>9. \A k \in 1..Len(r) : \E i \in a..z : r[k] = file[i]
  <2> TAKE k \in 1..Len(r)
  <2>1. PICK l \in 1..Len(s) : r[k] = s[l]
    BY <1>7
  <2>2. PICK i \in a..z : s[l] = file[i]
    BY <1>4
  <2> QED BY <2>1, <2>2
<1>10. \A k \in 1..Len(r) : r[k] \in Known /\ n < r[k].seq
  BY <1>1, <1>7, <1>8, <1>9, EventFields, LinesAre DEF JournalInv
<1>11. \A i \in a..z : file[i].seq > n => \E k \in 1..Len(r) : r[k] = file[i]
  BY <1>4, <1>7
<1>12. \A i \in a..z : file[i].seq \in Nat /\ file[i] \in Event
  BY <1>1, LinesAre, EventFields DEF JournalInv
<1>13. ASSUME NEW e \in Known, n < e.seq, r # <<>> => e.seq <= Last(r).seq
       PROVE  \E k \in 1..Len(r) : r[k] = e
  <2>1. e \in Event /\ e.seq \in Nat /\ e # Torn
    BY LinesAre, EventFields DEF JournalInv
  <2>2. ASSUME NEW i \in 1..N, file[i] = e PROVE \E k \in 1..Len(r) : r[k] = e
    <3>1. i \in a..z
      <4>1. ~(i < a)
        BY <2>1, <2>2, <1>2, <1>13
      <4>2. CASE z = N
        BY <4>1, <4>2, <1>2
      <4>3. CASE Enough(n, z) /\ z >= a
        <5>1. r # <<>>
          <6>1. \E j \in a..z : file[j].seq > n
            <7>1. CASE \E j \in Wanted(n, z) : file[j].kind \in Large
              BY <7>1 DEF Wanted, a
            <7>2. CASE Cardinality(Wanted(n, z)) = CacheLimit
              <8>1. Wanted(n, z) # {}
                BY <7>2, FS_EmptySet, LimitAssumption
              <8> QED BY <8>1 DEF Wanted, a
            <7> QED BY <7>1, <7>2, <4>3 DEF Enough
          <6> QED BY <6>1, <1>11
        <5>2. Len(r) \in 1..Len(r)
          BY <5>1, <1>7
        <5>3. PICK q \in a..z : r[Len(r)] = file[q]
          BY <5>2, <1>9
        <5>4. e.seq <= file[q].seq
          BY <5>1, <5>3, <1>13 DEF Last
        <5>5. q \in 1..N /\ file[q] # Torn /\ file[q].seq \in Nat
          BY <1>1, <1>12
        <5>6. ~(q < i)
          BY <5>4, <5>5, <2>1, <2>2 DEF JournalInv, JournalSound, JournalOrdered
        <5> QED BY <5>5, <5>6, <4>1, <1>2
      <4> QED BY <4>2, <4>3, <1>1
    <3> QED BY <3>1, <2>1, <2>2, <1>11, <1>13
  <2>3. ASSUME NEW i \in 1..N, StandsFor(i, e) PROVE FALSE
    <3>1. a <= i /\ file[i] = Torn
      BY <2>1, <2>3, <1>2, <1>13 DEF StandsFor
    <3>2. i \notin a..z
      BY <3>1, <1>1
    <3>3. z # N /\ z < i
      BY <3>1, <3>2, <1>2
    <3>4. \E j \in a..z : file[j].seq > n
      <4>1. Enough(n, z)
        BY <3>3, <1>1
      <4>2. CASE \E j \in Wanted(n, z) : file[j].kind \in Large
        BY <4>2 DEF Wanted, a
      <4>3. CASE Cardinality(Wanted(n, z)) = CacheLimit
        <5>1. Wanted(n, z) # {}
          BY <4>3, FS_EmptySet, LimitAssumption
        <5> QED BY <5>1 DEF Wanted, a
      <4> QED BY <4>1, <4>2, <4>3 DEF Enough
    <3>5. r # <<>>
      BY <3>4, <1>11
    <3>6. Len(r) \in 1..Len(r)
      BY <3>5, <1>7
    <3>7. PICK q \in a..z : r[Len(r)] = file[q]
      BY <3>6, <1>9
    <3>8. e.seq <= file[q].seq
      BY <3>5, <3>7, <1>13 DEF Last
    <3>9. q \in 1..N /\ file[q] # Torn /\ file[q].seq \in Nat
      BY <1>1, <1>12
    <3>10. ~(file[q].seq < e.seq)
      BY <3>8, <3>9, <2>1
    <3>11. ~(q < i)
      BY <3>9, <3>10, <2>3 DEF StandsFor
    <3> QED BY <3>3, <3>11, <1>2
  <2>4. CASE e \in Journaled
    <3>1. PICK i \in 1..N : file[i] = e
      BY <2>4, LinesAre DEF JournalInv
    <3> QED BY <3>1, <2>2
  <2>5. CASE e \notin Journaled
    <3>1. PICK k \in 1..Len(tail) : tail[k] = e
      BY <2>5, LinesAre DEF JournalInv
    <3>2. PICK i \in 1..N : StandsFor(i, tail[k])
      BY <2>5, <3>1 DEF JournalInv, TailSound, LostKnown
    <3> QED BY <3>1, <3>2, <2>3
  <2> QED BY <2>4, <2>5
<1> QED BY <1>6, <1>7, <1>10, <1>13 DEF Complete

(* What a stream reads, from wherever, is complete. *)
LEMMA ReplayIs ==
  ASSUME JournalInv, loaded, NEW n \in Nat, ~ReplayFails(n)
  PROVE  Complete(Replay(n), n)
BY TailReplay, ScanReplay DEF Replay, ReplayFails

(* A replay may add marks, each at the end of a line that can be read. *)
LEMMA ReadMarksLines ==
  ASSUME JournalInv, loaded, NEW n \in Nat, ReplayMarks(n)
  PROVE  /\ marks \subseteq marks'
         /\ \A m \in marks' : m \in marks
              \/ \E i \in 1..Len(file) :
                   file[i] # Torn /\ m = [seq |-> file[i].seq, offset |-> i]
<1>1. CASE TailServes(n)
  BY <1>1 DEF ReplayMarks
<1>2. CASE ~TailServes(n)
  <2>1. marks' = Marked(marks, file, Scanned(n))
    BY <1>2 DEF ReplayMarks
  <2>2. Scanned(n) \subseteq 1..Len(file)
    <3>1. /\ ScanStart(n) \in 1..(Len(file) + 1) /\ Len(file) \in Nat
          /\ ScanEnd(n) \in ScanStart(n)..(Len(file) + 1)
      BY ScanIs, LinesAre DEF JournalInv
    <3> QED BY <3>1 DEF Scanned
  <2> QED BY <2>1, <2>2 DEF Marked
<1> QED BY <1>1, <1>2

(* Reading adds marks only, each at its line: the journal's part is kept. *)
LEMMA ReadKeepsJournal ==
  ASSUME JournalInv, loaded, NEW n \in Nat, ReplayMarks(n),
         file' = file, partial' = partial, loaded' = loaded, nextSeq' = nextSeq,
         tail' = tail, truncated' = truncated
  PROVE  JournalInv' /\ Known' = Known
<1> DEFINE N == Len(file)
<1>1. /\ \A m \in marks : m \in marks'
      /\ \A m \in marks' : m \in marks
           \/ \E i \in 1..N : file[i] # Torn /\ m = [seq |-> file[i].seq, offset |-> i]
  BY ReadMarksLines
<1>2. /\ N \in Nat /\ nextSeq \in Nat /\ N <= MaxSeq /\ N <= nextSeq
      /\ \A e \in Known : e.seq <= nextSeq
      /\ \A i \in 1..N : file[i] # Torn => file[i] \in Event /\ file[i] \in Known
  BY LinesAre DEF JournalInv, NumbersSound
<1>3. \A i \in 1..N : file[i] # Torn =>
        file[i].seq \in Nat /\ file[i].seq \in 1..MaxSeq /\ file[i].seq <= nextSeq
  BY <1>2, EventFields
<1>4. Known' = Known /\ Journaled' = Journaled
  BY DEF Known, Journaled
<1>5. JournalType'
  <2>1. ASSUME NEW m \in marks' PROVE m \in [seq : 1..MaxSeq, offset : 1..MaxSeq]
    <3>1. CASE m \in marks
      BY <3>1 DEF JournalInv, JournalType
    <3>2. CASE \E i \in 1..N : file[i] # Torn /\ m = [seq |-> file[i].seq, offset |-> i]
      <4>1. PICK i \in 1..N : file[i] # Torn /\ m = [seq |-> file[i].seq, offset |-> i]
        BY <3>2
      <4>2. i \in 1..MaxSeq
        BY <1>2, LimitAssumption
      <4> QED BY <4>1, <4>2, <1>3
    <3> QED BY <3>1, <3>2, <1>1
  <2>2. marks' \subseteq [seq : 1..MaxSeq, offset : 1..MaxSeq]
    BY <2>1
  <2> QED BY <2>2 DEF JournalInv, JournalType
<1>6. \A i, k \in 1..N : file[i] # Torn /\ file[k] # Torn =>
        (i <= k <=> file[i].seq <= file[k].seq)
  <2> SUFFICES ASSUME NEW i \in 1..N, NEW k \in 1..N, file[i] # Torn, file[k] # Torn
               PROVE  i <= k <=> file[i].seq <= file[k].seq
    OBVIOUS
  <2>1. i < k => file[i].seq < file[k].seq
    BY DEF JournalInv, JournalSound, JournalOrdered
  <2>2. k < i => file[k].seq < file[i].seq
    BY DEF JournalInv, JournalSound, JournalOrdered
  <2>3. i < k \/ i = k \/ k < i
    BY <1>2
  <2> QED BY <2>1, <2>2, <2>3, <1>3
<1>7. JournalSound'
  <2>1. JournalOrdered'
    BY DEF JournalInv, JournalSound, JournalOrdered
  <2>2. ASSUME NEW m \in marks', NEW i \in 1..N, file[i] # Torn
        PROVE  i <= m.offset <=> file[i].seq <= m.seq
    <3>1. CASE m \in marks
      BY <3>1, <2>2 DEF JournalInv, JournalSound, MarksSplit
    <3>2. CASE \E k \in 1..N : file[k] # Torn /\ m = [seq |-> file[k].seq, offset |-> k]
      <4>1. PICK k \in 1..N : file[k] # Torn /\ m = [seq |-> file[k].seq, offset |-> k]
        BY <3>2
      <4> QED BY <4>1, <2>2, <1>6
    <3> QED BY <3>1, <3>2, <1>1
  <2> QED BY <2>1, <2>2 DEF JournalSound, MarksSplit
<1>8. NumbersSound'
  <2>1. ASSUME NEW m \in marks' PROVE m.seq <= nextSeq /\ m.offset <= N
    <3>1. CASE m \in marks
      BY <3>1 DEF JournalInv, NumbersSound
    <3>2. CASE \E k \in 1..N : file[k] # Torn /\ m = [seq |-> file[k].seq, offset |-> k]
      <4>1. PICK k \in 1..N : file[k] # Torn /\ m = [seq |-> file[k].seq, offset |-> k]
        BY <3>2
      <4> QED BY <4>1, <1>2, <1>3
    <3> QED BY <3>1, <3>2, <1>1
  <2>2. Last(file)' = Last(file)
    BY DEF Last
  <2> QED BY <2>1, <2>2, <1>4 DEF JournalInv, NumbersSound
<1>9. TailSound'
  <2>1. ASSUME NEW i \in 1..N, NEW e \in Event, StandsFor(i, e) PROVE StandsFor(i, e)'
    <3>1. e.seq \in Nat
      BY EventFields
    <3>2. ASSUME NEW m \in marks' PROVE i <= m.offset <=> e.seq <= m.seq
      <4>1. CASE m \in marks
        BY <4>1, <2>1 DEF StandsFor
      <4>2. CASE \E k \in 1..N : file[k] # Torn /\ m = [seq |-> file[k].seq, offset |-> k]
        <5>1. PICK k \in 1..N : file[k] # Torn /\ m = [seq |-> file[k].seq, offset |-> k]
          BY <4>2
        <5>2. k < i <=> file[k].seq < e.seq
          BY <5>1, <2>1 DEF StandsFor
        <5> QED BY <5>1, <5>2, <3>1, <1>2, <1>3
      <4> QED BY <4>1, <4>2, <1>1
    <3> QED BY <3>2, <2>1 DEF StandsFor
  <2>2. LostKnown'
    <3> SUFFICES ASSUME NEW k \in 1..Len(tail), tail[k] \notin Journaled
                 PROVE  \E i \in 1..N : StandsFor(i, tail[k])'
      BY <1>4 DEF LostKnown
    <3>1. PICK i \in 1..N : StandsFor(i, tail[k])
      BY DEF JournalInv, TailSound, LostKnown
    <3>2. PICK e : e = tail[k] /\ e = tail'[k]
      OBVIOUS
    <3>3. e \in Event
      BY <3>2, LinesAre DEF JournalInv
    <3>4. StandsFor(i, e)'
      BY <3>1, <3>2, <3>3, <2>1
    <3> QED BY <3>2, <3>4 DEF StandsFor
  <2>3. TailOrdered' /\ TailComplete'
    BY <1>4 DEF JournalInv, TailSound, TailOrdered, TailComplete
  <2> QED BY <2>2, <2>3 DEF TailSound
<1> QED BY <1>4, <1>5, <1>7, <1>8, <1>9 DEF JournalInv

(* What a reader may be sent of what was read: a first part, without the end of a run *)
(* that still holds the session; nothing only if there is nothing else.                  *)
LEMMA DeliverableIs ==
  ASSUME NEW b \in Seq(Event), Growing(b)
  PROVE  LET out == Deliverable(b) IN
         /\ out \in Seq(Event) /\ Len(out) <= Len(b)
         /\ \A k \in 1..Len(out) : out[k] = b[k] /\ ~HeldBack(out[k])
         /\ out = <<>> => b = <<>> \/ HeldBack(b[1])
<1> DEFINE held == {i \in 1..Len(b) : HeldBack(b[i])}
<1>1. PICK out : out = Deliverable(b)
  OBVIOUS
<1>2. CASE held = {}
  <2>1. out = b
    BY <1>1, <1>2 DEF Deliverable
  <2> QED BY <1>1, <1>2, <2>1
<1>3. CASE held # {}
  <2>1. held \in SUBSET Nat
    OBVIOUS
  <2>2. PICK q : q = Least(held)
    OBVIOUS
  <2>3. q \in held /\ \A m \in held : q <= m
    <3> HIDE DEF held
    <3> QED BY <1>3, <2>1, <2>2, LeastOf
  <2>4. out = SubSeq(b, 1, q - 1)
    BY <1>1, <1>3, <2>2 DEF Deliverable
  <2>5. q \in 1..Len(b) /\ HeldBack(b[q])
    BY <2>3
  <2>6. out \in Seq(Event) /\ Len(out) = q - 1 /\ \A k \in 1..Len(out) : out[k] = b[k]
    BY <2>4, <2>5
  <2>7. \A k \in 1..Len(out) : k \in 1..Len(b) /\ k \notin held
    BY <2>3, <2>5, <2>6
  <2>8. out = <<>> => q = 1
    BY <2>5, <2>6
  <2> QED BY <1>1, <2>5, <2>6, <2>7, <2>8
<1> QED BY <1>2, <1>3

-----------------------------------------------------------------------------
(* The server: what its steps are to the clients. *)

(* The types of what is not the journal's. *)
ServerType ==
  /\ run \in 0..MaxRuns /\ phase \in {"none", "running", "compacting", "ending"}
  /\ runs \in 0..MaxRuns
  /\ sub \in {"none", "starting", "running", "settled", "unsaved"}
  /\ buffered \in BOOLEAN /\ live \in BOOLEAN
ClientType ==
  /\ watchers \in SUBSET Clients
  /\ stream \in [Clients -> {"off", "ask", "look", "send", "asleep", "over"}]
  /\ pending \in [Clients -> Seq(Event)] /\ asked \in [Clients -> BOOLEAN]
  /\ cursor \in [Clients -> 0..MaxSeq] /\ got \in [Clients -> SUBSET Event]

(* They and the types of the journal are the type invariant. *)
LEMMA TypesAre == TypeOK <=> JournalType /\ ServerType /\ ClientType
BY DEF TypeOK, JournalType, ServerType, ClientType

(* StreamsAreTimely, for one client. *)
Timely(c) ==
  /\ c \in Readers => \A e \in got[c] : e.kind = "end" /\ e.run = run => ~Active
  /\ stream[c] = "asleep" =>
       IF c \in Readers
         THEN Active /\ \A e \in Known : e.seq > cursor[c] =>
                \E h \in Known : h.seq > cursor[c] /\ h.seq <= e.seq /\ HeldBack(h)
         ELSE \A e \in Known : ~(e.seq > cursor[c])

(* It is the property when it holds of every client. *)
LEMMA TimelyIs == StreamsAreTimely <=> \A c \in Clients : Timely(c)
<1>1. EndMeansFree <=> \A c \in Clients : c \in Readers =>
        \A e \in got[c] : e.kind = "end" /\ e.run = run => ~Active
  BY DEF EndMeansFree, Readers
<1>2. SleepersHaveNoNews <=> \A c \in Clients : stream[c] = "asleep" =>
        IF c \in Readers
          THEN Active /\ \A e \in Known : e.seq > cursor[c] =>
                 \E h \in Known : h.seq > cursor[c] /\ h.seq <= e.seq /\ HeldBack(h)
          ELSE \A e \in Known : ~(e.seq > cursor[c])
  BY DEF SleepersHaveNoNews
<1> QED BY <1>1, <1>2 DEF StreamsAreTimely, Timely

(* What a step of the server is to the clients, whether it publishes or not: more may be *)
(* known, with higher numbers and of the subagent only while it counts live; who sleeps is *)
(* woken unless nothing is news; and a run that takes the session has a new id.              *)
ServerStep ==
  /\ loaded /\ loaded' /\ nextSeq <= nextSeq'
  /\ \A e \in Known' :
       e \in Known \/ (nextSeq < e.seq /\ e.run <= runs' /\ (IsChild(e) => live))
  /\ UNCHANGED <<watchers, pending, asked, cursor, got>>
  /\ Wake \/ (stream' = stream /\ Known' = Known /\ (Active => Active' /\ run' = run))
  /\ runs <= runs' /\ run' <= runs'
  /\ (run' = run /\ (Active' => Active)) \/ runs < run'
  /\ (live' => live \/ sub = "none") /\ (sub' = "none" => sub = "none")

(* A client's stream after such a step: the same, or awake. *)
LEMMA Woken ==
  ASSUME ClientType, NEW c \in Clients, Wake \/ stream' = stream
  PROVE  /\ stream' \in [Clients -> {"off", "ask", "look", "send", "asleep", "over"}]
         /\ stream'[c] = stream[c]
            \/ (stream[c] = "asleep" /\ stream'[c] = IF c \in Readers THEN "look" ELSE "ask")
         /\ Wake => stream'[c] # "asleep"
<1>1. stream \in [Clients -> {"off", "ask", "look", "send", "asleep", "over"}]
  BY DEF ClientType
<1>2. CASE stream' = stream /\ ~Wake
  BY <1>1, <1>2
<1>3. CASE Wake
  <2>1. stream' = [d \in Clients |->
          IF stream[d] # "asleep" THEN stream[d] ELSE IF d \in Readers THEN "look" ELSE "ask"]
    BY <1>3 DEF Wake
  <2>2. stream'[c] = IF stream[c] # "asleep" THEN stream[c]
                     ELSE IF c \in Readers THEN "look" ELSE "ask"
    BY <2>1
  <2>3. stream' \in [Clients -> {"off", "ask", "look", "send", "asleep", "over"}]
    BY <2>1, <1>1
  <2> QED BY <2>2, <2>3
<1> QED BY <1>2, <1>3

(* The last of a list is one of its elements. *)
LEMMA LastIs ==
  ASSUME NEW T, NEW s \in Seq(T), s # <<>>
  PROVE  Len(s) \in 1..Len(s) /\ Last(s) = s[Len(s)] /\ Last(s) \in T
BY DEF Last

(* A step of the server keeps what holds of a client. *)
LEMMA ServerKeepsClient ==
  ASSUME JournalInv, JournalInv', ServerType, ClientType, RunsSound, ServerStep, runs' \in Nat,
         run' \in Nat, NEW c \in Clients, ClientSound(c), Timely(c)
  PROVE  ClientSound(c)' /\ Timely(c)'
<1>1. /\ loaded /\ loaded' /\ nextSeq <= nextSeq' /\ nextSeq \in Nat /\ nextSeq' \in Nat
      /\ watchers' = watchers /\ pending' = pending /\ asked' = asked
      /\ cursor' = cursor /\ got' = got /\ Readers' = Readers
  BY LimitAssumption DEF ServerStep, JournalInv, JournalType, Readers
<1>2. /\ runs \in Nat /\ run \in Nat /\ runs <= runs' /\ runs' \in Nat /\ run' \in Nat
      /\ (run' = run /\ (Active' => Active)) \/ runs < run'
  BY LimitAssumption DEF ServerStep, ServerType
<1>3. /\ cursor[c] \in Nat /\ cursor[c] <= nextSeq /\ pending[c] \in Seq(Event)
      /\ got[c] \subseteq Event
  BY <1>1, LimitAssumption DEF ClientType, ClientSound, NumberedTo
<1>4. /\ stream'[c] = stream[c]
         \/ (stream[c] = "asleep" /\ stream'[c] = IF c \in Readers THEN "look" ELSE "ask")
      /\ Wake => stream'[c] # "asleep"
  BY Woken DEF ServerStep
<1>5. \A e \in Known' : e.seq \in Nat /\ e.run \in Nat
                        /\ (e \in Known \/ (nextSeq < e.seq /\ (IsChild(e) => live)))
  BY LinesAreNext, EventFields DEF ServerStep, JournalInv
<1>6. /\ stream'[c] \notin {"off", "over"} => loaded'
      /\ loaded' \/ Broken' = {} => cursor'[c] <= NumberedTo'
  BY <1>1, <1>3 DEF NumberedTo
<1>7. \A e \in Known' :
        e.seq <= cursor'[c] /\ (c \in watchers' => IsChild(e)) => e \in got'[c]
  <2> SUFFICES ASSUME NEW e \in Known', e.seq <= cursor[c], c \in watchers => IsChild(e)
               PROVE  e \in got[c]
    BY <1>1
  <2>1. e \in Known
    BY <1>1, <1>3, <1>5
  <2> QED BY <2>1 DEF ClientSound
<1>8. PICK out \in Seq(Event) : out = pending[c] /\ out = pending'[c]
  BY <1>1, <1>3
<1>9. /\ stream[c] = "send" <=> out # <<>>
      /\ \A i \in 1..Len(out) :
           /\ cursor[c] < out[i].seq /\ out[i].seq <= nextSeq /\ out[i].run <= runs
           /\ \A j \in 1..Len(out) : i < j => out[i].seq < out[j].seq
           /\ c \in Readers /\ out[i].kind = "end" /\ out[i].run = run => ~Active
      /\ out # <<>> => \A e \in Known :
           cursor[c] < e.seq /\ e.seq <= Last(out).seq => \E i \in 1..Len(out) : out[i] = e
  BY <1>8 DEF ClientSound, PendingSound
<1>10. \A i \in 1..Len(out) : out[i].seq \in Nat /\ out[i].run \in Nat
  BY <1>8, EventFields
<1>11. PendingSound(c)'
  <2>1. stream'[c] = "send" <=> out # <<>>
    BY <1>4, <1>9
  <2>2. \A i \in 1..Len(out) :
          /\ cursor'[c] < out[i].seq /\ out[i].seq <= nextSeq' /\ out[i].run <= runs'
          /\ \A j \in 1..Len(out) : i < j => out[i].seq < out[j].seq
    <3> SUFFICES ASSUME NEW i \in 1..Len(out)
                 PROVE  /\ cursor'[c] < out[i].seq /\ out[i].seq <= nextSeq'
                        /\ out[i].run <= runs'
                        /\ \A j \in 1..Len(out) : i < j => out[i].seq < out[j].seq
      OBVIOUS
    <3>1. /\ cursor[c] < out[i].seq /\ out[i].seq <= nextSeq /\ out[i].run <= runs
          /\ out[i].seq \in Nat /\ out[i].run \in Nat
          /\ \A j \in 1..Len(out) : i < j => out[i].seq < out[j].seq
      BY <1>9, <1>10
    <3>2. out[i].seq <= nextSeq'
      BY <3>1, <1>1
    <3>3. out[i].run <= runs'
      BY <3>1, <1>2
    <3> QED BY <3>1, <3>2, <3>3, <1>1
  <2>3. ASSUME NEW i \in 1..Len(out), c \in Readers', out[i].kind = "end", out[i].run = run'
        PROVE  ~Active'
    <3>1. out[i].run <= runs /\ out[i].run \in Nat
      BY <1>9, <1>10
    <3>2. run' = run /\ (Active' => Active)
      BY <3>1, <2>3, <1>2
    <3> QED BY <3>2, <2>3, <1>1, <1>9
  <2>4. ASSUME out # <<>>, NEW e \in Known', cursor'[c] < e.seq, e.seq <= Last(out).seq
        PROVE  \E i \in 1..Len(out) : out[i] = e
    <3>1. Last(out).seq <= nextSeq /\ Last(out).seq \in Nat
      BY <2>4, <1>8, <1>9, <1>10, LastIs
    <3>2. e \in Known
      BY <2>4, <3>1, <1>1, <1>5
    <3> QED BY <2>4, <3>2, <1>1, <1>9
  <2>5. \A i \in 1..Len(out) :
          c \in Readers' /\ out[i].kind = "end" /\ out[i].run = run' => ~Active'
    BY <2>3
  <2>6. out # <<>> => \A e \in Known' :
          cursor'[c] < e.seq /\ e.seq <= Last(out).seq => \E i \in 1..Len(out) : out[i] = e
    BY <2>4
  <2>7. Last(pending[c])' = Last(out)
    BY <1>8 DEF Last
  <2> QED BY <2>1, <2>2, <2>5, <2>6, <2>7, <1>8 DEF PendingSound
<1>12. c \in watchers' => WatcherSound(c)'
  <2> SUFFICES ASSUME c \in watchers PROVE WatcherSound(c)'
    BY <1>1
  <2>1. /\ stream[c] # "off" => sub # "none"
        /\ stream[c] = "look" /\ ~asked[c] => ~live
        /\ stream[c] = "over" => ~live /\ \A e \in Known : IsChild(e) => e \in got[c]
    BY DEF ClientSound, WatcherSound
  <2>2. c \notin Readers
    BY DEF Readers
  <2>3. (live' => live \/ sub = "none") /\ (sub' = "none" => sub = "none")
    BY DEF ServerStep
  <2>4. stream'[c] # "off" => sub' # "none"
    BY <2>1, <2>3, <1>4
  <2>5. stream'[c] = "look" /\ ~asked'[c] => ~live'
    BY <2>1, <2>2, <2>3, <1>1, <1>4
  <2>6. stream'[c] = "over" => ~live' /\ \A e \in Known' : IsChild(e) => e \in got'[c]
    BY <2>1, <2>2, <2>3, <1>1, <1>4, <1>5
  <2> QED BY <2>4, <2>5, <2>6 DEF WatcherSound
<1>13. Timely(c)'
  <2>1. ASSUME c \in Readers, NEW e \in got[c], e.kind = "end", e.run = run' PROVE ~Active'
    <3>1. e.run <= runs /\ e.run \in Nat
      BY <1>3, EventFields DEF RunsSound
    <3>2. run' = run /\ (Active' => Active)
      BY <3>1, <2>1, <1>2
    <3> QED BY <3>2, <2>1 DEF Timely
  <2>2. ASSUME stream'[c] = "asleep"
        PROVE  /\ stream[c] = "asleep" /\ Known' = Known
               /\ c \in Readers => Active /\ Active' /\ run' = run
    <3>1. stream[c] = "asleep" /\ ~Wake
      BY <2>2, <1>4
    <3>2. Known' = Known /\ (Active => Active' /\ run' = run)
      BY <3>1 DEF ServerStep
    <3> QED BY <3>1, <3>2 DEF Timely
  <2>3. CASE stream'[c] # "asleep"
    BY <2>1, <2>3, <1>1 DEF Timely
  <2>4. CASE stream'[c] = "asleep"
    <3>1. c \in Readers => \A h : HeldBack(h)' <=> HeldBack(h)
      BY <2>2, <2>4 DEF HeldBack
    <3>2. IF c \in Readers
            THEN Active' /\ \A e \in Known' : e.seq > cursor'[c] =>
                 \E h \in Known' : h.seq > cursor'[c] /\ h.seq <= e.seq /\ HeldBack(h)'
            ELSE \A e \in Known' : ~(e.seq > cursor'[c])
      BY <2>2, <2>4, <3>1, <1>1 DEF Timely
    <3> QED BY <2>1, <3>2, <1>1 DEF Timely
  <2> QED BY <2>3, <2>4
<1> QED BY <1>6, <1>7, <1>11, <1>12, <1>13 DEF ClientSound

(* The invariant, by the parts that the steps keep one by one. *)
Inv ==
  /\ JournalInv /\ ServerType /\ ClientType /\ RunsSound /\ SubagentSound
  /\ \A c \in Clients : ClientSound(c) /\ Timely(c)

(* It is the inductive invariant of the module. *)
LEMMA InvIs == IInv <=> Inv
BY TypesAre, TimelyIs DEF IInv, Inv, JournalInv, ClientsSound

(* What an action of the server has to show for itself. *)
Served == JournalInv' /\ ServerType' /\ ServerStep /\ SubagentSound' /\ (Active' => loaded')

(* It then keeps the invariant. *)
LEMMA ServedKeepsInv ==
  ASSUME Inv, Served
  PROVE  Inv'
<1>1. /\ JournalInv /\ ServerType /\ ClientType /\ RunsSound
      /\ \A c \in Clients : ClientSound(c) /\ Timely(c)
  BY DEF Inv
<1>2. JournalInv' /\ ServerType' /\ ServerStep /\ SubagentSound' /\ (Active' => loaded')
  BY DEF Served
<1>3. runs' \in Nat /\ run' \in Nat /\ runs \in Nat /\ runs <= runs' /\ run' <= runs'
  BY <1>1, <1>2, LimitAssumption DEF ServerType, ServerStep
<1>4. watchers' = watchers /\ pending' = pending /\ asked' = asked
      /\ cursor' = cursor /\ got' = got
  BY <1>2 DEF ServerStep
<1>5. ClientType'
  <2>1. stream' \in [Clients -> {"off", "ask", "look", "send", "asleep", "over"}]
    <3>1. stream \in [Clients -> {"off", "ask", "look", "send", "asleep", "over"}]
      BY <1>1 DEF ClientType
    <3>2. CASE Wake
      BY <3>1, <3>2 DEF Wake
    <3>3. CASE stream' = stream
      BY <3>1, <3>3
    <3> QED BY <3>2, <3>3, <1>2 DEF ServerStep
  <2> QED BY <2>1, <1>1, <1>4 DEF ClientType
<1>6. RunsSound'
  <2>1. ASSUME NEW e \in Known' PROVE e.run <= runs'
    <3>1. e.run \in Nat /\ (e \in Known \/ e.run <= runs')
      BY <1>2, LinesAreNext, EventFields DEF ServerStep, JournalInv
    <3>2. e \in Known => e.run <= runs
      BY <1>1 DEF RunsSound
    <3> QED BY <3>1, <3>2, <1>3
  <2>2. ASSUME NEW c \in Clients, NEW e \in got'[c] PROVE e.run <= runs'
    <3>1. e \in got[c] /\ got[c] \subseteq Event
      BY <2>2, <1>1, <1>4 DEF ClientType
    <3>2. e.run \in Nat
      BY <3>1, EventFields
    <3>3. e.run <= runs
      BY <3>1, <1>1 DEF RunsSound
    <3> QED BY <3>2, <3>3, <1>3
  <2> QED BY <2>1, <2>2, <1>2, <1>3 DEF RunsSound, Active
<1>7. ASSUME NEW c \in Clients PROVE ClientSound(c)' /\ Timely(c)'
  BY <1>1, <1>2, <1>3, ServerKeepsClient
<1> QED BY <1>2, <1>5, <1>6, <1>7 DEF Inv

(* What publishing an event does, or failing to. *)
Publishes(r, kind) ==
  /\ JournalInv' /\ loaded /\ loaded' /\ nextSeq <= nextSeq'
  /\ \A e \in Known' : e \in Known \/ (nextSeq < e.seq /\ e.run = r /\ e.kind = kind)
  /\ UNCHANGED <<watchers, pending, asked, cursor, got>>
  /\ Wake \/ (stream' = stream /\ Known' = Known)

(* Both outcomes do no more. *)
LEMMA PublishingIs ==
  ASSUME JournalInv, NEW r \in 0..MaxRuns, NEW kind \in Kinds, PublishOrFail(r, kind)
  PROVE  Publishes(r, kind)
<1>1. nextSeq \in Nat
  BY LinesAre DEF JournalInv
<1>2. CASE Publish(r, kind)
  <2>1. /\ JournalInv' /\ nextSeq' = nextSeq + 1
        /\ \A e \in Known' : e \in Known \/ e = EventAt(nextSeq + 1, r, kind)
    BY <1>2, PublishKeepsJournal
  <2>2. loaded /\ loaded' /\ nextSeq < MaxSeq /\ Wake
        /\ UNCHANGED <<watchers, pending, asked, cursor, got>>
    BY <1>2 DEF Publish
  <2>3. /\ EventAt(nextSeq + 1, r, kind).seq = nextSeq + 1
        /\ EventAt(nextSeq + 1, r, kind).run = r /\ EventAt(nextSeq + 1, r, kind).kind = kind
    BY <1>1, <2>2, EventMade
  <2>4. \A e \in Known' : e \in Known \/ (nextSeq < e.seq /\ e.run = r /\ e.kind = kind)
    BY <1>1, <2>1, <2>3
  <2> QED BY <1>1, <2>1, <2>2, <2>4 DEF Publishes
<1>3. CASE PublishFails
  <2>1. JournalInv' /\ Known' = Known /\ nextSeq' = nextSeq
    BY <1>3, FailureKeepsJournal
  <2>2. loaded /\ loaded' /\ stream' = stream
        /\ UNCHANGED <<watchers, pending, asked, cursor, got>>
    BY <1>3 DEF PublishFails, clientVars
  <2> QED BY <1>1, <2>1, <2>2 DEF Publishes
<1> QED BY <1>2, <1>3 DEF PublishOrFail

(* An action that publishes one event is one of the server when it treats the runs and the *)
(* subagent as it should.                                                                    *)
LEMMA PublishingServes ==
  ASSUME Inv, NEW r, NEW kind, Publishes(r, kind), ServerType',
         r <= runs', kind \in {"started", "child", "settled"} => live /\ sub' # "none",
         runs <= runs', run' <= runs',
         (run' = run /\ (Active' => Active)) \/ runs < run',
         Active => Active' /\ run' = run,
         live' => live, sub' = "none" => sub = "none",
         live' => sub' # "none",
         sub' \in {"starting", "running"} => live',
         buffered' => live' /\ sub' \in {"running", "unsaved"}
  PROVE  Served
<1>1. /\ JournalInv' /\ loaded /\ loaded' /\ nextSeq <= nextSeq'
      /\ \A e \in Known' : e \in Known \/ (nextSeq < e.seq /\ e.run = r /\ e.kind = kind)
      /\ UNCHANGED <<watchers, pending, asked, cursor, got>>
      /\ Wake \/ (stream' = stream /\ Known' = Known)
  BY DEF Publishes
<1>2. \A e \in Known' :
        e \in Known \/ (nextSeq < e.seq /\ e.run <= runs' /\ (IsChild(e) => live))
  BY <1>1 DEF IsChild
<1>3. ServerStep
  BY <1>1, <1>2 DEF ServerStep
<1>4. ASSUME sub' = "none", NEW e \in Known' PROVE ~IsChild(e)
  <2>1. CASE e \in Known
    BY <2>1, <1>4 DEF Inv, SubagentSound
  <2>2. CASE e.kind = kind
    BY <2>2, <1>4 DEF IsChild
  <2> QED BY <2>1, <2>2, <1>1
<1>5. SubagentSound'
  <2>1. \A e : IsChild(e)' <=> IsChild(e)
    BY DEF IsChild
  <2>2. sub' = "none" => \A e \in Known' : ~IsChild(e)
    BY <1>4
  <2> QED BY <2>1, <2>2, <1>1 DEF SubagentSound
<1> QED BY <1>1, <1>3, <1>5 DEF Served

(* The facts of the invariant that an action of the server starts from. *)
LEMMA ServerFacts ==
  ASSUME Inv
  PROVE  /\ JournalInv /\ nextSeq \in Nat
         /\ run \in 0..MaxRuns /\ phase \in {"none", "running", "compacting", "ending"}
         /\ runs \in 0..MaxRuns /\ runs \in Nat /\ run \in Nat
         /\ sub \in {"none", "starting", "running", "settled", "unsaved"}
         /\ buffered \in BOOLEAN /\ live \in BOOLEAN
         /\ run <= runs /\ (Active => loaded)
         /\ live => loaded /\ sub # "none"
         /\ sub \in {"starting", "running"} => live
         /\ buffered => live /\ sub \in {"running", "unsaved"}
         /\ sub = "none" => \A e \in Known : ~IsChild(e)
BY LinesAre, LimitAssumption DEF Inv, ServerType, RunsSound, SubagentSound, Active, JournalInv

(* A new run takes the session. *)
LEMMA AcceptKeeps ==
  ASSUME Inv, NEW next \in {"running", "compacting"}, Accept(next)
  PROVE  Inv'
<1>1. /\ runs' = runs + 1 /\ run' = runs + 1 /\ phase' = next /\ phase = "none"
      /\ runs < MaxRuns /\ PublishOrFail(runs + 1, "text")
      /\ sub' = sub /\ buffered' = buffered /\ live' = live
  BY DEF Accept, PublishOrFail, subVars
<1>2. runs + 1 \in 0..MaxRuns /\ "text" \in Kinds
  BY <1>1, ServerFacts, LimitAssumption DEF Kinds
<1>3. Publishes(runs + 1, "text")
  BY <1>1, <1>2, ServerFacts, PublishingIs
<1>4. ServerType'
  BY <1>1, <1>2, ServerFacts DEF ServerType
<1>5. runs <= runs' /\ run' <= runs' /\ runs + 1 <= runs' /\ runs < run' /\ ~Active
  BY <1>1, ServerFacts DEF Active
<1>6. Served
  BY <1>1, <1>3, <1>4, <1>5, ServerFacts, PublishingServes
<1> QED BY <1>6, ServedKeepsInv

(* A run is not taken on; its number is spent. *)
LEMMA AbortKeeps ==
  ASSUME Inv, AcceptAborts
  PROVE  Inv'
<1>1. /\ runs' = runs + 1 /\ run' = runs + 1 /\ phase' = phase /\ phase = "none"
      /\ runs < MaxRuns /\ PublishOrFail(runs + 1, "text")
      /\ sub' = sub /\ buffered' = buffered /\ live' = live
  BY DEF AcceptAborts, subVars
<1>2. runs + 1 \in 0..MaxRuns /\ "text" \in Kinds
  BY <1>1, ServerFacts, LimitAssumption DEF Kinds
<1>3. Publishes(runs + 1, "text")
  BY <1>1, <1>2, ServerFacts, PublishingIs
<1>4. ServerType'
  BY <1>1, <1>2, ServerFacts DEF ServerType
<1>5. runs <= runs' /\ run' <= runs' /\ runs + 1 <= runs' /\ runs < run' /\ ~Active
  BY <1>1, ServerFacts DEF Active
<1>6. Served
  BY <1>1, <1>3, <1>4, <1>5, ServerFacts, PublishingServes
<1> QED BY <1>6, ServedKeepsInv

(* What a run publishes on its way leaves runs and subagent alone. *)
LEMMA TextKeeps ==
  ASSUME Inv, PublishText \/ TextFails
  PROVE  Inv'
<1>1. /\ PublishOrFail(run, "text") /\ runs' = runs /\ run' = run /\ phase' = phase
      /\ sub' = sub /\ buffered' = buffered /\ live' = live
  BY DEF PublishText, TextFails, PublishOrFail, runVars, subVars
<1>2. Publishes(run, "text")
  BY <1>1, ServerFacts, PublishingIs DEF Kinds
<1>3. ServerType'
  BY <1>1, ServerFacts DEF ServerType
<1>4. runs <= runs' /\ run' <= runs' /\ run <= runs' /\ (Active <=> Active')
  BY <1>1, ServerFacts DEF Active
<1>5. Served
  BY <1>1, <1>2, <1>3, <1>4, ServerFacts, PublishingServes
<1> QED BY <1>5, ServedKeepsInv

(* The end of a run is published while it still holds the session. *)
LEMMA EndKeeps ==
  ASSUME Inv, EndRun
  PROVE  Inv'
<1>1. /\ PublishOrFail(run, "end") /\ runs' = runs /\ run' = run /\ phase' = "ending"
      /\ phase # "none"
      /\ sub' = sub /\ buffered' = buffered /\ live' = live
  BY DEF EndRun, subVars
<1>2. Publishes(run, "end")
  BY <1>1, ServerFacts, PublishingIs DEF Kinds
<1>3. ServerType'
  BY <1>1, ServerFacts DEF ServerType
<1>4. runs <= runs' /\ run' <= runs' /\ run <= runs' /\ Active /\ Active'
  BY <1>1, ServerFacts DEF Active
<1>5. Served
  BY <1>1, <1>2, <1>3, <1>4, ServerFacts, PublishingServes
<1> QED BY <1>5, ServedKeepsInv

(* So is that of a compaction, in a batch. *)
LEMMA CommitKeeps ==
  ASSUME Inv, CommitCompaction
  PROVE  Inv'
<1>1. /\ runs' = runs /\ run' = run /\ phase' = "ending" /\ phase # "none"
      /\ sub' = sub /\ buffered' = buffered /\ live' = live
      /\ loaded /\ loaded' /\ nextSeq + 2 <= MaxSeq /\ Wake
      /\ UNCHANGED <<watchers, pending, asked, cursor, got>>
  BY DEF CommitCompaction, subVars
<1>2. /\ JournalInv' /\ nextSeq' = nextSeq + 2
      /\ \A e \in Known' : \/ e \in Known \/ e = EventAt(nextSeq + 1, run, "text")
                           \/ e = EventAt(nextSeq + 2, run, "end")
  BY ServerFacts, CommitKeepsJournal
<1>3. \A e \in Known' : e \in Known \/ (nextSeq < e.seq /\ e.run = run /\ ~IsChild(e))
  BY <1>2, ServerFacts DEF EventAt, IsChild
<1>4. /\ ServerType' /\ Active /\ Active'
      /\ nextSeq <= nextSeq' /\ runs <= runs' /\ run' <= runs'
  BY <1>1, <1>2, ServerFacts DEF ServerType, Active
<1>5. ServerStep
  BY <1>1, <1>2, <1>3, <1>4, ServerFacts DEF ServerStep
<1>6. SubagentSound'
  <2>1. \A e : IsChild(e)' <=> IsChild(e)
    BY DEF IsChild
  <2>2. sub' = "none" => \A e \in Known' : ~IsChild(e)
    BY <1>1, <1>3, ServerFacts
  <2> QED BY <2>1, <2>2, <1>1, ServerFacts DEF SubagentSound
<1>7. Served
  BY <1>1, <1>2, <1>4, <1>5, <1>6 DEF Served
<1> QED BY <1>7, ServedKeepsInv

(* A step that publishes nothing is one of the server when it wakes whoever sleeps or changes *)
(* nothing that they wait for.                                                                 *)
LEMMA QuietServes ==
  ASSUME Inv, loaded, journalVars' = journalVars, loaded' = loaded, cacheVars' = cacheVars,
         UNCHANGED <<watchers, pending, asked, cursor, got>>,
         run' = run, runs' = runs, ServerType',
         Active' => Active, Wake \/ (stream' = stream /\ (Active => Active')),
         live' => (live \/ sub = "none") /\ sub' # "none",
         sub' = "none" => sub = "none",
         sub' \in {"starting", "running"} => live',
         buffered' => live' /\ sub' \in {"running", "unsaved"}
  PROVE  Inv'
<1>1. JournalInv' /\ Known' = Known
  BY ServerFacts, JournalStays DEF journalVars, cacheVars
<1>2. ServerStep
  <2>1. nextSeq' = nextSeq
    BY DEF cacheVars
  <2> QED BY <1>1, <2>1, ServerFacts DEF ServerStep
<1>3. SubagentSound'
  <2>1. \A e : IsChild(e)' <=> IsChild(e)
    BY DEF IsChild
  <2> QED BY <2>1, <1>1, ServerFacts DEF SubagentSound
<1>4. Served
  BY <1>1, <1>2, <1>3 DEF Served
<1> QED BY <1>4, ServedKeepsInv

(* A run lets go of the session, and says so. *)
LEMMA DoneKeeps ==
  ASSUME Inv, RunDone
  PROVE  Inv'
<1>1. /\ journalVars' = journalVars /\ loaded' = loaded /\ cacheVars' = cacheVars
      /\ UNCHANGED <<watchers, pending, asked, cursor, got>>
      /\ run' = run /\ runs' = runs /\ phase = "ending" /\ phase' = "none" /\ Wake
      /\ sub' = sub /\ buffered' = buffered /\ live' = live
  BY DEF RunDone, subVars
<1>2. ServerType' /\ loaded /\ ~Active'
  BY <1>1, ServerFacts DEF ServerType, Active
<1> QED BY <1>1, <1>2, ServerFacts, QuietServes

(* A subagent counts live, has text, or counts live no more. *)
LEMMA SubQuietKeeps ==
  ASSUME Inv, SubStarts \/ SubText \/ SubOver
  PROVE  Inv'
<1>1. /\ journalVars' = journalVars /\ loaded' = loaded /\ cacheVars' = cacheVars
      /\ UNCHANGED <<watchers, pending, asked, cursor, got>> /\ stream' = stream
      /\ run' = run /\ runs' = runs /\ phase' = phase
  BY DEF SubStarts, SubText, SubOver, runVars, clientVars
<1>2. Active' <=> Active
  BY <1>1 DEF Active
<1>3. CASE SubStarts
  <2>1. loaded /\ sub = "none" /\ sub' = "starting" /\ live' = TRUE /\ buffered' = buffered
    BY <1>3 DEF SubStarts
  <2>2. ~buffered /\ ServerType'
    BY <1>1, <2>1, ServerFacts DEF ServerType
  <2> QED BY <1>1, <1>2, <2>1, <2>2, ServerFacts, QuietServes
<1>4. CASE SubText
  <2>1. sub = "running" /\ sub' = sub /\ live' = live /\ buffered' = TRUE
    BY <1>4 DEF SubText
  <2>2. live /\ loaded /\ ServerType'
    BY <1>1, <2>1, ServerFacts DEF ServerType
  <2> QED BY <1>1, <1>2, <2>1, <2>2, ServerFacts, QuietServes
<1>5. CASE SubOver
  <2>1. sub = "settled" /\ live /\ sub' = sub /\ live' = FALSE /\ buffered' = buffered
    BY <1>5 DEF SubOver
  <2>2. loaded /\ ~buffered /\ ServerType'
    BY <1>1, <2>1, ServerFacts DEF ServerType
  <2> QED BY <1>1, <1>2, <2>1, <2>2, ServerFacts, QuietServes
<1> QED BY <1>3, <1>4, <1>5

(* What the subagent publishes, it publishes while it counts live. *)
LEMMA SubPublishKeeps ==
  ASSUME Inv, SubStarted \/ SubFlushes \/ SubSettles \/ SubUnsaved
  PROVE  Inv'
<1>1. runs' = runs /\ run' = run /\ phase' = phase /\ live' = live
  BY DEF SubStarted, SubFlushes, SubSettles, SubUnsaved, runVars
<1>2. live /\ loaded /\ sub # "none"
  BY ServerFacts DEF SubStarted, SubFlushes, SubSettles, SubUnsaved
<1>3. /\ sub' \in {"running", "settled", "unsaved"} /\ buffered' \in BOOLEAN
      /\ buffered' => sub' \in {"running", "unsaved"}
  <2>1. CASE SubStarted
    BY <2>1, ServerFacts DEF SubStarted
  <2>2. CASE SubFlushes
    BY <2>2, ServerFacts DEF SubFlushes
  <2>3. CASE SubSettles
    BY <2>3, ServerFacts DEF SubSettles
  <2>4. CASE SubUnsaved
    BY <2>4, ServerFacts DEF SubUnsaved
  <2> QED BY <2>1, <2>2, <2>3, <2>4
<1>4. PICK kind \in Kinds : PublishOrFail(run, kind)
  BY DEF SubStarted, SubFlushes, SubSettles, SubUnsaved, Kinds
<1>5. Publishes(run, kind)
  BY <1>4, ServerFacts, PublishingIs
<1>6. ServerType'
  BY <1>1, <1>3, ServerFacts DEF ServerType
<1>7. runs <= runs' /\ run' <= runs' /\ run <= runs' /\ (Active <=> Active')
  BY <1>1, ServerFacts DEF Active
<1>8. Served
  BY <1>1, <1>2, <1>3, <1>5, <1>6, <1>7, PublishingServes
<1> QED BY <1>8, ServedKeepsInv

(* An edit of the history keeps known events and adds one. *)
LEMMA EditKeeps ==
  ASSUME Inv, NEW keep, Edit(keep)
  PROVE  Inv'
<1>1. \A e \in Known : e.run <= runs
  BY DEF Inv, RunsSound
<1>2. /\ JournalInv' /\ nextSeq' = nextSeq + 1
      /\ \A e \in Known' :
           e \in Known \/ (e.seq = nextSeq + 1 /\ e.run <= runs /\ e.kind = "rebased")
  BY <1>1, ServerFacts, EditKeepsJournal
<1>3. /\ loaded /\ loaded' /\ Wake /\ runs' = runs /\ run' = run /\ phase' = phase
      /\ sub' = sub /\ buffered' = buffered /\ live' = live
      /\ UNCHANGED <<watchers, pending, asked, cursor, got>>
  BY DEF Edit, MayEdit, runVars, subVars
<1>4. \A e \in Known' : e \in Known \/ (nextSeq < e.seq /\ e.run <= runs' /\ ~IsChild(e))
  BY <1>2, <1>3, ServerFacts DEF IsChild
<1>5. /\ ServerType' /\ (Active' <=> Active)
      /\ nextSeq <= nextSeq' /\ runs <= runs' /\ run' <= runs'
  BY <1>2, <1>3, ServerFacts DEF ServerType, Active
<1>6. ServerStep
  BY <1>2, <1>3, <1>4, <1>5, ServerFacts DEF ServerStep
<1>7. SubagentSound'
  <2>1. \A e : IsChild(e)' <=> IsChild(e)
    BY DEF IsChild
  <2>2. sub' = "none" => \A e \in Known' : ~IsChild(e)
    BY <1>3, <1>4, ServerFacts
  <2> QED BY <2>1, <2>2, <1>3, ServerFacts DEF SubagentSound
<1>8. Served
  BY <1>2, <1>3, <1>5, <1>6, <1>7 DEF Served
<1> QED BY <1>8, ServedKeepsInv

-----------------------------------------------------------------------------
(* Eviction, restart and load. *)

(* What can be read of the journal goes as far as the numbers did. *)
LEMMA ReadableIsAll ==
  ASSUME JournalInv, loaded, \A i \in 1..Len(file) : file[i] # Torn
  PROVE  nextSeq = IF file = <<>> THEN 0 ELSE Last(file).seq
<1>1. file \in Seq(Event \cup {Torn})
  BY DEF JournalInv, JournalType
<1>2. file # <<>> => Last(file) # Torn
  BY <1>1, LastIs
<1> QED BY <1>2 DEF JournalInv, NumbersSound

(* A step after which no run holds the session, no stream is served and nothing is to be sent *)
(* keeps what holds of a client, who goes on from the cursor.                                  *)
LEMMA IdleKeepsClient ==
  ASSUME ClientType, JournalInv', NEW c \in Clients, ClientSound(c),
         watchers' = watchers, cursor' = cursor, got' = got,
         Known' \subseteq Known, ~Active', live' = FALSE,
         stream'[c] \in {"off", "over"}, stream'[c] = "over" => stream[c] = "over",
         pending'[c] = <<>>, sub # "none" => sub' # "none",
         loaded' \/ Broken' = {} => cursor[c] <= NumberedTo'
  PROVE  ClientSound(c)' /\ Timely(c)'
<1>1. \A e : IsChild(e)' <=> IsChild(e)
  BY DEF IsChild
<1>2. \A e \in Known' :
        e.seq <= cursor'[c] /\ (c \in watchers' => IsChild(e)) => e \in got'[c]
  BY DEF ClientSound
<1>3. PendingSound(c)'
  <2>1. \A i \in 1..Len(pending'[c]) : FALSE
    OBVIOUS
  <2> QED BY <2>1 DEF PendingSound
<1>4. c \in watchers' => WatcherSound(c)'
  <2> SUFFICES ASSUME c \in watchers PROVE WatcherSound(c)'
    OBVIOUS
  <2>1. /\ stream[c] # "off" => sub # "none"
        /\ stream[c] = "over" => \A e \in Known : IsChild(e) => e \in got[c]
    BY DEF ClientSound, WatcherSound
  <2> QED BY <2>1, <1>1 DEF WatcherSound
<1>5. ClientSound(c)'
  <2>1. stream'[c] \notin {"off", "over"} => loaded'
    OBVIOUS
  <2>2. loaded' \/ Broken' = {} => cursor'[c] <= NumberedTo'
    OBVIOUS
  <2> QED BY <2>1, <2>2, <1>1, <1>2, <1>3, <1>4 DEF ClientSound
<1>6. Timely(c)'
  BY DEF Timely
<1> QED BY <1>5, <1>6

(* The session is unloaded, by an eviction or a restart. *)
LEMMA UnloadKeeps ==
  ASSUME Inv, loaded, Unloaded, file' = file, partial' \in BOOLEAN,
         phase' = "none", runs' = runs, buffered' = FALSE, live' = FALSE,
         sub' \in {"none", "settled", "unsaved"}, sub' = "none" <=> sub = "none",
         watchers' = watchers, cursor' = cursor, got' = got, ClientType',
         \A c \in Clients :
           /\ stream'[c] \in {"off", "over"} /\ (stream'[c] = "over" => stream[c] = "over")
           /\ pending'[c] = <<>>
  PROVE  Inv'
<1>1. JournalInv' /\ Known' = Journaled
  BY ServerFacts, UnloadKeepsJournal
<1>2. /\ loaded' = FALSE /\ run' = 0 /\ ~Active' /\ Journaled \subseteq Known
  BY DEF Unloaded, Active, Known
<1>3. ServerType'
  <2>1. run' \in 0..MaxRuns /\ runs' \in 0..MaxRuns
    BY <1>2, ServerFacts, LimitAssumption
  <2>2. buffered' \in BOOLEAN /\ live' \in BOOLEAN
    OBVIOUS
  <2> QED BY <2>1, <2>2 DEF ServerType
<1>4. RunsSound'
  BY <1>1, <1>2, ServerFacts DEF RunsSound, Inv, Active
<1>5. SubagentSound'
  <2>1. \A e : IsChild(e)' <=> IsChild(e)
    BY DEF IsChild
  <2> QED BY <1>1, <1>2, <2>1, ServerFacts DEF SubagentSound
<1>6. Broken' = {} => nextSeq = NumberedTo'
  <2> SUFFICES ASSUME Broken' = {} PROVE nextSeq = NumberedTo'
    OBVIOUS
  <2>1. \A i \in 1..Len(file) : file[i] # Torn
    BY DEF Broken
  <2>2. nextSeq = IF file = <<>> THEN 0 ELSE Last(file).seq
    BY <2>1, ServerFacts, ReadableIsAll
  <2> QED BY <2>2, <1>2 DEF NumberedTo, Last
<1>7. ASSUME NEW c \in Clients PROVE ClientSound(c)' /\ Timely(c)'
  <2>1. ClientSound(c) /\ ClientType
    BY DEF Inv
  <2>2. cursor[c] <= nextSeq
    BY <2>1 DEF ClientSound, NumberedTo
  <2> QED BY <1>1, <1>2, <1>6, <2>1, <2>2, IdleKeepsClient
<1> QED BY <1>1, <1>3, <1>4, <1>5, <1>7 DEF Inv

(* An idle session that nobody reads is evicted. *)
LEMMA EvictKeeps ==
  ASSUME Inv, Evict
  PROVE  Inv'
<1>1. /\ loaded /\ Unloaded /\ file' = file /\ partial' = partial
      /\ phase' = "none" /\ runs' = runs /\ buffered' = FALSE /\ live' = FALSE /\ sub' = sub
      /\ (live => sub = "unsaved")
      /\ watchers' = watchers /\ stream' = stream /\ pending' = pending /\ asked' = asked
      /\ cursor' = cursor /\ got' = got
      /\ \A c \in Clients : stream[c] \in {"off", "over"}
  BY DEF Evict, journalVars, clientVars
<1>2. sub' \in {"none", "settled", "unsaved"} /\ (sub' = "none" <=> sub = "none")
  BY <1>1, ServerFacts
<1>3. partial' \in BOOLEAN
  BY <1>1 DEF Inv, JournalInv, JournalType
<1>4. ClientType'
  BY <1>1 DEF Inv, ClientType
<1>5. \A c \in Clients : pending'[c] = <<>>
  BY <1>1 DEF Inv, ClientSound, PendingSound
<1> QED BY <1>1, <1>2, <1>3, <1>4, <1>5, UnloadKeeps

(* The process ends and starts again: connections break. *)
LEMMA CrashKeeps ==
  ASSUME Inv, Crash
  PROVE  Inv'
<1>1. /\ loaded /\ Unloaded /\ file' = file /\ partial' \in {partial, TornWrites}
      /\ phase' = "none" /\ runs' = runs /\ buffered' = FALSE /\ live' = FALSE
      /\ sub' = (IF sub = "none" THEN "none" ELSE "settled")
      /\ watchers' = watchers /\ cursor' = cursor /\ got' = got
      /\ stream' = [c \in Clients |-> IF stream[c] = "over" THEN "over" ELSE "off"]
      /\ pending' = [c \in Clients |-> <<>>] /\ asked' = [c \in Clients |-> FALSE]
  BY DEF Crash
<1>2. sub' \in {"none", "settled", "unsaved"} /\ (sub' = "none" <=> sub = "none")
  BY <1>1
<1>3. partial' \in BOOLEAN
  BY <1>1, FaultAssumption DEF Inv, JournalInv, JournalType
<1>4. ClientType'
  <2>1. stream' \in [Clients -> {"off", "ask", "look", "send", "asleep", "over"}]
    BY <1>1
  <2>2. pending' \in [Clients -> Seq(Event)] /\ asked' \in [Clients -> BOOLEAN]
    BY <1>1
  <2> QED BY <1>1, <2>1, <2>2 DEF Inv, ClientType
<1>5. \A c \in Clients :
        /\ stream'[c] \in {"off", "over"} /\ (stream'[c] = "over" => stream[c] = "over")
        /\ pending'[c] = <<>>
  BY <1>1
<1> QED BY <1>1, <1>2, <1>3, <1>4, <1>5, UnloadKeeps

(* A journal that can be read is loaded. *)
LEMMA LoadKeeps ==
  ASSUME Inv, Load
  PROVE  Inv'
<1>1. /\ ~loaded /\ loaded' = TRUE /\ Broken = {} /\ phase' = phase /\ runs' = runs
      /\ run' = (IF file = <<>> THEN 0 ELSE Last(file).run)
      /\ sub' = sub /\ buffered' = buffered /\ live' = live
      /\ watchers' = watchers /\ stream' = stream /\ pending' = pending /\ asked' = asked
      /\ cursor' = cursor /\ got' = got
  BY DEF Load, subVars, clientVars
<1>2. JournalInv' /\ Known' \subseteq Known /\ nextSeq' = NumberedTo
  BY <1>1, ServerFacts, LoadKeepsJournal
<1>3. /\ ~Active /\ ~Active' /\ live = FALSE /\ buffered = FALSE
      /\ sub \notin {"starting", "running"}
  BY <1>1, ServerFacts DEF Active
<1>4. run' \in 0..MaxRuns /\ run' <= runs
  <2>1. CASE file = <<>>
    BY <2>1, <1>1, ServerFacts, LimitAssumption
  <2>2. CASE file # <<>>
    <3>1. file \in Seq(Event \cup {Torn}) /\ \A i \in 1..Len(file) : file[i] # Torn
      BY <1>1 DEF Broken, Inv, JournalInv, JournalType
    <3>2. PICK i \in 1..Len(file) : Last(file) = file[i] /\ file[i] # Torn
      BY <3>1, <2>2, LastIs
    <3>3. Last(file) \in Event /\ Last(file) \in Known
      BY <3>2, ServerFacts, LinesAre DEF JournalInv
    <3>4. Last(file).run \in 0..MaxRuns /\ Last(file).run <= runs
      BY <3>3, EventFields DEF Inv, RunsSound
    <3> QED BY <3>4, <2>2, <1>1
  <2> QED BY <2>1, <2>2
<1>5. ServerType'
  BY <1>1, <1>4, ServerFacts DEF ServerType
<1>6. ClientType'
  BY <1>1 DEF Inv, ClientType
<1>7. RunsSound'
  BY <1>1, <1>2, <1>3, <1>4 DEF Inv, RunsSound, Active
<1>8. SubagentSound'
  <2>1. \A e : IsChild(e)' <=> IsChild(e)
    BY DEF IsChild
  <2> QED BY <1>1, <1>2, <1>3, <2>1, ServerFacts DEF SubagentSound
<1>9. ASSUME NEW c \in Clients PROVE ClientSound(c)' /\ Timely(c)'
  <2>1. ClientSound(c) /\ ClientType
    BY DEF Inv
  <2>2. stream[c] \in {"off", "over"} /\ cursor[c] <= NumberedTo
    BY <2>1, <1>1 DEF ClientSound
  <2>3. pending[c] = <<>>
    BY <2>1, <2>2 DEF ClientSound, PendingSound
  <2>4. NumberedTo' = NumberedTo
    BY <1>1, <1>2 DEF NumberedTo
  <2> QED BY <1>1, <1>2, <1>3, <2>1, <2>2, <2>3, <2>4, IdleKeepsClient
<1> QED BY <1>2, <1>5, <1>6, <1>7, <1>8, <1>9 DEF Inv

-----------------------------------------------------------------------------
(* The streams. *)

(* What the invariant says of a client, of the values of its stream. *)
OutSound(c, st, out, n) ==
  /\ st = "send" <=> out # <<>>
  /\ \A i \in 1..Len(out) :
       /\ n < out[i].seq /\ out[i].seq <= nextSeq /\ out[i].run <= runs
       /\ \A j \in 1..Len(out) : i < j => out[i].seq < out[j].seq
       /\ c \in Readers /\ out[i].kind = "end" /\ out[i].run = run => ~Active
  /\ out # <<>> => \A e \in Known :
       n < e.seq /\ e.seq <= Last(out).seq => \E i \in 1..Len(out) : out[i] = e
Reached(c, st, n, g) ==
  /\ st \notin {"off", "over"} => loaded
  /\ loaded \/ Broken = {} => n <= NumberedTo
  /\ \A e \in Known : e.seq <= n /\ (c \in watchers => IsChild(e)) => e \in g
Watches(c, st, as, g) ==
  c \in watchers =>
    /\ st # "off" => sub # "none"
    /\ st = "look" /\ ~as => ~live
    /\ st = "over" => ~live /\ \A e \in Known : IsChild(e) => e \in g
InTime(c, st, n, g) ==
  /\ c \in Readers => \A e \in g : e.kind = "end" /\ e.run = run => ~Active
  /\ st = "asleep" =>
       IF c \in Readers
         THEN Active /\ \A e \in Known : e.seq > n =>
                \E h \in Known : h.seq > n /\ h.seq <= e.seq /\ HeldBack(h)
         ELSE \A e \in Known : ~(e.seq > n)
Holds(c, st, out, as, n, g) ==
  OutSound(c, st, out, n) /\ Reached(c, st, n, g) /\ Watches(c, st, as, g) /\ InTime(c, st, n, g)

(* It holds of every client. *)
LEMMA HoldsNow ==
  ASSUME Inv, NEW c \in Clients
  PROVE  Holds(c, stream[c], pending[c], asked[c], cursor[c], got[c])
<1>1. ClientSound(c) /\ Timely(c)
  BY DEF Inv
<1>2. OutSound(c, stream[c], pending[c], cursor[c])
  BY <1>1 DEF ClientSound, PendingSound, OutSound
<1>3. Reached(c, stream[c], cursor[c], got[c])
  BY <1>1 DEF ClientSound, Reached
<1>4. Watches(c, stream[c], asked[c], got[c])
  BY <1>1 DEF ClientSound, WatcherSound, Watches
<1>5. InTime(c, stream[c], cursor[c], got[c])
  BY <1>1 DEF Timely, InTime
<1> QED BY <1>2, <1>3, <1>4, <1>5 DEF Holds

(* A step of a client's stream leaves the server as it is, but for the marks. *)
ServerStays ==
  /\ JournalInv' /\ Known' = Known /\ file' = file /\ partial' = partial
  /\ loaded' = loaded /\ nextSeq' = nextSeq
  /\ run' = run /\ phase' = phase /\ runs' = runs
  /\ sub' = sub /\ buffered' = buffered /\ live' = live /\ watchers' = watchers

(* What holds of the new values is then what the invariant says next. *)
LEMMA HoldsNext ==
  ASSUME ServerStays, NEW c \in Clients,
         Holds(c, stream'[c], pending'[c], asked'[c], cursor'[c], got'[c])
  PROVE  ClientSound(c)' /\ Timely(c)'
<1>1. /\ OutSound(c, stream'[c], pending'[c], cursor'[c])
      /\ Reached(c, stream'[c], cursor'[c], got'[c])
      /\ Watches(c, stream'[c], asked'[c], got'[c])
      /\ InTime(c, stream'[c], cursor'[c], got'[c])
  BY DEF Holds
<1>2. /\ Known' = Known /\ loaded' = loaded /\ nextSeq' = nextSeq /\ Readers' = Readers
      /\ run' = run /\ runs' = runs /\ sub' = sub /\ live' = live /\ watchers' = watchers
      /\ (Active' <=> Active) /\ NumberedTo' = NumberedTo /\ Broken' = Broken
  BY DEF ServerStays, Readers, Active, NumberedTo, Broken, Last
<1>3. \A e : (IsChild(e)' <=> IsChild(e)) /\ (HeldBack(e)' <=> HeldBack(e))
  BY <1>2 DEF IsChild, HeldBack
<1>4. PendingSound(c)'
  BY <1>1, <1>2 DEF OutSound, PendingSound, Last
<1>5. c \in watchers' => WatcherSound(c)'
  BY <1>1, <1>2, <1>3 DEF Watches, WatcherSound
<1>6. ClientSound(c)'
  BY <1>1, <1>2, <1>3, <1>4, <1>5 DEF Reached, ClientSound
<1>7. Timely(c)'
  BY <1>1, <1>2, <1>3 DEF InTime, Timely
<1> QED BY <1>6, <1>7

(* The other clients' streams stay as they are. *)
OthersStay(d) ==
  \A c \in Clients \ {d} :
    /\ stream'[c] = stream[c] /\ pending'[c] = pending[c] /\ asked'[c] = asked[c]
    /\ cursor'[c] = cursor[c] /\ got'[c] = got[c]

(* So a step of a stream keeps the invariant if it does for that client. *)
LEMMA StreamKeeps ==
  ASSUME Inv, ServerStays, ClientType', NEW d \in Clients, OthersStay(d),
         Holds(d, stream'[d], pending'[d], asked'[d], cursor'[d], got'[d]),
         \A e \in got'[d] : e.run <= runs
  PROVE  Inv'
<1>1. ASSUME NEW c \in Clients
      PROVE  Holds(c, stream'[c], pending'[c], asked'[c], cursor'[c], got'[c])
  <2>1. CASE c = d
    BY <2>1
  <2>2. CASE c # d
    <3>1. Holds(c, stream[c], pending[c], asked[c], cursor[c], got[c])
      BY HoldsNow
    <3>2. /\ stream'[c] = stream[c] /\ pending'[c] = pending[c] /\ asked'[c] = asked[c]
          /\ cursor'[c] = cursor[c] /\ got'[c] = got[c]
      BY <2>2 DEF OthersStay
    <3> QED BY <3>1, <3>2
  <2> QED BY <2>1, <2>2
<1>2. \A c \in Clients : ClientSound(c)' /\ Timely(c)'
  BY <1>1, HoldsNext
<1>3. ServerType'
  BY ServerFacts DEF ServerType, ServerStays
<1>4. RunsSound'
  <2>1. \A c \in Clients : \A e \in got'[c] : e.run <= runs
    BY DEF Inv, RunsSound, OthersStay
  <2> QED BY <2>1 DEF Inv, RunsSound, ServerStays
<1>5. SubagentSound'
  <2>1. \A e : IsChild(e)' <=> IsChild(e)
    BY DEF IsChild
  <2> QED BY <2>1, ServerFacts DEF SubagentSound, ServerStays
<1>6. JournalInv'
  BY DEF ServerStays
<1> QED BY <1>2, <1>3, <1>4, <1>5, <1>6, HoldsNow DEF Inv

(* What a step of a stream finds of the client. *)
LEMMA ClientFacts ==
  ASSUME Inv, NEW d \in Clients
  PROVE  /\ ClientType
         /\ stream \in [Clients -> {"off", "ask", "look", "send", "asleep", "over"}]
         /\ pending \in [Clients -> Seq(Event)] /\ asked \in [Clients -> BOOLEAN]
         /\ cursor \in [Clients -> 0..MaxSeq] /\ got \in [Clients -> SUBSET Event]
         /\ cursor[d] \in Nat /\ (d \in watchers <=> d \notin Readers)
         /\ \A e \in got[d] : e.run <= runs
<1>1. ClientType
  BY DEF Inv
<1>2. \A e \in got[d] : e.run <= runs
  BY DEF Inv, RunsSound
<1>3. cursor[d] \in Nat
  BY <1>1, LimitAssumption DEF ClientType
<1> QED BY <1>1, <1>2, <1>3 DEF ClientType, Readers

(* Nothing of the journal changes with a stream that does not read. *)
LEMMA ServerAlone ==
  ASSUME Inv, journalVars' = journalVars, loaded' = loaded, cacheVars' = cacheVars,
         runVars' = runVars, subVars' = subVars, watchers' = watchers
  PROVE  ServerStays
<1>1. /\ file' = file /\ partial' = partial /\ nextSeq' = nextSeq /\ tail' = tail
      /\ truncated' = truncated /\ marks' = marks
      /\ run' = run /\ phase' = phase /\ runs' = runs
      /\ sub' = sub /\ buffered' = buffered /\ live' = live
  BY DEF journalVars, cacheVars, runVars, subVars
<1>2. JournalInv' /\ Known' = Known
  BY <1>1, ServerFacts, JournalStays
<1> QED BY <1>1, <1>2 DEF ServerStays

(* A client whose stream is not at sending has nothing to be sent. *)
LEMMA NothingPending ==
  ASSUME NEW c, NEW st, NEW out, NEW as, NEW n, NEW g, Holds(c, st, out, as, n, g),
         st # "send"
  PROVE  out = <<>>
BY DEF Holds, OutSound

(* Nothing to be sent needs no more. *)
LEMMA NothingToSend ==
  ASSUME NEW c, NEW n, NEW st, st # "send"
  PROVE  OutSound(c, st, <<>>, n)
<1>1. \A i \in 1..Len(<<>>) : FALSE
  OBVIOUS
<1> QED BY <1>1 DEF OutSound

(* A stream that starts, wakes or stops with nothing to be sent. *)
LEMMA TurnKeeps ==
  ASSUME Inv, NEW d \in Clients, ServerStays, NEW st \in {"off", "ask", "look"},
         NEW as \in BOOLEAN,
         stream' = [stream EXCEPT ![d] = st], asked' = [asked EXCEPT ![d] = as],
         pending' = pending \/ pending' = [pending EXCEPT ![d] = <<>>],
         pending' = pending => stream[d] # "send",
         cursor' = cursor, got' = got,
         st # "off" => loaded,
         d \in watchers => /\ st # "off" => sub # "none"
                           /\ st = "look" /\ ~as => ~live
  PROVE  Inv'
<1>1. /\ ClientType
      /\ stream \in [Clients -> {"off", "ask", "look", "send", "asleep", "over"}]
      /\ pending \in [Clients -> Seq(Event)] /\ asked \in [Clients -> BOOLEAN]
      /\ cursor \in [Clients -> 0..MaxSeq] /\ got \in [Clients -> SUBSET Event]
      /\ \A e \in got[d] : e.run <= runs
  BY ClientFacts
<1>2. Holds(d, stream[d], pending[d], asked[d], cursor[d], got[d])
  BY HoldsNow
<1>3. pending' \in [Clients -> Seq(Event)] /\ pending'[d] = <<>>
  <2>1. CASE pending' = pending
    BY <2>1, <1>1, <1>2, NothingPending
  <2>2. CASE pending' = [pending EXCEPT ![d] = <<>>]
    BY <2>2, <1>1
  <2> QED BY <2>1, <2>2
<1>4. stream'[d] = st /\ asked'[d] = as /\ cursor'[d] = cursor[d] /\ got'[d] = got[d]
  BY <1>1
<1>5. ClientType'
  <2>1. stream' \in [Clients -> {"off", "ask", "look", "send", "asleep", "over"}]
    BY <1>1
  <2>2. asked' \in [Clients -> BOOLEAN]
    BY <1>1
  <2> QED BY <2>1, <2>2, <1>1, <1>3 DEF ClientType, ServerStays
<1>6. OthersStay(d)
  BY <1>1 DEF OthersStay
<1>7. OutSound(d, st, <<>>, cursor[d])
  BY NothingToSend
<1>8. Reached(d, st, cursor[d], got[d])
  BY <1>2 DEF Holds, Reached
<1>9. Watches(d, st, as, got[d])
  BY DEF Watches
<1>10. InTime(d, st, cursor[d], got[d])
  BY <1>2 DEF Holds, InTime
<1>11. Holds(d, stream'[d], pending'[d], asked'[d], cursor'[d], got'[d])
  BY <1>3, <1>4, <1>7, <1>8, <1>9, <1>10 DEF Holds
<1> QED BY <1>1, <1>4, <1>5, <1>6, <1>11, StreamKeeps

(* A client connects; a watcher once its subagent has started. *)
LEMMA ConnectKeeps ==
  ASSUME Inv, NEW d \in Clients, Connect(d)
  PROVE  Inv'
<1> DEFINE st == IF d \in Readers THEN "look" ELSE "ask"
<1>1. /\ loaded /\ stream[d] \in {"off", "over"}
      /\ stream' = [stream EXCEPT ![d] = st]
      /\ pending' = pending /\ asked' = asked /\ cursor' = cursor /\ got' = got
      /\ d \in watchers => \E e \in Journaled : e.kind = "started"
  BY DEF Connect
<1>2. ServerStays
  BY ServerAlone DEF Connect
<1>3. st \in {"off", "ask", "look"} /\ (d \in watchers => st = "ask")
  BY DEF Readers
<1>4. asked[d] \in BOOLEAN /\ asked' = [asked EXCEPT ![d] = asked[d]]
  BY <1>1, ClientFacts
<1>5. d \in watchers => sub # "none"
  BY <1>1, ServerFacts DEF Known, IsChild
<1> HIDE DEF st
<1> QED BY <1>1, <1>2, <1>3, <1>4, <1>5, TurnKeeps

(* A watcher asks whether its subagent counts live, and then looks. *)
LEMMA AskKeeps ==
  ASSUME Inv, NEW d \in Clients, Ask(d)
  PROVE  Inv'
<1>1. /\ stream[d] = "ask" /\ asked' = [asked EXCEPT ![d] = live]
      /\ stream' = [stream EXCEPT ![d] = "look"]
      /\ pending' = pending /\ cursor' = cursor /\ got' = got
  BY DEF Ask
<1>2. ServerStays
  BY ServerAlone DEF Ask
<1>3. Holds(d, stream[d], pending[d], asked[d], cursor[d], got[d])
  BY HoldsNow
<1>4. loaded /\ (d \in watchers => sub # "none")
  BY <1>1, <1>3 DEF Holds, Reached, Watches
<1>5. live \in BOOLEAN
  BY ServerFacts
<1> QED BY <1>1, <1>2, <1>4, <1>5, TurnKeeps

(* The heartbeat of a sleeping stream. *)
LEMMA HeartbeatKeeps ==
  ASSUME Inv, NEW d \in Clients, Heartbeat(d)
  PROVE  Inv'
<1> DEFINE st == IF d \in Readers THEN "look" ELSE "ask"
<1>1. /\ stream[d] = "asleep" /\ stream' = [stream EXCEPT ![d] = st]
      /\ pending' = pending /\ asked' = asked /\ cursor' = cursor /\ got' = got
  BY DEF Heartbeat
<1>2. ServerStays
  BY ServerAlone DEF Heartbeat
<1>3. Holds(d, stream[d], pending[d], asked[d], cursor[d], got[d])
  BY HoldsNow
<1>4. loaded /\ (d \in watchers => sub # "none")
  BY <1>1, <1>3 DEF Holds, Reached, Watches
<1>5. st \in {"off", "ask", "look"} /\ (d \in watchers => st = "ask")
  BY DEF Readers
<1>6. asked[d] \in BOOLEAN /\ asked' = [asked EXCEPT ![d] = asked[d]]
  BY <1>1, ClientFacts
<1> HIDE DEF st
<1> QED BY <1>1, <1>2, <1>4, <1>5, <1>6, TurnKeeps

(* The connection breaks. *)
LEMMA DropKeeps ==
  ASSUME Inv, NEW d \in Clients, Drop(d)
  PROVE  Inv'
<1>1. /\ stream[d] \notin {"off", "over"} /\ stream' = [stream EXCEPT ![d] = "off"]
      /\ pending' = [pending EXCEPT ![d] = <<>>] /\ asked' = [asked EXCEPT ![d] = FALSE]
      /\ cursor' = cursor /\ got' = got
  BY DEF Drop
<1>2. ServerStays
  BY ServerAlone DEF Drop
<1>3. Holds(d, stream[d], pending[d], asked[d], cursor[d], got[d])
  BY HoldsNow
<1>4. pending' = pending => stream[d] # "send"
  <2> SUFFICES ASSUME pending' = pending, stream[d] = "send" PROVE FALSE
    OBVIOUS
  <2>1. pending[d] = <<>>
    BY <1>1, ClientFacts
  <2> QED BY <2>1, <1>3 DEF Holds, OutSound
<1> QED BY <1>1, <1>2, <1>4, TurnKeeps

(* The journal cannot be read: the stream ends. *)
LEMMA LookErrorKeeps ==
  ASSUME Inv, NEW d \in Clients, LookError(d)
  PROVE  Inv'
<1>1. /\ stream[d] = "look" /\ stream' = [stream EXCEPT ![d] = "off"]
      /\ asked' = [asked EXCEPT ![d] = FALSE] /\ ReplayMarks(cursor[d])
      /\ pending' = pending /\ cursor' = cursor /\ got' = got
      /\ file' = file /\ partial' = partial /\ loaded' = loaded /\ nextSeq' = nextSeq
      /\ tail' = tail /\ truncated' = truncated
      /\ run' = run /\ phase' = phase /\ runs' = runs
      /\ sub' = sub /\ buffered' = buffered /\ live' = live /\ watchers' = watchers
  BY DEF LookError, journalVars, runVars, subVars
<1>2. Holds(d, stream[d], pending[d], asked[d], cursor[d], got[d])
  BY HoldsNow
<1>3. loaded /\ cursor[d] \in Nat
  BY <1>1, <1>2, ClientFacts DEF Holds, Reached
<1>4. JournalInv' /\ Known' = Known
  BY <1>1, <1>3, ServerFacts, ReadKeepsJournal
<1>5. ServerStays
  BY <1>1, <1>4 DEF ServerStays
<1> QED BY <1>1, <1>5, TurnKeeps

(* The first and the last of a list in order. *)
LEMMA GrowingEnds ==
  ASSUME NEW s \in Seq(Event), Growing(s), s # <<>>
  PROVE  /\ 1 \in 1..Len(s) /\ Last(s) = s[Len(s)] /\ Len(s) \in 1..Len(s)
         /\ \A k \in 1..Len(s) : s[1].seq <= s[k].seq /\ s[k].seq <= Last(s).seq
<1>1. 1 \in 1..Len(s) /\ Last(s) = s[Len(s)] /\ Len(s) \in 1..Len(s)
  BY LastIs
<1>2. \A k \in 1..Len(s) : s[k].seq \in Nat
  BY EventFields
<1>3. \A k \in 1..Len(s) : (k = 1 \/ 1 < k) /\ (k = Len(s) \/ k < Len(s))
  OBVIOUS
<1>4. \A k \in 1..Len(s) : s[1].seq <= s[k].seq /\ s[k].seq <= s[Len(s)].seq
  BY <1>1, <1>2, <1>3 DEF Growing
<1> QED BY <1>1, <1>4

(* What is sent of what was read is sound: a reader is sent the first of it that is not held *)
(* back.                                                                                       *)
LEMMA OutIsSound ==
  ASSUME JournalInv, loaded, NEW d, NEW n \in Nat, NEW b \in Seq(Event), Complete(b, n),
         \A e \in Known : e.run <= runs,
         NEW out \in Seq(Event), Len(out) <= Len(b),
         \A k \in 1..Len(out) : out[k] = b[k] /\ (d \in Readers => ~HeldBack(out[k])),
         NEW st, st = "send" <=> out # <<>>
  PROVE  OutSound(d, st, out, n)
<1>1. /\ Growing(b) /\ \A k \in 1..Len(b) : b[k] \in Known /\ n < b[k].seq /\ b[k].seq \in Nat
      /\ \A e \in Known : n < e.seq /\ (b # <<>> => e.seq <= Last(b).seq)
                          => \E k \in 1..Len(b) : b[k] = e
  BY EventFields DEF Complete
<1>2. \A e \in Known : e.seq <= nextSeq /\ e.seq \in Nat
  BY LinesAre, EventFields DEF JournalInv, NumbersSound
<1>3. \A k \in 1..Len(out) : k \in 1..Len(b) /\ out[k] = b[k]
  OBVIOUS
<1>4. ASSUME NEW i \in 1..Len(out)
      PROVE  /\ n < out[i].seq /\ out[i].seq <= nextSeq /\ out[i].run <= runs
             /\ \A j \in 1..Len(out) : i < j => out[i].seq < out[j].seq
             /\ d \in Readers /\ out[i].kind = "end" /\ out[i].run = run => ~Active
  <2>1. out[i] \in Known /\ n < out[i].seq
    BY <1>1, <1>3
  <2>2. \A j \in 1..Len(out) : i < j => out[i].seq < out[j].seq
    BY <1>1, <1>3 DEF Growing
  <2>3. d \in Readers /\ out[i].kind = "end" /\ out[i].run = run => ~Active
    BY DEF HeldBack
  <2> QED BY <2>1, <2>2, <2>3, <1>2
<1>5. ASSUME out # <<>>, NEW e \in Known, n < e.seq, e.seq <= Last(out).seq
      PROVE  \E i \in 1..Len(out) : out[i] = e
  <2>1. Len(out) \in 1..Len(out) /\ Last(out) = out[Len(out)]
    BY <1>5, LastIs
  <2>2. Len(out) \in 1..Len(b) /\ Last(out) = b[Len(out)] /\ b # <<>>
    BY <2>1, <1>3
  <2>3. Last(out).seq <= Last(b).seq /\ Last(b).seq \in Nat /\ Last(out).seq \in Nat
    BY <2>2, <1>1, GrowingEnds
  <2>4. e.seq <= Last(b).seq /\ e.seq \in Nat
    BY <1>2, <1>5, <2>3
  <2>5. PICK k \in 1..Len(b) : b[k] = e
    BY <1>1, <1>5, <2>2, <2>4
  <2>6. k <= Len(out)
    <3> SUFFICES ASSUME Len(out) < k PROVE FALSE
      BY <2>2, <2>5
    <3>1. b[Len(out)].seq < b[k].seq
      BY <2>2, <2>5, <1>1 DEF Growing
    <3> QED BY <3>1, <2>2, <2>3, <2>4, <2>5, <1>5
  <2>7. k \in 1..Len(out)
    BY <2>5, <2>6
  <2> QED BY <2>5, <2>7, <1>3
<1> QED BY <1>4, <1>5 DEF OutSound

(* With nothing to be sent there is no news, or only the end of the run that is on and what *)
(* comes after it.                                                                             *)
LEMMA NoNews ==
  ASSUME JournalInv, NEW n \in Nat, NEW b \in Seq(Event), Complete(b, n)
  PROVE  /\ b = <<>> => \A e \in Known : ~(e.seq > n) /\ e.seq <= n
         /\ b # <<>> /\ HeldBack(b[1]) =>
              \A e \in Known : e.seq > n =>
                \E h \in Known : h.seq > n /\ h.seq <= e.seq /\ HeldBack(h)
<1>1. /\ Growing(b) /\ \A k \in 1..Len(b) : b[k] \in Known /\ n < b[k].seq /\ b[k].seq \in Nat
      /\ \A e \in Known : n < e.seq /\ (b # <<>> => e.seq <= Last(b).seq)
                          => \E k \in 1..Len(b) : b[k] = e
  BY EventFields DEF Complete
<1>2. \A e \in Known : e.seq \in Nat
  BY LinesAre, EventFields DEF JournalInv
<1>3. ASSUME b = <<>>, NEW e \in Known PROVE ~(e.seq > n) /\ e.seq <= n
  <2>1. ~(n < e.seq)
    <3> SUFFICES ASSUME n < e.seq PROVE FALSE
      OBVIOUS
    <3>1. PICK k \in 1..Len(b) : b[k] = e
      BY <1>1, <1>3
    <3> QED BY <3>1, <1>3
  <2> QED BY <2>1, <1>2
<1>4. ASSUME b # <<>>, HeldBack(b[1]), NEW e \in Known, e.seq > n
      PROVE  \E h \in Known : h.seq > n /\ h.seq <= e.seq /\ HeldBack(h)
  <2>1. 1 \in 1..Len(b) /\ Last(b).seq \in Nat
        /\ \A k \in 1..Len(b) : b[1].seq <= b[k].seq /\ b[k].seq <= Last(b).seq
    BY <1>1, <1>4, GrowingEnds
  <2>2. b[1] \in Known /\ b[1].seq > n /\ b[1].seq \in Nat /\ e.seq \in Nat
    BY <2>1, <1>1, <1>2
  <2>3. b[1].seq <= e.seq
    <3>1. CASE e.seq <= Last(b).seq
      <4>1. PICK k \in 1..Len(b) : b[k] = e
        BY <3>1, <1>1, <1>4, <2>2
      <4> QED BY <4>1, <2>1
    <3>2. CASE ~(e.seq <= Last(b).seq)
      <4>1. b[1].seq <= Last(b).seq
        BY <2>1
      <4> QED BY <4>1, <3>2, <2>1, <2>2
    <3> QED BY <3>1, <3>2
  <2> QED BY <2>2, <2>3, <1>4
<1> QED BY <1>3, <1>4

(* A stream looks at the events after its cursor. *)
LEMMA LookKeeps ==
  ASSUME Inv, NEW d \in Clients, Look(d)
  PROVE  Inv'
<1>1. PICK n \in Nat : n = cursor[d]
  BY ClientFacts
<1>2. Holds(d, stream[d], pending[d], asked[d], n, got[d])
  BY HoldsNow, <1>1
<1>3. /\ stream[d] = "look" /\ ~ReplayFails(n) /\ ReplayMarks(n)
      /\ asked' = [asked EXCEPT ![d] = FALSE] /\ cursor' = cursor /\ got' = got
      /\ file' = file /\ partial' = partial /\ loaded' = loaded /\ nextSeq' = nextSeq
      /\ tail' = tail /\ truncated' = truncated
      /\ run' = run /\ phase' = phase /\ runs' = runs
      /\ sub' = sub /\ buffered' = buffered /\ live' = live /\ watchers' = watchers
  BY <1>1 DEF Look, journalVars, runVars, subVars
<1>4. loaded
  BY <1>2, <1>3 DEF Holds, Reached
<1>5. JournalInv' /\ Known' = Known
  BY <1>3, <1>4, ServerFacts, ReadKeepsJournal
<1>6. ServerStays
  BY <1>3, <1>5 DEF ServerStays
<1>7. PICK b : b = Replay(n)
  OBVIOUS
<1>8. Complete(b, n) /\ b \in Seq(Event) /\ Growing(b)
  BY <1>3, <1>4, <1>7, ServerFacts, ReplayIs DEF Complete
<1>9. PICK out : out = IF d \in Readers THEN Deliverable(b) ELSE b
  OBVIOUS
<1>10. /\ out \in Seq(Event) /\ Len(out) <= Len(b)
       /\ \A k \in 1..Len(out) : out[k] = b[k] /\ (d \in Readers => ~HeldBack(out[k]))
       /\ out = <<>> => b = <<>> \/ (d \in Readers /\ HeldBack(b[1]))
  <2>1. CASE d \in Readers
    BY <2>1, <1>8, <1>9, DeliverableIs
  <2>2. CASE d \notin Readers
    BY <2>2, <1>8, <1>9
  <2> QED BY <2>1, <2>2
<1>11. PICK st : st = IF out # <<>> THEN "send" ELSE IF Waits(d) THEN "asleep" ELSE "over"
  OBVIOUS
<1>12. pending' = [pending EXCEPT ![d] = out] /\ stream' = [stream EXCEPT ![d] = st]
  BY <1>1, <1>7, <1>9, <1>11 DEF Look
<1>13. /\ ClientType
       /\ stream \in [Clients -> {"off", "ask", "look", "send", "asleep", "over"}]
       /\ pending \in [Clients -> Seq(Event)] /\ asked \in [Clients -> BOOLEAN]
       /\ \A e \in got[d] : e.run <= runs
       /\ (d \in watchers <=> d \notin Readers)
  BY ClientFacts
<1>14. st \in {"send", "asleep", "over"} /\ (st = "send" <=> out # <<>>)
       /\ (st = "asleep" => Waits(d)) /\ (st = "over" => ~Waits(d))
  BY <1>11
<1>15. stream'[d] = st /\ pending'[d] = out /\ asked'[d] = FALSE /\ cursor'[d] = n
       /\ got'[d] = got[d]
  BY <1>1, <1>3, <1>12, <1>13
<1>16. ClientType'
  <2>1. stream' \in [Clients -> {"off", "ask", "look", "send", "asleep", "over"}]
    BY <1>12, <1>13, <1>14
  <2>2. pending' \in [Clients -> Seq(Event)]
    BY <1>10, <1>12, <1>13
  <2>3. asked' \in [Clients -> BOOLEAN]
    BY <1>3, <1>13
  <2> QED BY <2>1, <2>2, <2>3, <1>3, <1>13 DEF ClientType
<1>17. OthersStay(d)
  BY <1>3, <1>12, <1>13 DEF OthersStay
<1>18. \A e \in Known : e.run <= runs
  BY DEF Inv, RunsSound
<1>19. OutSound(d, st, out, n)
  BY <1>4, <1>8, <1>10, <1>14, <1>18, ServerFacts, OutIsSound
<1>20. Reached(d, st, n, got[d])
  BY <1>2, <1>4 DEF Holds, Reached
<1>21. Watches(d, st, FALSE, got[d])
  <2> SUFFICES ASSUME d \in watchers
               PROVE  /\ sub # "none" /\ st # "look"
                      /\ st = "over" => ~live /\ \A e \in Known : IsChild(e) => e \in got[d]
    BY DEF Watches
  <2>1. sub # "none" /\ (~asked[d] => ~live)
    BY <1>2, <1>3 DEF Holds, Watches
  <2>2. ASSUME st = "over" PROVE ~live /\ \A e \in Known : IsChild(e) => e \in got[d]
    <3>1. ~asked[d] /\ b = <<>>
      BY <2>2, <1>10, <1>13, <1>14 DEF Waits
    <3>2. \A e \in Known : e.seq <= n
      BY <3>1, <1>8, ServerFacts, NoNews
    <3>3. \A e \in Known : IsChild(e) => e \in got[d]
      BY <3>2, <1>2 DEF Holds, Reached
    <3> QED BY <2>1, <3>1, <3>3
  <2> QED BY <2>1, <2>2, <1>14
<1>22. InTime(d, st, n, got[d])
  <2>1. d \in Readers => \A e \in got[d] : e.kind = "end" /\ e.run = run => ~Active
    BY <1>2 DEF Holds, InTime
  <2>2. ASSUME st = "asleep"
        PROVE  IF d \in Readers
                 THEN Active /\ \A e \in Known : e.seq > n =>
                        \E h \in Known : h.seq > n /\ h.seq <= e.seq /\ HeldBack(h)
                 ELSE \A e \in Known : ~(e.seq > n)
    <3>1. /\ b = <<>> => \A e \in Known : ~(e.seq > n)
          /\ b # <<>> /\ HeldBack(b[1]) =>
               \A e \in Known : e.seq > n =>
                 \E h \in Known : h.seq > n /\ h.seq <= e.seq /\ HeldBack(h)
      BY <1>8, ServerFacts, NoNews
    <3>2. out = <<>> /\ Waits(d)
      BY <2>2, <1>14
    <3>3. b = <<>> \/ (d \in Readers /\ HeldBack(b[1]))
      BY <3>2, <1>10
    <3>4. d \in Readers => Active
      BY <3>2 DEF Waits
    <3> QED BY <3>1, <3>3, <3>4
  <2> QED BY <2>1, <2>2 DEF InTime
<1>23. Holds(d, stream'[d], pending'[d], asked'[d], cursor'[d], got'[d])
  BY <1>15, <1>19, <1>20, <1>21, <1>22 DEF Holds
<1> QED BY <1>6, <1>13, <1>15, <1>16, <1>17, <1>23, StreamKeeps

(* The rest of what is to be sent. *)
LEMMA RestIs ==
  ASSUME NEW s \in Seq(Event), s # <<>>
  PROVE  /\ Tail(s) \in Seq(Event) /\ Len(Tail(s)) = Len(s) - 1 /\ Head(s) = s[1]
         /\ Head(s) \in Event
         /\ \A k \in 1..Len(Tail(s)) : k + 1 \in 1..Len(s) /\ Tail(s)[k] = s[k + 1]
         /\ \A i \in 1..Len(s) : i = 1 \/ (i - 1 \in 1..Len(Tail(s)) /\ Tail(s)[i - 1] = s[i])
         /\ Tail(s) # <<>> => Last(Tail(s)) = Last(s)
<1>1. Len(s) \in Nat /\ Len(s) > 0 /\ 1 \in 1..Len(s)
  OBVIOUS
<1>2. Tail(s) \in Seq(Event) /\ Len(Tail(s)) = Len(s) - 1 /\ Head(s) = s[1]
  BY <1>1
<1>3. Head(s) \in Event
  BY <1>1, <1>2
<1>4. \A k \in 1..Len(Tail(s)) : k + 1 \in 1..Len(s) /\ Tail(s)[k] = s[k + 1]
  BY <1>1, <1>2
<1>5. ASSUME NEW i \in 1..Len(s), i # 1
      PROVE  i - 1 \in 1..Len(Tail(s)) /\ Tail(s)[i - 1] = s[i]
  <2>1. i - 1 \in 1..Len(Tail(s)) /\ (i - 1) + 1 = i
    BY <1>1, <1>2, <1>5
  <2> QED BY <2>1, <1>4
<1>6. ASSUME Tail(s) # <<>> PROVE Last(Tail(s)) = Last(s)
  <2>1. Len(s) - 1 \in 1..Len(Tail(s)) /\ (Len(s) - 1) + 1 = Len(s)
    BY <1>1, <1>2, <1>6
  <2>2. Tail(s)[Len(s) - 1] = s[Len(s)]
    BY <2>1, <1>4
  <2> QED BY <2>2, <1>2 DEF Last
<1> QED BY <1>2, <1>3, <1>4, <1>5, <1>6

(* The first event goes out, and the cursor with it: up to there the client has it all, and *)
(* what is left is as sound as it was.                                                        *)
LEMMA SentIsSound ==
  ASSUME JournalInv, NEW d, NEW n \in Nat, NEW out \in Seq(Event), out # <<>>,
         OutSound(d, "send", out, n),
         NEW g, \A e \in Known : e.seq <= n /\ (d \in watchers => IsChild(e)) => e \in g,
         d \in watchers <=> d \notin Readers,
         NEW h, g \subseteq h, d \in Readers \/ IsChild(Head(out)) => Head(out) \in h,
         NEW st, st = "send" <=> Tail(out) # <<>>
  PROVE  /\ OutSound(d, st, Tail(out), Head(out).seq)
         /\ \A e \in Known :
              e.seq <= Head(out).seq /\ (d \in watchers => IsChild(e)) => e \in h
<1>1. /\ \A i \in 1..Len(out) :
           /\ n < out[i].seq /\ out[i].seq <= nextSeq /\ out[i].run <= runs
           /\ \A j \in 1..Len(out) : i < j => out[i].seq < out[j].seq
           /\ d \in Readers /\ out[i].kind = "end" /\ out[i].run = run => ~Active
      /\ \A e \in Known :
           n < e.seq /\ e.seq <= Last(out).seq => \E i \in 1..Len(out) : out[i] = e
  BY DEF OutSound
<1>2. PICK rest, x : rest = Tail(out) /\ x = Head(out)
  OBVIOUS
<1>3. /\ rest \in Seq(Event) /\ x = out[1] /\ x \in Event /\ 1 \in 1..Len(out)
      /\ \A k \in 1..Len(rest) : k + 1 \in 1..Len(out) /\ rest[k] = out[k + 1] /\ k \in Nat
      /\ \A i \in 1..Len(out) : i = 1 \/ (i - 1 \in 1..Len(rest) /\ rest[i - 1] = out[i])
      /\ rest # <<>> => Last(rest) = Last(out)
  BY <1>2, RestIs
<1>4. Growing(out)
  BY <1>1 DEF Growing
<1>5. /\ \A k \in 1..Len(out) : out[1].seq <= out[k].seq /\ out[k].seq <= Last(out).seq
      /\ Last(out).seq \in Nat /\ x.seq \in Nat /\ n < x.seq
  BY <1>1, <1>3, <1>4, GrowingEnds, EventFields
<1>6. \A e \in Known : e.seq \in Nat
  BY LinesAre, EventFields DEF JournalInv
<1>7. ASSUME NEW i \in 1..Len(rest)
      PROVE  /\ x.seq < rest[i].seq /\ rest[i].seq <= nextSeq /\ rest[i].run <= runs
             /\ \A j \in 1..Len(rest) : i < j => rest[i].seq < rest[j].seq
             /\ d \in Readers /\ rest[i].kind = "end" /\ rest[i].run = run => ~Active
  <2>1. i + 1 \in 1..Len(out) /\ rest[i] = out[i + 1] /\ 1 < i + 1
    BY <1>3
  <2>2. x.seq < rest[i].seq
    BY <2>1, <1>1, <1>3
  <2>3. ASSUME NEW j \in 1..Len(rest), i < j PROVE rest[i].seq < rest[j].seq
    <3>1. j + 1 \in 1..Len(out) /\ rest[j] = out[j + 1] /\ i + 1 < j + 1
      BY <2>3, <1>3
    <3> QED BY <2>1, <3>1, <1>1
  <2>4. /\ rest[i].seq <= nextSeq /\ rest[i].run <= runs
        /\ d \in Readers /\ rest[i].kind = "end" /\ rest[i].run = run => ~Active
    BY <2>1, <1>1
  <2> QED BY <2>2, <2>3, <2>4
<1>8. ASSUME rest # <<>>, NEW e \in Known, x.seq < e.seq, e.seq <= Last(rest).seq
      PROVE  \E i \in 1..Len(rest) : rest[i] = e
  <2>1. n < e.seq /\ e.seq <= Last(out).seq
    BY <1>8, <1>3, <1>5, <1>6
  <2>2. PICK i \in 1..Len(out) : out[i] = e
    BY <2>1, <1>1
  <2>3. i # 1
    BY <2>2, <1>3, <1>5, <1>8
  <2> QED BY <2>2, <2>3, <1>3
<1>9. OutSound(d, st, rest, x.seq)
  BY <1>2, <1>7, <1>8 DEF OutSound
<1>10. ASSUME NEW e \in Known, e.seq <= x.seq, d \in watchers => IsChild(e)
       PROVE  e \in h
  <2>1. CASE e.seq <= n
    BY <2>1, <1>10
  <2>2. CASE ~(e.seq <= n)
    <3>1. n < e.seq /\ e.seq <= Last(out).seq
      BY <2>2, <1>3, <1>5, <1>6, <1>10
    <3>2. PICK i \in 1..Len(out) : out[i] = e
      BY <3>1, <1>1
    <3>3. i = 1
      <4> SUFFICES ASSUME 1 < i PROVE FALSE
        BY <3>2
      <4>1. out[1].seq < out[i].seq
        BY <3>2, <1>1, <1>3
      <4> QED BY <4>1, <3>2, <1>3, <1>5, <1>6, <1>10
    <3>4. e = x
      BY <3>2, <3>3, <1>3
    <3> QED BY <3>4, <1>2, <1>10
  <2> QED BY <2>1, <2>2
<1> QED BY <1>2, <1>9, <1>10

(* An event is sent. *)
LEMMA SendKeeps ==
  ASSUME Inv, NEW d \in Clients, Send(d)
  PROVE  Inv'
<1>1. PICK n \in Nat, out \in Seq(Event) : n = cursor[d] /\ out = pending[d]
  BY ClientFacts
<1>2. Holds(d, stream[d], out, asked[d], n, got[d])
  BY HoldsNow, <1>1
<1>3. PICK x : x = Head(out)
  OBVIOUS
<1>4. PICK h : h = got[d] \cup (IF d \in Readers \/ IsChild(x) THEN {x} ELSE {})
  OBVIOUS
<1>5. /\ stream[d] = "send" /\ cursor' = [cursor EXCEPT ![d] = x.seq]
      /\ asked' = asked
  BY <1>1, <1>3 DEF Send
<1>6. out # <<>> /\ OutSound(d, "send", out, n)
  BY <1>2, <1>5 DEF Holds, OutSound
<1>7. /\ ClientType
      /\ stream \in [Clients -> {"off", "ask", "look", "send", "asleep", "over"}]
      /\ pending \in [Clients -> Seq(Event)] /\ asked \in [Clients -> BOOLEAN]
      /\ cursor \in [Clients -> 0..MaxSeq] /\ got \in [Clients -> SUBSET Event]
      /\ (d \in watchers <=> d \notin Readers)
      /\ \A e \in got[d] : e.run <= runs
  BY ClientFacts
<1>8. got' = [got EXCEPT ![d] = h]
  BY <1>1, <1>3, <1>4, <1>7 DEF Send
<1>9. ServerStays
  BY ServerAlone DEF Send
<1>10. x \in Event /\ Tail(out) \in Seq(Event) /\ 1 \in 1..Len(out) /\ x = out[1]
  <2>1. 1 \in 1..Len(out)
    BY <1>6
  <2> QED BY <2>1, <1>3, <1>6, RestIs
<1>11. /\ x.seq \in 0..MaxSeq /\ n < x.seq /\ x.seq <= nextSeq /\ x.run <= runs
       /\ d \in Readers /\ x.kind = "end" /\ x.run = run => ~Active
  BY <1>6, <1>10, EventFields DEF OutSound
<1>12. loaded /\ (d \in watchers => sub # "none")
  BY <1>2, <1>5 DEF Holds, Reached, Watches
<1>13. PICK rest, st :
         /\ \/ /\ d \in Readers /\ x.kind = "end" /\ rest = <<>> /\ st = "over"
            \/ /\ rest = Tail(out)
               /\ st = IF rest # <<>> THEN "send" ELSE IF d \in Readers THEN "look" ELSE "ask"
         /\ pending' = [pending EXCEPT ![d] = rest] /\ stream' = [stream EXCEPT ![d] = st]
  <2>1. CASE d \in Readers /\ x.kind = "end"
    <3>1. pending' = [pending EXCEPT ![d] = <<>>] /\ stream' = [stream EXCEPT ![d] = "over"]
      BY <2>1, <1>1, <1>3 DEF Send
    <3> QED BY <2>1, <3>1
  <2>2. CASE ~(d \in Readers /\ x.kind = "end")
    <3>1. /\ pending' = [pending EXCEPT ![d] = Tail(@)]
          /\ stream' = IF Tail(out) # <<>> THEN stream
                       ELSE [stream EXCEPT ![d] = IF d \in Readers THEN "look" ELSE "ask"]
      BY <2>2, <1>1, <1>3 DEF Send
    <3>2. pending' = [pending EXCEPT ![d] = Tail(out)]
      BY <3>1, <1>1, <1>7
    <3>3. stream = [stream EXCEPT ![d] = "send"]
      BY <1>5, <1>7
    <3>4. stream' = [stream EXCEPT ![d] = IF Tail(out) # <<>> THEN "send"
                                          ELSE IF d \in Readers THEN "look" ELSE "ask"]
      BY <3>1, <3>3
    <3> QED BY <3>2, <3>4
  <2> QED BY <2>1, <2>2
<1>14. /\ rest \in Seq(Event) /\ st \in {"over", "send", "look", "ask"}
       /\ (st = "send" <=> rest # <<>>) /\ (st = "over" => d \in Readers)
       /\ (st = "look" => d \in Readers)
  <2>1. CASE d \in Readers /\ x.kind = "end" /\ rest = <<>> /\ st = "over"
    <3>1. rest \in Seq(Event)
      BY <2>1
    <3> QED BY <2>1, <3>1
  <2>2. CASE /\ rest = Tail(out)
             /\ st = IF rest # <<>> THEN "send" ELSE IF d \in Readers THEN "look" ELSE "ask"
    <3>1. rest \in Seq(Event)
      BY <2>2, <1>10
    <3>2. /\ st \in {"over", "send", "look", "ask"} /\ (st = "send" <=> rest # <<>>)
          /\ (st = "over" => d \in Readers) /\ (st = "look" => d \in Readers)
      BY <2>2
    <3> QED BY <3>1, <3>2
  <2> QED BY <1>13, <2>1, <2>2
<1>15. stream'[d] = st /\ pending'[d] = rest /\ asked'[d] = asked[d] /\ cursor'[d] = x.seq
       /\ got'[d] = h
  BY <1>5, <1>7, <1>8, <1>13
<1>16. h \subseteq Event /\ \A e \in h : e \in got[d] \/ e = x
  BY <1>4, <1>7, <1>10
<1>17. ClientType'
  <2>1. stream' \in [Clients -> {"off", "ask", "look", "send", "asleep", "over"}]
    BY <1>7, <1>13, <1>14
  <2>2. pending' \in [Clients -> Seq(Event)]
    BY <1>7, <1>13, <1>14
  <2>3. cursor' \in [Clients -> 0..MaxSeq]
    BY <1>5, <1>7, <1>11
  <2>4. got' \in [Clients -> SUBSET Event]
    BY <1>7, <1>8, <1>16
  <2> QED BY <2>1, <2>2, <2>3, <2>4, <1>5, <1>7, <1>9 DEF ClientType, ServerStays
<1>18. OthersStay(d)
  BY <1>5, <1>7, <1>8, <1>13 DEF OthersStay
<1>19. \A e \in Known : e.seq <= n /\ (d \in watchers => IsChild(e)) => e \in got[d]
  BY <1>2 DEF Holds, Reached
<1>20. /\ OutSound(d, st, rest, x.seq)
       /\ \A e \in Known : e.seq <= x.seq /\ (d \in watchers => IsChild(e)) => e \in h
  <2>1. PICK u : u = IF Tail(out) # <<>> THEN "send" ELSE "look"
    OBVIOUS
  <2>2. u = "send" <=> Tail(out) # <<>>
    BY <2>1
  <2>3. /\ OutSound(d, u, Tail(out), x.seq)
        /\ \A e \in Known : e.seq <= x.seq /\ (d \in watchers => IsChild(e)) => e \in h
    <3>1. got[d] \subseteq h /\ (d \in Readers \/ IsChild(Head(out)) => Head(out) \in h)
      BY <1>3, <1>4
    <3>2. /\ OutSound(d, u, Tail(out), Head(out).seq)
          /\ \A e \in Known :
               e.seq <= Head(out).seq /\ (d \in watchers => IsChild(e)) => e \in h
      <4>1. JournalInv
        BY ServerFacts
      <4> HIDE DEF Inv
      <4> QED BY <2>2, <3>1, <1>6, <1>7, <1>19, <4>1, SentIsSound
    <3> QED BY <3>2, <1>3
  <2>4. CASE rest = <<>>
    BY <2>3, <2>4, <1>14, NothingToSend
  <2>5. CASE rest # <<>>
    <3>1. rest = Tail(out) /\ st = "send" /\ u = "send"
      BY <2>1, <2>5, <1>13
    <3> QED BY <3>1, <2>3
  <2> QED BY <2>3, <2>4, <2>5
<1>21. Reached(d, st, x.seq, h)
  <2>1. x.seq <= NumberedTo
    BY <1>11, <1>12 DEF NumberedTo
  <2> QED BY <2>1, <1>12, <1>20 DEF Reached
<1>22. Watches(d, st, asked[d], h)
  BY <1>7, <1>12, <1>14 DEF Watches
<1>23. InTime(d, st, x.seq, h)
  <2>1. d \in Readers => \A e \in got[d] : e.kind = "end" /\ e.run = run => ~Active
    BY <1>2 DEF Holds, InTime
  <2>2. d \in Readers => \A e \in h : e.kind = "end" /\ e.run = run => ~Active
    BY <2>1, <1>11, <1>16
  <2> QED BY <2>2, <1>14 DEF InTime
<1>24. Holds(d, stream'[d], pending'[d], asked'[d], cursor'[d], got'[d])
  BY <1>15, <1>20, <1>21, <1>22, <1>23 DEF Holds
<1>25. \A e \in got'[d] : e.run <= runs
  BY <1>7, <1>11, <1>15, <1>16
<1> QED BY <1>9, <1>17, <1>18, <1>24, <1>25, StreamKeeps

-----------------------------------------------------------------------------
(* The theorems. *)

(* A session begins with an empty journal, and with no stream served. *)
LEMMA InitInv ==
  ASSUME Init
  PROVE  Inv
<1>1. /\ file = <<>> /\ partial = FALSE
      /\ loaded = TRUE /\ nextSeq = 0 /\ tail = <<>> /\ truncated = FALSE /\ marks = {}
      /\ run = 0 /\ phase = "none" /\ runs = 0
      /\ sub = "none" /\ buffered = FALSE /\ live = FALSE
      /\ watchers \in SUBSET Clients
      /\ stream = [c \in Clients |-> "off"] /\ pending = [c \in Clients |-> <<>>]
      /\ asked = [c \in Clients |-> FALSE]
      /\ cursor = [c \in Clients |-> 0] /\ got = [c \in Clients |-> {}]
  BY DEF Init
<1>2. JournalType /\ ServerType
  <2>1. file \in Seq(Event \cup {Torn}) /\ tail \in Seq(Event) /\ Len(tail) = 0
    BY <1>1
  <2>2. nextSeq \in 0..MaxSeq /\ run \in 0..MaxRuns /\ runs \in 0..MaxRuns /\ 0 <= CacheLimit
    BY <1>1, LimitAssumption
  <2>3. JournalType
    BY <1>1, <2>1, <2>2 DEF JournalType
  <2>4. ServerType
    BY <1>1, <2>2 DEF ServerType
  <2> QED BY <2>3, <2>4
<1>3. ClientType
  <2>1. pending \in [Clients -> Seq(Event)] /\ got \in [Clients -> SUBSET Event]
    BY <1>1
  <2>2. cursor \in [Clients -> 0..MaxSeq]
    BY <1>1, LimitAssumption
  <2>3. /\ stream \in [Clients -> {"off", "ask", "look", "send", "asleep", "over"}]
        /\ asked \in [Clients -> BOOLEAN]
    BY <1>1
  <2> QED BY <1>1, <2>1, <2>2, <2>3 DEF ClientType
<1>4. (\A i \in 1..Len(file) : FALSE) /\ (\A i \in 1..Len(tail) : FALSE) /\ Len(file) = 0
  BY <1>1
<1>5. Journaled = {} /\ Known = {}
  BY <1>4 DEF Journaled, Known
<1>6. JournalSound /\ NumbersSound /\ TailSound
  BY <1>1, <1>4, <1>5, LimitAssumption
     DEF JournalSound, JournalOrdered, MarksSplit, NumbersSound, TailSound, TailOrdered,
         TailComplete, LostKnown
<1>7. RunsSound
  BY <1>1, <1>5 DEF RunsSound
<1>8. SubagentSound
  BY <1>1, <1>5 DEF SubagentSound
<1>9. ASSUME NEW c \in Clients PROVE ClientSound(c) /\ Timely(c)
  <2>1. /\ stream[c] = "off" /\ pending[c] = <<>> /\ cursor[c] = 0 /\ got[c] = {}
    BY <1>1
  <2>2. PendingSound(c)
    <3>1. \A i \in 1..Len(pending[c]) : FALSE
      BY <2>1
    <3> QED BY <2>1, <3>1 DEF PendingSound
  <2>3. WatcherSound(c)
    BY <2>1 DEF WatcherSound
  <2>4. cursor[c] <= NumberedTo
    BY <1>1, <2>1 DEF NumberedTo
  <2> QED BY <1>5, <2>1, <2>2, <2>3, <2>4 DEF ClientSound, Timely
<1> QED BY <1>2, <1>3, <1>6, <1>7, <1>8, <1>9 DEF Inv, JournalInv

(* A step that changes nothing keeps it. *)
LEMMA StutterKeeps ==
  ASSUME Inv, UNCHANGED vars
  PROVE  Inv'
<1>1. /\ journalVars' = journalVars /\ loaded' = loaded /\ cacheVars' = cacheVars
      /\ runVars' = runVars /\ subVars' = subVars /\ clientVars' = clientVars
  BY DEF vars
<1>2. /\ watchers' = watchers /\ stream' = stream /\ pending' = pending /\ asked' = asked
      /\ cursor' = cursor /\ got' = got
  BY <1>1 DEF clientVars
<1>3. ServerStays
  BY <1>1, <1>2, ServerAlone
<1>4. \A c \in Clients : Holds(c, stream'[c], pending'[c], asked'[c], cursor'[c], got'[c])
  BY <1>2, HoldsNow
<1>5. \A c \in Clients : ClientSound(c)' /\ Timely(c)'
  BY <1>3, <1>4, HoldsNext
<1>6. ServerType' /\ JournalInv'
  BY <1>3, ServerFacts DEF ServerType, ServerStays
<1>7. ClientType'
  BY <1>2 DEF Inv, ClientType
<1>8. RunsSound'
  BY <1>2, <1>3 DEF Inv, RunsSound, ServerStays
<1>9. SubagentSound'
  <2>1. \A e : IsChild(e)' <=> IsChild(e)
    BY DEF IsChild
  <2> QED BY <2>1, <1>3, ServerFacts DEF SubagentSound, ServerStays
<1> QED BY <1>5, <1>6, <1>7, <1>8, <1>9 DEF Inv

(* Every step keeps it. *)
LEMMA NextInv ==
  ASSUME Inv, [Next]_vars
  PROVE  Inv'
<1>1. CASE Running
  <2>1. CASE Accept("running") \/ Accept("compacting")
    BY <2>1, AcceptKeeps
  <2> QED BY <1>1, <2>1, AbortKeeps, TextKeeps DEF Running
<1>2. CASE Ending
  BY <1>2, EndKeeps, CommitKeeps, DoneKeeps DEF Ending
<1>3. CASE Subagent
  BY <1>3, SubQuietKeeps, SubPublishKeeps DEF Subagent
<1>4. ASSUME NEW c \in Clients, Serve(c) \/ LookError(c) \/ Heartbeat(c) \/ Drop(c) PROVE Inv'
  <2>1. CASE Serve(c)
    BY <2>1, ConnectKeeps, AskKeeps, LookKeeps, SendKeeps DEF Serve
  <2> QED BY <1>4, <2>1, LookErrorKeeps, HeartbeatKeeps, DropKeeps
<1>5. ASSUME NEW keep \in SUBSET (0..MaxRuns), Edit(keep) PROVE Inv'
  BY <1>5, EditKeeps
<1>6. CASE Evict \/ Crash \/ Load
  BY <1>6, EvictKeeps, CrashKeeps, LoadKeeps
<1>7. CASE UNCHANGED vars
  BY <1>7, StutterKeeps
<1> QED BY <1>1, <1>2, <1>3, <1>4, <1>5, <1>6, <1>7 DEF Next

(* The inductive invariant of the journal, its tail, and the streams that read them: it     *)
(* holds in every state, for every number of clients, every limit of the tail, every mark    *)
(* interval, and with failed writes or without.                                               *)
THEOREM InvariantHolds == Spec => []IInv
<1>1. Init => Inv
  BY InitInv
<1>2. Inv /\ [Next]_vars => Inv'
  BY NextInv
<1>3. Inv => IInv
  BY InvIs
<1> QED BY <1>1, <1>2, <1>3, PTL DEF Spec

(* The variables keep their types; the tail is never longer than maxCachedEvents, and no   *)
(* cursor is beyond the numbers there are.                                                   *)
THEOREM TypeCorrect == Spec => []TypeOK
<1>1. IInv => TypeOK
  BY DEF IInv
<1> QED BY <1>1, InvariantHolds, PTL

(* Whatever is appended, lost in a failed write, edited away or read again, the lines of    *)
(* the journal stay in the order of their numbers, and every mark splits them rightly: a     *)
(* reader that starts at a mark misses nothing.                                               *)
THEOREM JournalStaysSound == Spec => []JournalSound
<1>1. IInv => JournalSound
  BY DEF IInv
<1> QED BY <1>1, InvariantHolds, PTL

(* A client has received every event of the journal up to its cursor, through the tail or   *)
(* the file, across reconnections, edits, evictions and restarts.                             *)
THEOREM NothingIsSkipped == Spec => []NothingSkipped
<1>1. IInv => NothingSkipped
  BY DEF IInv, ClientsSound, ClientSound, NothingSkipped, Known
<1> QED BY <1>1, InvariantHolds, PTL

(* The end of a run is shown only once the run let go of the session, and a stream sleeps   *)
(* only while there is nothing to show.                                                       *)
THEOREM StreamsStayTimely == Spec => []StreamsAreTimely
<1>1. IInv => StreamsAreTimely
  BY DEF IInv
<1> QED BY <1>1, InvariantHolds, PTL

(* The stream of a subagent ends by itself only when the subagent is over and the client    *)
(* has everything the journal holds of it.                                                    *)
THEOREM WatchersAlwaysSeeAll == Spec => []WatchersSeeAll
<1>1. IInv => WatchersSeeAll
  <2> SUFFICES ASSUME IInv, NEW c \in watchers, stream[c] = "over"
               PROVE  ~live /\ {e \in Journaled : IsChild(e)} \subseteq got[c]
    BY DEF WatchersSeeAll
  <2>1. c \in Clients
    BY DEF IInv, TypeOK
  <2>2. WatcherSound(c)
    BY <2>1 DEF IInv, ClientsSound, ClientSound
  <2> QED BY <2>2 DEF WatcherSound, Known
<1> QED BY <1>1, InvariantHolds, PTL
=============================================================================
