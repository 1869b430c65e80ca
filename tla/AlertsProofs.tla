---------------------------- MODULE AlertsProofs ----------------------------
(***************************************************************************)
(* Proofs about Alerts: no repeat and no alert is lost from the books, and *)
(* nothing is held back but behind an alert that speaks for it.            *)
(***************************************************************************)
EXTENDS Alerts, FiniteSetTheorems, TLAPS

-----------------------------------------------------------------------------
(* The repeats that a table of entries holds.                              *)

Entries == [until : Nat, held : Nat]
Pairs(f, ks) == {p \in ks \X (1..MaxRaises) : p[2] <= f[p[1]].held}

\* A set of entries of a finite table holds finitely many repeats.
LEMMA PairsFinite ==
  ASSUME NEW f, NEW ks, IsFiniteSet(ks)
  PROVE  IsFiniteSet(Pairs(f, ks)) /\ Cardinality(Pairs(f, ks)) \in Nat
<1>1. IsFiniteSet(1..MaxRaises)
  BY FS_Interval, AlertsAssumption
<1>2. IsFiniteSet(ks \X (1..MaxRaises))
  BY <1>1, FS_Product
<1>3. Pairs(f, ks) \in SUBSET (ks \X (1..MaxRaises))
  BY DEF Pairs
<1> QED BY <1>2, <1>3, FS_Subset, FS_CardinalityType

\* What the table holds is what a part of it holds and what the rest does.
LEMMA PairsSplit ==
  ASSUME NEW f, NEW ks, IsFiniteSet(ks), NEW some \in SUBSET ks
  PROVE  Cardinality(Pairs(f, ks)) = Cardinality(Pairs(f, some)) + Cardinality(Pairs(f, ks \ some))
<1>1. IsFiniteSet(some) /\ IsFiniteSet(ks \ some)
  BY FS_Subset
<1>2. Pairs(f, ks) = Pairs(f, some) \cup Pairs(f, ks \ some) /\ Pairs(f, some) \cap Pairs(f, ks \ some) = {}
  BY DEF Pairs
<1>3. Cardinality(Pairs(f, some) \cap Pairs(f, ks \ some)) = 0
  BY <1>2, FS_EmptySet
<1>4. /\ IsFiniteSet(Pairs(f, some)) /\ Cardinality(Pairs(f, some)) \in Nat
      /\ IsFiniteSet(Pairs(f, ks \ some)) /\ Cardinality(Pairs(f, ks \ some)) \in Nat
  BY <1>1, PairsFinite
<1>5. Cardinality(Pairs(f, some) \cup Pairs(f, ks \ some))
        = Cardinality(Pairs(f, some)) + Cardinality(Pairs(f, ks \ some)) - Cardinality(Pairs(f, some) \cap Pairs(f, ks \ some))
  BY <1>4, FS_Union
<1> QED BY <1>2, <1>3, <1>4, <1>5

\* Tables that agree on a set of keys hold the same there.
LEMMA PairsAgree ==
  ASSUME NEW f, NEW g, NEW ks, \A k \in ks : f[k].held = g[k].held
  PROVE  Pairs(f, ks) = Pairs(g, ks)
  BY DEF Pairs

\* One entry holds what it counts.
LEMMA PairsOne ==
  ASSUME NEW f, NEW k, f[k].held \in 0..MaxRaises
  PROVE  Cardinality(Pairs(f, {k})) = f[k].held
<1> DEFINE n == f[k].held
<1>1. n \in Nat /\ MaxRaises \in Nat
  BY AlertsAssumption
<1>2. Pairs(f, {k}) = {k} \X (1..n)
  BY <1>1 DEF Pairs
<1>3. IsFiniteSet({k}) /\ Cardinality({k}) = 1
  BY FS_Singleton
<1> HIDE DEF n
<1>4. IsFiniteSet(1..n) /\ Cardinality(1..n) = n
  <2>1. IsFiniteSet(1..n) /\ Cardinality(1..n) = IF 1 > n THEN 0 ELSE n - 1 + 1
    BY <1>1, FS_Interval
  <2> QED BY <1>1, <2>1
<1>5. Cardinality({k} \X (1..n)) = Cardinality({k}) * Cardinality(1..n)
  BY <1>3, <1>4, FS_Product
<1>6. Cardinality(Pairs(f, {k})) = n
  <2>1. Cardinality({k}) * Cardinality(1..n) = 1 * n
    BY <1>3, <1>4
  <2>2. 1 * n = n
    BY <1>1
  <2> QED BY <1>2, <1>5, <2>1, <2>2
<1> QED BY <1>6 DEF n

-----------------------------------------------------------------------------
(* The suppressor.                                                         *)

\* Its types, its bound, and that the entry of a key lasts as long as the alert that it stands behind.
SuppressInv ==
  /\ setup \in Setups /\ now \in 0..MaxNow /\ window \in Windows /\ reloads \in 0..MaxReloads
  /\ IsFiniteSet(DOMAIN seen) /\ DOMAIN seen \subseteq Keys /\ Cardinality(DOMAIN seen) <= MaxKeys
  /\ \A k \in DOMAIN seen : seen[k] \in Entries /\ seen[k].held <= raised /\ seen[k].until <= spoken[k]
  /\ spoken \in [Keys -> Nat]
  /\ suppressed \in Nat /\ raised \in Nat /\ passed \in Nat /\ told \in Nat /\ forgot \in Nat
  /\ raised <= setup.raises
  /\ RepeatsAccounted

\* The constants of a run.
LEMMA SetupType ==
  ASSUME setup \in Setups
  PROVE  /\ Sinks \subseteq Webhooks \cup Locals /\ Windows \subseteq Nat /\ setup.raises \in 0..MaxRaises
         /\ MaxKeys \in Nat \ {0} /\ QueueSize \in Nat \ {0} /\ Tries \in Nat \ {0} /\ MaxRaises \in Nat
         /\ MaxNow \in Nat /\ MaxReloads \in Nat
  BY AlertsAssumption DEF Sinks, Windows

\* What is held, in terms of pairs.
LEMMA HeldIsPairs ==
  /\ \A ks : Held(ks) = Cardinality(Pairs(seen, ks))
  /\ Held(DOMAIN seen)' = Cardinality(Pairs(seen', DOMAIN seen'))
  BY DEF Held, Pairs

\* Whatever Allow does keeps the books.
LEMMA RaiseInv ==
  ASSUME SuppressInv, NEW k \in Keys, raise(k)
  PROVE  SuppressInv'
<1> USE DEF SuppressInv, RepeatsAccounted
<1>0. /\ window \in Nat /\ now \in Nat /\ MaxRaises \in Nat /\ setup.raises \in 0..MaxRaises /\ MaxKeys \in Nat \ {0}
      /\ raised < setup.raises /\ raised' = raised + 1
      /\ UNCHANGED <<setup, now, window, reloads>> /\ Windows' = Windows
  BY SetupType DEF raise, Windows
<1>1. /\ Cardinality(DOMAIN seen) \in Nat
      /\ Cardinality(Pairs(seen, DOMAIN seen)) \in Nat
      /\ suppressed = told + forgot + Cardinality(Pairs(seen, DOMAIN seen))
  BY FS_CardinalityType, PairsFinite, HeldIsPairs
<1>2. CASE AllowNot(k)
  <2>1. k \in DOMAIN seen /\ seen' = [seen EXCEPT ![k] = HeldBack(@)] /\ suppressed' = suppressed + 1
        /\ UNCHANGED <<passed, spoken, told, forgot>>
    BY <1>2 DEF AllowNot
  <2>2. DOMAIN seen' = DOMAIN seen /\ seen'[k] = [seen[k] EXCEPT !.held = @ + 1]
        /\ \A j \in DOMAIN seen \ {k} : seen'[j] = seen[j]
    BY <2>1 DEF HeldBack
  <2>3. seen'[k] \in Entries /\ seen'[k].held = seen[k].held + 1 /\ seen'[k].until = seen[k].until
    BY <2>1, <2>2 DEF Entries
  <2>4. Pairs(seen', DOMAIN seen) = Pairs(seen, DOMAIN seen) \cup {<<k, seen[k].held + 1>>}
        /\ <<k, seen[k].held + 1>> \notin Pairs(seen, DOMAIN seen)
    <3>1. seen[k].held + 1 \in 1..MaxRaises
      BY <1>0, <2>1 DEF Entries
    <3> QED BY <2>1, <2>2, <2>3, <3>1 DEF Pairs, Entries
  <2>5. Cardinality(Pairs(seen', DOMAIN seen)) = Cardinality(Pairs(seen, DOMAIN seen)) + 1
    BY <2>4, PairsFinite, FS_AddElement
  <2>6. RepeatsAccounted'
    BY <1>0, <1>1, <2>1, <2>2, <2>5, HeldIsPairs
  <2>7. \A j \in DOMAIN seen' : seen'[j] \in Entries /\ seen'[j].held <= raised' /\ seen'[j].until <= spoken'[j]
    BY <1>0, <2>1, <2>2, <2>3 DEF Entries
  <2> QED BY <1>0, <2>1, <2>2, <2>6, <2>7
<1>3. CASE AllowAgain(k)
  <2>1. k \in DOMAIN seen /\ seen' = [seen EXCEPT ![k] = Fresh] /\ told' = told + seen[k].held /\ window > 0
        /\ passed' = passed + 1 /\ spoken' = [spoken EXCEPT ![k] = now + window] /\ UNCHANGED <<suppressed, forgot>>
    BY <1>0, <1>3 DEF AllowAgain, Passed
  <2>2. DOMAIN seen' = DOMAIN seen /\ seen'[k] = Fresh /\ \A j \in DOMAIN seen \ {k} : seen'[j] = seen[j]
    BY <2>1
  <2>3. Fresh \in Entries /\ Fresh.held = 0 /\ Fresh.until = now + window
    BY <1>0 DEF Fresh, Entries
  <2>4. seen[k].held \in 0..MaxRaises
    BY <1>0, <2>1 DEF Entries
  <2>5. Cardinality(Pairs(seen, DOMAIN seen))
          = seen[k].held + Cardinality(Pairs(seen, DOMAIN seen \ {k}))
    <3>1. {k} \in SUBSET DOMAIN seen
      BY <2>1
    <3>2. Cardinality(Pairs(seen, DOMAIN seen))
            = Cardinality(Pairs(seen, {k})) + Cardinality(Pairs(seen, DOMAIN seen \ {k}))
      BY <3>1, PairsSplit
    <3> QED BY <2>4, <3>2, PairsOne
  <2>6. Cardinality(Pairs(seen', DOMAIN seen)) = Cardinality(Pairs(seen, DOMAIN seen \ {k}))
    <3>1. Cardinality(Pairs(seen', DOMAIN seen))
            = Cardinality(Pairs(seen', {k})) + Cardinality(Pairs(seen', DOMAIN seen \ {k}))
      <4>1. {k} \in SUBSET DOMAIN seen
        BY <2>1
      <4> QED BY <4>1, PairsSplit
    <3>2. Cardinality(Pairs(seen', {k})) = 0
      <4>1. seen'[k].held = 0 /\ seen'[k].held \in 0..MaxRaises
        BY <1>0, <2>2, <2>3
      <4> QED BY <4>1, PairsOne
    <3>3. Pairs(seen', DOMAIN seen \ {k}) = Pairs(seen, DOMAIN seen \ {k})
      BY <2>2, PairsAgree
    <3>4. Cardinality(Pairs(seen, DOMAIN seen \ {k})) \in Nat
      BY PairsFinite, FS_RemoveElement
    <3> QED BY <3>1, <3>2, <3>3, <3>4
  <2>7. Cardinality(Pairs(seen, DOMAIN seen \ {k})) \in Nat
    BY PairsFinite, FS_RemoveElement
  <2>8. RepeatsAccounted'
    BY <1>0, <1>1, <2>1, <2>2, <2>4, <2>5, <2>6, <2>7, HeldIsPairs
  <2>9. \A j \in DOMAIN seen' : seen'[j] \in Entries /\ seen'[j].held <= raised' /\ seen'[j].until <= spoken'[j]
    BY <1>0, <2>1, <2>2, <2>3 DEF Entries
  <2>10. spoken' \in [Keys -> Nat] /\ told' \in Nat
    BY <1>0, <2>1, <2>4
  <2> QED BY <1>0, <2>1, <2>2, <2>8, <2>9, <2>10
<1>4. CASE AllowNew(k)
  <2> DEFINE kept == DOMAIN seen \ Evicted
             rest == [j \in kept |-> seen[j]]
  <2>1. /\ k \notin DOMAIN seen /\ window > 0
        /\ seen' = (IF Cardinality(kept) >= MaxKeys THEN rest ELSE Put(rest, k, Fresh))
        /\ forgot' = forgot + Held(Evicted)
        /\ passed' = passed + 1 /\ spoken' = [spoken EXCEPT ![k] = now + window] /\ UNCHANGED <<suppressed, told>>
    BY <1>0, <1>4 DEF AllowNew, Passed
  <2>2. Fresh \in Entries /\ Fresh.held = 0 /\ Fresh.until = now + window
    BY <1>0 DEF Fresh, Entries
  <2>3. Evicted \subseteq DOMAIN seen /\ kept \subseteq DOMAIN seen /\ DOMAIN seen \ Evicted = kept
    BY DEF Evicted, Expired
  <2>4. IsFiniteSet(kept) /\ IsFiniteSet(Evicted) /\ Cardinality(kept) \in Nat
    BY <2>3, FS_Subset, FS_CardinalityType
  <2>5. /\ Cardinality(Pairs(seen, DOMAIN seen)) = Held(Evicted) + Cardinality(Pairs(seen, kept))
        /\ Held(Evicted) \in Nat /\ Cardinality(Pairs(seen, kept)) \in Nat
    BY <2>3, <2>4, PairsSplit, PairsFinite, HeldIsPairs
  <2> HIDE DEF kept
  <2>6. CASE Cardinality(kept) >= MaxKeys
    <3>1. DOMAIN seen' = kept /\ \A j \in kept : seen'[j] = seen[j]
      BY <2>1, <2>6
    <3>2. Pairs(seen', kept) = Pairs(seen, kept)
      BY <3>1, PairsAgree
    <3>3. Cardinality(kept) <= Cardinality(DOMAIN seen)
      BY <2>3, FS_Subset
    <3>4. RepeatsAccounted'
      BY <1>0, <1>1, <2>1, <2>5, <3>1, <3>2, HeldIsPairs
    <3>5. \A j \in DOMAIN seen' : seen'[j] \in Entries /\ seen'[j].held <= raised' /\ seen'[j].until <= spoken'[j]
      BY <1>0, <2>1, <2>3, <3>1 DEF Entries
    <3>6. spoken' \in [Keys -> Nat] /\ forgot' \in Nat /\ Cardinality(DOMAIN seen') <= MaxKeys
      BY <1>0, <1>1, <2>1, <2>4, <2>5, <3>1, <3>3
    <3> QED BY <1>0, <2>1, <2>3, <2>4, <3>1, <3>4, <3>5, <3>6
  <2>7. CASE ~(Cardinality(kept) >= MaxKeys)
    <3>1. DOMAIN seen' = kept \cup {k} /\ seen'[k] = Fresh /\ \A j \in kept : seen'[j] = seen[j]
      BY <2>1, <2>3, <2>7 DEF Put
    <3>2. IsFiniteSet(kept \cup {k}) /\ Cardinality(kept \cup {k}) = Cardinality(kept) + 1
      BY <2>1, <2>3, <2>4, FS_AddElement
    <3>3. Cardinality(Pairs(seen', kept \cup {k})) = Cardinality(Pairs(seen, kept))
      <4>1. Cardinality(Pairs(seen', kept \cup {k}))
              = Cardinality(Pairs(seen', {k})) + Cardinality(Pairs(seen', (kept \cup {k}) \ {k}))
        BY <3>2, PairsSplit
      <4>2. Cardinality(Pairs(seen', {k})) = 0
        BY <1>0, <2>2, <3>1, PairsOne
      <4>3. (kept \cup {k}) \ {k} = kept
        BY <2>1, <2>3
      <4>4. Pairs(seen', kept) = Pairs(seen, kept)
        BY <3>1, PairsAgree
      <4>5. Cardinality(Pairs(seen', (kept \cup {k}) \ {k})) = Cardinality(Pairs(seen, kept))
        BY <4>3, <4>4
      <4> QED BY <2>5, <4>1, <4>2, <4>5
    <3>4. RepeatsAccounted'
      <4>1. Held(DOMAIN seen)' = Cardinality(Pairs(seen, kept))
        BY <3>1, <3>3, HeldIsPairs
      <4> QED BY <1>0, <1>1, <2>1, <2>5, <4>1
    <3>5. \A j \in DOMAIN seen' : seen'[j] \in Entries /\ seen'[j].held <= raised' /\ seen'[j].until <= spoken'[j]
      <4>1. seen'[k] \in Entries /\ seen'[k].held <= raised' /\ seen'[k].until <= spoken'[k]
        BY <1>0, <2>1, <2>2, <3>1
      <4>2. \A j \in kept : j \in Keys /\ j # k /\ spoken'[j] = spoken[j] /\ raised' >= raised
        BY <1>0, <2>1, <2>3
      <4> QED BY <1>0, <2>3, <3>1, <4>1, <4>2 DEF Entries
    <3>6. spoken' \in [Keys -> Nat] /\ forgot' \in Nat /\ Cardinality(DOMAIN seen') <= MaxKeys
      BY <1>0, <2>1, <2>4, <2>5, <2>7, <3>1, <3>2
    <3>7. IsFiniteSet(DOMAIN seen') /\ DOMAIN seen' \subseteq Keys
      BY <2>3, <3>1, <3>2
    <3>8. passed' \in Nat /\ raised' \in Nat /\ raised' <= setup'.raises /\ suppressed' \in Nat /\ told' \in Nat
      BY <1>0, <2>1
    <3> QED BY <1>0, <3>4, <3>5, <3>6, <3>7, <3>8
  <2> QED BY <2>6, <2>7
<1>5. CASE AllowAll(k)
  <2>1. UNCHANGED <<seen, told, forgot, spoken, suppressed>> /\ passed' = passed + 1
    BY <1>5 DEF AllowAll, Passed
  <2>2. RepeatsAccounted'
    BY <1>0, <1>1, <2>1, HeldIsPairs
  <2> QED BY <1>0, <2>1, <2>2 DEF Entries
<1> QED BY <1>2, <1>3, <1>4, <1>5 DEF raise

\* Whatever else happens leaves the suppressor alone.
LEMMA SuppressStep == SuppressInv /\ [Next]_vars => SuppressInv'
<1> SUFFICES ASSUME SuppressInv, [Next]_vars PROVE SuppressInv'
  OBVIOUS
<1>1. ASSUME UNCHANGED suppressor, UNCHANGED setup, now' \in 0..MaxNow, window' \in Windows, reloads' \in 0..MaxReloads
      PROVE  SuppressInv'
  BY <1>1 DEF SuppressInv, RepeatsAccounted, Held, suppressor, Windows
<1>2. CASE UNCHANGED vars
  BY <1>1, <1>2 DEF vars, SuppressInv
<1>3. ASSUME NEW w \in Windows, Reload(w) PROVE SuppressInv'
  BY <1>1, <1>3, SetupType DEF Reload, SuppressInv
<1>4. CASE Tick
  BY <1>1, <1>4, SetupType DEF Tick, SuppressInv
<1>5. ASSUME NEW e \in emitting, Emit(e) PROVE SuppressInv'
  BY <1>1, <1>5 DEF Emit, SuppressInv
<1>6. ASSUME NEW s \in Sinks, Work(s) PROVE SuppressInv'
  BY <1>1, <1>6 DEF Work, Take, PostDone, PostRetry, PauseOver, PauseCut, Sending, SuppressInv
<1>7. CASE Close \/ GraceOver \/ Closed
  BY <1>1, <1>7 DEF Close, GraceOver, Closed, SuppressInv
<1> QED BY <1>2, <1>3, <1>4, <1>5, <1>6, <1>7, RaiseInv DEF Next

LEMMA SuppressInit == Init => SuppressInv
<1> SUFFICES ASSUME Init PROVE SuppressInv
  OBVIOUS
<1>1. DOMAIN seen = {} /\ IsFiniteSet(DOMAIN seen) /\ Cardinality(DOMAIN seen) = 0
  BY FS_EmptySet DEF Init
<1>2. Pairs(seen, DOMAIN seen) = {}
  BY <1>1 DEF Pairs
<1>3. Held(DOMAIN seen) = 0
  BY <1>2, HeldIsPairs, FS_EmptySet
<1>4. setup \in Setups
  BY DEF Init
<1> QED BY <1>1, <1>3, <1>4, SetupType DEF Init, SuppressInv, RepeatsAccounted

-----------------------------------------------------------------------------
(* The queue of a sink.                                                    *)

NoneTwice(q) == \A i, j \in 1..Len(q) : i # j => q[i] # q[j]

\* An alert that is appended is in the queue, once.
LEMMA QueueAppend ==
  ASSUME NEW q \in Seq(Nat), NEW e \in Nat
  PROVE  /\ Append(q, e) \in Seq(Nat) /\ Len(Append(q, e)) = Len(q) + 1
         /\ ToSet(Append(q, e)) = ToSet(q) \cup {e}
         /\ NoneTwice(q) /\ e \notin ToSet(q) => NoneTwice(Append(q, e))
<1>1. Append(q, e) \in Seq(Nat) /\ Len(Append(q, e)) = Len(q) + 1 /\ Len(q) \in Nat
      /\ Append(q, e)[Len(q) + 1] = e /\ \A i \in 1..Len(q) : Append(q, e)[i] = q[i]
  OBVIOUS
<1>2. DOMAIN q = 1..Len(q) /\ DOMAIN Append(q, e) = 1..(Len(q) + 1)
  BY <1>1
<1>3. ToSet(Append(q, e)) = ToSet(q) \cup {e}
  BY <1>1, <1>2 DEF ToSet
<1>4. ASSUME NoneTwice(q), e \notin ToSet(q) PROVE NoneTwice(Append(q, e))
  <2>1. \A i \in 1..Len(q) : q[i] # e
    BY <1>2, <1>4 DEF ToSet
  <2> QED BY <1>1, <1>4, <2>1 DEF NoneTwice
<1> QED BY <1>1, <1>3, <1>4

\* The one that is taken leaves it.
LEMMA QueueTake ==
  ASSUME NEW q \in Seq(Nat), q # <<>>
  PROVE  /\ Head(q) \in Nat /\ Tail(q) \in Seq(Nat) /\ Len(Tail(q)) = Len(q) - 1
         /\ ToSet(q) = {Head(q)} \cup ToSet(Tail(q))
         /\ NoneTwice(q) => NoneTwice(Tail(q)) /\ Head(q) \notin ToSet(Tail(q))
<1>1. Len(q) \in Nat /\ Len(q) >= 1 /\ Head(q) = q[1] /\ Head(q) \in Nat /\ Tail(q) \in Seq(Nat) /\ Len(Tail(q)) = Len(q) - 1
      /\ \A i \in 1..(Len(q) - 1) : Tail(q)[i] = q[i + 1]
  OBVIOUS
<1>2. DOMAIN q = 1..Len(q) /\ DOMAIN Tail(q) = 1..(Len(q) - 1)
  BY <1>1
<1>3. ToSet(q) = {Head(q)} \cup ToSet(Tail(q))
  <2>1. ASSUME NEW e \in ToSet(q) PROVE e \in {Head(q)} \cup ToSet(Tail(q))
    <3>1. PICK i \in 1..Len(q) : e = q[i]
      BY <1>2 DEF ToSet
    <3>2. CASE i = 1
      BY <1>1, <3>1, <3>2
    <3>3. CASE i # 1
      <4>1. i - 1 \in 1..(Len(q) - 1) /\ Tail(q)[i - 1] = q[i]
        BY <1>1, <3>3
      <4> QED BY <1>2, <3>1, <4>1 DEF ToSet
    <3> QED BY <3>2, <3>3
  <2>2. ASSUME NEW e \in {Head(q)} \cup ToSet(Tail(q)) PROVE e \in ToSet(q)
    <3>1. CASE e = Head(q)
      BY <1>1, <1>2, <3>1 DEF ToSet
    <3>2. CASE e \in ToSet(Tail(q))
      <4>1. PICK i \in 1..(Len(q) - 1) : e = Tail(q)[i]
        BY <1>2, <3>2 DEF ToSet
      <4>2. i + 1 \in 1..Len(q) /\ e = q[i + 1]
        BY <1>1, <4>1
      <4> QED BY <1>2, <4>2 DEF ToSet
    <3> QED BY <3>1, <3>2
  <2> QED BY <2>1, <2>2
<1>4. ASSUME NoneTwice(q) PROVE NoneTwice(Tail(q)) /\ Head(q) \notin ToSet(Tail(q))
  <2>1. NoneTwice(Tail(q))
    BY <1>1, <1>4 DEF NoneTwice
  <2>2. \A i \in 1..(Len(q) - 1) : Tail(q)[i] # Head(q)
    BY <1>1, <1>4 DEF NoneTwice
  <2> QED BY <1>2, <2>1, <2>2 DEF ToSet
<1> QED BY <1>1, <1>3, <1>4

-----------------------------------------------------------------------------
(* The dispatcher.                                                         *)

Jobs == [id : Nat, try : 0..Tries, at : {"idle", "post", "pause"}]
\* What a worker has in its hands is an alert, in an attempt that is not past the last.
Job(b) == b = Idle \/ (b.id # 0 /\ b.try >= 1 /\ b.at \in {"post", "pause"} /\ (b.at = "pause" => b.try < Tries))
Holding(s) == {busy[s].id} \ {0}
Emitted == (1..passed) \ emitting

\* An alert of a sink is at one place, and at some place as long as the dispatcher is open.
OnePlace(s) ==
  /\ ToSet(queue[s]) \cap Holding(s) = {}
  /\ InHand(s) \cap sent[s] = {} /\ InHand(s) \cap failed[s] = {} /\ InHand(s) \cap dropped[s] = {}
  /\ sent[s] \cap failed[s] = {} /\ sent[s] \cap dropped[s] = {} /\ failed[s] \cap dropped[s] = {}
  /\ InHand(s) \cup sent[s] \cup failed[s] \cup dropped[s] \subseteq Emitted
  /\ closing = "open" => InHand(s) \cup sent[s] \cup failed[s] \cup dropped[s] = Emitted

SinkInv(s) == Len(queue[s]) <= QueueSize /\ NoneTwice(queue[s]) /\ Job(busy[s]) /\ OnePlace(s)

DispatchTypes ==
  /\ emitting \subseteq 1..passed
  /\ queue \in [Sinks -> Seq(Nat)] /\ busy \in [Sinks -> Jobs]
  /\ sent \in [Sinks -> SUBSET Nat] /\ failed \in [Sinks -> SUBSET Nat] /\ dropped \in [Sinks -> SUBSET Nat]
  /\ closing \in {"open", "draining", "cutting", "closed"} /\ cancelled \in BOOLEAN

DispatchInv == DispatchTypes /\ (\A s \in Sinks : SinkInv(s)) /\ QuietAfterClose

LEMMA DispatchInit == Init => DispatchInv
<1> SUFFICES ASSUME Init PROVE DispatchInv
  OBVIOUS
<1>1. setup \in Setups /\ Tries \in Nat \ {0} /\ QueueSize \in Nat \ {0}
  BY SetupType DEF Init
<1>2. Idle \in Jobs /\ Idle.id = 0
  BY <1>1 DEF Idle, Jobs
<1>3. DispatchTypes
  <2>1. queue \in [Sinks -> Seq(Nat)] /\ busy \in [Sinks -> Jobs] /\ emitting \subseteq 1..passed
    BY <1>2 DEF Init
  <2>2. sent \in [Sinks -> SUBSET Nat] /\ failed \in [Sinks -> SUBSET Nat] /\ dropped \in [Sinks -> SUBSET Nat]
    BY DEF Init
  <2>3. closing \in {"open", "draining", "cutting", "closed"} /\ cancelled \in BOOLEAN
    BY DEF Init
  <2> QED BY <2>1, <2>2, <2>3 DEF DispatchTypes
<1>4. ASSUME NEW s \in Sinks PROVE SinkInv(s)
  <2>1. queue[s] = <<>> /\ busy[s] = Idle /\ sent[s] = {} /\ failed[s] = {} /\ dropped[s] = {} /\ passed = 0 /\ emitting = {}
    BY <1>4 DEF Init
  <2>2. ToSet(queue[s]) = {} /\ Len(queue[s]) = 0
    BY <2>1 DEF ToSet
  <2>3. Holding(s) = {} /\ Emitted = {} /\ InHand(s) = {}
    BY <1>2, <2>1, <2>2 DEF Holding, Emitted, InHand
  <2> QED BY <1>1, <2>1, <2>2, <2>3 DEF SinkInv, NoneTwice, Job, OnePlace
<1>5. QuietAfterClose
  BY DEF Init, QuietAfterClose
<1> QED BY <1>3, <1>4, <1>5 DEF DispatchInv

\* A detection that passes is an alert that no sink has yet.
LEMMA RaiseDispatch ==
  ASSUME SuppressInv, DispatchInv, NEW k \in Keys, raise(k)
  PROVE  DispatchInv'
<1> USE DEF DispatchInv
<1>1. UNCHANGED <<setup, sinks, closing, cancelled>> /\ passed \in Nat /\ Sinks' = Sinks
  BY DEF raise, SuppressInv, Sinks
<1>2. \/ UNCHANGED <<passed, emitting>>
      \/ passed' = passed + 1 /\ emitting' = IF Sinks = {} THEN emitting ELSE emitting \cup {passed + 1}
  <2>1. AllowNot(k) => UNCHANGED <<passed, emitting>>
    BY DEF AllowNot
  <2>2. Passed(k) => passed' = passed + 1 /\ emitting' = IF Sinks = {} THEN emitting ELSE emitting \cup {passed + 1}
    BY DEF Passed
  <2>3. AllowNot(k) \/ Passed(k)
    BY DEF raise, AllowAgain, AllowNew, AllowAll
  <2> QED BY <2>1, <2>2, <2>3
<1>3. emitting' \subseteq 1..passed' /\ (Sinks # {} => Emitted' = Emitted)
  <2>1. emitting \subseteq 1..passed
    BY DEF DispatchTypes
  <2>2. CASE UNCHANGED <<passed, emitting>>
    BY <2>1, <2>2 DEF Emitted
  <2>3. CASE passed' = passed + 1 /\ emitting' = IF Sinks = {} THEN emitting ELSE emitting \cup {passed + 1}
    <3>1. 1..(passed + 1) = (1..passed) \cup {passed + 1} /\ passed + 1 \notin 1..passed
      BY <1>1
    <3> QED BY <2>1, <2>3, <3>1 DEF Emitted
  <2> QED BY <1>2, <2>2, <2>3
<1>4. DispatchTypes'
  BY <1>1, <1>3 DEF DispatchTypes, sinks
<1>5. ASSUME NEW s \in Sinks PROVE SinkInv(s)'
  <2>1. SinkInv(s) /\ Emitted' = Emitted
    BY <1>3
  <2> QED BY <1>1, <2>1 DEF SinkInv, OnePlace, InHand, Holding, sinks
<1>6. QuietAfterClose'
  BY <1>1 DEF QuietAfterClose, Drained, sinks
<1> QED BY <1>1, <1>4, <1>5, <1>6

\* An emitted alert goes to every sink: into its queue, or among the dropped.
LEMMA EmitDispatch ==
  ASSUME SuppressInv, DispatchInv, NEW e \in emitting, Emit(e)
  PROVE  DispatchInv'
<1> USE DEF DispatchInv
<1>1. /\ e \in emitting /\ emitting' = emitting \ {e} /\ UNCHANGED <<setup, passed, busy, sent, failed, closing, cancelled>>
      /\ passed \in Nat /\ Sinks' = Sinks /\ e \in Nat /\ e # 0 /\ QueueSize \in Nat
  <2>1. e \in emitting /\ emitting' = emitting \ {e} /\ UNCHANGED <<setup, passed, busy, sent, failed, closing, cancelled>>
    BY DEF Emit, suppressor
  <2>2. passed \in Nat /\ e \in 1..passed /\ QueueSize \in Nat
    BY SetupType DEF SuppressInv, DispatchTypes
  <2> QED BY <2>1, <2>2 DEF Sinks
<1>2. Emitted' = Emitted \cup {e} /\ e \notin Emitted
  BY <1>1 DEF Emitted, DispatchTypes
<1>3. CASE closing # "open"
  <2>1. UNCHANGED <<queue, dropped>>
    BY <1>3 DEF Emit
  <2>2. DispatchTypes'
    BY <1>1, <2>1 DEF DispatchTypes
  <2>3. ASSUME NEW s \in Sinks PROVE SinkInv(s)'
    <3>1. SinkInv(s) /\ Emitted \subseteq Emitted' /\ closing' # "open"
      BY <1>1, <1>2, <1>3
    <3> QED BY <1>1, <2>1, <3>1 DEF SinkInv, OnePlace, InHand, Holding
  <2>4. QuietAfterClose'
    BY <1>1, <2>1 DEF QuietAfterClose, Drained
  <2> QED BY <1>1, <2>2, <2>3, <2>4
<1>4. CASE closing = "open"
  <2>1. /\ queue' = [s \in Sinks |-> IF Full(s) THEN queue[s] ELSE Append(queue[s], e)]
        /\ dropped' = [s \in Sinks |-> IF Full(s) THEN dropped[s] \cup {e} ELSE dropped[s]]
    BY <1>4 DEF Emit
  <2>2. DispatchTypes'
    <3>1. queue' \in [Sinks -> Seq(Nat)] /\ dropped' \in [Sinks -> SUBSET Nat]
      BY <1>1, <2>1, QueueAppend DEF DispatchTypes
    <3> QED BY <1>1, <3>1 DEF DispatchTypes
  <2>3. ASSUME NEW s \in Sinks PROVE SinkInv(s)'
    <3>1. SinkInv(s) /\ OnePlace(s) /\ queue[s] \in Seq(Nat) /\ Len(queue[s]) \in Nat
      BY DEF SinkInv, DispatchTypes
    <3>2. e \notin InHand(s) \cup sent[s] \cup failed[s] \cup dropped[s] /\ e \notin ToSet(queue[s]) /\ e \notin Holding(s)
      BY <1>2, <3>1 DEF OnePlace, InHand, Holding
    <3>3. CASE Full(s)
      <4>1. queue'[s] = queue[s] /\ dropped'[s] = dropped[s] \cup {e}
        BY <2>1, <3>3
      <4>2. InHand(s)' = InHand(s) /\ Holding(s)' = Holding(s)
        BY <1>1, <4>1 DEF InHand, Holding
      <4> QED BY <1>1, <1>2, <3>1, <3>2, <4>1, <4>2 DEF SinkInv, OnePlace
    <3>4. CASE ~Full(s)
      <4>1. queue'[s] = Append(queue[s], e) /\ dropped'[s] = dropped[s]
        BY <2>1, <3>4
      <4>2. /\ ToSet(queue'[s]) = ToSet(queue[s]) \cup {e} /\ Len(queue'[s]) = Len(queue[s]) + 1
            /\ NoneTwice(queue'[s])
        BY <1>1, <3>1, <3>2, <4>1, QueueAppend DEF SinkInv
      <4>3. InHand(s)' = InHand(s) \cup {e} /\ Holding(s)' = Holding(s)
        BY <1>1, <4>2 DEF InHand, Holding
      <4>4. Len(queue'[s]) <= QueueSize
        BY <1>1, <3>1, <3>4, <4>2 DEF Full
      <4> QED BY <1>1, <1>2, <3>1, <3>2, <4>1, <4>2, <4>3, <4>4 DEF SinkInv, OnePlace
    <3> QED BY <3>3, <3>4
  <2>4. QuietAfterClose'
    BY <1>1, <1>4 DEF QuietAfterClose
  <2> QED BY <1>1, <2>2, <2>3, <2>4
<1> QED BY <1>3, <1>4

\* A worker's step moves an alert from one place to the next.
LEMMA WorkDispatch ==
  ASSUME SuppressInv, DispatchInv, NEW s \in Sinks, Work(s)
  PROVE  DispatchInv'
<1> USE DEF DispatchInv
<1>1. /\ UNCHANGED <<setup, passed, emitting, dropped, closing, cancelled>> /\ Sinks' = Sinks /\ Emitted' = Emitted
      /\ Tries \in Nat \ {0} /\ QueueSize \in Nat
  BY SetupType DEF Work, Take, PostDone, PostRetry, PauseOver, PauseCut, Sending, suppressor, SuppressInv, Sinks, Emitted
<1>2. Idle \in Jobs /\ Idle.id = 0 /\ Idle.at = "idle"
  BY <1>1 DEF Idle, Jobs
<1>3. SinkInv(s) /\ OnePlace(s) /\ Job(busy[s]) /\ busy[s] \in Jobs /\ queue[s] \in Seq(Nat) /\ Len(queue[s]) \in Nat
  BY DEF SinkInv, DispatchTypes
\* It is enough to look at the sink itself.
<1>4. ASSUME /\ queue' \in [Sinks -> Seq(Nat)] /\ busy' \in [Sinks -> Jobs]
             /\ sent' \in [Sinks -> SUBSET Nat] /\ failed' \in [Sinks -> SUBSET Nat]
             /\ \A t \in Sinks \ {s} : queue'[t] = queue[t] /\ busy'[t] = busy[t] /\ sent'[t] = sent[t] /\ failed'[t] = failed[t],
             SinkInv(s)', closing # "closed"
      PROVE  DispatchInv'
  <2>1. DispatchTypes'
    BY <1>1, <1>4 DEF DispatchTypes
  <2>2. ASSUME NEW t \in Sinks, t # s PROVE SinkInv(t)'
    <3>1. queue'[t] = queue[t] /\ busy'[t] = busy[t] /\ sent'[t] = sent[t] /\ failed'[t] = failed[t] /\ SinkInv(t)
      BY <1>4, <2>2
    <3> QED BY <1>1, <3>1 DEF SinkInv, OnePlace, InHand, Holding
  <2>3. QuietAfterClose'
    BY <1>1, <1>4 DEF QuietAfterClose
  <2> QED BY <1>1, <1>4, <2>1, <2>2, <2>3
<1>5. busy[s].at # "idle" => closing # "closed" /\ busy[s].id # 0 /\ busy[s].try >= 1 /\ Holding(s) = {busy[s].id}
  BY <1>2, <1>3 DEF QuietAfterClose, Drained, Job, Holding
\* The worker is done with its alert, which is one of the sent or of the failed.
<1>6. ASSUME busy[s].at # "idle", busy' = [busy EXCEPT ![s] = Idle], UNCHANGED queue, Sent(s) \/ Failed(s)
      PROVE  DispatchInv'
  <2> DEFINE e == busy[s].id
  <2>1. Holding(s)' = {} /\ InHand(s) = ToSet(queue[s]) \cup {e} /\ InHand(s)' = ToSet(queue[s]) /\ e \notin ToSet(queue[s])
    BY <1>2, <1>3, <1>5, <1>6 DEF DispatchTypes, Holding, InHand, OnePlace
  <2>2. \/ sent'[s] = sent[s] \cup {e} /\ failed'[s] = failed[s]
        \/ sent'[s] = sent[s] /\ failed'[s] = failed[s] \cup {e}
    BY <1>6 DEF Sent, Failed, DispatchTypes
  <2>3. e \in Nat
    BY <1>3 DEF Jobs
  <2>4. OnePlace(s)'
    BY <1>1, <1>3, <1>6, <2>1, <2>2 DEF OnePlace
  <2>5. SinkInv(s)'
    BY <1>3, <1>6, <2>4 DEF SinkInv, Job, DispatchTypes
  <2>6. /\ busy' \in [Sinks -> Jobs] /\ sent' \in [Sinks -> SUBSET Nat] /\ failed' \in [Sinks -> SUBSET Nat]
        /\ \A t \in Sinks \ {s} : busy'[t] = busy[t] /\ sent'[t] = sent[t] /\ failed'[t] = failed[t]
    BY ZenonT(60), <1>2, <1>6, <2>3 DEF Sent, Failed, DispatchTypes
  <2> QED BY <1>4, <1>5, <1>6, <2>5, <2>6 DEF DispatchTypes
\* The worker goes on with it.
<1>7. ASSUME NEW b \in Jobs, busy[s].at # "idle", busy' = [busy EXCEPT ![s] = b], b.id = busy[s].id, Job(b),
             UNCHANGED <<queue, sent, failed>>
      PROVE  DispatchInv'
  <2>1. busy'[s] = b /\ busy' \in [Sinks -> Jobs] /\ \A t \in Sinks \ {s} : busy'[t] = busy[t]
    BY <1>7 DEF DispatchTypes
  <2>2. InHand(s)' = InHand(s) /\ Holding(s)' = Holding(s)
    BY <1>7, <2>1 DEF InHand, Holding
  <2>3. SinkInv(s)'
    BY <1>1, <1>3, <1>7, <2>1, <2>2 DEF SinkInv, OnePlace
  <2> QED BY <1>4, <1>5, <1>7, <2>1, <2>3 DEF DispatchTypes
<1>8. CASE Take(s)
  <2> DEFINE e == Head(queue[s])
             b == [id |-> e, try |-> 1, at |-> "post"]
  <2>1. busy[s] = Idle /\ queue[s] # <<>> /\ busy' = [busy EXCEPT ![s] = b] /\ queue' = [queue EXCEPT ![s] = Tail(@)]
        /\ UNCHANGED <<sent, failed>> /\ closing # "closed"
    BY <1>8 DEF Take, QuietAfterClose, Drained
  <2>2. /\ e \in Nat /\ Tail(queue[s]) \in Seq(Nat) /\ Len(Tail(queue[s])) = Len(queue[s]) - 1
        /\ ToSet(queue[s]) = {e} \cup ToSet(Tail(queue[s])) /\ NoneTwice(Tail(queue[s])) /\ e \notin ToSet(Tail(queue[s]))
    BY <1>3, <2>1, QueueTake DEF SinkInv
  <2>3. e # 0
    BY <1>3, <2>2 DEF OnePlace, InHand, Emitted
  <2>4. b \in Jobs /\ Job(b) /\ b.id = e
    BY <1>1, <2>2, <2>3 DEF Jobs, Job
  <2>5. /\ queue'[s] = Tail(queue[s]) /\ busy'[s] = b /\ queue' \in [Sinks -> Seq(Nat)] /\ busy' \in [Sinks -> Jobs]
        /\ \A t \in Sinks \ {s} : queue'[t] = queue[t] /\ busy'[t] = busy[t]
    BY <2>1, <2>2, <2>4 DEF DispatchTypes
  <2>6. Holding(s) = {} /\ Holding(s)' = {e} /\ InHand(s)' = InHand(s)
    BY <1>2, <2>1, <2>2, <2>3, <2>4, <2>5 DEF Holding, InHand
  <2>7. SinkInv(s)'
    BY <1>1, <1>3, <2>1, <2>2, <2>4, <2>5, <2>6 DEF SinkInv, OnePlace
  <2> QED BY <1>4, <2>1, <2>5, <2>7 DEF DispatchTypes
<1>9. CASE PostDone(s)
  BY <1>6, <1>9 DEF PostDone, Sending
<1>10. CASE PostRetry(s)
  <2>1. busy[s].at = "post" /\ UNCHANGED queue
    BY <1>10 DEF PostRetry, Sending
  <2>2. CASE busy[s].try < Tries
    <3> DEFINE b == [busy[s] EXCEPT !.at = "pause"]
    <3>1. b \in Jobs /\ b.id = busy[s].id /\ Job(b)
      BY <1>3, <1>5, <2>1, <2>2 DEF Jobs, Job
    <3>2. busy' = [busy EXCEPT ![s] = b] /\ UNCHANGED <<sent, failed>>
      BY <1>10, <2>2 DEF PostRetry
    <3> QED BY <1>7, <2>1, <3>1, <3>2
  <2>3. CASE ~(busy[s].try < Tries)
    BY <1>6, <1>10, <2>1, <2>3 DEF PostRetry
  <2> QED BY <2>2, <2>3
<1>11. CASE PauseOver(s)
  <2> DEFINE b == [id |-> busy[s].id, try |-> busy[s].try + 1, at |-> "post"]
  <2>1. busy[s].at = "pause" /\ UNCHANGED <<queue, sent, failed>>
    BY <1>11 DEF PauseOver, Sending
  <2>2. busy[s].try < Tries /\ busy[s].try \in Nat /\ busy[s].id # 0 /\ busy[s].id \in Nat
    BY <1>1, <1>2, <1>3, <1>5, <2>1 DEF Job, Jobs
  <2>3. b \in Jobs /\ b.id = busy[s].id /\ Job(b)
    BY <1>1, <2>2 DEF Jobs, Job
  <2>4. busy' = [busy EXCEPT ![s] = b]
    BY <1>11 DEF PauseOver
  <2> QED BY <1>7, <2>1, <2>3, <2>4
<1>12. CASE PauseCut(s)
  BY <1>6, <1>12 DEF PauseCut, Sending
<1> QED BY <1>8, <1>9, <1>10, <1>11, <1>12 DEF Work

\* Every step keeps the books of the dispatcher.
LEMMA DispatchStep == SuppressInv /\ DispatchInv /\ [Next]_vars => DispatchInv'
<1> SUFFICES ASSUME SuppressInv, DispatchInv, [Next]_vars PROVE DispatchInv'
  OBVIOUS
<1>1. ASSUME UNCHANGED <<setup, suppressor, emitting, sinks>>, closing = "open" => closing' \in {"open", "draining"},
             closing # "open" => closing' # "open",
             closing' \in {"open", "draining", "cutting", "closed"}, cancelled' \in BOOLEAN,
             closing' = "closed" => closing = "closed" \/ Drained
      PROVE  DispatchInv'
  <2>1. Sinks' = Sinks /\ Emitted' = Emitted
    BY <1>1 DEF Sinks, Emitted, suppressor
  <2>2. DispatchTypes'
    BY <1>1, <2>1 DEF DispatchInv, DispatchTypes, suppressor, sinks
  <2>3. ASSUME NEW s \in Sinks PROVE SinkInv(s)'
    <3>1. SinkInv(s)
      BY DEF DispatchInv
    <3> QED BY <1>1, <2>1, <3>1 DEF SinkInv, OnePlace, InHand, Holding, sinks
  <2>4. QuietAfterClose'
    BY <1>1, <2>1 DEF DispatchInv, QuietAfterClose, Drained, sinks
  <2> QED BY <2>1, <2>2, <2>3, <2>4 DEF DispatchInv
<1>2. CASE UNCHANGED vars
  BY <1>1, <1>2 DEF vars, DispatchInv, DispatchTypes
<1>3. ASSUME NEW w \in Windows, Reload(w) PROVE DispatchInv'
  BY <1>1, <1>3 DEF Reload, DispatchInv, DispatchTypes
<1>4. CASE Tick
  BY <1>1, <1>4 DEF Tick, DispatchInv, DispatchTypes
<1>5. CASE Close
  BY <1>1, <1>5 DEF Close, DispatchInv, DispatchTypes
<1>6. CASE GraceOver
  BY <1>1, <1>6 DEF GraceOver, DispatchInv, DispatchTypes
<1>7. CASE Closed
  BY <1>1, <1>7 DEF Closed, DispatchInv, DispatchTypes
<1> QED BY <1>2, <1>3, <1>4, <1>5, <1>6, <1>7, RaiseDispatch, EmitDispatch, WorkDispatch DEF Next

-----------------------------------------------------------------------------
LEMMA AlertsInv == Spec => [](SuppressInv /\ DispatchInv)
  BY SuppressInit, DispatchInit, SuppressStep, DispatchStep, PTL DEF Spec

\* For any number of keys, sinks, alerts and reloads, and at every point of Close: the table and the queues stay within
\* their bounds, no repeat is lost from the books, every alert is at one place of every sink, and nothing is in
\* a worker's hands once Close has returned.
THEOREM NothingUnaccounted == Spec => []Accounted
<1>1. SuppressInv /\ DispatchInv => Accounted
  <2> SUFFICES ASSUME SuppressInv, DispatchInv PROVE Accounted
    OBVIOUS
  <2>0. /\ MaxRaises \in Nat /\ setup.raises \in 0..MaxRaises /\ Windows \subseteq Nat /\ Tries \in Nat
        /\ Cardinality(Pairs(seen, DOMAIN seen)) \in Nat
    BY SetupType, PairsFinite DEF SuppressInv
  <2>1. {suppressed, raised, passed, told, forgot} \subseteq 0..MaxRaises /\ passed <= MaxRaises
    BY <2>0, HeldIsPairs DEF SuppressInv, RepeatsAccounted
  <2>2. \A k \in DOMAIN seen : seen[k].until \in Nat /\ seen[k].held \in 0..MaxRaises
    BY <2>0 DEF SuppressInv, Entries
  <2>3. emitting \subseteq 1..MaxRaises /\ Emitted \subseteq 1..MaxRaises
    BY <2>0, <2>1 DEF DispatchInv, DispatchTypes, Emitted, SuppressInv
  <2>4. ASSUME NEW s \in Sinks
        PROVE  /\ Len(queue[s]) <= QueueSize
               /\ busy[s].id \in 0..MaxRaises /\ busy[s].try \in 0..Tries
               /\ busy[s].at \in {"idle", "post", "pause"}
               /\ sent[s] \cup failed[s] \cup dropped[s] \subseteq 1..MaxRaises
    <3>1. SinkInv(s) /\ busy[s] \in Jobs
      BY DEF DispatchInv, DispatchTypes
    <3>2. busy[s].id = 0 \/ busy[s].id \in Emitted
      BY <3>1 DEF SinkInv, OnePlace, InHand
    <3>3. busy[s].id \in 0..MaxRaises
      <4>1. CASE busy[s].id = 0
        BY <2>0, <4>1
      <4>2. CASE busy[s].id \in Emitted
        <5>1. busy[s].id \in 1..MaxRaises
          BY <2>3, <4>2
        <5> QED BY <2>0, <5>1
      <4> QED BY <3>2, <4>1, <4>2
    <3>4. sent[s] \cup failed[s] \cup dropped[s] \subseteq 1..MaxRaises
      BY <2>3, <3>1 DEF SinkInv, OnePlace
    <3> QED BY <3>1, <3>3, <3>4 DEF SinkInv, Jobs
  <2>5. TypeOK
    BY <2>1, <2>2, <2>3, <2>4 DEF TypeOK, SuppressInv, DispatchInv, DispatchTypes
  <2>6. ASSUME NEW s \in Sinks
        PROVE  /\ \A i, j \in 1..4 : i # j => Fates(s)[i] \cap Fates(s)[j] = {}
               /\ closing = "open" /\ Sinks # {} => UNION Range(Fates(s)) = (1..passed) \ emitting
    <3>1. OnePlace(s)
      BY DEF DispatchInv, SinkInv
    <3>2. /\ Fates(s)[1] = InHand(s) /\ Fates(s)[2] = sent[s] /\ Fates(s)[3] = failed[s] /\ Fates(s)[4] = dropped[s]
          /\ DOMAIN Fates(s) = 1..4
      BY DEF Fates
    <3>3. UNION Range(Fates(s)) = InHand(s) \cup sent[s] \cup failed[s] \cup dropped[s]
      <4>1. Range(Fates(s)) = {Fates(s)[1], Fates(s)[2], Fates(s)[3], Fates(s)[4]}
        BY <3>2 DEF Range
      <4> QED BY <3>2, <4>1
    <3>4. ASSUME NEW i \in 1..4, NEW j \in 1..4, i # j PROVE Fates(s)[i] \cap Fates(s)[j] = {}
      <4>1. i \in {1, 2, 3, 4} /\ j \in {1, 2, 3, 4}
        OBVIOUS
      <4> QED BY <3>1, <3>2, <3>4, <4>1 DEF OnePlace
    <3> QED BY <3>1, <3>3, <3>4 DEF OnePlace, Emitted
  <2>7. AlertsAccounted
    BY <2>6 DEF AlertsAccounted
  <2> QED BY <2>5, <2>7 DEF Accounted, SuppressInv, DispatchInv
<1> QED BY <1>1, AlertsInv, PTL

\* For every sequence of windows, evictions and reloads: a detection is held back only behind one of its own key that was
\* let through and still speaks for it.
THEOREM HeldBehindAnAlertAlways == Spec => HeldBehindAnAlert
<1>1. SuppressInv /\ [Next]_vars => [\A k \in Keys : AllowNot(k) => now < spoken[k]]_vars
  <2> SUFFICES ASSUME SuppressInv, NEW k \in Keys, AllowNot(k) PROVE now < spoken[k]
    OBVIOUS
  <2>1. k \in DOMAIN seen /\ now < seen[k].until
    BY DEF AllowNot, Live
  <2>2. seen[k].until \in Nat /\ seen[k].until <= spoken[k] /\ spoken[k] \in Nat /\ now \in Nat
    BY <2>1, AlertsAssumption DEF SuppressInv, Entries
  <2> QED BY <2>1, <2>2
<1> QED BY <1>1, AlertsInv, PTL DEF Spec, HeldBehindAnAlert
=============================================================================
