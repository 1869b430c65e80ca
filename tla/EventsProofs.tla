---------------------------- MODULE EventsProofs ----------------------------
(***************************************************************************)
(* Proofs about Events: the event list keeps each class its share, no      *)
(* reader of it misses an event, every list stays within its limit and in  *)
(* order, and the newest detections survive in the log, for any classes'   *)
(* shares, any bounds of the lists and of the log, any number of clients   *)
(* and any crashes, failed writes and restarts.                            *)
(***************************************************************************)
EXTENDS Events, FiniteSetTheorems, FunctionTheorems, SequenceTheorems, TLAPS

-----------------------------------------------------------------------------
(* The list: what one more event does to it.                               *)

Ev == [seq : Nat, kind : Kinds, boot : Nat]
Lists == [Classes -> Seq(Ev)]

LEMMA ClassesAre ==
  /\ \A k : classOf(k) \in Classes
  /\ Classes = 1..6
  BY DEF classOf, Classes

\* Of six numbers one is the first of the largest.
LEMMA FirstLargest ==
  ASSUME NEW f \in [1..6 -> Int]
  PROVE  \E c \in 1..6 : \A d \in 1..6 : f[d] <= f[c] /\ (f[d] = f[c] => c <= d)
<1> DEFINE Top(k) == \E c \in 1..k : \A d \in 1..k : f[d] <= f[c] /\ (f[d] = f[c] => c <= d)
<1>1. Top(1)
  OBVIOUS
<1>2. ASSUME NEW k \in 1..5, Top(k) PROVE Top(k + 1)
  <2>1. PICK c \in 1..k : \A d \in 1..k : f[d] <= f[c] /\ (f[d] = f[c] => c <= d)
    BY <1>2
  <2>2. \A d \in 1..(k + 1) : d \in 1..k \/ d = k + 1
    OBVIOUS
  <2>3. CASE f[k + 1] > f[c]
    <3>1. \A d \in 1..(k + 1) : f[d] <= f[k + 1] /\ (f[d] = f[k + 1] => k + 1 <= d)
      BY <2>1, <2>2, <2>3
    <3> QED BY <3>1
  <2>4. CASE f[k + 1] <= f[c]
    <3>1. \A d \in 1..(k + 1) : f[d] <= f[c] /\ (f[d] = f[c] => c <= d)
      BY <2>1, <2>2, <2>4
    <3> QED BY <3>1
  <2> QED BY <2>3, <2>4
<1> HIDE DEF Top
<1>3. Top(2)
  BY <1>1, <1>2
<1>4. Top(3)
  BY <1>3, <1>2
<1>5. Top(4)
  BY <1>4, <1>2
<1>6. Top(5)
  BY <1>5, <1>2
<1>7. Top(6)
  BY <1>6, <1>2
<1> QED BY <1>7 DEF Top

LEMMA SumFacts ==
  /\ \A f \in [Classes -> Nat] : Sum(f) \in Nat
  /\ \A f, g \in [Classes -> Nat] : (\A c \in Classes : f[c] <= g[c]) => Sum(f) <= Sum(g)
  /\ \A f, g \in [Classes -> Nat], c \in Classes : g[c] = f[c] + 1 /\ (\A d \in Classes : d # c => g[d] = f[d]) => Sum(g) = Sum(f) + 1
<1>1. \A f \in [Classes -> Nat] : f[1] \in Nat /\ f[2] \in Nat /\ f[3] \in Nat /\ f[4] \in Nat /\ f[5] \in Nat /\ f[6] \in Nat
  BY DEF Classes
<1>2. \A f \in [Classes -> Nat] : Sum(f) \in Nat
  BY <1>1 DEF Sum
<1>3. ASSUME NEW f \in [Classes -> Nat], NEW g \in [Classes -> Nat], \A c \in Classes : f[c] <= g[c] PROVE Sum(f) <= Sum(g)
  <2>1. f[1] <= g[1] /\ f[2] <= g[2] /\ f[3] <= g[3] /\ f[4] <= g[4] /\ f[5] <= g[5] /\ f[6] <= g[6]
    BY <1>3 DEF Classes
  <2> QED BY <1>1, <2>1 DEF Sum
<1>4. ASSUME NEW f \in [Classes -> Nat], NEW g \in [Classes -> Nat], NEW c \in Classes, g[c] = f[c] + 1,
             \A d \in Classes : d # c => g[d] = f[d]
      PROVE  Sum(g) = Sum(f) + 1
  <2>1. c = 1 \/ c = 2 \/ c = 3 \/ c = 4 \/ c = 5 \/ c = 6
    BY DEF Classes
  <2> QED BY <1>1, <1>4, <2>1 DEF Sum, Classes
<1> QED BY <1>2, <1>3, <1>4

\* The sizes of the lists.
Sizes(b) == [c \in Classes |-> Len(b[c])]

LEMMA ListSizes ==
  ASSUME NEW b \in Lists
  PROVE  /\ Sizes(b) \in [Classes -> Nat] /\ \A c \in Classes : Sizes(b)[c] = Len(b[c])
         /\ \A c \in Classes : b[c] \in Seq(Ev) /\ Excess(b, c) = Sizes(b)[c] - Share[c]
         /\ Total(b) = Sum(Sizes(b)) /\ Total(b) \in Nat
<1>1. \A c \in Classes : b[c] \in Seq(Ev) /\ Len(b[c]) \in Nat
  BY DEF Lists
<1>2. Sizes(b) \in [Classes -> Nat] /\ \A c \in Classes : Sizes(b)[c] = Len(b[c])
  BY <1>1 DEF Sizes
<1>3. \A c \in Classes : Excess(b, c) = Sizes(b)[c] - Share[c]
  BY <1>2 DEF Excess
<1>4. Total(b) = Sum(Sizes(b))
  BY DEF Total, Sizes
<1> QED BY <1>1, <1>2, <1>3, <1>4, SumFacts

\* A list over its bound has a class over its share, and the victim is one.
LEMMA VictimFacts ==
  ASSUME NEW b \in Lists
  PROVE  /\ Victim(b) \in Classes
         /\ Total(b) > MaxEvents => Sizes(b)[Victim(b)] > Share[Victim(b)]
<1> DEFINE f == [c \in Classes |-> Excess(b, c)]
           v == Victim(b)
           z == Sizes(b)
<1>0. z \in [Classes -> Nat] /\ Share \in [Classes -> Nat] /\ MaxEvents = Sum(Share) /\ Total(b) = Sum(z)
  BY ListSizes, EventsAssumption
<1>1. \A c \in Classes : Excess(b, c) = z[c] - Share[c]
  BY ListSizes
<1> HIDE DEF z
<1>2. f \in [Classes -> Int]
  BY <1>0, <1>1
<1>3. \E c \in Classes : \A d \in Classes : Excess(b, d) <= Excess(b, c) /\ (Excess(b, d) = Excess(b, c) => c <= d)
  BY <1>2, FirstLargest DEF Classes
<1>4. v \in Classes /\ \A d \in Classes : Excess(b, d) <= Excess(b, v)
  BY <1>3 DEF Victim
<1> HIDE DEF v
<1>5. ASSUME Total(b) > MaxEvents, z[v] <= Share[v] PROVE FALSE
  <2>1. \A d \in Classes : z[d] <= Share[d]
    BY <1>0, <1>1, <1>4, <1>5
  <2> QED BY <1>0, <1>5, <2>1, SumFacts
<1>6. Total(b) > MaxEvents => z[v] > Share[v]
  BY <1>0, <1>4, <1>5
<1> QED BY <1>4, <1>6 DEF v, z

\* One list: an event appended, the oldest dropped.
LEMMA SeqFacts ==
  ASSUME NEW s \in Seq(Ev), NEW e \in Ev
  PROVE  /\ Append(s, e) \in Seq(Ev) /\ Len(Append(s, e)) = Len(s) + 1 /\ Append(s, e) # <<>>
         /\ ToSet(Append(s, e)) \subseteq ToSet(s) \cup {e}
         /\ IsPrefix(s, Append(s, e)) /\ IsPrefix(s, s)
         /\ s # <<>> => /\ Tail(s) \in Seq(Ev) /\ Len(Tail(s)) = Len(s) - 1
                        /\ ToSet(Tail(s)) \subseteq ToSet(s)
<1>1. Append(s, e) \in Seq(Ev) /\ Len(Append(s, e)) = Len(s) + 1 /\ Append(s, e) # <<>>
  <2>1. Append(s, e) \in Seq(Ev) /\ Len(Append(s, e)) = Len(s) + 1 /\ Len(s) \in Nat
    BY AppendProperties, LenProperties
  <2> QED BY <2>1, EmptySeq
<1>2. \A i \in 1..Len(s) : Append(s, e)[i] = s[i]
  BY AppendProperties
<1>3. Append(s, e)[Len(s) + 1] = e
  BY AppendProperties
<1>4. DOMAIN s = 1..Len(s) /\ DOMAIN Append(s, e) = 1..(Len(s) + 1) /\ Len(s) \in Nat
  BY <1>1, LenProperties
<1>5. ToSet(Append(s, e)) \subseteq ToSet(s) \cup {e}
  BY <1>2, <1>3, <1>4 DEF ToSet
<1>6. IsPrefix(s, s)
  BY <1>4 DEF IsPrefix
<1>7. IsPrefix(s, Append(s, e))
  <2>1. SubSeq(s, 1, Len(s)) = [i \in 1..Len(s) |-> s[i]] /\ SubSeq(Append(s, e), 1, Len(s)) = [i \in 1..Len(s) |-> Append(s, e)[i]]
    BY <1>1, <1>4
  <2>2. SubSeq(s, 1, Len(s)) = SubSeq(Append(s, e), 1, Len(s))
    BY <1>2, <2>1
  <2> QED BY <1>1, <1>4, <2>2 DEF IsPrefix
<1>8. ASSUME s # <<>> PROVE Tail(s) \in Seq(Ev) /\ Len(Tail(s)) = Len(s) - 1 /\ ToSet(Tail(s)) \subseteq ToSet(s)
  <2>1. Tail(s) \in Seq(Ev) /\ Len(Tail(s)) = Len(s) - 1 /\ \A i \in 1..Len(Tail(s)) : Tail(s)[i] = s[i + 1]
    BY <1>8, HeadTailProperties
  <2>2. DOMAIN Tail(s) = 1..(Len(s) - 1)
    BY <2>1, LenProperties
  <2> QED BY <1>4, <2>1, <2>2 DEF ToSet
<1> QED BY <1>1, <1>5, <1>6, <1>7, <1>8

\* What eventStore.add does: nothing is stored but what was and the event, the bound is kept, and a class gives
\* an event up only past its share.
LEMMA AddFacts ==
  ASSUME NEW b \in Lists, NEW e \in Ev
  PROVE  /\ Add(b, e) \in Lists
         /\ \A d \in Classes : ToSet(Add(b, e)[d]) \subseteq ToSet(b[d]) \cup {e}
         /\ Total(b) <= MaxEvents => Total(Add(b, e)) <= MaxEvents
         /\ \A d \in Classes : Len(b[d]) <= Share[d] \/ Total(b) < MaxEvents =>
              IsPrefix(b[d], Add(b, e)[d]) \/ (Len(b[d]) = Share[d] /\ Len(Add(b, e)[d]) = Share[d])
<1> DEFINE c == classOf(e.kind)
           more == [b EXCEPT ![c] = Append(@, e)]
           v == Victim(more)
           a == Add(b, e)
<1>0. c \in Classes /\ \A d \in Classes : b[d] \in Seq(Ev) /\ Sizes(b)[d] = Len(b[d]) /\ Sizes(b)[d] \in Nat
  BY ClassesAre, ListSizes
<1>1. more \in Lists /\ more[c] = Append(b[c], e) /\ \A d \in Classes : d # c => more[d] = b[d]
  BY <1>0, SeqFacts DEF Lists
<1>2. /\ Total(more) > MaxEvents => a = [more EXCEPT ![v] = Tail(more[v])]
      /\ ~(Total(more) > MaxEvents) => a = more
  BY <1>1 DEF Add
<1>3. v \in Classes /\ (Total(more) > MaxEvents => Sizes(more)[v] > Share[v])
  BY <1>1, VictimFacts
<1>4. \A d \in Classes : more[d] \in Seq(Ev) /\ Sizes(more)[d] = Len(more[d]) /\ Sizes(more)[d] \in Nat /\ Share[d] \in Nat
  BY <1>1, ListSizes, EventsAssumption
<1>5. Total(b) \in Nat /\ Total(more) \in Nat /\ MaxEvents \in Nat /\ Total(more) = Sum(Sizes(more)) /\ Total(b) = Sum(Sizes(b))
  BY <1>1, ListSizes, EventsAssumption
<1> HIDE DEF c, more, v, a
<1>6. Sizes(more)[c] = Sizes(b)[c] + 1 /\ \A d \in Classes : d # c => Sizes(more)[d] = Sizes(b)[d]
  BY <1>0, <1>1, <1>4, SeqFacts
<1>7. Total(more) = Total(b) + 1
  <2>1. Sizes(b) \in [Classes -> Nat] /\ Sizes(more) \in [Classes -> Nat]
    BY <1>1, ListSizes
  <2>2. Sum(Sizes(more)) = Sum(Sizes(b)) + 1
    BY <1>0, <1>6, <2>1, SumFacts, Zenon
  <2> QED BY <1>5, <2>2
<1>8. \A d \in Classes : ToSet(more[d]) \subseteq ToSet(b[d]) \cup {e}
  BY <1>0, <1>1, SeqFacts
<1>9. \A d \in Classes : IsPrefix(b[d], more[d])
  <2> SUFFICES ASSUME NEW d \in Classes PROVE IsPrefix(b[d], more[d])
    OBVIOUS
  <2>1. b[d] \in Seq(Ev)
    BY <1>0
  <2>2. IsPrefix(b[d], b[d]) /\ IsPrefix(b[d], Append(b[d], e))
    BY <2>1, SeqFacts
  <2> QED BY <1>1, <2>2, Zenon
<1>10. CASE ~(Total(more) > MaxEvents)
  <2>1. a = more /\ Total(a) <= MaxEvents
    BY <1>2, <1>5, <1>10
  <2> QED BY <1>1, <1>8, <1>9, <2>1 DEF a
<1>11. CASE Total(more) > MaxEvents
  <2>1. a = [more EXCEPT ![v] = Tail(more[v])] /\ Sizes(more)[v] > Share[v]
    BY <1>2, <1>3, <1>11
  <2>2. more[v] # <<>> /\ Len(more[v]) > Share[v]
    BY <1>3, <1>4, <2>1, EmptySeq
  <2>3. Tail(more[v]) \in Seq(Ev) /\ Len(Tail(more[v])) = Len(more[v]) - 1 /\ ToSet(Tail(more[v])) \subseteq ToSet(more[v])
    BY <1>3, <1>4, <2>2, SeqFacts
  <2>4. a \in Lists /\ a[v] = Tail(more[v]) /\ \A d \in Classes : d # v => a[d] = more[d]
    BY <1>1, <1>3, <2>1, <2>3 DEF Lists
  <2>5. \A d \in Classes : ToSet(a[d]) \subseteq ToSet(b[d]) \cup {e}
    BY <1>3, <1>8, <2>3, <2>4
  <2>6. Total(a) = Total(more) - 1
    <3>1. Sizes(a) \in [Classes -> Nat] /\ Sizes(more) \in [Classes -> Nat] /\ Total(a) = Sum(Sizes(a))
      BY <1>1, <2>4, ListSizes
    <3>2. Sizes(a)[v] = Sizes(more)[v] - 1 /\ \A d \in Classes : d # v => Sizes(a)[d] = Sizes(more)[d]
      BY <1>3, <1>4, <2>3, <2>4, ListSizes
    <3>3. Sizes(more)[v] = Sizes(a)[v] + 1
      BY <1>3, <1>4, <3>2
    <3>4. Sum(Sizes(more)) = Sum(Sizes(a)) + 1
      BY <1>3, <3>1, <3>2, <3>3, SumFacts, Zenon
    <3>5. Sum(Sizes(a)) \in Nat
      BY <3>1, SumFacts
    <3> QED BY <1>5, <3>1, <3>4, <3>5
  <2>7. ASSUME NEW d \in Classes, Len(b[d]) <= Share[d] \/ Total(b) < MaxEvents
        PROVE  IsPrefix(b[d], a[d]) \/ (Len(b[d]) = Share[d] /\ Len(a[d]) = Share[d])
    <3>1. CASE d # v
      BY <1>9, <2>4, <3>1
    <3>2. CASE d = v
      <4>1. Sizes(b)[d] <= Share[d]
        BY <1>0, <1>5, <1>7, <1>11, <2>7
      <4>2. d = c /\ Sizes(b)[d] = Share[d] /\ Sizes(more)[d] = Share[d] + 1
        <5>1. Sizes(more)[d] > Share[d] /\ Sizes(more)[d] \in Nat /\ Share[d] \in Nat /\ Sizes(b)[d] \in Nat
          BY <1>0, <1>4, <2>1, <3>2
        <5>2. d = c
          BY <1>6, <4>1, <5>1
        <5>3. Sizes(more)[d] = Sizes(b)[d] + 1
          BY <1>6, <5>2
        <5> QED BY <4>1, <5>1, <5>2, <5>3
      <4>3. Len(a[d]) = Sizes(more)[d] - 1
        BY <1>4, <2>3, <2>4, <3>2
      <4>4. Len(b[d]) = Share[d]
        BY <1>0, <4>2
      <4> QED BY <1>4, <4>2, <4>3, <4>4
    <3> QED BY <3>1, <3>2
  <2>8. Total(b) <= MaxEvents => Total(a) <= MaxEvents
    BY <1>5, <1>7, <2>6
  <2> QED BY <2>4, <2>5, <2>7, <2>8 DEF a
<1> QED BY <1>10, <1>11

-----------------------------------------------------------------------------
(* The list: what a reader is given.                                       *)

\* What is stored: events of this run, each with a Seq of its own.
StoreInv ==
  /\ seq \in Nat /\ boot \in Nat /\ gen \in Nat
  /\ by \in Lists /\ Total(by) <= MaxEvents
  /\ \A e \in Stored : e.seq <= seq
  /\ \A e, f \in Stored : e.seq = f.seq => e = f

LEMMA StoredFacts ==
  ASSUME by \in Lists
  PROVE  /\ Stored \subseteq Ev /\ \A e \in Stored : e.seq \in Nat
         /\ \A e : e \in Stored <=> \E d \in Classes : e \in ToSet(by[d])
<1>1. \A d \in Classes : ToSet(by[d]) \subseteq Ev
  <2> SUFFICES ASSUME NEW d \in Classes PROVE ToSet(by[d]) \subseteq Ev
    OBVIOUS
  <2>1. by[d] \in Seq(Ev)
    BY DEF Lists
  <2>2. DOMAIN by[d] = 1..Len(by[d]) /\ \A i \in 1..Len(by[d]) : by[d][i] \in Ev
    BY <2>1, LenProperties, ElementOfSeq
  <2> QED BY <2>2 DEF ToSet
<1>2. \A e : e \in Stored <=> \E d \in Classes : e \in ToSet(by[d])
  BY DEF Stored
<1>3. Stored \subseteq Ev
  BY <1>1, <1>2
<1> QED BY <1>2, <1>3 DEF Ev

\* eventStore.since answers with everything after n, in the order of Seq.
LEMMA SinceFacts ==
  ASSUME StoreInv, NEW n \in Nat
  PROVE  /\ Since(n) \in Seq(Ev)
         /\ \A i \in 1..Len(Since(n)) : Since(n)[i] \in Stored /\ Since(n)[i].seq > n
         /\ \A i, j \in 1..Len(Since(n)) : i < j => Since(n)[i].seq < Since(n)[j].seq
         /\ \A e \in Stored : e.seq > n => e \in ToSet(Since(n))
<1> DEFINE S == {e \in Stored : e.seq > n}
           N == Cardinality(S)
           Upto(e) == {f \in S : f.seq <= e.seq}
           p == [e \in S |-> Place(S, e)]
<1>1. S \subseteq Ev /\ \A e \in S : e \in Stored /\ e.seq \in Nat /\ e.seq > n /\ e.seq <= seq
  BY StoredFacts DEF StoreInv
<1>2. \A e, f \in S : e.seq = f.seq => e = f
  BY DEF StoreInv
<1>3. Since(n) = [k \in 1..N |-> CHOOSE e \in S : Place(S, e) = k]
  BY DEF Since
<1> HIDE DEF S
<1>4. IsFiniteSet(S)
  <2>1. [e \in S |-> e.seq] \in [S -> 0..seq]
    BY <1>1 DEF StoreInv
  <2>2. [e \in S |-> e.seq] \in Injection(S, 0..seq)
    BY <1>2, <2>1 DEF Injection, IsInjective
  <2>3. IsFiniteSet(0..seq)
    BY FS_Interval DEF StoreInv
  <2> QED BY <2>2, <2>3, FS_Injection
<1>5. N \in Nat
  BY <1>4, FS_CardinalityType
<1>6. \A e \in S : IsFiniteSet(Upto(e)) /\ Cardinality(Upto(e)) \in 1..N /\ Place(S, e) = Cardinality(Upto(e))
  <2> SUFFICES ASSUME NEW e \in S PROVE IsFiniteSet(Upto(e)) /\ Cardinality(Upto(e)) \in 1..N /\ Place(S, e) = Cardinality(Upto(e))
    OBVIOUS
  <2>1. Upto(e) \subseteq S /\ e \in Upto(e)
    BY <1>1
  <2>2. IsFiniteSet(Upto(e)) /\ Cardinality(Upto(e)) <= N /\ Cardinality(Upto(e)) \in Nat
    BY <1>4, <2>1, FS_Subset, FS_CardinalityType
  <2>3. Cardinality(Upto(e)) # 0
    BY <2>1, <2>2, FS_EmptySet
  <2> QED BY <1>5, <2>2, <2>3 DEF Place
<1>7. \A e, f \in S : e.seq < f.seq => Place(S, e) < Place(S, f)
  <2> SUFFICES ASSUME NEW e \in S, NEW f \in S, e.seq < f.seq PROVE Place(S, e) < Place(S, f)
    OBVIOUS
  <2>1. Upto(e) \subseteq Upto(f) /\ f \in Upto(f) /\ f \notin Upto(e)
    BY <1>1
  <2> HIDE DEF Upto
  <2>2. Cardinality(Upto(e)) <= Cardinality(Upto(f)) /\ Cardinality(Upto(e)) # Cardinality(Upto(f))
    BY <1>6, <2>1, FS_Subset
  <2>3. Cardinality(Upto(e)) \in Nat /\ Cardinality(Upto(f)) \in Nat
    BY <1>5, <1>6
  <2> QED BY <1>6, <2>2, <2>3
<1> HIDE DEF Upto, N
<1>8. p \in [S -> 1..N]
  BY <1>6
<1>9. \A e, f \in S : p[e] = p[f] => e = f
  <2> SUFFICES ASSUME NEW e \in S, NEW f \in S, e # f PROVE p[e] # p[f]
    OBVIOUS
  <2>1. e.seq < f.seq \/ f.seq < e.seq
    BY <1>1, <1>2
  <2>2. Place(S, e) \in Nat /\ Place(S, f) \in Nat
    BY <1>5, <1>6
  <2> QED BY <1>7, <2>1, <2>2
<1>10. p \in Injection(S, 1..N)
  BY <1>8, <1>9 DEF Injection, IsInjective
<1>11. IsFiniteSet(1..N) /\ Cardinality(1..N) = N
  BY <1>5, FS_Interval
<1>12. p \in Surjection(S, 1..N)
  BY <1>10, <1>11, FS_Injection DEF N
<1>13. \A k \in 1..N : \E e \in S : Place(S, e) = k
  BY <1>12 DEF Surjection
<1>14. \A k \in 1..N : Since(n)[k] \in S /\ Place(S, Since(n)[k]) = k
  BY <1>3, <1>13
<1>15. Since(n) \in Seq(Ev) /\ Len(Since(n)) = N /\ DOMAIN Since(n) = 1..N
  <2>1. Since(n) \in [1..N -> Ev]
    BY <1>1, <1>3, <1>14
  <2> QED BY <1>5, <2>1
<1>16. ASSUME NEW i \in 1..N, NEW j \in 1..N, i < j PROVE Since(n)[i].seq < Since(n)[j].seq
  <2>1. Since(n)[i] \in S /\ Since(n)[j] \in S /\ Place(S, Since(n)[i]) = i /\ Place(S, Since(n)[j]) = j
    BY <1>14
  <2>2. Since(n)[i].seq \in Nat /\ Since(n)[j].seq \in Nat
    BY <1>1, <2>1
  <2>3. ~(Since(n)[j].seq < Since(n)[i].seq) /\ Since(n)[j].seq # Since(n)[i].seq
    BY <1>2, <1>5, <1>7, <1>16, <2>1
  <2> QED BY <2>2, <2>3
<1>17. ASSUME NEW e \in S PROVE e \in ToSet(Since(n))
  <2>1. Place(S, e) \in 1..N
    BY <1>6
  <2>2. Since(n)[Place(S, e)] = e
    BY <1>9, <1>14, <2>1
  <2> QED BY <1>15, <2>1, <2>2 DEF ToSet
<1>18. \A e \in Stored : e.seq > n => e \in S
  BY DEF S
<1> QED BY <1>1, <1>14, <1>15, <1>16, <1>17, <1>18

-----------------------------------------------------------------------------
(* The list is kept.                                                       *)

\* A step of the daemon: one more event, an end, a beginning, or the list is left alone.
LEMMA ListSteps ==
  ASSUME [Next]_vars
  PROVE  \/ \E k \in Kinds : AddEvent(k)
         \/ Close \/ Crash \/ Restore
         \/ UNCHANGED <<up, boot, seq, by, gen>>
<1>1. ASSUME NEW e, Detection(e) \/ RotateFails(e) \/ DetectionFails(e) \/ DetectionRefused(e)
      PROVE  UNCHANGED <<up, boot, seq, by, gen>>
  BY <1>1 DEF Detection, RotateFails, DetectionFails, DetectionRefused, store
<1>2. ASSUME NEW c, \/ Connect(c) \/ Changed(c) \/ EventsSince(c) \/ Send(c)
                    \/ Wake(c) \/ Disconnect(c) \/ PollSeq(c) \/ PollEvents(c)
      PROVE  UNCHANGED <<up, boot, seq, by, gen>>
  BY <1>2 DEF Connect, Changed, EventsSince, Send, Wake, Disconnect, PollSeq, PollEvents, store
<1>3. CASE Snapshot
  BY <1>3 DEF Snapshot, store
<1>4. CASE UNCHANGED vars
  BY <1>4 DEF vars, store
<1> QED BY <1>1, <1>2, <1>3, <1>4 DEF Next

LEMMA EmptyLists == NoEvents \in Lists /\ Total(NoEvents) <= MaxEvents /\ \A d \in Classes : ToSet(NoEvents[d]) = {}
<1>1. NoEvents \in Lists /\ \A d \in Classes : NoEvents[d] = <<>>
  BY DEF NoEvents, Lists
<1>2. \A d \in Classes : Sizes(NoEvents)[d] = 0
  BY <1>1, ListSizes, EmptySeq
<1>3. Sizes(NoEvents)[1] = 0 /\ Sizes(NoEvents)[2] = 0 /\ Sizes(NoEvents)[3] = 0
      /\ Sizes(NoEvents)[4] = 0 /\ Sizes(NoEvents)[5] = 0 /\ Sizes(NoEvents)[6] = 0
  BY <1>2 DEF Classes
<1>4. Sum(Sizes(NoEvents)) = 0
  BY <1>3 DEF Sum
<1>5. Total(NoEvents) = 0
  BY <1>1, <1>4, ListSizes
<1>6. ToSet(<<>>) = {}
  BY DEF ToSet
<1> QED BY <1>1, <1>5, <1>6, EventsAssumption

LEMMA MaxSeqType ==
  \A s : MaxSeqOf(s) \in Nat
<1> SUFFICES ASSUME NEW s PROVE MaxSeqOf(s) \in Nat
  OBVIOUS
<1> DEFINE T == {m \in 1..MaxSeq : \E e \in ToSet(s) : m <= e.seq}
<1>1. IsFiniteSet(1..MaxSeq) /\ T \subseteq 1..MaxSeq
  BY FS_Interval, EventsAssumption
<1> HIDE DEF T
<1>2. Cardinality(T) \in Nat
  BY <1>1, FS_Subset, FS_CardinalityType
<1> QED BY <1>2 DEF T, MaxSeqOf

\* What one more event changes.
LEMMA AddEventFacts ==
  ASSUME StoreInv, NEW k \in Kinds, AddEvent(k)
  PROVE  /\ StoreInv'
         /\ seq' = seq + 1 /\ gen' = gen + 1 /\ UNCHANGED <<boot, client, shown, from>>
         /\ \A e \in Stored' : e \in Stored \/ e.seq = seq + 1
<1> DEFINE n == [seq |-> seq + 1, kind |-> k, boot |-> boot]
<1>1. /\ seq' = seq + 1 /\ by' = Add(by, n) /\ gen' = gen + 1 /\ UNCHANGED <<boot, client, shown, from>>
  BY DEF AddEvent, Closed
<1>2. n \in Ev /\ n.seq = seq + 1
  BY DEF StoreInv, Ev
<1> HIDE DEF n
<1>3. by \in Lists /\ Total(by) <= MaxEvents /\ seq \in Nat /\ gen \in Nat /\ boot \in Nat
  BY DEF StoreInv
<1>4. by' \in Lists /\ Total(by') <= MaxEvents /\ \A d \in Classes : ToSet(by'[d]) \subseteq ToSet(by[d]) \cup {n}
  BY <1>1, <1>2, <1>3, AddFacts
<1>5. \A e \in Stored' : e \in Stored \/ e = n
  BY <1>4 DEF Stored
<1>6. \A e \in Stored : e.seq \in Nat /\ e.seq <= seq
  BY <1>3, StoredFacts DEF StoreInv
<1>7. \A e \in Stored' : e.seq <= seq + 1
  BY <1>2, <1>3, <1>5, <1>6
<1>8. \A e, f \in Stored' : e.seq = f.seq => e = f
  <2>1. \A e \in Stored : e.seq # n.seq
    BY <1>2, <1>3, <1>6
  <2>2. \A e, f \in Stored : e.seq = f.seq => e = f
    BY DEF StoreInv
  <2> QED BY <1>5, <2>1, <2>2, Zenon
<1>9. StoreInv'
  BY <1>1, <1>3, <1>4, <1>7, <1>8 DEF StoreInv
<1> QED BY <1>1, <1>2, <1>5, <1>9

\* A run ends, or begins, with an empty list.
LEMMA RunFacts ==
  ASSUME StoreInv, Close \/ Crash \/ Restore
  PROVE  StoreInv' /\ Stored' = {} /\ up' # up
<1>1. /\ by' = NoEvents /\ gen' = 1 /\ boot' \in Nat /\ seq' \in Nat /\ up' # up
  <2>1. CASE Close \/ Crash
    BY <2>1 DEF Close, Crash, Down, StoreInv
  <2>2. CASE Restore
    <3>1. up' # up
      BY <2>2, Zenon DEF Restore
    <3>2. by' = NoEvents /\ gen' = 1 /\ boot' = boot + 1 /\ seq' = Higher(MaxSeqOf(ReadTail(log, MaxEvents)), MaxSeqOf(saved))
      BY <2>2, Zenon DEF Restore
    <3>3. \A x, y : x \in Nat /\ y \in Nat => Higher(x, y) \in Nat
      BY DEF Higher
    <3>4. MaxSeqOf(ReadTail(log, MaxEvents)) \in Nat /\ MaxSeqOf(saved) \in Nat /\ boot \in Nat
      BY MaxSeqType DEF StoreInv
    <3>5. seq' \in Nat
      BY <3>2, <3>3, <3>4, Zenon
    <3> QED BY <3>1, <3>2, <3>4, <3>5
  <2> QED BY <2>1, <2>2
<1>2. Stored' = {}
  BY <1>1, EmptyLists DEF Stored
<1> QED BY <1>1, <1>2, EmptyLists DEF StoreInv

LEMMA StoreStep == StoreInv /\ [Next]_vars => StoreInv'
<1> SUFFICES ASSUME StoreInv, [Next]_vars PROVE StoreInv'
  OBVIOUS
<1>1. CASE \E k \in Kinds : AddEvent(k)
  BY <1>1, AddEventFacts
<1>2. CASE Close \/ Crash \/ Restore
  BY <1>2, RunFacts
<1>3. CASE UNCHANGED <<up, boot, seq, by, gen>>
  BY <1>3 DEF StoreInv, Stored
<1> QED BY <1>1, <1>2, <1>3, ListSteps

LEMMA StoreStart == Init => StoreInv
<1> SUFFICES ASSUME Init PROVE StoreInv
  OBVIOUS
<1>1. seq = 0 /\ boot = 1 /\ gen = 1 /\ by = NoEvents
  BY DEF Init
<1>2. Stored = {}
  BY <1>1, EmptyLists DEF Stored
<1> QED BY <1>1, <1>2, EmptyLists DEF StoreInv

\* The event list keeps its shares (events.go, eventStore.add): whatever the shares and the bound, a class at or
\* under its share loses no event to another's, and none is lost while there is room.
THEOREM SharesAreKept == Spec => ShareKept
<1> DEFINE A == \A c \in Classes :
                  up' = up /\ (Len(by[c]) <= Share[c] \/ Total(by) < MaxEvents)
                    => \/ IsPrefix(by[c], by'[c])
                       \/ Len(by[c]) = Share[c] /\ Len(by'[c]) = Share[c]
<1>1. StoreInv /\ [Next]_vars => A
  <2> SUFFICES ASSUME StoreInv, [Next]_vars PROVE A
    OBVIOUS
  <2>1. ASSUME NEW k \in Kinds, AddEvent(k) PROVE A
    <3> DEFINE n == [seq |-> seq + 1, kind |-> k, boot |-> boot]
    <3>1. by' = Add(by, n)
      BY <2>1 DEF AddEvent
    <3>2. n \in Ev /\ by \in Lists
      BY DEF StoreInv, Ev
    <3> HIDE DEF n
    <3> QED BY <3>1, <3>2, AddFacts
  <2>2. CASE Close \/ Crash \/ Restore
    BY <2>2, RunFacts
  <2>3. CASE UNCHANGED <<up, boot, seq, by, gen>>
    <3>1. \A c \in Classes : IsPrefix(by[c], by[c])
      BY ListSizes, LenProperties DEF StoreInv, IsPrefix
    <3> QED BY <2>3, <3>1
  <2> QED BY <2>1, <2>2, <2>3, ListSteps
<1>2. Init => StoreInv
  BY StoreStart
<1>3. StoreInv /\ [Next]_vars => StoreInv'
  BY StoreStep
<1>4. StoreInv /\ [Next]_vars => [A]_vars
  BY <1>1
<1> HIDE DEF A
<1>5. Spec => [][A]_vars
  BY <1>2, <1>3, <1>4, PTL DEF Spec
<1> QED BY <1>5 DEF ShareKept, A

-----------------------------------------------------------------------------
(* The readers.                                                            *)

ClientRec == [role : Roles, at : Stages, since : Nat, boot : Nat, gen : Nat, batch : Seq(Ev), told : Nat]

\* Where a client x is, with S stored, channel g open, q the last Seq, f where its connection began and h what
\* it was shown.  What it has in hand is in order and ahead of what it was sent;
InHand(x, q) ==
  /\ x.at # "wait" => x.batch = <<>>
  /\ \A i \in 1..Len(x.batch) : x.since < x.batch[i].seq /\ x.batch[i].seq <= q
  /\ \A i, j \in 1..Len(x.batch) : i < j => x.batch[i].seq < x.batch[j].seq
\* with everything stored up to its last; and, on the open channel, everything stored.
Covers(x, S, g) ==
  /\ \A e \in S, i \in 1..Len(x.batch) : x.since < e.seq /\ e.seq <= x.batch[i].seq => \E j \in 1..Len(x.batch) : x.batch[j] = e
  /\ x.at = "wait" /\ x.gen = g => \A e \in S : x.since < e.seq => \E j \in 1..Len(x.batch) : x.batch[j] = e
\* Its position is of this run, or is the one it came with.
Placed(x, g, q, f) ==
  /\ x.gen <= g /\ x.told <= q
  /\ x.at = "off" => x.gen = 0 /\ x.told = 0
  /\ x.at # "off" => x.since <= f \/ x.since <= q
Given(x, S, f, h) == x.at # "off" => \A e \in S : f < e.seq /\ e.seq <= x.since => e.seq \in h
Reads(x, S, g, q, f, h) == InHand(x, q) /\ Covers(x, S, g) /\ Placed(x, g, q, f) /\ Given(x, S, f, h)

ReadInv ==
  /\ client \in [Clients -> ClientRec] /\ from \in [Clients -> Nat] /\ shown \in [Clients -> SUBSET Nat]
  /\ \A c \in Clients : Reads(client[c], Stored, gen, seq, from[c], shown[c])
  /\ ~up => \A c \in Clients : client[c].at = "off"

LEMMA SeqsAreNumbers ==
  ASSUME NEW b \in Seq(Ev)
  PROVE  \A i \in 1..Len(b) : b[i].seq \in Nat
<1>1. \A i \in 1..Len(b) : b[i] \in Ev
  BY ElementOfSeq
<1> QED BY <1>1 DEF Ev

\* One more event is stored: no client's position is past it, and the channel they took is closed.
LEMMA ReadsMore ==
  ASSUME NEW x \in ClientRec, NEW S, NEW T, NEW g \in Nat, NEW q \in Nat, NEW f \in Nat, NEW h,
         \A e \in T : e.seq \in Nat /\ (e \in S \/ e.seq = q + 1),
         Reads(x, S, g, q, f, h)
  PROVE  Reads(x, T, g + 1, q + 1, f, h)
<1>1. x.since \in Nat /\ x.gen \in Nat /\ x.told \in Nat /\ x.batch \in Seq(Ev)
  BY DEF ClientRec
<1>2. \A i \in 1..Len(x.batch) : x.batch[i].seq \in Nat
  BY <1>1, SeqsAreNumbers
<1>3. InHand(x, q) /\ Covers(x, S, g) /\ Placed(x, g, q, f) /\ Given(x, S, f, h)
  BY DEF Reads
<1>4. InHand(x, q + 1)
  BY SMTT(30), <1>1, <1>2, <1>3 DEF InHand
<1>5. Placed(x, g + 1, q + 1, f)
  BY <1>1, <1>3 DEF Placed
<1>6. Covers(x, T, g + 1)
  <2>1. ~(x.gen = g + 1)
    BY <1>1, <1>3 DEF Placed
  <2>2. ASSUME NEW e \in T, NEW i \in 1..Len(x.batch), x.since < e.seq, e.seq <= x.batch[i].seq
        PROVE  \E j \in 1..Len(x.batch) : x.batch[j] = e
    <3>1. e.seq # q + 1
      BY <1>2, <1>3, <2>2 DEF InHand
    <3> QED BY <1>3, <2>2, <3>1 DEF Covers
  <2> QED BY <2>1, <2>2 DEF Covers
<1>7. Given(x, T, f, h)
  <2> SUFFICES ASSUME x.at # "off", NEW e \in T, f < e.seq, e.seq <= x.since PROVE e.seq \in h
    BY DEF Given
  <2>1. e.seq # q + 1
    BY <1>1, <1>3 DEF Placed
  <2> QED BY <1>3, <2>1 DEF Given
<1> QED BY <1>4, <1>5, <1>6, <1>7 DEF Reads

\* A client that is off.
LEMMA ReadsOff ==
  ASSUME NEW x \in ClientRec, x.at = "off", x.gen = 0, x.told = 0, x.batch = <<>>, NEW g \in Nat, NEW q \in Nat, NEW f, NEW h, NEW S
  PROVE  Reads(x, S, g, q, f, h)
<1>1. Len(x.batch) = 0
  BY EmptySeq
<1> QED BY <1>1 DEF Reads, InHand, Covers, Placed, Given

LEMMA OffFacts ==
  ASSUME NEW x \in ClientRec
  PROVE  /\ Off(x) \in ClientRec /\ Off(x).at = "off" /\ Off(x).gen = 0 /\ Off(x).told = 0 /\ Off(x).batch = <<>>
         /\ Off(x).since = x.since
<1> DEFINE none == <<>>
<1>1. none \in Seq(Ev) /\ 0 \in Nat /\ "off" \in Stages
  BY DEF Stages
<1>2. Off(x) = [x EXCEPT !.at = "off", !.gen = 0, !.batch = none, !.told = 0]
  BY DEF Off
<1> HIDE DEF none
<1>3. /\ Off(x) \in ClientRec /\ Off(x).at = "off" /\ Off(x).gen = 0 /\ Off(x).told = 0 /\ Off(x).batch = none
      /\ Off(x).since = x.since
  BY <1>1, <1>2 DEF ClientRec
<1> QED BY <1>3 DEF none

\* A client takes one event from its batch.
LEMMA ReadsSend ==
  ASSUME NEW x \in ClientRec, NEW S, NEW g \in Nat, NEW q \in Nat, NEW f \in Nat, NEW h,
         \A e \in S : e.seq \in Nat, x.at = "wait", x.batch # <<>>, Reads(x, S, g, q, f, h),
         NEW y \in ClientRec, y.at = x.at, y.gen = x.gen, y.told = x.told, y.batch = Tail(x.batch), y.since = Head(x.batch).seq
  PROVE  Reads(y, S, g, q, f, h \cup {Head(x.batch).seq})
<1>0. x.since \in Nat /\ x.batch \in Seq(Ev)
  BY DEF ClientRec
<1>1. /\ Head(x.batch) = x.batch[1] /\ Len(x.batch) \in Nat /\ Len(x.batch) >= 1 /\ Len(y.batch) = Len(x.batch) - 1
      /\ \A i \in 1..Len(y.batch) : y.batch[i] = x.batch[i + 1]
  <2>1. Len(x.batch) \in Nat /\ Len(x.batch) # 0
    BY <1>0, EmptySeq, LenProperties
  <2>2. Len(Tail(x.batch)) = Len(x.batch) - 1 /\ (\A i \in 1..Len(Tail(x.batch)) : Tail(x.batch)[i] = x.batch[i + 1]) /\ Head(x.batch) = x.batch[1]
    BY <1>0, HeadTailProperties
  <2> QED BY <2>1, <2>2
<1>2. \A i \in 1..Len(x.batch) : x.batch[i].seq \in Nat
  BY <1>0, SeqsAreNumbers
<1>3. InHand(x, q) /\ Covers(x, S, g) /\ Placed(x, g, q, f) /\ Given(x, S, f, h)
  BY DEF Reads
<1>4. 1 \in 1..Len(x.batch) /\ y.since = x.batch[1].seq /\ y.since \in Nat /\ x.since < y.since /\ y.since <= q
  BY <1>1, <1>2, <1>3 DEF InHand
<1>5. \A i \in 1..Len(y.batch) : i + 1 \in 1..Len(x.batch) /\ y.batch[i] = x.batch[i + 1] /\ 1 < i + 1
  BY <1>1
<1>6. InHand(y, q)
  <2>1. \A i \in 1..Len(y.batch) : y.since < y.batch[i].seq /\ y.batch[i].seq <= q
    BY <1>3, <1>4, <1>5 DEF InHand
  <2>2. \A i, j \in 1..Len(y.batch) : i < j => y.batch[i].seq < y.batch[j].seq
    <3> SUFFICES ASSUME NEW i \in 1..Len(y.batch), NEW j \in 1..Len(y.batch), i < j PROVE y.batch[i].seq < y.batch[j].seq
      OBVIOUS
    <3>1. i + 1 < j + 1
      BY <1>1
    <3> QED BY <1>3, <1>5, <3>1 DEF InHand
  <2> QED BY <2>1, <2>2 DEF InHand
<1>7. ASSUME NEW e, y.since < e.seq, NEW j \in 1..Len(x.batch), x.batch[j] = e PROVE \E i \in 1..Len(y.batch) : y.batch[i] = e
  <2>1. j # 1
    BY <1>4, <1>7
  <2>2. j - 1 \in 1..Len(y.batch) /\ (j - 1) + 1 = j
    BY <1>1, <2>1
  <2>3. y.batch[j - 1] = x.batch[j]
    BY <1>5, <2>2
  <2> QED BY <1>7, <2>2, <2>3
<1>8. \A e \in S : y.since < e.seq => x.since < e.seq
  BY <1>0, <1>4
<1>9. Covers(y, S, g)
  <2>1. ASSUME NEW e \in S, NEW i \in 1..Len(y.batch), y.since < e.seq, e.seq <= y.batch[i].seq
        PROVE  \E j \in 1..Len(y.batch) : y.batch[j] = e
    <3>1. \E j \in 1..Len(x.batch) : x.batch[j] = e
      BY <1>3, <1>5, <1>8, <2>1 DEF Covers
    <3> QED BY <1>7, <2>1, <3>1
  <2>2. ASSUME y.at = "wait", y.gen = g, NEW e \in S, y.since < e.seq PROVE \E j \in 1..Len(y.batch) : y.batch[j] = e
    <3>1. \E j \in 1..Len(x.batch) : x.batch[j] = e
      BY <1>3, <1>8, <2>2 DEF Covers
    <3> QED BY <1>7, <2>2, <3>1
  <2> QED BY <2>1, <2>2 DEF Covers
<1>10. Placed(y, g, q, f)
  BY <1>3, <1>4 DEF Placed
<1>11. Given(y, S, f, h \cup {Head(x.batch).seq})
  <2> SUFFICES ASSUME NEW e \in S, f < e.seq, e.seq <= y.since PROVE e.seq \in h \cup {x.batch[1].seq}
    BY <1>1 DEF Given
  <2>1. CASE e.seq <= x.since
    BY <1>3, <2>1 DEF Given
  <2>2. CASE x.since < e.seq
    <3>1. PICK j \in 1..Len(x.batch) : x.batch[j] = e
      BY <1>3, <1>4, <2>2 DEF Covers
    <3>2. ~(1 < j)
      BY <1>2, <1>3, <1>4, <3>1 DEF InHand
    <3>3. j = 1
      BY <1>1, <3>2
    <3> QED BY <3>1, <3>3
  <2> QED BY <1>0, <2>1, <2>2
<1> QED BY <1>6, <1>9, <1>10, <1>11 DEF Reads

\* A step of one client, that becomes y, began at f and was shown h.
LEMMA OneClient ==
  ASSUME ReadInv, StoreInv, NEW c \in Clients, UNCHANGED <<up, seq, by, gen>>, NEW y \in ClientRec, NEW f \in Nat,
         NEW h \in SUBSET Nat, client' = [client EXCEPT ![c] = y], from' = [from EXCEPT ![c] = f], shown' = [shown EXCEPT ![c] = h],
         up \/ y.at = "off", Reads(y, Stored, gen, seq, f, h)
  PROVE  ReadInv'
<1>1. client \in [Clients -> ClientRec] /\ from \in [Clients -> Nat] /\ shown \in [Clients -> SUBSET Nat]
  BY DEF ReadInv
<1>2. client' \in [Clients -> ClientRec] /\ from' \in [Clients -> Nat] /\ shown' \in [Clients -> SUBSET Nat]
  BY <1>1
<1>3. Stored' = Stored
  BY DEF Stored
<1>4. ASSUME NEW d \in Clients PROVE Reads(client'[d], Stored', gen', seq', from'[d], shown'[d])
  <2>1. CASE d = c
    <3>1. client'[d] = y /\ from'[d] = f /\ shown'[d] = h
      BY <1>1, <2>1
    <3> QED BY <1>3, <3>1
  <2>2. CASE d # c
    <3>1. client'[d] = client[d] /\ from'[d] = from[d] /\ shown'[d] = shown[d]
      BY <1>1, <2>2
    <3> QED BY <1>3, <3>1 DEF ReadInv
  <2> QED BY <2>1, <2>2
<1>5. ~up' => \A d \in Clients : client'[d].at = "off"
  BY <1>1 DEF ReadInv
<1> QED BY <1>2, <1>4, <1>5 DEF ReadInv

\* A client whose batch is empty.
LEMMA ReadsIdle ==
  ASSUME NEW x \in ClientRec, NEW y \in ClientRec, NEW S, NEW g \in Nat, NEW q \in Nat, NEW f \in Nat, NEW h,
         y.batch = <<>>, y.at # "wait", y.at # "off", Placed(y, g, q, f), Given(y, S, f, h)
  PROVE  Reads(y, S, g, q, f, h)
<1>1. Len(y.batch) = 0
  BY EmptySeq
<1> QED BY <1>1 DEF Reads, InHand, Covers

LEMMA ClientStep ==
  ASSUME ReadInv, StoreInv, NEW c \in Clients,
         \/ Connect(c) \/ Changed(c) \/ EventsSince(c) \/ Send(c)
         \/ Wake(c) \/ Disconnect(c) \/ PollSeq(c) \/ PollEvents(c)
  PROVE  ReadInv'
<1> DEFINE x == client[c]
           y == client'[c]
<1>1. /\ client \in [Clients -> ClientRec] /\ from \in [Clients -> Nat] /\ shown \in [Clients -> SUBSET Nat]
      /\ x \in ClientRec /\ from[c] \in Nat /\ shown[c] \in SUBSET Nat
  BY DEF ReadInv
<1>2. Reads(x, Stored, gen, seq, from[c], shown[c])
  BY DEF ReadInv
<1>3. InHand(x, seq) /\ Covers(x, Stored, gen) /\ Placed(x, gen, seq, from[c]) /\ Given(x, Stored, from[c], shown[c])
  BY <1>2 DEF Reads
<1>4. seq \in Nat /\ gen \in Nat /\ \A e \in Stored : e.seq \in Nat /\ e.seq <= seq
  BY StoredFacts DEF StoreInv
<1>5. from = [from EXCEPT ![c] = from[c]] /\ shown = [shown EXCEPT ![c] = shown[c]]
  BY <1>1
<1>6. x.since \in Nat /\ x.told \in Nat /\ x.gen \in Nat /\ x.batch \in Seq(Ev)
  BY <1>1 DEF ClientRec
<1>7. UNCHANGED <<up, seq, by, gen>>
  BY DEF Connect, Changed, EventsSince, Send, Wake, Disconnect, PollSeq, PollEvents, store
<1>8. CASE Connect(c)
  <2>1. /\ up /\ x.at = "off" /\ client' = [client EXCEPT ![c] = [x EXCEPT !.at = "watch"]] /\ from' = [from EXCEPT ![c] = x.since]
        /\ shown' = shown
    BY <1>8 DEF Connect
  <2>2. y = [x EXCEPT !.at = "watch"]
    BY <1>1, <2>1
  <2>3. y \in ClientRec /\ y.at = "watch" /\ y.since = x.since /\ y.gen = x.gen /\ y.told = x.told /\ y.batch = x.batch
    BY <1>1, <2>2 DEF ClientRec, Stages
  <2>4. y.batch = <<>>
    BY <1>3, <2>1, <2>3 DEF InHand
  <2>5. Placed(y, gen, seq, x.since)
    BY <1>3, <1>6, <2>1, <2>3 DEF Placed
  <2>6. Given(y, Stored, x.since, shown[c])
    BY <1>4, <1>6, <2>3 DEF Given
  <2>7. Reads(y, Stored, gen, seq, x.since, shown[c])
    BY <1>1, <1>4, <1>6, <2>3, <2>4, <2>5, <2>6, ReadsIdle
  <2>8. client' = [client EXCEPT ![c] = y] /\ shown' = [shown EXCEPT ![c] = shown[c]] /\ from' = [from EXCEPT ![c] = x.since]
    BY <1>5, <2>1, <2>2
  <2> HIDE DEF y
  <2>11. up \/ y.at = "off"
    BY <2>1, Zenon
  <2> QED BY <1>1, <1>6, <1>7, <2>3, <2>7, <2>8, <2>11, OneClient, Zenon
<1>9. CASE Changed(c)
  <2>1. /\ up /\ x.at = "watch" /\ client' = [client EXCEPT ![c] = [x EXCEPT !.at = "read", !.gen = gen]]
        /\ from' = from /\ shown' = shown
    BY <1>9 DEF Changed
  <2>2. y = [x EXCEPT !.at = "read", !.gen = gen]
    BY <1>1, <2>1
  <2>3. y \in ClientRec /\ y.at = "read" /\ y.since = x.since /\ y.gen = gen /\ y.told = x.told /\ y.batch = x.batch
    BY <1>1, <1>4, <2>2 DEF ClientRec, Stages
  <2>4. y.batch = <<>>
    BY <1>3, <2>1, <2>3 DEF InHand
  <2>5. Placed(y, gen, seq, from[c])
    BY <1>3, <1>4, <1>6, <2>1, <2>3 DEF Placed
  <2>6. Given(y, Stored, from[c], shown[c])
    BY <1>3, <2>1, <2>3 DEF Given
  <2>7. Reads(y, Stored, gen, seq, from[c], shown[c])
    BY <1>1, <1>4, <2>3, <2>4, <2>5, <2>6, ReadsIdle
  <2>8. client' = [client EXCEPT ![c] = y] /\ from' = [from EXCEPT ![c] = from[c]] /\ shown' = [shown EXCEPT ![c] = shown[c]]
    BY <1>5, <2>1, <2>2
  <2> HIDE DEF y
  <2>11. up \/ y.at = "off"
    BY <2>1, Zenon
  <2> QED BY <1>1, <1>6, <1>7, <2>3, <2>7, <2>8, <2>11, OneClient, Zenon
<1>10. CASE EventsSince(c)
  <2> DEFINE b == Since(x.since)
  <2>1. /\ up /\ x.at = "read" /\ client' = [client EXCEPT ![c] = [x EXCEPT !.at = "wait", !.batch = b]]
        /\ from' = from /\ shown' = shown
    BY <1>10 DEF EventsSince
  <2>2. /\ b \in Seq(Ev)
        /\ \A i \in 1..Len(b) : b[i] \in Stored /\ b[i].seq > x.since
        /\ \A i, j \in 1..Len(b) : i < j => b[i].seq < b[j].seq
        /\ \A e \in Stored : e.seq > x.since => e \in ToSet(b)
    BY <1>6, SinceFacts
  <2> HIDE DEF b
  <2>3. y = [x EXCEPT !.at = "wait", !.batch = b]
    BY <1>1, <2>1
  <2>4. y \in ClientRec /\ y.at = "wait" /\ y.since = x.since /\ y.gen = x.gen /\ y.told = x.told /\ y.batch = b
    BY <1>1, <2>2, <2>3 DEF ClientRec, Stages
  <2>5. \A e \in Stored : x.since < e.seq => \E j \in 1..Len(b) : b[j] = e
    <3>1. DOMAIN b = 1..Len(b)
      BY <2>2, LenProperties
    <3>2. \A e \in Stored : x.since < e.seq => e.seq > x.since
      BY <1>4, <1>6
    <3> QED BY <2>2, <3>1, <3>2 DEF ToSet
  <2>6. InHand(y, seq)
    BY <1>4, <1>6, <2>2, <2>4 DEF InHand
  <2>7. Covers(y, Stored, gen)
    BY <2>4, <2>5 DEF Covers
  <2>8. Placed(y, gen, seq, from[c]) /\ Given(y, Stored, from[c], shown[c])
    BY <1>3, <2>1, <2>4 DEF Placed, Given
  <2>9. Reads(y, Stored, gen, seq, from[c], shown[c])
    BY <2>6, <2>7, <2>8 DEF Reads
  <2>10. client' = [client EXCEPT ![c] = y] /\ from' = [from EXCEPT ![c] = from[c]] /\ shown' = [shown EXCEPT ![c] = shown[c]]
    BY <1>5, <2>1, <2>3
  <2> HIDE DEF y
  <2>11. up \/ y.at = "off"
    BY <2>1, Zenon
  <2> QED BY <1>1, <1>6, <1>7, <2>4, <2>9, <2>10, <2>11, OneClient, Zenon
<1>11. CASE Send(c)
  <2> DEFINE e == Head(x.batch)
  <2>1. /\ up /\ x.at = "wait" /\ x.batch # <<>> /\ from' = from
        /\ client' = [client EXCEPT ![c] = [x EXCEPT !.batch = Tail(x.batch), !.since = e.seq, !.boot = e.boot]]
        /\ shown' = [shown EXCEPT ![c] = shown[c] \cup {e.seq}]
    BY <1>11 DEF Send
  <2>2. Tail(x.batch) \in Seq(Ev) /\ e \in Ev
    BY <1>6, <2>1, HeadTailProperties
  <2>3. e.seq \in Nat /\ e.boot \in Nat /\ shown[c] \cup {e.seq} \in SUBSET Nat
    BY <1>1, <2>2 DEF Ev
  <2>4. y = [x EXCEPT !.batch = Tail(x.batch), !.since = e.seq, !.boot = e.boot]
    BY <1>1, <2>1
  <2>5. y \in ClientRec /\ y.at = x.at /\ y.since = e.seq /\ y.gen = x.gen /\ y.told = x.told /\ y.batch = Tail(x.batch)
    BY <1>1, <2>2, <2>3, <2>4 DEF ClientRec
  <2>6. client' = [client EXCEPT ![c] = y] /\ from' = [from EXCEPT ![c] = from[c]]
    BY <1>5, <2>1, <2>4
  <2> HIDE DEF y
  <2>7. Reads(y, Stored, gen, seq, from[c], shown[c] \cup {Head(x.batch).seq})
    BY <1>1, <1>2, <1>4, <2>1, <2>5, ReadsSend
  <2> HIDE DEF e
  <2>8. shown' = [shown EXCEPT ![c] = shown[c] \cup {e.seq}] /\ (up \/ y.at = "off")
    BY <2>1, Zenon
  <2>9. Reads(y, Stored, gen, seq, from[c], shown[c] \cup {e.seq})
    BY <2>7 DEF e
  <2> QED BY <1>1, <1>7, <2>3, <2>5, <2>6, <2>8, <2>9, OneClient, Zenon
<1>12. CASE Wake(c)
  <2>1. /\ up /\ x.at = "wait" /\ x.batch = <<>> /\ client' = [client EXCEPT ![c] = [x EXCEPT !.at = "watch"]]
        /\ from' = from /\ shown' = shown
    BY <1>12 DEF Wake
  <2>2. y = [x EXCEPT !.at = "watch"]
    BY <1>1, <2>1
  <2>3. y \in ClientRec /\ y.at = "watch" /\ y.since = x.since /\ y.gen = x.gen /\ y.told = x.told /\ y.batch = x.batch
    BY <1>1, <2>2 DEF ClientRec, Stages
  <2>4. Placed(y, gen, seq, from[c]) /\ Given(y, Stored, from[c], shown[c])
    BY <1>3, <2>1, <2>3 DEF Placed, Given
  <2>5. Reads(y, Stored, gen, seq, from[c], shown[c])
    BY <1>1, <1>4, <2>1, <2>3, <2>4, ReadsIdle
  <2>6. client' = [client EXCEPT ![c] = y] /\ from' = [from EXCEPT ![c] = from[c]] /\ shown' = [shown EXCEPT ![c] = shown[c]]
    BY <1>5, <2>1, <2>2
  <2> HIDE DEF y
  <2>11. up \/ y.at = "off"
    BY <2>1, Zenon
  <2> QED BY <1>1, <1>6, <1>7, <2>3, <2>5, <2>6, <2>11, OneClient, Zenon
<1>13. CASE Disconnect(c)
  <2>1. client' = [client EXCEPT ![c] = Off(x)] /\ shown' = [shown EXCEPT ![c] = {}] /\ from' = [from EXCEPT ![c] = 0]
    BY <1>13 DEF Disconnect
  <2>2. Off(x) \in ClientRec /\ Off(x).at = "off" /\ Reads(Off(x), Stored, gen, seq, 0, {})
    BY <1>1, <1>4, OffFacts, ReadsOff
  <2> QED BY <1>7, <2>1, <2>2, OneClient
<1>14. CASE PollSeq(c)
  <2>1. /\ up /\ x.at = "watch" /\ client' = [client EXCEPT ![c] = [x EXCEPT !.at = "read", !.told = seq]]
        /\ from' = from /\ shown' = shown
    BY <1>14 DEF PollSeq
  <2>2. y = [x EXCEPT !.at = "read", !.told = seq]
    BY <1>1, <2>1
  <2>3. y \in ClientRec /\ y.at = "read" /\ y.since = x.since /\ y.gen = x.gen /\ y.told = seq /\ y.batch = x.batch
    BY <1>1, <1>4, <2>2 DEF ClientRec, Stages
  <2>4. y.batch = <<>>
    BY <1>3, <2>1, <2>3 DEF InHand
  <2>5. Placed(y, gen, seq, from[c]) /\ Given(y, Stored, from[c], shown[c])
    BY <1>3, <1>4, <2>1, <2>3 DEF Placed, Given
  <2>6. Reads(y, Stored, gen, seq, from[c], shown[c])
    BY <1>1, <1>4, <2>3, <2>4, <2>5, ReadsIdle
  <2>7. client' = [client EXCEPT ![c] = y] /\ from' = [from EXCEPT ![c] = from[c]] /\ shown' = [shown EXCEPT ![c] = shown[c]]
    BY <1>5, <2>1, <2>2
  <2> HIDE DEF y
  <2>11. up \/ y.at = "off"
    BY <2>1, Zenon
  <2> QED BY <1>1, <1>6, <1>7, <2>3, <2>6, <2>7, <2>11, OneClient, Zenon
<1>15. CASE PollEvents(c)
  <2> DEFINE h == shown[c] \cup {e.seq : e \in ToSet(Since(x.since))}
  <2>1. /\ up /\ x.at = "read" /\ from' = from /\ shown' = [shown EXCEPT ![c] = h]
        /\ client' = [client EXCEPT ![c] = [x EXCEPT !.at = "watch", !.since = x.told, !.boot = boot, !.told = 0]]
    BY <1>15 DEF PollEvents
  <2>2. boot \in Nat /\ h \in SUBSET Nat
    <3>1. Since(x.since) \in Seq(Ev)
      BY <1>6, SinceFacts
    <3>2. DOMAIN Since(x.since) = 1..Len(Since(x.since)) /\ \A i \in 1..Len(Since(x.since)) : Since(x.since)[i].seq \in Nat
      BY <3>1, LenProperties, SeqsAreNumbers
    <3> QED BY <1>1, <3>2 DEF StoreInv, ToSet
  <2>3. y = [x EXCEPT !.at = "watch", !.since = x.told, !.boot = boot, !.told = 0]
    BY <1>1, <2>1
  <2>4. y \in ClientRec /\ y.at = "watch" /\ y.since = x.told /\ y.gen = x.gen /\ y.told = 0 /\ y.batch = x.batch
    <3> DEFINE t == x.told
    <3>1. y = [x EXCEPT !.at = "watch", !.since = t, !.boot = boot, !.told = 0] /\ t \in Nat /\ boot \in Nat
      BY <1>6, <2>2, <2>3
    <3> HIDE DEF t, y
    <3>2. y \in ClientRec /\ y.at = "watch" /\ y.since = t /\ y.gen = x.gen /\ y.told = 0 /\ y.batch = x.batch
      BY <1>1, <3>1 DEF ClientRec, Stages
    <3> QED BY <3>2 DEF t
  <2>5. y.batch = <<>>
    BY <1>3, <2>1, <2>4 DEF InHand
  <2>6. Placed(y, gen, seq, from[c])
    BY <1>3, <1>4, <2>1, <2>4 DEF Placed
  <2>7. \A e \in Stored : e.seq > x.since => e.seq \in h
    BY <1>6, SinceFacts
  <2>8. Given(y, Stored, from[c], h)
    <3> SUFFICES ASSUME NEW e \in Stored, from[c] < e.seq, e.seq <= y.since PROVE e.seq \in h
      BY DEF Given
    <3>1. CASE e.seq <= x.since
      BY <1>3, <2>1, <3>1 DEF Given
    <3>2. CASE e.seq > x.since
      BY <2>7, <3>2
    <3> QED BY <1>4, <1>6, <3>1, <3>2
  <2> HIDE DEF h
  <2>9. Reads(y, Stored, gen, seq, from[c], h)
    BY <1>1, <1>4, <2>4, <2>5, <2>6, <2>8, ReadsIdle
  <2>10. client' = [client EXCEPT ![c] = y] /\ from' = [from EXCEPT ![c] = from[c]]
    BY <1>5, <2>1, <2>3
  <2> HIDE DEF y
  <2> QED BY <1>1, <1>7, <2>1, <2>2, <2>4, <2>9, <2>10, OneClient, ZenonT(60)
<1> QED BY <1>8, <1>9, <1>10, <1>11, <1>12, <1>13, <1>14, <1>15

LEMMA ReadStep == StoreInv /\ ReadInv /\ [Next]_vars => ReadInv'
<1> SUFFICES ASSUME StoreInv, ReadInv, [Next]_vars PROVE ReadInv'
  OBVIOUS
<1>0. /\ client \in [Clients -> ClientRec] /\ from \in [Clients -> Nat] /\ shown \in [Clients -> SUBSET Nat]
      /\ seq \in Nat /\ gen \in Nat /\ by \in Lists
  BY DEF ReadInv, StoreInv
<1>1. ASSUME NEW k \in Kinds, AddEvent(k) PROVE ReadInv'
  <2>1. /\ StoreInv' /\ seq' = seq + 1 /\ gen' = gen + 1 /\ UNCHANGED <<client, shown, from>>
        /\ \A e \in Stored' : e \in Stored \/ e.seq = seq + 1
    BY <1>1, AddEventFacts
  <2>2. up /\ up'
    BY <1>1, Zenon DEF AddEvent
  <2>3. \A e \in Stored : e.seq \in Nat
    BY <1>0, StoredFacts
  <2>4. \A e \in Stored' : e.seq \in Nat /\ (e \in Stored \/ e.seq = seq + 1)
    BY <1>0, <2>1, <2>3
  <2>5. ASSUME NEW c \in Clients PROVE Reads(client[c], Stored', gen + 1, seq + 1, from[c], shown[c])
    <3>1. client[c] \in ClientRec /\ from[c] \in Nat /\ Reads(client[c], Stored, gen, seq, from[c], shown[c])
      BY <1>0 DEF ReadInv
    <3> DEFINE T == Stored'
    <3>2. \A e \in T : e.seq \in Nat /\ (e \in Stored \/ e.seq = seq + 1)
      BY <2>4
    <3> HIDE DEF T
    <3>3. Reads(client[c], T, gen + 1, seq + 1, from[c], shown[c])
      BY <1>0, <3>1, <3>2, ReadsMore
    <3> QED BY <3>3 DEF T
  <2>6. \A c \in Clients : Reads(client'[c], Stored', gen', seq', from'[c], shown'[c])
    BY <2>1, <2>5
  <2> QED BY <1>0, <2>1, <2>2, <2>6, Zenon DEF ReadInv
<1>2. CASE Close \/ Crash
  <2>1. /\ client' = [c \in Clients |-> Off(client[c])] /\ shown' = [c \in Clients |-> {}] /\ from' = [c \in Clients |-> 0]
        /\ gen' = 1 /\ seq' = 0
    BY <1>2 DEF Close, Crash, Down
  <2>2. client' \in [Clients -> ClientRec] /\ from' \in [Clients -> Nat] /\ shown' \in [Clients -> SUBSET Nat]
    BY <1>0, <2>1, OffFacts
  <2>3. ASSUME NEW c \in Clients PROVE client'[c].at = "off" /\ Reads(client'[c], Stored', gen', seq', from'[c], shown'[c])
    <3> DEFINE T == Stored'
    <3>1. client'[c] = Off(client[c]) /\ client[c] \in ClientRec
      BY <1>0, <2>1
    <3>2. gen' \in Nat /\ seq' \in Nat
      BY <2>1
    <3> HIDE DEF T
    <3>3. Off(client[c]) \in ClientRec /\ Off(client[c]).at = "off" /\ Reads(Off(client[c]), T, gen', seq', from'[c], shown'[c])
      BY <3>1, <3>2, OffFacts, ReadsOff
    <3> QED BY <3>1, <3>3 DEF T
  <2> QED BY <2>2, <2>3 DEF ReadInv
<1>3. CASE Restore
  <2>1. UNCHANGED <<client, shown, from>> /\ StoreInv' /\ ~up /\ up'
    BY <1>3, RunFacts, Zenon DEF Restore
  <2>2. ASSUME NEW c \in Clients PROVE Reads(client'[c], Stored', gen', seq', from'[c], shown'[c])
    <3> DEFINE T == Stored'
    <3>1. client'[c] = client[c] /\ client[c] \in ClientRec /\ client[c].at = "off"
      BY <1>0, <2>1 DEF ReadInv
    <3>2. client[c].gen = 0 /\ client[c].told = 0 /\ client[c].batch = <<>>
      BY <3>1 DEF ReadInv, Reads, Placed, InHand
    <3>3. gen' \in Nat /\ seq' \in Nat
      BY <2>1 DEF StoreInv
    <3> HIDE DEF T
    <3>4. Reads(client[c], T, gen', seq', from'[c], shown'[c])
      BY <3>1, <3>2, <3>3, ReadsOff
    <3> QED BY <3>1, <3>4 DEF T
  <2> QED BY <1>0, <2>1, <2>2, Zenon DEF ReadInv
<1>4. ASSUME NEW c \in Clients, \/ Connect(c) \/ Changed(c) \/ EventsSince(c) \/ Send(c)
                                \/ Wake(c) \/ Disconnect(c) \/ PollSeq(c) \/ PollEvents(c)
      PROVE  ReadInv'
  BY <1>4, ClientStep
<1>5. ASSUME UNCHANGED <<up, seq, by, gen, client, shown, from>> PROVE ReadInv'
  BY <1>5 DEF ReadInv, Stored
<1>6. ASSUME NEW e, Detection(e) \/ RotateFails(e) \/ DetectionFails(e) \/ DetectionRefused(e) PROVE ReadInv'
  <2>1. UNCHANGED <<up, seq, by, gen, client, shown, from>>
    BY <1>6 DEF Detection, RotateFails, DetectionFails, DetectionRefused, store
  <2> QED BY <1>5, <2>1
<1>7. CASE Snapshot
  <2>1. UNCHANGED <<up, seq, by, gen, client, shown, from>>
    BY <1>7 DEF Snapshot, store
  <2> QED BY <1>5, <2>1
<1>8. CASE UNCHANGED vars
  <2>1. UNCHANGED <<up, seq, by, gen, client, shown, from>>
    BY <1>8 DEF vars, store
  <2> QED BY <1>5, <2>1
<1> QED BY <1>1, <1>2, <1>3, <1>4, <1>6, <1>7, <1>8 DEF Next

LEMMA ReadStart == Init => ReadInv
<1> SUFFICES ASSUME Init PROVE ReadInv
  OBVIOUS
<1>1. PICK u \in Setups : client = [c \in Clients |-> NewClient(u.role)]
  BY DEF Init
<1>2. u.role \in Roles
  BY EventsAssumption DEF Roles
<1> DEFINE x == NewClient(u.role)
           none == <<>>
<1>3. x = [role |-> u.role, at |-> "off", since |-> 0, boot |-> 1, gen |-> 0, batch |-> none, told |-> 0]
  BY DEF NewClient
<1>4. none \in Seq(Ev) /\ "off" \in Stages
  BY DEF Stages
<1> HIDE DEF x, none
<1>5. x \in ClientRec /\ x.at = "off" /\ x.gen = 0 /\ x.told = 0 /\ x.batch = none
  BY <1>2, <1>3, <1>4 DEF ClientRec
<1>6. seq = 0 /\ gen = 1 /\ from = [c \in Clients |-> 0] /\ shown = [c \in Clients |-> {}]
  BY DEF Init
<1>7. \A c \in Clients : client[c] = x
  BY <1>1 DEF x
<1>8. x.batch = <<>>
  BY <1>5 DEF none
<1>9. ASSUME NEW c \in Clients PROVE Reads(client[c], Stored, gen, seq, from[c], shown[c])
  BY <1>5, <1>6, <1>7, <1>8, ReadsOff
<1>10. client \in [Clients -> ClientRec] /\ from \in [Clients -> Nat] /\ shown \in [Clients -> SUBSET Nat]
  BY <1>1, <1>5, <1>6 DEF x
<1> QED BY <1>5, <1>7, <1>9, <1>10 DEF ReadInv

\* A stream loses no wakeup (state.go Changed, server.go stream): for any number of streams and any order of the
\* steps, one that waits on the open channel with nothing left to send was sent every event that is stored.
THEOREM NoStreamSleeps == Spec => []NoLostWakeup
<1>1. Init => StoreInv /\ ReadInv
  BY StoreStart, ReadStart
<1>2. StoreInv /\ ReadInv /\ [Next]_vars => StoreInv' /\ ReadInv'
  BY StoreStep, ReadStep
<1>3. StoreInv /\ ReadInv => NoLostWakeup
  <2> SUFFICES ASSUME StoreInv, ReadInv, NEW c \in Streams, client[c].at = "wait", client[c].gen = gen, client[c].batch = <<>>,
                      NEW e \in Stored
               PROVE  e.seq <= client[c].since
    BY DEF NoLostWakeup
  <2>1. c \in Clients /\ client[c] \in ClientRec /\ Covers(client[c], Stored, gen)
    BY DEF Streams, ReadInv, Reads
  <2>2. Len(client[c].batch) = 0
    BY EmptySeq
  <2>3. ~(client[c].since < e.seq)
    BY <2>1, <2>2 DEF Covers
  <2>4. e.seq \in Nat /\ client[c].since \in Nat
    BY <2>1, StoredFacts DEF StoreInv, ClientRec
  <2> QED BY <2>3, <2>4
<1> QED BY <1>1, <1>2, <1>3, PTL DEF Spec

\* No reader is moved past an event (server.go stream and events, events.go since): of what is stored, everything
\* between where a client's connection began and its Last-Event-ID, or the seq its poll was told, it was sent.
THEOREM NoReaderSkips == Spec => []NothingSkipped
<1>1. Init => StoreInv /\ ReadInv
  BY StoreStart, ReadStart
<1>2. StoreInv /\ ReadInv /\ [Next]_vars => StoreInv' /\ ReadInv'
  BY StoreStep, ReadStep
<1>3. StoreInv /\ ReadInv => NothingSkipped
  BY DEF ReadInv, Reads, Given, NothingSkipped
<1> QED BY <1>1, <1>2, <1>3, PTL DEF Spec

-----------------------------------------------------------------------------
(* The lists are in order and within their limits.                         *)

\* Every event comes before every later one of s.
Rising(s) == \A i, j \in 1..Len(s) : i < j => s[i].seq < s[j].seq

LEMMA RisingAscends ==
  ASSUME NEW s, Len(s) \in Nat, Rising(s)
  PROVE  Ascending(s)
<1> SUFFICES ASSUME NEW i \in 1..(Len(s) - 1) PROVE s[i].seq < s[i + 1].seq
  BY DEF Ascending
<1>1. i \in 1..Len(s) /\ i + 1 \in 1..Len(s) /\ i < i + 1
  OBVIOUS
<1> QED BY <1>1 DEF Rising

LEMMA EventFacts ==
  /\ Event \subseteq Ev
  /\ \A e \in Event : e.seq \in 1..MaxSeq /\ e.seq \in Nat /\ e.boot \in 1..MaxBoots
<1>1. MaxSeq \in Nat /\ MaxBoots \in Nat
  BY EventsAssumption
<1> QED BY <1>1 DEF Event, Ev

\* An event appended after all the others, and the oldest dropped, keep the order.
LEMMA RisingStep ==
  ASSUME NEW s \in Seq(Ev), NEW e \in Ev, Rising(s)
  PROVE  /\ (\A i \in 1..Len(s) : s[i].seq < e.seq) => Rising(Append(s, e))
         /\ s # <<>> => Rising(Tail(s))
<1>0. Len(s) \in Nat
  BY LenProperties
<1>1. ASSUME \A i \in 1..Len(s) : s[i].seq < e.seq PROVE Rising(Append(s, e))
  <2>1. /\ Len(Append(s, e)) = Len(s) + 1 /\ \A i \in 1..Len(s) : Append(s, e)[i] = s[i]
        /\ Append(s, e)[Len(s) + 1] = e
    BY AppendProperties
  <2> SUFFICES ASSUME NEW i \in 1..(Len(s) + 1), NEW j \in 1..(Len(s) + 1), i < j
               PROVE  Append(s, e)[i].seq < Append(s, e)[j].seq
    BY <2>1 DEF Rising
  <2>2. i \in 1..Len(s) /\ (j \in 1..Len(s) \/ j = Len(s) + 1)
    BY <1>0
  <2> QED BY <1>1, <2>1, <2>2 DEF Rising
<1>2. ASSUME s # <<>> PROVE Rising(Tail(s))
  <2>1. Len(Tail(s)) = Len(s) - 1 /\ \A i \in 1..Len(Tail(s)) : Tail(s)[i] = s[i + 1]
    BY <1>2, HeadTailProperties
  <2> SUFFICES ASSUME NEW i \in 1..(Len(s) - 1), NEW j \in 1..(Len(s) - 1), i < j
               PROVE  Tail(s)[i].seq < Tail(s)[j].seq
    BY <2>1 DEF Rising
  <2>2. i + 1 \in 1..Len(s) /\ j + 1 \in 1..Len(s) /\ i + 1 < j + 1
    BY <1>0
  <2>3. s[i + 1].seq < s[j + 1].seq
    BY <2>2 DEF Rising
  <2> QED BY <2>1, <2>3
<1> QED BY <1>1, <1>2

\* eventStore.add keeps the class lists in order.
LEMMA AddRises ==
  ASSUME NEW b \in Lists, NEW e \in Ev, \A d \in Classes : Rising(b[d]),
         \A d \in Classes : \A f \in ToSet(b[d]) : f.seq < e.seq
  PROVE  \A d \in Classes : Rising(Add(b, e)[d])
<1> DEFINE c == classOf(e.kind)
           more == [b EXCEPT ![c] = Append(@, e)]
           v == Victim(more)
           a == Add(b, e)
<1>0. c \in Classes /\ \A d \in Classes : b[d] \in Seq(Ev)
  BY ClassesAre, ListSizes
<1>1. more \in Lists /\ more[c] = Append(b[c], e) /\ \A d \in Classes : d # c => more[d] = b[d]
  BY <1>0, SeqFacts DEF Lists
<1>2. /\ Total(more) > MaxEvents => a = [more EXCEPT ![v] = Tail(more[v])]
      /\ ~(Total(more) > MaxEvents) => a = more
  BY <1>1 DEF Add
<1>3. v \in Classes /\ (Total(more) > MaxEvents => Sizes(more)[v] > Share[v])
  BY <1>1, VictimFacts
<1>4. \A d \in Classes : more[d] \in Seq(Ev) /\ Sizes(more)[d] = Len(more[d]) /\ Sizes(more)[d] \in Nat /\ Share[d] \in Nat
  BY <1>1, ListSizes, EventsAssumption
<1> HIDE DEF c, more, v, a
<1>5. Rising(more[c])
  <2>1. DOMAIN b[c] = 1..Len(b[c])
    BY <1>0, LenProperties
  <2>2. \A i \in 1..Len(b[c]) : b[c][i].seq < e.seq
    BY <1>0, <2>1 DEF ToSet
  <2> QED BY <1>0, <1>1, <2>2, RisingStep
<1>6. \A d \in Classes : Rising(more[d])
  BY <1>1, <1>5
<1>7. CASE ~(Total(more) > MaxEvents)
  BY <1>2, <1>6, <1>7 DEF a
<1>8. CASE Total(more) > MaxEvents
  <2>1. a = [more EXCEPT ![v] = Tail(more[v])] /\ Sizes(more)[v] > Share[v]
    BY <1>2, <1>3, <1>8
  <2>2. more[v] # <<>>
    BY <1>3, <1>4, <2>1, EmptySeq
  <2>3. Rising(Tail(more[v]))
    BY <1>0, <1>3, <1>4, <1>6, <2>2, RisingStep
  <2>4. a[v] = Tail(more[v]) /\ \A d \in Classes : d # v => a[d] = more[d]
    BY <1>1, <1>3, <2>1 DEF Lists
  <2> QED BY <1>6, <2>3, <2>4 DEF a
<1> QED BY <1>7, <1>8

-----------------------------------------------------------------------------
(* The ring.                                                               *)

\* Reading from place n on, place i comes before place j.
Older(n, i, j) == \/ i < j /\ (n <= i \/ j < n)
                  \/ n <= i /\ j < n

\* A ring within its cap, in order from its oldest on, of events up to q.
RingOK(g, q) ==
  /\ g \in [evs : Seq(Event), next : Nat]
  /\ Len(g.evs) <= RecCap /\ g.next \in 1..RecCap
  /\ Len(g.evs) < RecCap => g.next = 1
  /\ \A i, j \in 1..Len(g.evs) : Older(g.next, i, j) => g.evs[i].seq < g.evs[j].seq
  /\ \A i \in 1..Len(g.evs) : g.evs[i].seq <= q

LEMMA RingFacts ==
  ASSUME NEW g, NEW q, RingOK(g, q)
  PROVE  /\ g.evs \in Seq(Event) /\ Len(g.evs) \in Nat /\ g.next \in Nat /\ RecCap \in Nat /\ RecCap >= 1
         /\ DOMAIN g.evs = 1..Len(g.evs) /\ \A i \in 1..Len(g.evs) : g.evs[i] \in Event /\ g.evs[i].seq \in Nat
<1>1. g.evs \in Seq(Event) /\ g.next \in Nat
  BY DEF RingOK
<1>2. RecCap \in Nat /\ RecCap >= 1
  BY EventsAssumption
<1>3. Len(g.evs) \in Nat /\ DOMAIN g.evs = 1..Len(g.evs)
  BY <1>1, LenProperties
<1>4. \A i \in 1..Len(g.evs) : g.evs[i] \in Event
  BY <1>1, ElementOfSeq
<1> QED BY <1>1, <1>2, <1>3, <1>4, EventFacts

LEMMA RingAddKeeps ==
  ASSUME NEW q \in Nat, NEW g, RingOK(g, q), NEW e \in Event, e.seq = q + 1
  PROVE  RingOK(RingAdd(g, e), q + 1)
<1> DEFINE h == RingAdd(g, e)
           n == Len(g.evs)
<1>1. /\ g.evs \in Seq(Event) /\ n \in Nat /\ g.next \in Nat /\ RecCap \in Nat /\ RecCap >= 1
      /\ DOMAIN g.evs = 1..n /\ \A i \in 1..n : g.evs[i] \in Event /\ g.evs[i].seq \in Nat
  BY RingFacts
<1>2. /\ g \in [evs : Seq(Event), next : Nat] /\ n <= RecCap /\ g.next \in 1..RecCap /\ (n < RecCap => g.next = 1)
      /\ \A i, j \in 1..n : Older(g.next, i, j) => g.evs[i].seq < g.evs[j].seq
      /\ \A i \in 1..n : g.evs[i].seq <= q
  BY DEF RingOK
<1>3. CASE n < RecCap
  <2>1. h = [g EXCEPT !.evs = Append(g.evs, e)]
    BY <1>3 DEF RingAdd
  <2>2. Append(g.evs, e) \in Seq(Event)
    BY <1>1, AppendProperties
  <2>3. h \in [evs : Seq(Event), next : Nat] /\ h.evs = Append(g.evs, e) /\ h.next = 1
    BY <1>2, <1>3, <2>1, <2>2
  <2>4. Len(h.evs) = n + 1 /\ (\A i \in 1..n : h.evs[i] = g.evs[i]) /\ h.evs[n + 1] = e
    BY <1>1, <2>3, AppendProperties
  <2> HIDE DEF h, n
  <2>5. ASSUME NEW i \in 1..(n + 1), NEW j \in 1..(n + 1), Older(1, i, j) PROVE h.evs[i].seq < h.evs[j].seq
    <3>1. i \in 1..n /\ (j \in 1..n \/ j = n + 1)
      BY <1>1, <2>5 DEF Older
    <3>2. CASE j \in 1..n
      BY <1>2, <1>3, <2>4, <2>5, <3>1, <3>2
    <3>3. CASE j = n + 1
      <4>1. g.evs[i].seq <= q /\ g.evs[i].seq \in Nat /\ h.evs[i] = g.evs[i] /\ h.evs[j] = e
        BY <1>1, <1>2, <2>4, <3>1, <3>3
      <4> QED BY <4>1
    <3> QED BY <3>1, <3>2, <3>3
  <2>6. \A i \in 1..(n + 1) : h.evs[i].seq <= q + 1
    <3> SUFFICES ASSUME NEW i \in 1..(n + 1) PROVE h.evs[i].seq <= q + 1
      OBVIOUS
    <3>1. i \in 1..n \/ i = n + 1
      BY <1>1
    <3>2. CASE i \in 1..n
      <4>1. h.evs[i] = g.evs[i] /\ g.evs[i].seq <= q /\ g.evs[i].seq \in Nat
        BY <1>1, <1>2, <2>4, <3>2
      <4> QED BY <4>1
    <3> QED BY <2>4, <3>1, <3>2
  <2> QED BY <1>1, <1>3, <2>3, <2>4, <2>5, <2>6 DEF RingOK, h
<1>4. CASE ~(n < RecCap)
  <2> DEFINE m == Advance(g.next, n)
  <2>1. n = RecCap /\ h = [evs |-> [g.evs EXCEPT ![g.next] = e], next |-> m]
    BY <1>1, <1>2, <1>4 DEF RingAdd
  <2>2. g.next \in 1..n /\ m \in 1..n /\ (g.next = n => m = 1) /\ (g.next # n => m = g.next + 1)
    BY <1>1, <1>2, <2>1 DEF Advance
  <2> HIDE DEF m
  <2>3. h.evs = [g.evs EXCEPT ![g.next] = e] /\ h.next = m
    BY <2>1
  <2>4. h.evs \in Seq(Event) /\ Len(h.evs) = n
    <3>1. PICK s, i : s = g.evs /\ i = g.next
      OBVIOUS
    <3>2. s \in Seq(Event) /\ i \in 1..Len(s)
      BY <1>1, <2>2, <3>1
    <3>3. [s EXCEPT ![i] = e] \in Seq(Event) /\ Len([s EXCEPT ![i] = e]) = Len(s)
      BY <3>2, ExceptSeq
    <3> QED BY <2>3, <3>1, <3>3
  <2>5. h \in [evs : Seq(Event), next : Nat]
    BY <1>1, <2>1, <2>2, <2>3, <2>4
  <2>6. h.evs[g.next] = e /\ \A i \in 1..n : i # g.next => h.evs[i] = g.evs[i]
    BY <1>1, <2>2, <2>3
  <2> HIDE DEF h, n
  <2>7. ASSUME NEW i \in 1..n, NEW j \in 1..n, Older(m, i, j) PROVE h.evs[i].seq < h.evs[j].seq
    <3>1. i # g.next
      BY <1>1, <2>2, <2>7 DEF Older
    <3>2. CASE j = g.next
      <4>1. g.evs[i].seq <= q /\ g.evs[i].seq \in Nat /\ h.evs[i] = g.evs[i] /\ h.evs[j] = e
        BY <1>1, <1>2, <2>6, <3>1, <3>2
      <4> QED BY <4>1
    <3>3. CASE j # g.next
      <4>1. Older(g.next, i, j)
        BY <1>1, <2>2, <2>7, <3>1, <3>3 DEF Older
      <4> QED BY <1>2, <2>6, <3>1, <3>3, <4>1
    <3> QED BY <3>2, <3>3
  <2>8. \A i \in 1..n : h.evs[i].seq <= q + 1
    <3> SUFFICES ASSUME NEW i \in 1..n PROVE h.evs[i].seq <= q + 1
      OBVIOUS
    <3>1. CASE i # g.next
      <4>1. h.evs[i] = g.evs[i] /\ g.evs[i].seq <= q /\ g.evs[i].seq \in Nat
        BY <1>1, <1>2, <2>6, <3>1
      <4> QED BY <4>1
    <3> QED BY <2>6, <3>1
  <2>9. Len(h.evs) <= RecCap /\ h.next \in 1..RecCap /\ ~(Len(h.evs) < RecCap)
    BY <1>1, <2>1, <2>2, <2>3, <2>4
  <2>10. \A i, j \in 1..Len(h.evs) : Older(h.next, i, j) => h.evs[i].seq < h.evs[j].seq
    BY <2>3, <2>4, <2>7
  <2> QED BY <2>4, <2>5, <2>8, <2>9, <2>10 DEF RingOK, h
<1> QED BY <1>3, <1>4

\* Reading a ring oldest first gives its events in order.
LEMMA EachRises ==
  ASSUME NEW q, NEW g, RingOK(g, q)
  PROVE  Each(g) \in Seq(Event) /\ Len(Each(g)) <= RecCap /\ Rising(Each(g))
<1> DEFINE n == Len(g.evs)
           k == g.next
           t == SubSeq(g.evs, k, n)
           u == SubSeq(g.evs, 1, k - 1)
<1>1. /\ g.evs \in Seq(Event) /\ n \in Nat /\ k \in Nat /\ RecCap \in Nat /\ RecCap >= 1
      /\ DOMAIN g.evs = 1..n /\ \A i \in 1..n : g.evs[i] \in Event
  BY RingFacts
<1>2. /\ n <= RecCap /\ k \in 1..RecCap /\ (n < RecCap => k = 1)
      /\ \A i, j \in 1..n : Older(k, i, j) => g.evs[i].seq < g.evs[j].seq
  BY DEF RingOK
<1> HIDE DEF n, k
<1>3. k >= 1 /\ k <= n + 1
  BY <1>1, <1>2
<1>4. t \in Seq(Event) /\ Len(t) = n - k + 1 /\ \A i \in 1..(n - k + 1) : t[i] = g.evs[k + i - 1]
  <2>1. \A i \in k..n : g.evs[i] \in Event
    BY <1>1, <1>3
  <2>2. /\ t \in Seq(Event) /\ Len(t) = IF k <= n THEN n - k + 1 ELSE 0
        /\ \A i \in 1..(n - k + 1) : t[i] = g.evs[k + i - 1]
    BY <1>1, <2>1, SubSeqProperties
  <2> QED BY <1>1, <1>3, <2>2
<1>5. u \in Seq(Event) /\ Len(u) = k - 1 /\ \A i \in 1..(k - 1) : u[i] = g.evs[i]
  <2>1. \A i \in 1..(k - 1) : g.evs[i] \in Event
    BY <1>1, <1>3
  <2>2. /\ u \in Seq(Event) /\ Len(u) = IF 1 <= k - 1 THEN (k - 1) - 1 + 1 ELSE 0
        /\ \A i \in 1..((k - 1) - 1 + 1) : u[i] = g.evs[1 + i - 1]
    BY <1>1, <1>3, <2>1, SubSeqProperties
  <2> QED BY <1>1, <1>3, <2>2
<1>6. Each(g) = t \o u
  BY DEF Each, n, k
<1> HIDE DEF t, u
<1>7. /\ Each(g) \in Seq(Event) /\ Len(Each(g)) = Len(t) + Len(u)
      /\ \A i \in 1..(Len(t) + Len(u)) : Each(g)[i] = IF i <= Len(t) THEN t[i] ELSE u[i - Len(t)]
  <2>1. t \in Seq(Event) /\ u \in Seq(Event)
    BY <1>4, <1>5
  <2>2. /\ t \o u \in Seq(Event) /\ Len(t \o u) = Len(t) + Len(u)
        /\ \A i \in 1..(Len(t) + Len(u)) : (t \o u)[i] = IF i <= Len(t) THEN t[i] ELSE u[i - Len(t)]
    BY <2>1, ConcatProperties
  <2> QED BY <1>6, <2>2, Zenon
<1>8. Len(Each(g)) = n
  BY <1>1, <1>3, <1>4, <1>5, <1>7
<1> DEFINE at(i) == IF i <= n - k + 1 THEN k + i - 1 ELSE i - (n - k + 1)
<1>9. \A i \in 1..n : at(i) \in 1..n /\ Each(g)[i] = g.evs[at(i)]
  <2> SUFFICES ASSUME NEW i \in 1..n PROVE at(i) \in 1..n /\ Each(g)[i] = g.evs[at(i)]
    OBVIOUS
  <2>1. i \in 1..(Len(t) + Len(u))
    BY <1>1, <1>3, <1>4, <1>5
  <2>2. CASE i <= n - k + 1
    BY <1>1, <1>3, <1>4, <1>7, <2>1, <2>2
  <2>3. CASE ~(i <= n - k + 1)
    <3>1. i - Len(t) \in 1..(k - 1)
      BY <1>1, <1>3, <1>4, <2>3
    <3>2. Each(g)[i] = u[i - Len(t)] /\ u[i - Len(t)] = g.evs[i - Len(t)]
      BY <1>1, <1>3, <1>4, <1>5, <1>7, <2>1, <2>3, <3>1
    <3>3. at(i) = i - Len(t) /\ at(i) \in 1..n
      BY <1>1, <1>3, <1>4, <2>3
    <3> QED BY <3>2, <3>3
  <2> QED BY <2>2, <2>3
<1>10. \A i, j \in 1..n : i < j => Older(k, at(i), at(j))
  BY <1>1, <1>3 DEF Older
<1>11. Rising(Each(g))
  <2> SUFFICES ASSUME NEW i \in 1..n, NEW j \in 1..n, i < j PROVE Each(g)[i].seq < Each(g)[j].seq
    BY <1>8 DEF Rising
  <2>1. Older(k, at(i), at(j))
    BY <1>10
  <2> HIDE DEF at
  <2> QED BY <1>2, <1>9, <2>1
<1> QED BY <1>1, <1>2, <1>7, <1>8, <1>11

\* A snapshot that fits the ring refills it.
LEMMA RefilledKeeps ==
  ASSUME NEW q, NEW s \in Seq(Event), Len(s) <= RecCap, Rising(s), \A i \in 1..Len(s) : s[i].seq <= q
  PROVE  RingOK(Refilled(s), q)
<1> DEFINE g == Refilled(s)
<1>1. g = [evs |-> s, next |-> 1]
  BY DEF Refilled
<1>2. g.evs = s /\ g.next = 1 /\ g \in [evs : Seq(Event), next : Nat]
  BY <1>1
<1>3. Len(s) \in Nat /\ RecCap \in Nat /\ RecCap >= 1
  BY LenProperties, EventsAssumption
<1> HIDE DEF g
<1>4. \A i, j \in 1..Len(s) : Older(1, i, j) => i < j
  BY <1>3 DEF Older
<1> QED BY <1>2, <1>3, <1>4 DEF RingOK, Rising, g

-----------------------------------------------------------------------------
(* Counting in sets of numbers.                                            *)

LEMMA Parts ==
  ASSUME NEW S, NEW A, NEW B, IsFiniteSet(S), S = A \cup B, A \cap B = {}
  PROVE  /\ IsFiniteSet(A) /\ IsFiniteSet(B) /\ Cardinality(S) = Cardinality(A) + Cardinality(B)
         /\ Cardinality(S) \in Nat /\ Cardinality(A) \in Nat /\ Cardinality(B) \in Nat
<1>1. A \subseteq S /\ B \subseteq S
  OBVIOUS
<1>2. IsFiniteSet(A) /\ IsFiniteSet(B)
  BY <1>1, FS_Subset
<1>3. Cardinality(S) = Cardinality(A) + Cardinality(B) - Cardinality(A \cap B)
  BY <1>2, FS_Union
<1>4. Cardinality(A \cap B) = 0
  BY FS_EmptySet
<1>5. Cardinality(S) \in Nat /\ Cardinality(A) \in Nat /\ Cardinality(B) \in Nat
  BY <1>2, FS_CardinalityType
<1> QED BY <1>2, <1>3, <1>4, <1>5

\* Shifting a set by d places.
LEMMA Shifted ==
  ASSUME NEW A \in SUBSET Int, NEW B \in SUBSET Int, NEW d \in Int, IsFiniteSet(B),
         \A a \in A : a + d \in B, \A b \in B : b - d \in A
  PROVE  IsFiniteSet(A) /\ Cardinality(A) = Cardinality(B)
<1> DEFINE f == [b \in B |-> b - d]
<1>1. f \in [B -> A]
  OBVIOUS
<1>2. \A a, b \in B : f[a] = f[b] => a = b
  OBVIOUS
<1>3. \A a \in A : \E b \in B : f[b] = a
  <2> SUFFICES ASSUME NEW a \in A PROVE \E b \in B : f[b] = a
    OBVIOUS
  <2>1. a + d \in B /\ f[a + d] = a
    OBVIOUS
  <2> QED BY <2>1
<1> HIDE DEF f
<1>4. f \in Bijection(B, A)
  BY <1>1, <1>2, <1>3 DEF Bijection, Injection, Surjection, IsInjective
<1>5. ExistsBijection(B, A)
  BY <1>4 DEF ExistsBijection
<1> QED BY <1>5, FS_Bijection

UpTo(S, i) == {j \in S : j <= i}
Above(S, i) == {j \in S : j > i}

LEMMA UpToAbove ==
  ASSUME NEW S \in SUBSET Int, IsFiniteSet(S), NEW i \in Int
  PROVE  /\ IsFiniteSet(UpTo(S, i)) /\ IsFiniteSet(Above(S, i))
         /\ Cardinality(S) = Cardinality(UpTo(S, i)) + Cardinality(Above(S, i))
         /\ Cardinality(S) \in Nat /\ Cardinality(UpTo(S, i)) \in Nat /\ Cardinality(Above(S, i)) \in Nat
<1>1. \A j \in S : (j <= i \/ j > i) /\ ~(j <= i /\ j > i)
  OBVIOUS
<1>2. S = UpTo(S, i) \cup Above(S, i) /\ UpTo(S, i) \cap Above(S, i) = {}
  BY <1>1, Zenon DEF UpTo, Above
<1> QED BY <1>2, Parts

\* The kth of a finite set of numbers.
LEMMA NthFacts ==
  ASSUME NEW S \in SUBSET Int, IsFiniteSet(S), NEW k \in 1..Cardinality(S)
  PROVE  Nth(S, k) \in S /\ Cardinality(UpTo(S, Nth(S, k))) = k
<1> DEFINE N == Cardinality(S)
           p == [i \in S |-> Cardinality(UpTo(S, i))]
<1>1. N \in Nat
  BY FS_CardinalityType
<1>2. \A i \in S : IsFiniteSet(UpTo(S, i)) /\ Cardinality(UpTo(S, i)) \in 1..N
  <2> SUFFICES ASSUME NEW i \in S PROVE IsFiniteSet(UpTo(S, i)) /\ Cardinality(UpTo(S, i)) \in 1..N
    OBVIOUS
  <2>1. UpTo(S, i) \subseteq S /\ i \in UpTo(S, i)
    BY DEF UpTo
  <2>2. IsFiniteSet(UpTo(S, i)) /\ Cardinality(UpTo(S, i)) <= N /\ Cardinality(UpTo(S, i)) \in Nat
    BY <2>1, FS_Subset, FS_CardinalityType
  <2>3. Cardinality(UpTo(S, i)) # 0
    BY <2>1, <2>2, FS_EmptySet
  <2> QED BY <1>1, <2>2, <2>3
<1>3. \A i, j \in S : i < j => Cardinality(UpTo(S, i)) # Cardinality(UpTo(S, j))
  <2> SUFFICES ASSUME NEW i \in S, NEW j \in S, i < j PROVE Cardinality(UpTo(S, i)) # Cardinality(UpTo(S, j))
    OBVIOUS
  <2>1. UpTo(S, i) \subseteq UpTo(S, j) /\ j \in UpTo(S, j) /\ j \notin UpTo(S, i)
    <3>1. ~(j <= i) /\ j <= j /\ \A h \in S : h <= i => h <= j
      OBVIOUS
    <3> QED BY <3>1, Zenon DEF UpTo
  <2> QED BY <1>2, <2>1, FS_Subset
<1> HIDE DEF N
<1>4. p \in [S -> 1..N]
  BY <1>2
<1>5. \A i, j \in S : p[i] = p[j] => i = j
  <2> SUFFICES ASSUME NEW i \in S, NEW j \in S, i # j PROVE p[i] # p[j]
    OBVIOUS
  <2>1. i < j \/ j < i
    OBVIOUS
  <2> QED BY <1>3, <2>1
<1>6. p \in Injection(S, 1..N)
  BY <1>4, <1>5 DEF Injection, IsInjective
<1>7. IsFiniteSet(1..N) /\ Cardinality(1..N) = N
  BY <1>1, FS_Interval
<1>8. p \in Surjection(S, 1..N)
  BY <1>6, <1>7, FS_Injection DEF N
<1>9. \E i \in S : Cardinality(UpTo(S, i)) = k
  BY <1>8 DEF Surjection, N
<1>10. Nth(S, k) = CHOOSE i \in S : Cardinality(UpTo(S, i)) = k
  BY DEF Nth, UpTo
<1> QED BY <1>9, <1>10

-----------------------------------------------------------------------------
(* The log's lines.                                                        *)

LineRec == [e : Event, ok : BOOLEAN]
LogRec == [old : Seq(LineRec), cur : Seq(LineRec), ended : BOOLEAN, open : BOOLEAN]
Lines(l) == l.old \o l.cur
Broken(s) == {i \in DOMAIN s : ~s[i].ok}

\* Each line that decodes is the detection written as many whole lines before the last as decode after it.
Told(s, w) ==
  \A i \in Whole(s) : LET n == Cardinality(Above(Whole(s), i)) IN n < Len(w) /\ s[i].e = w[Len(w) - n]
\* Nothing is lost before a roll, and a roll leaves LogMax lines.
Filled(s, w) == Cardinality(Whole(s)) = Len(w) \/ Len(s) >= LogMax

LEMMA LineSets ==
  ASSUME NEW s \in Seq(LineRec)
  PROVE  /\ Len(s) \in Nat /\ DOMAIN s = 1..Len(s)
         /\ Whole(s) \in SUBSET Int /\ IsFiniteSet(Whole(s)) /\ Cardinality(Whole(s)) \in Nat
         /\ IsFiniteSet(Broken(s)) /\ Cardinality(Broken(s)) \in Nat
         /\ Len(s) = Cardinality(Whole(s)) + Cardinality(Broken(s))
<1>1. Len(s) \in Nat /\ DOMAIN s = 1..Len(s)
  BY LenProperties
<1>2. 1..Len(s) = Whole(s) \cup Broken(s) /\ Whole(s) \cap Broken(s) = {}
  BY <1>1 DEF Whole, Broken
<1>3. IsFiniteSet(1..Len(s)) /\ Cardinality(1..Len(s)) = Len(s)
  BY <1>1, FS_Interval
<1>4. Whole(s) \in SUBSET Int
  BY <1>2
<1>5. /\ IsFiniteSet(Whole(s)) /\ IsFiniteSet(Broken(s))
      /\ Cardinality(Whole(s)) \in Nat /\ Cardinality(Broken(s)) \in Nat
      /\ Cardinality(1..Len(s)) = Cardinality(Whole(s)) + Cardinality(Broken(s))
  <2>1. PICK A, B, S : A = Whole(s) /\ B = Broken(s) /\ S = 1..Len(s)
    OBVIOUS
  <2>2. IsFiniteSet(S) /\ S = A \cup B /\ A \cap B = {}
    BY <1>2, <1>3, <2>1, Zenon
  <2>3. IsFiniteSet(S) /\ S = A \cup B /\ A \cap B = {} =>
          /\ IsFiniteSet(A) /\ IsFiniteSet(B) /\ Cardinality(S) = Cardinality(A) + Cardinality(B)
          /\ Cardinality(S) \in Nat /\ Cardinality(A) \in Nat /\ Cardinality(B) \in Nat
    BY Parts
  <2> QED BY <2>1, <2>2, <2>3, Zenon
<1> QED BY <1>1, <1>3, <1>4, <1>5

\* t is what is left of s without its d oldest lines.
Left(t, s, d) == Len(t) = Len(s) - d /\ \A i \in 1..Len(t) : t[i] = s[i + d]

LEMMA ToldLeft ==
  ASSUME NEW s \in Seq(LineRec), NEW t \in Seq(LineRec), NEW d \in Nat, Left(t, s, d), NEW w, Told(s, w)
  PROVE  Told(t, w) /\ Cardinality(Broken(t)) <= Cardinality(Broken(s))
<1>1. /\ Len(s) \in Nat /\ DOMAIN s = 1..Len(s) /\ Whole(s) \in SUBSET Int /\ IsFiniteSet(Whole(s))
      /\ IsFiniteSet(Broken(s)) /\ Cardinality(Broken(s)) \in Nat
  BY LineSets
<1>2. Len(t) \in Nat /\ DOMAIN t = 1..Len(t) /\ Whole(t) \in SUBSET Int /\ IsFiniteSet(Whole(t))
  BY LineSets
<1>3. \A i \in 1..Len(t) : i + d \in 1..Len(s) /\ t[i] = s[i + d]
  BY <1>1, <1>2 DEF Left
<1>4. Told(t, w)
  <2> SUFFICES ASSUME NEW i \in Whole(t)
               PROVE  LET n == Cardinality(Above(Whole(t), i)) IN n < Len(w) /\ t[i].e = w[Len(w) - n]
    BY DEF Told
  <2>1. i \in 1..Len(t) /\ i + d \in 1..Len(s) /\ t[i] = s[i + d] /\ i + d \in Whole(s)
    BY <1>1, <1>2, <1>3 DEF Whole
  <2>2. \A a \in Above(Whole(t), i) : a + d \in Above(Whole(s), i + d)
    BY <1>1, <1>2, <1>3 DEF Above, Whole
  <2>3. \A b \in Above(Whole(s), i + d) : b - d \in Above(Whole(t), i)
    <3> SUFFICES ASSUME NEW b \in Above(Whole(s), i + d) PROVE b - d \in Above(Whole(t), i)
      OBVIOUS
    <3>1. b \in 1..Len(s) /\ s[b].ok /\ b > i + d
      BY <1>1 DEF Above, Whole
    <3>2. b - d \in 1..Len(t) /\ b - d > i /\ (b - d) + d = b
      BY <1>1, <1>2, <2>1, <3>1 DEF Left
    <3>3. t[b - d] = s[b]
      BY <1>3, <3>2
    <3> QED BY <1>2, <3>1, <3>2, <3>3 DEF Above, Whole
  <2>4. IsFiniteSet(Above(Whole(s), i + d))
    BY <1>1, <2>1, UpToAbove
  <2>5. Above(Whole(t), i) \in SUBSET Int /\ Above(Whole(s), i + d) \in SUBSET Int
    BY <1>1, <1>2 DEF Above
  <2>6. Cardinality(Above(Whole(t), i)) = Cardinality(Above(Whole(s), i + d))
    <3>1. PICK A, B : A = Above(Whole(t), i) /\ B = Above(Whole(s), i + d)
      OBVIOUS
    <3>2. A \in SUBSET Int /\ B \in SUBSET Int /\ IsFiniteSet(B) /\ (\A a \in A : a + d \in B) /\ (\A b \in B : b - d \in A)
      BY <2>2, <2>3, <2>4, <2>5, <3>1
    <3>3. d \in Int
      OBVIOUS
    <3>4. Cardinality(A) = Cardinality(B)
      BY <3>2, <3>3, Shifted
    <3> QED BY <3>1, <3>4
  <2> QED BY <2>1, <2>6 DEF Told
<1>5. Cardinality(Broken(t)) <= Cardinality(Broken(s))
  <2> DEFINE f == [i \in Broken(t) |-> i + d]
  <2>1. \A i \in Broken(t) : i \in Nat /\ i + d \in Broken(s)
    BY <1>1, <1>2, <1>3 DEF Broken
  <2>2. f \in [Broken(t) -> Broken(s)] /\ \A i, j \in Broken(t) : f[i] = f[j] => i = j
    BY <2>1
  <2> HIDE DEF f
  <2>3. f \in Injection(Broken(t), Broken(s))
    BY <2>2 DEF Injection, IsInjective
  <2> QED BY <1>1, <2>3, FS_Injection
<1> QED BY <1>4, <1>5

\* A line more, whole or torn.
LEMMA ToldMore ==
  ASSUME NEW s \in Seq(LineRec), NEW w \in Seq(Event), Told(s, w), Filled(s, w), NEW e \in Event, NEW x \in LineRec, x.e = e
  PROVE  /\ Append(s, x) \in Seq(LineRec)
         /\ x.ok => Told(Append(s, x), Append(w, e)) /\ Filled(Append(s, x), Append(w, e))
         /\ ~x.ok => Told(Append(s, x), w) /\ Filled(Append(s, x), w)
<1> DEFINE t == Append(s, x)
           m == Len(s) + 1
<1>1. /\ Len(s) \in Nat /\ DOMAIN s = 1..Len(s) /\ Whole(s) \in SUBSET Int /\ IsFiniteSet(Whole(s))
      /\ Cardinality(Whole(s)) \in Nat
  BY LineSets
<1>2. t \in Seq(LineRec) /\ Len(t) = m /\ (\A i \in 1..Len(s) : t[i] = s[i]) /\ t[m] = x
  BY AppendProperties
<1>3. DOMAIN t = 1..m
  BY <1>2, LenProperties
<1> HIDE DEF t
<1>4. LogMax \in Nat /\ Len(w) \in Nat
  BY EventsAssumption, LenProperties
<1>5. \A i \in Whole(s) : i \in 1..Len(s) /\ i < m /\ t[i] = s[i] /\ i \in Int
  BY <1>1, <1>2 DEF Whole
<1>6. \A i \in 1..m : i \in 1..Len(s) \/ i = m
  BY <1>1
<1>7. ASSUME x.ok PROVE Told(t, Append(w, e)) /\ Filled(t, Append(w, e))
  <2>1. Whole(t) = Whole(s) \cup {m}
    BY <1>1, <1>2, <1>3, <1>6, <1>7 DEF Whole
  <2>2. m \notin Whole(s)
    BY <1>1 DEF Whole
  <2>3. Cardinality(Whole(t)) = Cardinality(Whole(s)) + 1
    BY <1>1, <2>1, <2>2, FS_AddElement
  <2>4. Append(w, e) \in Seq(Event) /\ Len(Append(w, e)) = Len(w) + 1 /\ (\A i \in 1..Len(w) : Append(w, e)[i] = w[i]) /\ Append(w, e)[Len(w) + 1] = e
    BY AppendProperties
  <2>5. Filled(t, Append(w, e))
    BY <1>1, <1>2, <1>4, <2>3, <2>4 DEF Filled
  <2>6. ASSUME NEW i \in Whole(t)
        PROVE  LET n == Cardinality(Above(Whole(t), i)) IN n < Len(Append(w, e)) /\ t[i].e = Append(w, e)[Len(Append(w, e)) - n]
    <3>1. CASE i = m
      <4>1. Above(Whole(t), i) = {}
        <5>1. \A j \in Whole(t) : ~(j > m)
          BY <1>1, <1>5, <2>1
        <5> QED BY <3>1, <5>1 DEF Above
      <4>2. Cardinality(Above(Whole(t), i)) = 0
        BY <4>1, FS_EmptySet
      <4> QED BY <1>2, <1>4, <2>4, <3>1, <4>2
    <3>2. CASE i # m
      <4>1. i \in Whole(s)
        BY <2>1, <3>2
      <4> DEFINE A == Above(Whole(s), i)
      <4>2. Above(Whole(t), i) = A \cup {m} /\ m \notin A
        BY <1>1, <1>5, <2>1, <2>2, <4>1 DEF Above
      <4>3. IsFiniteSet(A) /\ Cardinality(A) \in Nat
        BY <1>1, <4>1, UpToAbove
      <4>4. Cardinality(A) < Len(w) /\ s[i].e = w[Len(w) - Cardinality(A)]
        BY <4>1 DEF Told
      <4> HIDE DEF A
      <4>5. Cardinality(Above(Whole(t), i)) = Cardinality(A) + 1
        BY <4>2, <4>3, FS_AddElement
      <4>6. Len(Append(w, e)) - (Cardinality(A) + 1) = Len(w) - Cardinality(A) /\ Len(w) - Cardinality(A) \in 1..Len(w)
        BY <1>4, <2>4, <4>3, <4>4
      <4> QED BY <1>4, <1>5, <2>4, <4>1, <4>3, <4>4, <4>5, <4>6
    <3> QED BY <3>1, <3>2
  <2> QED BY <2>5, <2>6 DEF Told
<1>8. ASSUME ~x.ok PROVE Told(t, w) /\ Filled(t, w)
  <2>1. Whole(t) = Whole(s)
    BY <1>1, <1>2, <1>3, <1>6, <1>8 DEF Whole
  <2>2. Filled(t, w)
    BY <1>1, <1>2, <1>4, <2>1 DEF Filled
  <2> QED BY <1>5, <2>1, <2>2 DEF Told
<1> QED BY <1>2, <1>7, <1>8 DEF t

\* What is read back of lines that Told holds of: the newest of what was written.
LEMMA DecodedFacts ==
  ASSUME NEW s \in Seq(LineRec)
  PROVE  /\ Decoded(s) \in Seq(Event) /\ Len(Decoded(s)) = Cardinality(Whole(s))
         /\ \A w \in Seq(Event) : Told(s, w) =>
              /\ Len(Decoded(s)) <= Len(w)
              /\ \A k \in 1..Len(Decoded(s)) : Decoded(s)[k] = w[Len(w) - Len(Decoded(s)) + k]
<1> DEFINE W == Whole(s)
           m == Cardinality(W)
<1>1. /\ Len(s) \in Nat /\ DOMAIN s = 1..Len(s) /\ W \in SUBSET Int /\ IsFiniteSet(W) /\ m \in Nat
  BY LineSets
<1>2. \A i \in W : i \in 1..Len(s) /\ s[i].e \in Event
  <2>1. \A i \in 1..Len(s) : s[i] \in LineRec
    BY ElementOfSeq
  <2> QED BY <1>1, <2>1 DEF Whole, LineRec
<1>3. Decoded(s) = [k \in 1..m |-> s[Nth(W, k)].e]
  BY DEF Decoded
<1> HIDE DEF W
<1>4. ASSUME NEW k \in 1..m
      PROVE  /\ Nth(W, k) \in W /\ Decoded(s)[k] = s[Nth(W, k)].e
             /\ Cardinality(Above(W, Nth(W, k))) = m - k
  <2>1. Nth(W, k) \in W /\ Cardinality(UpTo(W, Nth(W, k))) = k
    BY <1>1, NthFacts
  <2>2. PICK i \in Int : i = Nth(W, k)
    BY <1>1, <2>1
  <2>3. m = Cardinality(UpTo(W, i)) + Cardinality(Above(W, i)) /\ Cardinality(Above(W, i)) \in Nat
    BY <1>1, <2>2, UpToAbove
  <2> QED BY <1>1, <1>3, <2>1, <2>2, <2>3
<1>5. Decoded(s) \in Seq(Event) /\ Len(Decoded(s)) = m
  <2>1. Decoded(s) \in [1..m -> Event]
    BY <1>2, <1>3, <1>4
  <2> QED BY <1>1, <2>1
<1>6. ASSUME NEW w \in Seq(Event), Told(s, w)
      PROVE  m <= Len(w) /\ \A k \in 1..m : Decoded(s)[k] = w[Len(w) - m + k]
  <2>0. Len(w) \in Nat
    BY LenProperties
  <2>1. ASSUME NEW k \in 1..m PROVE m - k < Len(w) /\ Decoded(s)[k] = w[Len(w) - m + k]
    <3>1. PICK i : i = Nth(W, k)
      OBVIOUS
    <3>2. i \in W /\ Decoded(s)[k] = s[i].e /\ Cardinality(Above(W, i)) = m - k
      BY <1>4, <3>1
    <3>3. Cardinality(Above(W, i)) < Len(w) /\ s[i].e = w[Len(w) - Cardinality(Above(W, i))]
      BY <1>6, <3>2 DEF Told, W
    <3>4. m - k < Len(w) /\ Decoded(s)[k] = w[Len(w) - (m - k)]
      BY <3>2, <3>3, Zenon
    <3>5. Len(w) - (m - k) = Len(w) - m + k
      BY <1>1, <2>0
    <3> QED BY <3>4, <3>5
  <2>2. m <= Len(w)
    <3>1. CASE m = 0
      BY <2>0, <3>1
    <3>2. CASE m # 0
      <4>1. 1 \in 1..m
        BY <1>1, <3>2
      <4>2. m - 1 < Len(w)
        BY <2>1, <4>1
      <4> QED BY <1>1, <2>0, <4>2
    <3> QED BY <3>1, <3>2
  <2> QED BY <2>1, <2>2
<1> QED BY <1>5, <1>6 DEF W

\* Bounded keeps the newest n.
LEMMA BoundedFacts ==
  ASSUME NEW S, NEW s \in Seq(S), NEW n \in Nat
  PROVE  /\ Bounded(s, n) \in Seq(S) /\ Len(Bounded(s, n)) <= n /\ Len(Bounded(s, n)) \in Nat
         /\ \E d \in Nat : Left(Bounded(s, n), s, d)
         /\ Len(s) > n => Len(Bounded(s, n)) = n
         /\ ~(Len(s) > n) => Bounded(s, n) = s
<1>1. Len(s) \in Nat /\ \A i \in 1..Len(s) : s[i] \in S
  BY LenProperties, ElementOfSeq
<1>2. CASE Len(s) > n
  <2> DEFINE d == Len(s) - n
             t == SubSeq(s, d + 1, Len(s))
  <2>1. d \in Nat /\ d >= 1 /\ Len(s) - n + 1 = d + 1 /\ Len(s) - (d + 1) + 1 = n
    BY <1>1, <1>2
  <2>2. Bounded(s, n) = t
    BY <1>2, <2>1 DEF Bounded, Newest
  <2>3. \A i \in (d + 1)..Len(s) : s[i] \in S
    BY <1>1, <2>1
  <2>4. d + 1 \in Int /\ Len(s) \in Int
    BY <1>1, <2>1
  <2> HIDE DEF d
  <2>5. /\ t \in Seq(S) /\ Len(t) = IF d + 1 <= Len(s) THEN Len(s) - (d + 1) + 1 ELSE 0
        /\ \A i \in 1..(Len(s) - (d + 1) + 1) : t[i] = s[(d + 1) + i - 1]
    BY <2>3, <2>4, SubSeqProperties
  <2>6. Len(t) = n /\ n = Len(s) - d
    BY <1>1, <2>1, <2>5
  <2>7. \A i \in 1..n : t[i] = s[i + d]
    <3> SUFFICES ASSUME NEW i \in 1..n PROVE t[i] = s[i + d]
      OBVIOUS
    <3>1. (d + 1) + i - 1 = i + d
      BY <2>1
    <3> QED BY <2>1, <2>5, <3>1
  <2>8. Left(t, s, d)
    BY <2>6, <2>7 DEF Left
  <2> HIDE DEF t
  <2>9. \E c \in Nat : Left(Bounded(s, n), s, c)
    BY <2>1, <2>2, <2>8
  <2>10. Bounded(s, n) \in Seq(S) /\ Len(Bounded(s, n)) = n
    BY <2>2, <2>5, <2>6
  <2> QED BY <1>2, <2>9, <2>10
<1>3. CASE ~(Len(s) > n)
  <2>1. Bounded(s, n) = s
    BY <1>3 DEF Bounded
  <2>2. Left(s, s, 0)
    BY <1>1 DEF Left
  <2> QED BY <1>1, <1>3, <2>1, <2>2
<1> QED BY <1>2, <1>3

\* The highest Seq of a list.
LEMMA MaxSeqFacts ==
  ASSUME NEW s \in Seq(Event)
  PROVE  MaxSeqOf(s) \in 0..MaxSeq /\ \A i \in 1..Len(s) : s[i].seq <= MaxSeqOf(s)
<1> DEFINE T == {m \in 1..MaxSeq : \E e \in ToSet(s) : m <= e.seq}
<1>0. MaxSeq \in Nat
  BY EventsAssumption
<1>1. IsFiniteSet(1..MaxSeq) /\ Cardinality(1..MaxSeq) = MaxSeq /\ T \subseteq 1..MaxSeq
  BY <1>0, FS_Interval
<1>2. DOMAIN s = 1..Len(s) /\ \A i \in 1..Len(s) : s[i] \in Event
  BY LenProperties, ElementOfSeq
<1>3. \A i \in 1..Len(s) : s[i].seq \in 1..MaxSeq /\ 1..s[i].seq \subseteq T
  <2> SUFFICES ASSUME NEW i \in 1..Len(s) PROVE s[i].seq \in 1..MaxSeq /\ 1..s[i].seq \subseteq T
    OBVIOUS
  <2>1. s[i].seq \in 1..MaxSeq /\ s[i] \in ToSet(s)
    BY <1>2, EventFacts DEF ToSet
  <2> QED BY <1>0, <2>1
<1>4. MaxSeqOf(s) = Cardinality(T)
  BY DEF MaxSeqOf
<1> HIDE DEF T
<1>5. IsFiniteSet(T) /\ Cardinality(T) <= MaxSeq /\ Cardinality(T) \in Nat
  BY <1>1, FS_Subset, FS_CardinalityType
<1>6. ASSUME NEW i \in 1..Len(s) PROVE s[i].seq <= Cardinality(T)
  <2>1. PICK n \in Nat : n = s[i].seq
    BY <1>0, <1>3
  <2>2. 1..n \subseteq T /\ Cardinality(1..n) = n
    <3>1. 1..n \subseteq T
      BY <1>3, <2>1
    <3>2. Cardinality(1..n) = IF 1 > n THEN 0 ELSE n - 1 + 1
      BY FS_Interval
    <3> QED BY <3>1, <3>2
  <2>3. Cardinality(1..n) <= Cardinality(T)
    BY <1>5, <2>2, FS_Subset
  <2> QED BY <2>1, <2>2, <2>3
<1> QED BY <1>0, <1>4, <1>5, <1>6

-----------------------------------------------------------------------------
(* What is done to the log.                                                *)

\* What a log l holds of the detections w, once they are written.
LogOK(l, w) == l \in LogRec /\ Told(Lines(l), w) /\ Filled(Lines(l), w)

LEMMA LinesType ==
  ASSUME NEW l \in LogRec
  PROVE  /\ l.old \in Seq(LineRec) /\ l.cur \in Seq(LineRec) /\ Lines(l) \in Seq(LineRec)
         /\ Len(Lines(l)) = Len(l.old) + Len(l.cur)
         /\ \A x \in LineRec : l.old \o Append(l.cur, x) = Append(Lines(l), x)
<1>1. l.old \in Seq(LineRec) /\ l.cur \in Seq(LineRec)
  BY DEF LogRec
<1>2. Lines(l) \in Seq(LineRec) /\ Len(Lines(l)) = Len(l.old) + Len(l.cur)
  BY <1>1, ConcatProperties DEF Lines
<1>3. ASSUME NEW S, NEW a \in Seq(S), NEW b \in Seq(S), NEW x \in S PROVE a \o Append(b, x) = Append(a \o b, x)
  OBVIOUS
<1>4. ASSUME NEW x \in LineRec PROVE l.old \o Append(l.cur, x) = Append(Lines(l), x)
  <2>1. PICK a \in Seq(LineRec), b \in Seq(LineRec) : a = l.old /\ b = l.cur
    BY <1>1
  <2>2. a \o Append(b, x) = Append(a \o b, x)
    BY <1>3
  <2> QED BY <2>1, <2>2 DEF Lines
<1> QED BY <1>1, <1>2, <1>4

LEMMA RotatedKeeps ==
  ASSUME NEW l, NEW w, LogOK(l, w)
  PROVE  LogOK(Rotated(l), w)
<1>0. l \in LogRec /\ Told(Lines(l), w) /\ Filled(Lines(l), w)
  BY DEF LogOK
<1>1. l.old \in Seq(LineRec) /\ l.cur \in Seq(LineRec) /\ Lines(l) \in Seq(LineRec) /\ Len(Lines(l)) = Len(l.old) + Len(l.cur)
  BY <1>0, LinesType
<1>2. Len(l.old) \in Nat /\ Len(l.cur) \in Nat
  BY <1>1, LenProperties
<1>3. CASE ~Full(l)
  BY <1>3 DEF Rotated
<1>4. CASE Full(l)
  <2> DEFINE none == <<>>
             r == Rotated(l)
  <2>1. none \in Seq(LineRec) /\ r = [l EXCEPT !.old = l.cur, !.cur = none, !.ended = TRUE]
    BY <1>4 DEF Rotated
  <2> HIDE DEF none
  <2>2. r \in LogRec /\ r.old = l.cur /\ r.cur = none
    BY <1>0, <1>1, <2>1 DEF LogRec
  <2>3. Lines(r) = l.cur
    BY <1>1, <2>2, ConcatEmptySeq DEF Lines, none
  <2>4. Left(l.cur, Lines(l), Len(l.old))
    <3>1. \A i \in 1..(Len(l.old) + Len(l.cur)) : Lines(l)[i] = IF i <= Len(l.old) THEN l.old[i] ELSE l.cur[i - Len(l.old)]
      BY <1>1, ConcatProperties DEF Lines
    <3>2. PICK m \in Nat, n \in Nat : m = Len(l.old) /\ n = Len(l.cur)
      BY <1>2
    <3>3. \A i \in 1..n : i + m \in 1..(m + n) /\ ~(i + m <= m) /\ (i + m) - m = i
      OBVIOUS
    <3>4. \A i \in 1..n : Lines(l)[i + m] = l.cur[i]
      BY <3>1, <3>2, <3>3
    <3>5. n = (m + n) - m
      BY <3>2
    <3> QED BY <1>1, <3>2, <3>4, <3>5 DEF Left
  <2>5. Told(l.cur, w)
    BY <1>0, <1>1, <1>2, <2>4, ToldLeft
  <2>6. Filled(l.cur, w)
    BY <1>4 DEF Full, Filled
  <2> QED BY <2>2, <2>3, <2>5, <2>6 DEF LogOK
<1> QED BY <1>3, <1>4

\* Only the marks of a log change.
LEMMA MarksKeep ==
  ASSUME NEW l, NEW w, LogOK(l, w), NEW r \in LogRec, r.old = l.old, r.cur = l.cur
  PROVE  LogOK(r, w)
BY DEF LogOK, Lines

LEMMA OpenedKeeps ==
  ASSUME NEW l, NEW w, LogOK(l, w)
  PROVE  LogOK(Opened(l), w) /\ LogOK([l EXCEPT !.open = FALSE], w) /\ LogOK([l EXCEPT !.ended = TRUE], w) /\ Opened(l).ended
<1>1. l \in LogRec
  BY DEF LogOK
<1>2. Opened(l) \in LogRec /\ Opened(l).old = l.old /\ Opened(l).cur = l.cur /\ Opened(l).ended = TRUE
  BY <1>1 DEF LogRec, Opened
<1>3. [l EXCEPT !.open = FALSE] \in LogRec /\ [l EXCEPT !.open = FALSE].old = l.old /\ [l EXCEPT !.open = FALSE].cur = l.cur
  BY <1>1 DEF LogRec
<1>4. [l EXCEPT !.ended = TRUE] \in LogRec /\ [l EXCEPT !.ended = TRUE].old = l.old /\ [l EXCEPT !.ended = TRUE].cur = l.cur
  BY <1>1 DEF LogRec
<1>5. LogOK(Opened(l), w)
  BY <1>2, MarksKeep
<1>6. LogOK([l EXCEPT !.open = FALSE], w)
  BY <1>3, MarksKeep
<1>7. LogOK([l EXCEPT !.ended = TRUE], w)
  BY <1>4, MarksKeep
<1> QED BY <1>2, <1>5, <1>6, <1>7

LEMMA LineKeeps ==
  ASSUME NEW l, NEW w \in Seq(Event), LogOK(l, w), NEW e \in Event
  PROVE  /\ l.ended => LogOK(Line(l, e), Append(w, e))
         /\ ~l.ended => LogOK(Line(l, e), w)
         /\ LogOK(TornLine(l, e), w)
<1>0. l \in LogRec /\ Told(Lines(l), w) /\ Filled(Lines(l), w) /\ Lines(l) \in Seq(LineRec) /\ l.cur \in Seq(LineRec)
  BY LinesType DEF LogOK
<1>1. ASSUME NEW x \in LineRec, x.e = e, NEW d \in BOOLEAN
      PROVE  LET r == [l EXCEPT !.cur = Append(l.cur, x), !.ended = d]
             IN  (x.ok => LogOK(r, Append(w, e))) /\ (~x.ok => LogOK(r, w))
  <2> DEFINE r == [l EXCEPT !.cur = Append(l.cur, x), !.ended = d]
  <2>1. Append(l.cur, x) \in Seq(LineRec)
    BY <1>0, AppendProperties
  <2>2. r \in LogRec /\ r.old = l.old /\ r.cur = Append(l.cur, x)
    BY <1>0, <2>1 DEF LogRec
  <2> HIDE DEF r
  <2>3. Lines(r) = Append(Lines(l), x)
    BY <1>0, <2>2, LinesType DEF Lines
  <2>4. /\ x.ok => Told(Lines(r), Append(w, e)) /\ Filled(Lines(r), Append(w, e))
        /\ ~x.ok => Told(Lines(r), w) /\ Filled(Lines(r), w)
    BY <1>0, <1>1, <2>3, ToldMore
  <2>5. (x.ok => LogOK(r, Append(w, e))) /\ (~x.ok => LogOK(r, w))
    BY <2>2, <2>4 DEF LogOK
  <2> QED BY <2>5 DEF r
<1> DEFINE good == [e |-> e, ok |-> TRUE]
           torn == [e |-> e, ok |-> FALSE]
<1>2. good \in LineRec /\ torn \in LineRec /\ good.e = e /\ torn.e = e /\ good.ok = TRUE /\ torn.ok = FALSE
  BY DEF LineRec
<1>3. CASE l.ended
  <2>0. l.ended = TRUE
    BY <1>0, <1>3 DEF LogRec
  <2>1. Line(l, e) = [l EXCEPT !.cur = Append(l.cur, good)] /\ TornLine(l, e) = [l EXCEPT !.cur = Append(l.cur, torn), !.ended = FALSE]
    BY <1>3 DEF Line, TornLine
  <2> HIDE DEF good, torn
  <2>2. [l EXCEPT !.cur = Append(l.cur, good)] = [l EXCEPT !.cur = Append(l.cur, good), !.ended = TRUE]
    BY <1>0, <2>0 DEF LogRec
  <2>3. LogOK(Line(l, e), Append(w, e))
    <3>1. LogOK([l EXCEPT !.cur = Append(l.cur, good), !.ended = TRUE], Append(w, e))
      BY <1>1, <1>2
    <3> QED BY <2>1, <2>2, <3>1
  <2>4. LogOK(TornLine(l, e), w)
    BY <1>1, <1>2, <2>1
  <2> QED BY <1>3, <2>3, <2>4
<1>4. CASE ~l.ended
  <2>1. Line(l, e) = [l EXCEPT !.ended = TRUE] /\ TornLine(l, e) = l
    BY <1>4 DEF Line, TornLine
  <2> QED BY <1>4, <2>1, OpenedKeeps
<1> QED BY <1>3, <1>4

-----------------------------------------------------------------------------
(* The lists and the files through every step.                             *)

MemInv ==
  /\ up \in BOOLEAN /\ boot \in 1..MaxBoots /\ seq \in 0..MaxSeq /\ connects \in 0..seq
  /\ Stored \subseteq Event /\ \A d \in Classes : Rising(by[d])
  /\ dets \in Seq(Event) /\ Len(dets) <= MaxEvents
  /\ RingOK(rec, seq)
SavedInv == saved \in Seq(Event) /\ Len(saved) <= RecCap /\ Rising(saved)
LogInv == after \subseteq Event /\ written \in Seq(Event) /\ LogOK(log, written)
SinceInv == \A c \in Clients : client[c].since <= MaxSeq
KeptInv == MemInv /\ SavedInv /\ LogInv /\ SinceInv

LEMMA Bounds == MaxSeq \in Nat /\ MaxBoots \in Nat /\ MaxBoots >= 1 /\ MaxEvents \in Nat /\ RecCap \in Nat /\ RecCap >= 1
BY EventsAssumption

\* A step that leaves the daemon's memory alone.
LEMMA MemSame ==
  ASSUME MemInv, UNCHANGED <<up, boot, store>>
  PROVE  MemInv'
BY DEF MemInv, store, Stored

\* Memory at the start and the end of a run.
LEMMA MemEmpty ==
  ASSUME up \in BOOLEAN, boot \in 1..MaxBoots, seq = 0, connects = 0, by = NoEvents, dets = <<>>, rec = EmptyRing
  PROVE  MemInv
<1> DEFINE none == <<>>
<1>1. none \in Seq(Event) /\ Len(none) = 0
  OBVIOUS
<1>2. rec = [evs |-> none, next |-> 1] /\ dets = none
  BY DEF EmptyRing
<1>3. \A d \in Classes : by[d] = none
  BY DEF NoEvents
<1> HIDE DEF none
<1>4. rec.evs = none /\ rec.next = 1 /\ rec \in [evs : Seq(Event), next : Nat]
  BY <1>1, <1>2
<1>5. RingOK(rec, seq)
  BY <1>1, <1>4, Bounds DEF RingOK
<1>6. Stored = {}
  BY EmptyLists DEF Stored
<1>7. \A d \in Classes : Rising(by[d])
  BY <1>1, <1>3 DEF Rising
<1> QED BY <1>1, <1>2, <1>5, <1>6, <1>7, Bounds DEF MemInv

LEMMA MemAdd ==
  ASSUME StoreInv, MemInv, NEW k \in Kinds, AddEvent(k)
  PROVE  MemInv' /\ [seq |-> seq + 1, kind |-> k, boot |-> boot] \in Event
<1> DEFINE e == [seq |-> seq + 1, kind |-> k, boot |-> boot]
<1>1. /\ seq < MaxSeq /\ seq' = seq + 1 /\ by' = Add(by, e)
      /\ dets' = IF k = "detection" THEN Bounded(Append(dets, e), MaxEvents) ELSE dets
      /\ connects' = IF k = "tcp_connect" THEN connects + 1 ELSE connects
      /\ rec' = RingAdd(rec, e) /\ up' = up /\ boot' = boot
  BY DEF AddEvent
<1>2. /\ up \in BOOLEAN /\ boot \in 1..MaxBoots /\ seq \in 0..MaxSeq /\ connects \in 0..seq
      /\ Stored \subseteq Event /\ (\A d \in Classes : Rising(by[d]))
      /\ dets \in Seq(Event) /\ Len(dets) <= MaxEvents /\ RingOK(rec, seq)
  BY DEF MemInv
<1>3. seq \in Nat /\ seq + 1 \in 1..MaxSeq
  BY <1>1, <1>2, Bounds
<1>4. e \in Event /\ e.seq = seq + 1 /\ e \in Ev
  <2>1. e \in Event /\ e.seq = seq + 1
    BY <1>2, <1>3 DEF Event
  <2> QED BY <2>1, EventFacts
<1> HIDE DEF e
<1>5. RingOK(rec', seq')
  BY <1>1, <1>2, <1>3, <1>4, RingAddKeeps
<1>6. by \in Lists /\ \A d \in Classes : \A f \in ToSet(by[d]) : f.seq < e.seq
  <2>1. by \in Lists /\ \A f \in Stored : f.seq <= seq /\ f.seq \in Nat
    BY StoredFacts DEF StoreInv
  <2>2. \A d \in Classes : \A f \in ToSet(by[d]) : f \in Stored
    BY DEF Stored
  <2> QED BY <1>3, <1>4, <2>1, <2>2
<1>7. \A d \in Classes : Rising(by'[d])
  BY <1>1, <1>2, <1>4, <1>6, AddRises
<1>8. Stored' \subseteq Event
  <2>1. \A d \in Classes : ToSet(by'[d]) \subseteq ToSet(by[d]) \cup {e}
    BY <1>1, <1>4, <1>6, AddFacts
  <2> QED BY <1>2, <1>4, <2>1 DEF Stored
<1>9. dets' \in Seq(Event) /\ Len(dets') <= MaxEvents
  <2>1. Append(dets, e) \in Seq(Event)
    BY <1>2, <1>4, AppendProperties
  <2>2. Bounded(Append(dets, e), MaxEvents) \in Seq(Event) /\ Len(Bounded(Append(dets, e), MaxEvents)) <= MaxEvents
    BY <2>1, Bounds, BoundedFacts
  <2> QED BY <1>1, <1>2, <2>2
<1>10. seq' \in 0..MaxSeq /\ connects' \in 0..seq'
  BY <1>1, <1>2, <1>3, Bounds
<1>11. up' \in BOOLEAN /\ boot' \in 1..MaxBoots
  BY <1>1, <1>2
<1>12. MemInv'
  BY <1>5, <1>7, <1>8, <1>9, <1>10, <1>11 DEF MemInv
<1> QED BY <1>4, <1>12 DEF e

\* A restart reads the files back.
LEMMA MemRestore ==
  ASSUME MemInv, SavedInv, LogInv, Restore
  PROVE  MemInv' /\ LogOK(log', written)
<1> DEFINE back == ReadTail(log, MaxEvents)
<1>1. /\ boot < MaxBoots /\ up' = TRUE /\ boot' = boot + 1 /\ dets' = back /\ rec' = Refilled(saved)
      /\ seq' = Higher(MaxSeqOf(back), MaxSeqOf(saved)) /\ by' = NoEvents /\ connects' = 0
      /\ log' = Opened(log)
  BY DEF Restore
<1>2. LogOK(log, written)
  BY DEF LogInv
<1>3. back \in Seq(Event) /\ Len(back) <= MaxEvents
  <2>1. Lines(log) \in Seq(LineRec) /\ Lines(log) = log.old \o log.cur
    BY <1>2, LinesType DEF LogOK, Lines
  <2>2. PICK b : b = Bounded(Lines(log), MaxEvents)
    OBVIOUS
  <2>3. b \in Seq(LineRec) /\ Len(b) <= MaxEvents
    BY <2>1, <2>2, Bounds, BoundedFacts
  <2>4. back = Decoded(b)
    BY <2>1, <2>2 DEF ReadTail
  <2>5. Decoded(b) \in Seq(Event) /\ Len(Decoded(b)) = Cardinality(Whole(b))
    BY <2>3, DecodedFacts
  <2>6. Len(b) \in Nat /\ Len(b) = Cardinality(Whole(b)) + Cardinality(Broken(b)) /\ Cardinality(Whole(b)) \in Nat /\ Cardinality(Broken(b)) \in Nat
    BY <2>3, LineSets
  <2> QED BY <2>3, <2>4, <2>5, <2>6, Bounds
<1>4. saved \in Seq(Event) /\ Len(saved) <= RecCap /\ Rising(saved)
  BY DEF SavedInv
<1> HIDE DEF back
<1>5. PICK x \in 0..MaxSeq, y \in 0..MaxSeq : x = MaxSeqOf(back) /\ y = MaxSeqOf(saved)
  BY <1>3, <1>4, MaxSeqFacts
<1>6. seq' \in 0..MaxSeq /\ y <= seq'
  BY <1>1, <1>5, Bounds DEF Higher
<1>7. \A i \in 1..Len(saved) : saved[i].seq <= seq'
  <2> SUFFICES ASSUME NEW i \in 1..Len(saved) PROVE saved[i].seq <= seq'
    OBVIOUS
  <2>1. saved[i] \in Event
    BY <1>4, ElementOfSeq
  <2>2. saved[i].seq \in Nat /\ saved[i].seq <= y
    BY <1>4, <1>5, <2>1, MaxSeqFacts, EventFacts
  <2> QED BY <1>6, <2>2, Bounds
<1>8. RingOK(rec', seq')
  <2>1. PICK q, s : q = seq' /\ s = saved
    OBVIOUS
  <2>2. s \in Seq(Event) /\ Len(s) <= RecCap /\ Rising(s) /\ \A i \in 1..Len(s) : s[i].seq <= q
    BY <1>4, <1>7, <2>1
  <2>3. RingOK(Refilled(s), q)
    BY <2>2, RefilledKeeps
  <2> QED BY <1>1, <2>1, <2>3
<1>9. Stored' = {} /\ \A d \in Classes : Rising(by'[d])
  <2>1. \A d \in Classes : by'[d] = <<>>
    BY <1>1 DEF NoEvents
  <2>2. Rising(<<>>)
    BY EmptySeq DEF Rising
  <2> QED BY <1>1, <2>1, <2>2, EmptyLists DEF Stored
<1>10. up' \in BOOLEAN /\ boot' \in 1..MaxBoots /\ connects' \in 0..seq'
  <2>1. boot' \in 1..MaxBoots
    BY <1>1, Bounds DEF MemInv
  <2>2. connects' \in 0..seq'
    BY <1>1, <1>6, Bounds
  <2>3. up' \in BOOLEAN
    BY <1>1
  <2> QED BY <2>1, <2>2, <2>3
<1>11. MemInv'
  BY <1>1, <1>3, <1>6, <1>8, <1>9, <1>10 DEF MemInv
<1>12. LogOK(log', written)
  BY <1>1, <1>2, OpenedKeeps
<1> QED BY <1>11, <1>12

\* A detection is written, or its write fails.
LEMMA LogStep ==
  ASSUME LogInv, NEW e \in after, Detection(e) \/ RotateFails(e) \/ DetectionFails(e) \/ DetectionRefused(e)
  PROVE  LogInv'
<1>1. e \in Event /\ after \subseteq Event /\ written \in Seq(Event) /\ LogOK(log, written)
  BY DEF LogInv
<1>2. after' \subseteq Event
  BY <1>1 DEF Detection, RotateFails, DetectionFails, DetectionRefused
<1>3. Append(written, e) \in Seq(Event)
  BY <1>1, AppendProperties
<1>4. PICK l, w, r : l = log /\ w = written /\ r = Rotated(log)
  OBVIOUS
<1>5. w \in Seq(Event) /\ LogOK(l, w) /\ LogOK(r, w)
  BY <1>1, <1>4, RotatedKeeps
<1>6. CASE Detection(e)
  <2>1. log' = Line(r, e) /\ written' = IF r.ended THEN Append(w, e) ELSE w
    BY <1>4, <1>6 DEF Detection
  <2>2. (r.ended => LogOK(Line(r, e), Append(w, e))) /\ (~r.ended => LogOK(Line(r, e), w))
    BY <1>1, <1>5, LineKeeps
  <2>3. CASE r.ended
    <3>1. log' = Line(r, e) /\ written' = Append(w, e) /\ LogOK(Line(r, e), Append(w, e)) /\ Append(w, e) \in Seq(Event)
      BY <1>3, <1>4, <2>1, <2>2, <2>3
    <3> QED BY <1>2, <3>1, Zenon DEF LogInv
  <2>4. CASE ~r.ended
    <3>1. log' = Line(r, e) /\ written' = w /\ LogOK(Line(r, e), w)
      BY <2>1, <2>2, <2>4
    <3> QED BY <1>2, <1>5, <3>1, Zenon DEF LogInv
  <2> QED BY <2>3, <2>4
<1>7. CASE RotateFails(e)
  <2>1. PICK o : o = Opened(l)
    OBVIOUS
  <2>2. log' = Line(o, e) /\ written' = Append(w, e)
    BY <1>4, <1>7, <2>1 DEF RotateFails
  <2>3. LogOK(o, w) /\ o.ended
    BY <1>5, <2>1, OpenedKeeps
  <2>4. LogOK(Line(o, e), Append(w, e))
    BY <1>1, <1>5, <2>3, LineKeeps
  <2>5. Append(w, e) \in Seq(Event)
    BY <1>3, <1>4
  <2> QED BY <1>2, <2>2, <2>4, <2>5, Zenon DEF LogInv
<1>8. CASE DetectionFails(e)
  <2>1. /\ log' = r \/ log' = TornLine(r, e) \/ log' = [r EXCEPT !.open = FALSE]
        /\ written' = w
    BY <1>4, <1>8 DEF DetectionFails
  <2>2. LogOK(r, w) /\ LogOK(TornLine(r, e), w) /\ LogOK([r EXCEPT !.open = FALSE], w)
    BY <1>1, <1>5, LineKeeps, OpenedKeeps
  <2>3. LogOK(log', w)
    BY <2>1, <2>2, Zenon
  <2> QED BY <1>2, <1>5, <2>1, <2>3, Zenon DEF LogInv
<1>9. CASE DetectionRefused(e)
  <2>1. log' = log /\ written' = written
    BY <1>9 DEF DetectionRefused, disk
  <2> QED BY <1>1, <1>2, <2>1, Zenon DEF LogInv
<1> QED BY <1>6, <1>7, <1>8, <1>9

\* A client is told a Seq that was handed out.
LEMMA SinceStep ==
  ASSUME StoreInv, ReadInv, MemInv, SinceInv, NEW c \in Clients,
         \/ Connect(c) \/ Changed(c) \/ EventsSince(c) \/ Send(c)
         \/ Wake(c) \/ Disconnect(c) \/ PollSeq(c) \/ PollEvents(c)
  PROVE  SinceInv'
<1> DEFINE x == client[c]
<1>1. client \in [Clients -> ClientRec] /\ x \in ClientRec /\ Reads(x, Stored, gen, seq, from[c], shown[c])
  BY DEF ReadInv
<1>2. seq \in 0..MaxSeq /\ MaxSeq \in Nat /\ x.since <= MaxSeq
  BY Bounds DEF MemInv, SinceInv
<1>3. x.since \in Nat /\ x.told \in Nat /\ x.batch \in Seq(Ev) /\ x.told <= seq
  BY <1>1 DEF ClientRec, Reads, Placed
<1>4. ASSUME NEW y, y.since <= MaxSeq, client' = [client EXCEPT ![c] = y] PROVE SinceInv'
  BY <1>1, <1>4 DEF SinceInv
<1>5. CASE Send(c)
  <2>1. x.batch # <<>> /\ client' = [client EXCEPT ![c] = [x EXCEPT !.batch = Tail(x.batch), !.since = Head(x.batch).seq, !.boot = Head(x.batch).boot]]
    BY <1>5 DEF Send
  <2>2. Len(x.batch) \in Nat /\ Len(x.batch) # 0 /\ Head(x.batch) = x.batch[1]
    BY <1>3, <2>1, EmptySeq, LenProperties, HeadTailProperties
  <2>3. 1 \in 1..Len(x.batch)
    BY <2>2
  <2>4. Head(x.batch).seq <= seq /\ Head(x.batch).seq \in Nat
    BY <1>1, <1>3, <2>2, <2>3, SeqsAreNumbers DEF Reads, InHand
  <2>5. PICK n, b, t : n = Head(x.batch).seq /\ b = Head(x.batch).boot /\ t = Tail(x.batch)
    OBVIOUS
  <2>6. [x EXCEPT !.batch = t, !.since = n, !.boot = b].since = n
    BY <1>1 DEF ClientRec
  <2>7. n <= MaxSeq
    BY <1>2, <2>4, <2>5
  <2> QED BY <1>4, <2>1, <2>5, <2>6, <2>7
<1>6. CASE PollEvents(c)
  <2>1. client' = [client EXCEPT ![c] = [x EXCEPT !.at = "watch", !.since = x.told, !.boot = boot, !.told = 0]]
    BY <1>6 DEF PollEvents
  <2>2. [x EXCEPT !.at = "watch", !.since = x.told, !.boot = boot, !.told = 0].since = x.told
    BY <1>1 DEF ClientRec
  <2>3. x.told <= MaxSeq
    BY <1>2, <1>3
  <2> QED BY <1>4, <2>1, <2>2, <2>3
<1>7. CASE Connect(c) \/ Wake(c)
  <2>1. client' = [client EXCEPT ![c] = [x EXCEPT !.at = "watch"]]
    BY <1>7 DEF Connect, Wake
  <2>2. [x EXCEPT !.at = "watch"].since = x.since
    BY <1>1 DEF ClientRec
  <2> QED BY <1>2, <1>4, <2>1, <2>2
<1>8. CASE Changed(c)
  <2>1. client' = [client EXCEPT ![c] = [x EXCEPT !.at = "read", !.gen = gen]]
    BY <1>8 DEF Changed
  <2>2. [x EXCEPT !.at = "read", !.gen = gen].since = x.since
    BY <1>1 DEF ClientRec
  <2> QED BY <1>2, <1>4, <2>1, <2>2
<1>9. CASE EventsSince(c)
  <2>1. PICK b : b = Since(x.since)
    OBVIOUS
  <2>2. client' = [client EXCEPT ![c] = [x EXCEPT !.at = "wait", !.batch = b]]
    BY <1>9, <2>1 DEF EventsSince
  <2>3. [x EXCEPT !.at = "wait", !.batch = b].since = x.since
    BY <1>1 DEF ClientRec
  <2> QED BY <1>2, <1>4, <2>2, <2>3
<1>10. CASE Disconnect(c)
  <2>1. client' = [client EXCEPT ![c] = Off(x)] /\ Off(x).since = x.since
    BY <1>1, <1>10, OffFacts DEF Disconnect
  <2> QED BY <1>2, <1>4, <2>1
<1>11. CASE PollSeq(c)
  <2>1. client' = [client EXCEPT ![c] = [x EXCEPT !.at = "read", !.told = seq]]
    BY <1>11 DEF PollSeq
  <2>2. [x EXCEPT !.at = "read", !.told = seq].since = x.since
    BY <1>1 DEF ClientRec
  <2> QED BY <1>2, <1>4, <2>1, <2>2
<1> QED BY <1>5, <1>6, <1>7, <1>8, <1>9, <1>10, <1>11

\* The daemon goes down: memory and what was not written are gone, the files stay.
LEMMA DownStep ==
  ASSUME ReadInv, KeptInv, Close \/ Crash
  PROVE  KeptInv'
<1>1. /\ up' = FALSE /\ after' = {} /\ client' = [c \in Clients |-> Off(client[c])]
      /\ seq' = 0 /\ by' = NoEvents /\ dets' = <<>> /\ connects' = 0 /\ rec' = EmptyRing /\ boot' = boot
      /\ written' = written
  BY DEF Close, Crash, Down
<1>2. MemInv /\ SavedInv /\ LogInv /\ SinceInv
  BY DEF KeptInv
<1>3. MemInv'
  <2> DEFINE none == <<>>
  <2>1. none \in Seq(Event) /\ Len(none) = 0 /\ Rising(none)
    BY DEF Rising
  <2>2. rec' = [evs |-> none, next |-> 1] /\ dets' = none /\ \A d \in Classes : by'[d] = none
    BY <1>1 DEF EmptyRing, NoEvents
  <2> HIDE DEF none
  <2>3. rec'.evs = none /\ rec'.next = 1 /\ rec' \in [evs : Seq(Event), next : Nat]
    BY <2>1, <2>2
  <2>4. RingOK(rec', seq')
    BY <2>1, <2>3, Bounds DEF RingOK
  <2>5. Stored' = {}
    BY <1>1, EmptyLists DEF Stored
  <2>6. up' \in BOOLEAN /\ boot' \in 1..MaxBoots /\ seq' \in 0..MaxSeq /\ connects' \in 0..seq'
    <3>1. up' \in BOOLEAN
      BY <1>1, Zenon
    <3>2. boot' \in 1..MaxBoots
      BY <1>1, <1>2 DEF MemInv
    <3>3. seq' \in 0..MaxSeq /\ connects' \in 0..seq'
      BY <1>1, Bounds
    <3> QED BY <3>1, <3>2, <3>3
  <2>7. dets' \in Seq(Event) /\ Len(dets') <= MaxEvents /\ \A d \in Classes : Rising(by'[d])
    BY <2>1, <2>2, Bounds
  <2> QED BY <2>4, <2>5, <2>6, <2>7 DEF MemInv
<1>4. SavedInv'
  <2>1. CASE Close
    <3>1. saved' = Each(rec) \/ saved' = saved
      BY <2>1 DEF Close
    <3>2. PICK g, q : g = rec /\ q = seq
      OBVIOUS
    <3>3. RingOK(g, q)
      BY <1>2, <3>2 DEF MemInv
    <3>4. Each(g) \in Seq(Event) /\ Len(Each(g)) <= RecCap /\ Rising(Each(g))
      BY <3>3, EachRises
    <3>5. saved' = Each(g) \/ saved' = saved
      BY <3>1, <3>2
    <3> QED BY <1>2, <3>4, <3>5, Zenon DEF SavedInv
  <2>2. CASE Crash
    BY <1>2, <2>2 DEF Crash, SavedInv
  <2> QED BY <2>1, <2>2
<1>5. LogInv'
  <2>1. written \in Seq(Event) /\ LogOK(log, written) /\ after \subseteq Event
    BY <1>2 DEF LogInv
  <2>2. CASE Close
    <3>1. log' = log
      BY <2>2 DEF Close
    <3> QED BY <1>1, <2>1, <3>1, Zenon DEF LogInv
  <2>3. CASE Crash
    <3>1. PICK w, r : w = written /\ r = Rotated(log)
      OBVIOUS
    <3>2. w \in Seq(Event) /\ LogOK(r, w)
      BY <2>1, <3>1, RotatedKeeps
    <3>3. log' = log \/ \E e \in after : log' = TornLine(r, e)
      BY <2>3, <3>1 DEF Crash
    <3>4. \A e \in after : LogOK(TornLine(r, e), w)
      BY <2>1, <3>2, LineKeeps
    <3>5. LogOK(log', w)
      BY <2>1, <3>1, <3>3, <3>4, Zenon
    <3> QED BY <1>1, <2>1, <3>1, <3>5, Zenon DEF LogInv
  <2> QED BY <2>2, <2>3
<1>6. SinceInv'
  <2> SUFFICES ASSUME NEW c \in Clients PROVE client'[c].since <= MaxSeq
    BY DEF SinceInv
  <2>1. client'[c] = Off(client[c]) /\ client[c] \in ClientRec /\ client[c].since <= MaxSeq
    BY <1>1, <1>2 DEF ReadInv, SinceInv
  <2> QED BY <2>1, OffFacts
<1> QED BY <1>3, <1>4, <1>5, <1>6 DEF KeptInv

LEMMA KeptStep == StoreInv /\ ReadInv /\ KeptInv /\ [Next]_vars => KeptInv'
<1> SUFFICES ASSUME StoreInv, ReadInv, KeptInv, [Next]_vars PROVE KeptInv'
  OBVIOUS
<1>0. MemInv /\ SavedInv /\ LogInv /\ SinceInv
  BY DEF KeptInv
<1>1. ASSUME NEW k \in Kinds, AddEvent(k) PROVE KeptInv'
  <2>1. PICK e : e = [seq |-> seq + 1, kind |-> k, boot |-> boot]
    OBVIOUS
  <2>2. MemInv' /\ e \in Event
    BY <1>0, <1>1, <2>1, MemAdd
  <2>3. (after' = after \cup {e} \/ after' = after) /\ UNCHANGED disk /\ client' = client
    BY <1>1, <2>1 DEF AddEvent
  <2>4. saved' = saved /\ log' = log /\ written' = written
    BY <2>3 DEF disk
  <2>5. after' \subseteq Event
    BY <1>0, <2>2, <2>3 DEF LogInv
  <2>6. SavedInv' /\ SinceInv'
    BY <1>0, <2>3, <2>4 DEF SavedInv, SinceInv
  <2>7. LogInv'
    BY <1>0, <2>4, <2>5, Zenon DEF LogInv
  <2> QED BY <2>2, <2>6, <2>7 DEF KeptInv
<1>2. ASSUME NEW e \in after, Detection(e) \/ RotateFails(e) \/ DetectionFails(e) \/ DetectionRefused(e) PROVE KeptInv'
  <2>1. UNCHANGED <<up, boot, store>> /\ saved' = saved /\ client' = client
    BY <1>2 DEF Detection, RotateFails, DetectionFails, DetectionRefused, disk
  <2>2. LogInv'
    BY <1>0, <1>2, LogStep
  <2>3. MemInv'
    BY <1>0, <2>1, MemSame
  <2>4. SavedInv' /\ SinceInv'
    BY <1>0, <2>1 DEF SavedInv, SinceInv
  <2> QED BY <2>2, <2>3, <2>4 DEF KeptInv
<1>3. CASE Snapshot
  <2>1. UNCHANGED <<up, boot, store>> /\ saved' = Each(rec) /\ client' = client /\ after' = after /\ log' = log /\ written' = written
    BY <1>3 DEF Snapshot
  <2>2. PICK g, q : g = rec /\ q = seq
    OBVIOUS
  <2>3. RingOK(g, q)
    BY <1>0, <2>2 DEF MemInv
  <2>4. Each(g) \in Seq(Event) /\ Len(Each(g)) <= RecCap /\ Rising(Each(g))
    BY <2>3, EachRises
  <2>5. SavedInv'
    BY <2>1, <2>2, <2>4, Zenon DEF SavedInv
  <2>6. MemInv'
    BY <1>0, <2>1, MemSame
  <2>7. LogInv' /\ SinceInv'
    BY <1>0, <2>1 DEF LogInv, SinceInv
  <2> QED BY <2>5, <2>6, <2>7 DEF KeptInv
<1>4. ASSUME NEW c \in Clients, \/ Connect(c) \/ Changed(c) \/ EventsSince(c) \/ Send(c)
                                \/ Wake(c) \/ Disconnect(c) \/ PollSeq(c) \/ PollEvents(c)
      PROVE  KeptInv'
  <2>1. UNCHANGED <<up, boot, store, after, disk>>
    BY <1>4 DEF Connect, Changed, EventsSince, Send, Wake, Disconnect, PollSeq, PollEvents
  <2>2. UNCHANGED <<up, boot, store>> /\ after' = after /\ log' = log /\ written' = written /\ saved' = saved
    BY <2>1 DEF disk
  <2>3. SinceInv'
    BY <1>0, <1>4, SinceStep
  <2>4. MemInv'
    BY <1>0, <2>2, MemSame
  <2>5. LogInv' /\ SavedInv'
    BY <1>0, <2>2 DEF LogInv, SavedInv
  <2> QED BY <2>3, <2>4, <2>5 DEF KeptInv
<1>5. CASE Close \/ Crash
  BY <1>5, DownStep
<1>6. CASE Restore
  <2>1. MemInv' /\ LogOK(log', written)
    BY <1>0, <1>6, MemRestore
  <2>2. after' = after /\ saved' = saved /\ written' = written /\ client' = client
    BY <1>6 DEF Restore
  <2>3. SavedInv' /\ SinceInv'
    BY <1>0, <2>2 DEF SavedInv, SinceInv
  <2>4. LogInv'
    BY <1>0, <2>1, <2>2, Zenon DEF LogInv
  <2> QED BY <2>1, <2>3, <2>4 DEF KeptInv
<1>7. CASE UNCHANGED vars
  <2>1. UNCHANGED <<up, boot, store>> /\ after' = after /\ log' = log /\ written' = written /\ saved' = saved /\ client' = client
    BY <1>7 DEF vars, disk
  <2>2. MemInv'
    BY <1>0, <2>1, MemSame
  <2>3. LogInv' /\ SavedInv' /\ SinceInv'
    BY <1>0, <2>1 DEF LogInv, SavedInv, SinceInv
  <2> QED BY <2>2, <2>3 DEF KeptInv
<1> QED BY <1>1, <1>2, <1>3, <1>4, <1>5, <1>6, <1>7 DEF Next

LEMMA KeptStart == Init => KeptInv
<1> SUFFICES ASSUME Init PROVE KeptInv
  OBVIOUS
<1>1. /\ up = TRUE /\ boot = 1 /\ seq = 0 /\ by = NoEvents /\ dets = <<>> /\ connects = 0 /\ rec = EmptyRing
      /\ after = {} /\ log = EmptyLog /\ saved = <<>> /\ written = <<>>
  BY DEF Init
<1>2. MemInv
  BY <1>1, MemEmpty, Bounds
<1>3. SavedInv
  BY <1>1, Bounds DEF SavedInv, Rising
<1>4. LogInv
  <2> DEFINE none == <<>>
  <2>1. none \in Seq(LineRec) /\ none \in Seq(Event) /\ Len(none) = 0 /\ DOMAIN none = {} /\ none \o none = none
    OBVIOUS
  <2>2. log = [old |-> none, cur |-> none, ended |-> TRUE, open |-> TRUE] /\ written = none
    BY <1>1 DEF EmptyLog
  <2> HIDE DEF none
  <2>3. log \in LogRec /\ log.old = none /\ log.cur = none
    BY <2>1, <2>2 DEF LogRec
  <2>4. Lines(log) = none
    BY <2>1, <2>3 DEF Lines
  <2>5. Whole(none) = {}
    BY <2>1 DEF Whole
  <2>6. Cardinality(Whole(none)) = 0
    BY <2>5, FS_EmptySet
  <2>7. Told(none, none) /\ Filled(none, none)
    BY <2>1, <2>5, <2>6 DEF Told, Filled
  <2>8. LogOK(log, written)
    BY <2>2, <2>3, <2>4, <2>7 DEF LogOK
  <2> QED BY <1>1, <2>1, <2>2, <2>8, Zenon DEF LogInv
<1>5. SinceInv
  <2>1. PICK u \in Setups : client = [c \in Clients |-> NewClient(u.role)]
    BY DEF Init
  <2>2. \A c \in Clients : client[c].since = 0
    BY <2>1 DEF NewClient
  <2> QED BY <2>2, Bounds DEF SinceInv
<1> QED BY <1>2, <1>3, <1>4, <1>5 DEF KeptInv

\* The lists are kept within their limits and in order (events.go add and since, recorder.go add and each,
\* persist/log.go ReadTail): the event list, the detections and the ring never pass their bounds, and the class
\* lists and the ring, read oldest first, are in Seq order, also after the ring wrapped and after a restart that
\* filled it from a snapshot and went on from the highest Seq it read back.
THEOREM ListsAreKept == Spec => []ListsKept
<1>1. Init => StoreInv /\ ReadInv /\ KeptInv
  BY StoreStart, ReadStart, KeptStart
<1>2. StoreInv /\ ReadInv /\ KeptInv /\ [Next]_vars => StoreInv' /\ ReadInv' /\ KeptInv'
  BY StoreStep, ReadStep, KeptStep
<1>3. StoreInv /\ ReadInv /\ KeptInv => ListsKept
  <2> SUFFICES ASSUME StoreInv, ReadInv, KeptInv PROVE ListsKept
    OBVIOUS
  <2>0. MemInv /\ LogInv /\ SinceInv
    BY DEF KeptInv
  <2>1. by \in Lists /\ Total(by) <= MaxEvents
    BY DEF StoreInv
  <2>2. by \in [Classes -> Seq(Event)]
    <3>1. ASSUME NEW d \in Classes PROVE by[d] \in Seq(Event)
      <4>1. by[d] \in Seq(Ev)
        BY <2>1 DEF Lists
      <4>2. Len(by[d]) \in Nat /\ by[d] \in [1..Len(by[d]) -> Ev] /\ DOMAIN by[d] = 1..Len(by[d])
        BY <4>1, LenProperties
      <4>3. \A i \in 1..Len(by[d]) : by[d][i] \in Event
        BY <2>0, <4>2 DEF MemInv, Stored, ToSet
      <4>4. PICK n \in Nat : n = Len(by[d])
        BY <4>2
      <4>5. PICK s : s = by[d]
        OBVIOUS
      <4>6. s \in [1..n -> Event]
        BY <4>2, <4>3, <4>4, <4>5
      <4>7. s \in Seq(Event)
        BY <4>6
      <4> QED BY <4>5, <4>7
    <3>2. by = [d \in Classes |-> by[d]]
      BY <2>1 DEF Lists
    <3> QED BY <3>1, <3>2
  <2>3. \A c \in Clients : client[c].at \in Stages /\ client[c].since \in 0..MaxSeq
    <3> SUFFICES ASSUME NEW c \in Clients PROVE client[c].at \in Stages /\ client[c].since \in 0..MaxSeq
      OBVIOUS
    <3>1. client[c] \in ClientRec /\ client[c].since <= MaxSeq
      BY <2>0 DEF ReadInv, SinceInv
    <3> QED BY <3>1, Bounds DEF ClientRec
  <2>4. RingOK(rec, seq) /\ seq \in 0..MaxSeq /\ connects \in 0..seq
    BY <2>0 DEF MemInv
  <2>5. connects \in 0..MaxSeq
    BY <2>4, Bounds
  <2>6. rec.evs \in Seq(Event) /\ Len(rec.evs) <= RecCap /\ rec.next \in 1..RecCap
    BY <2>4 DEF RingOK
  <2>7. TypeOK
    BY <2>0, <2>1, <2>2, <2>3, <2>5, <2>6 DEF TypeOK, MemInv, LogInv
  <2>8. Ascending(Each(rec))
    <3>1. PICK g, q : g = rec /\ q = seq
      OBVIOUS
    <3>2. Each(g) \in Seq(Event) /\ Rising(Each(g))
      BY <2>4, <3>1, EachRises
    <3>3. Len(Each(g)) \in Nat
      BY <3>2, LenProperties
    <3>4. Ascending(Each(g))
      BY <3>2, <3>3, RisingAscends
    <3> QED BY <3>1, <3>4
  <2>9. \A d \in Classes : Ascending(by[d])
    <3> SUFFICES ASSUME NEW d \in Classes PROVE Ascending(by[d])
      OBVIOUS
    <3>1. PICK s : s = by[d]
      OBVIOUS
    <3>2. Rising(s) /\ Len(s) \in Nat
      BY <2>0, <2>1, <3>1, ListSizes, LenProperties DEF MemInv
    <3> QED BY <3>1, <3>2, RisingAscends
  <2> QED BY <2>7, <2>8, <2>9 DEF ListsKept, StoredInOrder
<1> QED BY <1>1, <1>2, <1>3, PTL DEF Spec

\* s is the last of w.
LEMMA LastOf ==
  ASSUME NEW S, NEW s \in Seq(S), NEW w \in Seq(S), Len(s) <= Len(w),
         \A k \in 1..Len(s) : s[k] = w[Len(w) - Len(s) + k]
  PROVE  IsSuffix(s, w) /\ (Len(s) = Len(w) => s = w)
<1> DEFINE m == Len(s)
           n == Len(w)
           a == Reverse(s)
           b == Reverse(w)
<1>1. m \in Nat /\ n \in Nat /\ DOMAIN s = 1..m /\ DOMAIN w = 1..n /\ (\A i \in 1..m : s[i] \in S) /\ (\A i \in 1..n : w[i] \in S)
  BY LenProperties, ElementOfSeq
<1>2. m <= n /\ \A k \in 1..m : s[k] = w[n - m + k]
  OBVIOUS
<1>3. a = [i \in 1..m |-> s[(m - i) + 1]] /\ b = [i \in 1..n |-> w[(n - i) + 1]]
  BY DEF Reverse
<1>4. m = n => s = w
  <2> SUFFICES ASSUME m = n PROVE s = w
    OBVIOUS
  <2>1. \A k \in 1..m : n - m + k = k
    BY <1>1
  <2>2. \A k \in 1..m : s[k] = w[k]
    BY <1>2, <2>1
  <2>3. s = [k \in 1..m |-> s[k]] /\ w = [k \in 1..m |-> w[k]]
    BY <1>1
  <2> QED BY <2>2, <2>3
<1> HIDE DEF m, n, a, b
<1>5. a \in [1..m -> S] /\ b \in [1..n -> S]
  <2>1. \A i \in 1..m : (m - i) + 1 \in 1..m
    BY <1>1
  <2>2. \A i \in 1..n : (n - i) + 1 \in 1..n
    BY <1>1
  <2> QED BY <1>1, <1>3, <2>1, <2>2
<1>6. a \in Seq(S) /\ b \in Seq(S) /\ Len(a) = m /\ Len(b) = n
  BY <1>1, <1>5
<1>7. \A i \in 1..m : a[i] = b[i]
  <2> SUFFICES ASSUME NEW i \in 1..m PROVE a[i] = b[i]
    OBVIOUS
  <2>1. (m - i) + 1 \in 1..m /\ n - m + ((m - i) + 1) = (n - i) + 1 /\ i \in 1..n
    BY <1>1, <1>2
  <2>2. s[(m - i) + 1] = w[n - m + ((m - i) + 1)]
    BY <1>2, <2>1
  <2> QED BY <1>3, <2>1, <2>2
<1>8. SubSeq(a, 1, m) = [i \in 1..m |-> a[i]] /\ SubSeq(b, 1, m) = [i \in 1..m |-> b[i]]
  BY <1>1, <1>2, <1>6
<1>9. SubSeq(a, 1, m) = SubSeq(b, 1, m)
  BY <1>7, <1>8
<1>10. IsPrefix(a, b)
  BY <1>2, <1>6, <1>9 DEF IsPrefix
<1> QED BY <1>4, <1>10 DEF IsSuffix, a, b, m, n

\* The newest of what was written survives (persist/log.go Append, rotate, open and ReadTail): through any crashes,
\* torn writes, failed renames and restarts, what ReadTail gives back is the end of what Append put on lines of
\* their own, without a gap, and short of all of it only by the lines that were torn, the reader's bound or a roll.
THEOREM NewestAlwaysSurvive == Spec => []NewestSurvive
<1>1. Init => StoreInv /\ ReadInv /\ KeptInv
  BY StoreStart, ReadStart, KeptStart
<1>2. StoreInv /\ ReadInv /\ KeptInv /\ [Next]_vars => StoreInv' /\ ReadInv' /\ KeptInv'
  BY StoreStep, ReadStep, KeptStep
<1>3. KeptInv => NewestSurvive
  <2> SUFFICES ASSUME KeptInv PROVE NewestSurvive
    OBVIOUS
  <2>1. PICK w, s, b : w = written /\ s = Lines(log) /\ b = Bounded(s, MaxEvents)
    OBVIOUS
  <2>2. w \in Seq(Event) /\ LogOK(log, w)
    BY <2>1 DEF KeptInv, LogInv
  <2>3. s \in Seq(LineRec) /\ Told(s, w) /\ Filled(s, w)
    BY <2>1, <2>2, LinesType DEF LogOK
  <2>4. ReadTail(log, MaxEvents) = Decoded(b) /\ Torn(log) = Cardinality(Broken(s))
    BY <2>1 DEF ReadTail, Lines, Torn, Broken
  <2>5. /\ b \in Seq(LineRec) /\ (Len(s) > MaxEvents => Len(b) = MaxEvents) /\ (~(Len(s) > MaxEvents) => b = s)
        /\ \E d \in Nat : Left(b, s, d)
    BY <2>1, <2>3, Bounds, BoundedFacts
  <2>6. Told(b, w) /\ Cardinality(Broken(b)) <= Cardinality(Broken(s))
    BY <2>3, <2>5, ToldLeft
  <2>7. PICK back : back = Decoded(b)
    OBVIOUS
  <2>8. /\ back \in Seq(Event) /\ Len(back) = Cardinality(Whole(b)) /\ Len(back) <= Len(w)
        /\ \A k \in 1..Len(back) : back[k] = w[Len(w) - Len(back) + k]
    BY <2>2, <2>5, <2>6, <2>7, DecodedFacts
  <2>9. IsSuffix(back, w) /\ (Len(back) = Len(w) => back = w)
    BY <2>2, <2>8, LastOf
  <2>10. /\ Len(b) = Cardinality(Whole(b)) + Cardinality(Broken(b)) /\ Cardinality(Whole(b)) \in Nat
         /\ Cardinality(Broken(b)) \in Nat /\ Cardinality(Broken(s)) \in Nat /\ Len(s) \in Nat
    BY <2>3, <2>5, LineSets
  <2>11. Len(back) >= Len(b) - Cardinality(Broken(s))
    BY <2>6, <2>8, <2>10
  <2>12. \/ Len(back) >= MaxEvents - Torn(log)
         \/ Len(back) >= LogMax - Torn(log)
         \/ back = w
    <3>1. CASE Len(s) > MaxEvents
      BY <2>4, <2>5, <2>11, <3>1
    <3>2. CASE ~(Len(s) > MaxEvents)
      <4>1. b = s
        BY <2>5, <3>2
      <4>2. CASE Cardinality(Whole(s)) = Len(w)
        BY <2>8, <2>9, <4>1, <4>2
      <4>3. CASE Len(s) >= LogMax
        <5>1. LogMax \in Nat
          BY EventsAssumption
        <5> QED BY <2>4, <2>10, <2>11, <4>1, <4>3, <5>1
      <4> QED BY <2>3, <4>2, <4>3 DEF Filled
    <3> QED BY <3>1, <3>2
  <2> QED BY <2>1, <2>4, <2>7, <2>9, <2>12 DEF NewestSurvive
<1> QED BY <1>1, <1>2, <1>3, PTL DEF Spec

=============================================================================
