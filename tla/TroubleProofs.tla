--------------------------- MODULE TroubleProofs ----------------------------
(***************************************************************************)
(* Theorems about Trouble: what a login shows of the host's events, for    *)
(* any kinds, window, log, mishaps and stale limit.                        *)
(***************************************************************************)
EXTENDS Trouble, JournalProofs, FunctionTheorems

-----------------------------------------------------------------------------
(* Counting. *)

\* Of two finite sets the smaller one can be put into the larger one.
LEMMA Embeds ==
  ASSUME NEW S, IsFiniteSet(S), NEW T, IsFiniteSet(T), Cardinality(S) <= Cardinality(T)
  PROVE  \E h \in [S -> T] : \A a, b \in S : h[a] = h[b] => a = b
<1> DEFINE m == Cardinality(S)
           n == Cardinality(T)
<1>1. m \in Nat /\ ExistsBijection(1..m, S)
  BY FS_CardinalityType
<1>2. n \in Nat /\ ExistsBijection(1..n, T)
  BY FS_CardinalityType
<1>3. PICK p : p \in Bijection(S, 1..m)
  BY <1>1, Fun_ExistsBijSymmetric, Fun_ExistsBij
<1>4. PICK q : q \in Bijection(1..n, T)
  BY <1>2, Fun_ExistsBij
<1> HIDE DEF m, n
<1>5. p \in [S -> 1..m] /\ \A a, b \in S : p[a] = p[b] => a = b
  BY <1>3, Fun_BijectionProperties
<1>6. q \in [1..n -> T] /\ \A a, b \in 1..n : q[a] = q[b] => a = b
  BY <1>4, Fun_BijectionProperties
<1>7. \A a \in S : p[a] \in 1..n
  BY <1>1, <1>2, <1>5 DEF m, n
<1> DEFINE h == [a \in S |-> q[p[a]]]
<1>8. h \in [S -> T]
  BY <1>6, <1>7
<1>9. ASSUME NEW a \in S, NEW b \in S, h[a] = h[b]  PROVE  a = b
  <2>1. q[p[a]] = q[p[b]]
    BY <1>9
  <2> QED BY <1>5, <1>6, <1>7, <2>1
<1> QED BY <1>8, <1>9

\* The members of a set of sort x.
OfSort(S, sort, x) == {s \in S : sort[s] = x}

\* A set that has, of every sort, at most as many members as another one is at
\* most as large.
LEMMA SortedCount ==
  ASSUME NEW S, IsFiniteSet(S), NEW T, IsFiniteSet(T), NEW X,
         NEW f \in [S -> X], NEW g \in [T -> X],
         \A x \in X : Cardinality(OfSort(S, f, x)) <= Cardinality(OfSort(T, g, x))
  PROVE  Cardinality(S) <= Cardinality(T)
<1> DEFINE A(x) == {s \in S : f[s] = x}
           B(x) == {t \in T : g[t] = x}
           Good(x, h) == \A a, b \in A(x) : h[a] = h[b] => a = b
           H == [x \in X |-> CHOOSE h \in [A(x) -> B(x)] : Good(x, h)]
           F == [s \in S |-> H[f[s]][s]]
<1>1. ASSUME NEW x \in X  PROVE  \E h \in [A(x) -> B(x)] : Good(x, h)
  <2>1. IsFiniteSet(A(x)) /\ IsFiniteSet(B(x))
    BY FS_Subset
  <2>2. Cardinality(A(x)) <= Cardinality(B(x))
    BY DEF OfSort
  <2> QED BY <2>1, <2>2, Embeds
<1>2. \A x \in X : H[x] \in [A(x) -> B(x)] /\ Good(x, H[x])
  BY <1>1
<1>3. \A s \in S : f[s] \in X /\ s \in A(f[s])
  OBVIOUS
<1>4. ASSUME NEW s \in S  PROVE  F[s] \in T /\ g[F[s]] = f[s]
  <2>1. H[f[s]] \in [A(f[s]) -> B(f[s])] /\ s \in A(f[s])
    BY <1>2, <1>3
  <2>2. H[f[s]][s] \in B(f[s])
    <3> HIDE DEF A, B, H
    <3> QED BY <2>1
  <2>3. F[s] = H[f[s]][s]
    OBVIOUS
  <2> HIDE DEF F, H
  <2> QED BY <2>2, <2>3
<1>5. \A a, b \in S : F[a] = F[b] => a = b
  <2> SUFFICES ASSUME NEW a \in S, NEW b \in S, F[a] = F[b]  PROVE  a = b
    OBVIOUS
  <2>1. f[a] = f[b]
    <3>1. g[F[a]] = f[a] /\ g[F[b]] = f[b]
      BY <1>4
    <3> HIDE DEF F
    <3> QED BY <3>1
  <2>2. a \in A(f[a]) /\ b \in A(f[a])
    BY <2>1, <1>3
  <2>3. H[f[a]][a] = H[f[a]][b]
    BY <2>1
  <2>4. Good(f[a], H[f[a]])
    BY <1>2, <1>3
  <2> HIDE DEF A, H
  <2> QED BY <2>2, <2>3, <2>4
<1>6. F \in [S -> T]
  BY <1>4
<1>7. F \in Injection(S, T)
  BY <1>5, <1>6, Fun_IsInj
<1> QED BY <1>7, FS_Injection

-----------------------------------------------------------------------------
(* The stamps of a list and the entries they are the times of. *)

\* The stamps of time t in a list, and how many they are.
LEMMA Stamps ==
  ASSUME NEW bag \in [Times -> Nat]
  PROVE  /\ IsFiniteSet(Members(bag))
         /\ Cardinality(Members(bag)) \in Nat
         /\ \A o \in Members(bag) : o[1] \in Times
         /\ \A t \in Times : Cardinality({o \in Members(bag) : o[1] = t}) = bag[t]
<1> USE JournalAssumption DEF JournalAssumption
<1> DEFINE Pile == [t \in Times |-> {t} \X (1..bag[t])]
           Piles == {{t} \X (1..bag[t]) : t \in Times}
<1>1. ASSUME NEW t \in Times
      PROVE  IsFiniteSet({t} \X (1..bag[t])) /\ Cardinality({t} \X (1..bag[t])) = bag[t]
  <2>1. bag[t] \in Nat
    OBVIOUS
  <2>2. IsFiniteSet(1..bag[t]) /\ Cardinality(1..bag[t]) = bag[t]
    <3>1. /\ IsFiniteSet(1..bag[t])
          /\ Cardinality(1..bag[t]) = IF 1 > bag[t] THEN 0 ELSE bag[t] - 1 + 1
      BY <2>1, FS_Interval
    <3> QED BY <2>1, <3>1
  <2>3. IsFiniteSet({t}) /\ Cardinality({t}) = 1
    BY FS_Singleton
  <2>4. /\ IsFiniteSet({t} \X (1..bag[t]))
        /\ Cardinality({t} \X (1..bag[t])) = Cardinality({t}) * Cardinality(1..bag[t])
    BY <2>2, <2>3, FS_Product
  <2> QED BY <2>1, <2>2, <2>3, <2>4
<1>2. IsFiniteSet(Times)
  BY FS_Interval DEF Times
<1>3. Pile \in Surjection(Times, Piles)
  <2>1. Pile \in [Times -> Piles] /\ \A P \in Piles : \E t \in Times : Pile[t] = P
    OBVIOUS
  <2> HIDE DEF Pile, Piles
  <2> QED BY <2>1, Fun_IsSurj
<1>4. IsFiniteSet(Piles)
  <2> HIDE DEF Pile, Piles
  <2> QED BY <1>2, <1>3, FS_Surjection
<1>5. IsFiniteSet(UNION Piles)
  <2>1. \A P \in Piles : IsFiniteSet(P)
    BY <1>1
  <2> HIDE DEF Piles
  <2> QED BY <1>4, <2>1, FS_UNION
<1>6. IsFiniteSet(Members(bag))
  BY <1>5 DEF Members
<1>7. ASSUME NEW t \in Times
      PROVE  {o \in Members(bag) : o[1] = t} = {t} \X (1..bag[t])
  BY DEF Members
<1>8. \A o \in Members(bag) : o[1] \in Times
  BY DEF Members
<1> QED BY <1>1, <1>6, <1>7, <1>8, FS_CardinalityType

\* The entries of kind k at `positions` after time a.
After(positions, k, a) == {i \in positions : log[i].kind = k /\ log[i].at > a}

LEMMA AfterFacts ==
  ASSUME TypeOK, NEW S \in SUBSET (1..Len(log)), NEW k, NEW a \in Int
  PROVE  /\ IsFiniteSet(After(S, k, a))
         /\ Cardinality(After(S, k, a)) \in Nat
         /\ \A i \in After(S, k, a) : log[i].at \in Times
         /\ \A t \in Times : {i \in After(S, k, a) : log[i].at = t}
                               = IF t > a THEN Hits(log, S, k, t) ELSE {}
<1>1. IsFiniteSet(S)
  <2>1. IsFiniteSet(1..Len(log))
    BY Types, FS_Interval
  <2> QED BY <2>1, FS_Subset
<1>2. After(S, k, a) \in SUBSET S
  BY DEF After
<1>3. IsFiniteSet(After(S, k, a))
  BY <1>1, <1>2, FS_Subset
<1>4. \A i \in S : log[i].at \in Times
  <2> DEFINE Entries == [kind : Kinds \cup {Other}, at : Times]
  <2>1. log \in Seq(Entries) /\ Len(log) \in Nat
    BY Types
  <2>2. \A i \in S : log[i] \in Entries
    <3> HIDE DEF Entries
    <3> QED BY <2>1
  <2> QED BY <2>2
<1>5. \A t \in Times : t \in Int
  BY DEF Times
<1>6. ASSUME NEW t \in Times
      PROVE  {i \in After(S, k, a) : log[i].at = t} = IF t > a THEN Hits(log, S, k, t) ELSE {}
  BY DEF After, Hits
<1> QED BY <1>2, <1>3, <1>4, <1>6, FS_CardinalityType

\* As many stamps of every time after a as there are entries, and none of an
\* earlier one: no more stamps than entries after a.
LEMMA NoMoreStamps ==
  ASSUME TypeOK, NEW bag \in [Times -> Nat], NEW S \in SUBSET (1..Len(log)), NEW k,
         NEW a \in Int,
         \A t \in Times : bag[t] <= Number(S, k, t),
         \A t \in Times : bag[t] > 0 => t > a
  PROVE  Cardinality(Members(bag)) <= Cardinality(After(S, k, a))
<1> DEFINE f == [o \in Members(bag) |-> o[1]]
           g == [i \in After(S, k, a) |-> log[i].at]
<1>1. f \in [Members(bag) -> Times] /\ IsFiniteSet(Members(bag))
  BY Stamps
<1>2. g \in [After(S, k, a) -> Times] /\ IsFiniteSet(After(S, k, a))
  BY AfterFacts
<1>3. ASSUME NEW t \in Times
      PROVE  Cardinality({o \in Members(bag) : f[o] = t})
               <= Cardinality({i \in After(S, k, a) : g[i] = t})
  <2>1. {o \in Members(bag) : f[o] = t} = {o \in Members(bag) : o[1] = t}
    OBVIOUS
  <2>2. {i \in After(S, k, a) : g[i] = t} = IF t > a THEN Hits(log, S, k, t) ELSE {}
    <3>1. {i \in After(S, k, a) : g[i] = t} = {i \in After(S, k, a) : log[i].at = t}
      OBVIOUS
    <3>2. {i \in After(S, k, a) : log[i].at = t} = IF t > a THEN Hits(log, S, k, t) ELSE {}
      BY AfterFacts
    <3> QED BY <3>1, <3>2
  <2>3. Cardinality({o \in Members(bag) : f[o] = t}) = bag[t] /\ bag[t] \in Nat
    BY <2>1, Stamps
  <2>4. CASE t > a
    BY <2>2, <2>3, <2>4 DEF Number
  <2>5. CASE ~ (t > a)
    <3>1. bag[t] = 0
      BY <2>3, <2>5
    <3>2. {i \in After(S, k, a) : g[i] = t} = {}
      BY <2>2, <2>5
    <3>3. Cardinality({i \in After(S, k, a) : g[i] = t}) = 0
      BY <3>2, FS_EmptySet
    <3> HIDE DEF f, g
    <3> QED BY <2>3, <3>1, <3>3
  <2> QED BY <2>4, <2>5
<1> DEFINE M == Members(bag)
           E == After(S, k, a)
<1>4. \A t \in Times : Cardinality(OfSort(M, f, t)) <= Cardinality(OfSort(E, g, t))
  BY <1>3 DEF OfSort
<1>5. f \in [M -> Times] /\ IsFiniteSet(M) /\ g \in [E -> Times] /\ IsFiniteSet(E)
  BY <1>1, <1>2
<1>6. Cardinality(M) <= Cardinality(E)
  <2> HIDE DEF f, g, M, E
  <2> QED BY <1>4, <1>5, SortedCount
<1> QED BY <1>6

\* At least as many stamps of every time after a as there are entries.
LEMMA NoFewerStamps ==
  ASSUME TypeOK, NEW bag \in [Times -> Nat], NEW S \in SUBSET (1..Len(log)), NEW k,
         NEW a \in Int,
         \A t \in Times : t > a => bag[t] >= Number(S, k, t)
  PROVE  Cardinality(Members(bag)) >= Cardinality(After(S, k, a))
<1> DEFINE f == [o \in Members(bag) |-> o[1]]
           g == [i \in After(S, k, a) |-> log[i].at]
<1>1. f \in [Members(bag) -> Times] /\ IsFiniteSet(Members(bag))
  BY Stamps
<1>2. g \in [After(S, k, a) -> Times] /\ IsFiniteSet(After(S, k, a))
  BY AfterFacts
<1>3. ASSUME NEW t \in Times
      PROVE  Cardinality({i \in After(S, k, a) : g[i] = t})
               <= Cardinality({o \in Members(bag) : f[o] = t})
  <2>1. {o \in Members(bag) : f[o] = t} = {o \in Members(bag) : o[1] = t}
    OBVIOUS
  <2>2. {i \in After(S, k, a) : g[i] = t} = IF t > a THEN Hits(log, S, k, t) ELSE {}
    <3>1. {i \in After(S, k, a) : g[i] = t} = {i \in After(S, k, a) : log[i].at = t}
      OBVIOUS
    <3>2. {i \in After(S, k, a) : log[i].at = t} = IF t > a THEN Hits(log, S, k, t) ELSE {}
      BY AfterFacts
    <3> QED BY <3>1, <3>2
  <2>3. Cardinality({o \in Members(bag) : f[o] = t}) = bag[t] /\ bag[t] \in Nat
    BY <2>1, Stamps
  <2>4. CASE t > a
    <3>1. Number(S, k, t) \in Nat
      <4>1. IsFiniteSet(1..Len(log))
        BY Types, FS_Interval
      <4>2. IsFiniteSet(S)
        BY <4>1, FS_Subset
      <4> QED BY <4>2, HitsFinite DEF Number
    <3> QED BY <2>2, <2>3, <2>4, <3>1 DEF Number
  <2>5. CASE ~ (t > a)
    <3>1. {i \in After(S, k, a) : g[i] = t} = {}
      BY <2>2, <2>5
    <3>2. Cardinality({i \in After(S, k, a) : g[i] = t}) = 0
      BY <3>1, FS_EmptySet
    <3> HIDE DEF f, g
    <3> QED BY <2>3, <3>2
  <2> QED BY <2>4, <2>5
<1> DEFINE M == Members(bag)
           E == After(S, k, a)
<1>4. \A t \in Times : Cardinality(OfSort(E, g, t)) <= Cardinality(OfSort(M, f, t))
  BY <1>3 DEF OfSort
<1>5. f \in [M -> Times] /\ IsFiniteSet(M) /\ g \in [E -> Times] /\ IsFiniteSet(E)
  BY <1>1, <1>2
<1>6. Cardinality(E) <= Cardinality(M)
  <2> HIDE DEF f, g, M, E
  <2> QED BY <1>4, <1>5, SortedCount
<1>7. Cardinality(E) \in Nat /\ Cardinality(M) \in Nat
  BY <1>5, FS_CardinalityType
<1> HIDE DEF M, E
<1>8. Cardinality(M) >= Cardinality(E)
  BY <1>6, <1>7
<1> QED BY <1>8 DEF M, E
\* Every set of naturals that is not empty has a least member.
LEMMA Least ==
  ASSUME NEW T \in SUBSET Nat, T # {}
  PROVE  \E n \in T : \A m \in T : n <= m
<1> DEFINE Ups == {0..n : n \in T}
           R == StrictSubsetOrdering(Nat)
<1>1. IsWellFoundedOn(R, FiniteSubsetsOf(Nat))
  BY FS_StrictSubsetOrderingWellFounded
<1>2. Ups \subseteq FiniteSubsetsOf(Nat)
  <2>1. \A n \in T : IsFiniteSet(0..n) /\ 0..n \subseteq Nat
    BY FS_Interval
  <2> QED BY <2>1 DEF FiniteSubsetsOf
<1>3. Ups # {}
  OBVIOUS
<1>4. ASSUME NEW m \in Nat, NEW n \in Nat, m < n  PROVE  <<0..m, 0..n>> \in R
  <2>1. n \in 0..n /\ n \notin 0..m
    BY <1>4
  <2>2. 0..m \subseteq 0..n /\ 0..m # 0..n /\ 0..m \subseteq Nat /\ 0..n \subseteq Nat
    BY <1>4, <2>1
  <2> QED BY <2>2 DEF StrictSubsetOrdering
<1> HIDE DEF R
<1>5. PICK U \in Ups : \A V \in Ups : ~ (<<V, U>> \in R)
  BY <1>1, <1>2, <1>3, WFMin
<1>6. PICK n \in T : U = 0..n
  OBVIOUS
<1>7. \A m \in T : ~ (m < n)
  BY <1>4, <1>5, <1>6
<1> QED BY <1>7

\* The last stamp of a list that has one of time t.
LEMMA LastStamp ==
  ASSUME NEW bag \in [Times -> Nat], NEW t \in Times, bag[t] > 0
  PROVE  EventCount(bag).last \in Int /\ EventCount(bag).last >= t
<1> USE JournalAssumption DEF JournalAssumption
<1> DEFINE L == {NoTime} \cup {u \in Times : bag[u] > 0}
           D == {MaxClock - u : u \in L}
<1>1. L \subseteq Int /\ t \in L /\ \A u \in L : MaxClock - u \in Nat
  BY DEF NoTime, Times
<1>2. D \in SUBSET Nat /\ D # {}
  BY <1>1
<1>3. \E n \in D : \A m \in D : n <= m
  <2> HIDE DEF D
  <2> QED BY <1>2, Least
<1>4. \E x \in L : \A y \in L : x >= y
  <2>1. PICK x \in L : \A m \in D : MaxClock - x <= m
    BY <1>3
  <2>2. \A y \in L : MaxClock - x <= MaxClock - y
    BY <2>1
  <2> HIDE DEF L
  <2> QED BY <1>1, <2>2
<1>5. Max(L) \in L /\ \A y \in L : Max(L) >= y
  <2> HIDE DEF L
  <2> QED BY <1>4 DEF Max
<1>6. Max(L) \in Int /\ Max(L) >= t
  BY <1>1, <1>5
<1>7. EventCount(bag).last = Max(L)
  BY DEF EventCount
<1> QED BY <1>6, <1>7

-----------------------------------------------------------------------------
(* The inductive invariant. *)

\* collect_events returns no stamp older than the window.
Returned ==
    pc = "returned" => \A k \in Kinds, t \in Times : stamps[k][t] > 0 => t > now - Window

\* What the host state file holds, as far as a login uses it.
FileType ==
    /\ shown.seen \in 0..Len(log)
    /\ shown.gone \in Nat
    /\ published.at \in Int
    /\ published.kinds \subseteq Kinds
    /\ \A k \in Kinds : published.counts[k].count \in Nat

\* A count in it is of a list whose last stamp was in the window.
LastInWindow ==
    \A k \in Kinds :
        published.counts[k].count > 0 =>
          /\ published.counts[k].last \in Int
          /\ published.counts[k].last > published.at - Window

TInv == IInv /\ Returned /\ FileType /\ LastInWindow /\ CountsAreTrue

LEMMA TInitInv == TroubleInit => TInv
<1> SUFFICES ASSUME TroubleInit PROVE TInv OBVIOUS
<1> USE DEF TroubleInit
<1>1. IInv
  BY InitInv
<1>2. Returned
  BY DEF Init, Returned
<1>3. Len(log) \in Nat /\ shown.seen = 0 /\ shown.gone = 0
  BY <1>1, Types DEF IInv, Init
<1>4. \A k \in Kinds : published.counts[k].count = 0
  BY DEF NoState
<1>5. FileType
  BY <1>3, <1>4 DEF FileType, NoState
<1>6. LastInWindow
  BY <1>4 DEF LastInWindow
<1>7. CountsAreTrue
  BY DEF CountsAreTrue, Written, NoState
<1> QED BY <1>1, <1>2, <1>5, <1>6, <1>7 DEF TInv

\* Every step of this system is one of the collector's journal, or none.
LEMMA TStep == ASSUME IInv, [TroubleNext]_troubleVars PROVE IInv'
<1>1. [Next]_vars
  BY DEF TroubleNext, Publish, troubleVars, Next
<1> QED BY <1>1, StepInv

LEMMA ReturnedInv ==
  ASSUME IInv, Returned, [TroubleNext]_troubleVars PROVE Returned'
<1>1. CASE World
  <2>1. UNCHANGED <<pc, now, stamps>>
    BY <1>1, WorldGrows DEF IInv, Grows
  <2> QED BY <2>1 DEF Returned
<1>2. CASE Start \/ CursorRefused
  BY <1>2 DEF Start, CursorRefused, UsableCursor, Returned
<1>3. ASSUME NEW S, NEW b, Reads(S, b)  PROVE Returned'
  BY <1>3 DEF Reads, Returned
<1>4. ASSUME NEW s \in Bags, NEW e, Returns(Pruned(s), e)  PROVE Returned'
  <2>1. stamps' = Pruned(s) /\ now' = now
    BY <1>4 DEF Returns
  <2>2. now \in Nat /\ Window \in Nat
    BY Types, JournalAssumption DEF IInv, JournalAssumption
  <2>3. \A k \in Kinds, t \in Times : Pruned(s)[k][t] > 0 => t > now - Window
    BY PrunedAt
  <2> QED BY <2>1, <2>3 DEF Returned
<1>5. CASE ReadAfterCursor \/ ReadWindow
  <2>1. CASE Fails
    <3>1. known \in Bags
      BY DEF IInv, TypeOK
    <3> QED BY <1>4, <2>1, <3>1 DEF Fails
  <2> QED BY <1>3, <1>5, <2>1 DEF ReadAfterCursor, ReadWindow
<1>6. CASE Save
  <2>1. stamps' = Pruned(Scanned) /\ now' = now
    BY <1>6 DEF Save, Returns
  <2>2. \A k \in Kinds, t \in Times : Pruned(Scanned)[k][t] > 0 => t > now - Window
    BY PrunedAt
  <2> QED BY <2>1, <2>2 DEF Returned
<1>7. CASE Return \/ Die
  BY <1>7 DEF Return, Die, RunOver, Returned
<1>8. CASE UNCHANGED troubleVars
  BY <1>8 DEF troubleVars, vars, runVars, Returned
<1> QED BY <1>1, <1>2, <1>5, <1>6, <1>7, <1>8 DEF TroubleNext, Publish, Run

\* A step that publishes nothing leaves the logged entries a login counts as
\* they are.
LEMMA QuietStep ==
  ASSUME TInv, Len(log) <= Len(log'), Len(log') \in Nat,
         \A i \in 1..Len(log) : log'[i] = log[i],
         UNCHANGED <<published, shown>>
  PROVE  FileType' /\ LastInWindow' /\ CountsAreTrue'
<1>1. Len(log) \in Nat /\ shown.seen \in 0..Len(log) /\ shown.gone \in Nat
  BY Types DEF TInv, IInv, FileType
<1>2. FileType'
  BY <1>1 DEF TInv, FileType
<1>3. LastInWindow'
  BY DEF TInv, LastInWindow
<1>4. ASSUME NEW a \in Nat, NEW k
      PROVE  InWindow((a + 1)..shown.seen, k)' = InWindow((a + 1)..shown.seen, k)
  <2>1. \A i \in (a + 1)..shown.seen : log'[i] = log[i]
    BY <1>1
  <2> QED BY <2>1 DEF InWindow
<1>5. ASSUME NEW k
      PROVE  /\ InWindow(1..shown.seen, k)' = InWindow(1..shown.seen, k)
             /\ InWindow((shown.gone + 1)..shown.seen, k)'
                  = InWindow((shown.gone + 1)..shown.seen, k)
  <2>1. InWindow(1..shown.seen, k)' = InWindow(1..shown.seen, k)
    <3>1. \A i \in 1..shown.seen : log'[i] = log[i]
      BY <1>1
    <3> QED BY <3>1 DEF InWindow
  <2>2. InWindow((shown.gone + 1)..shown.seen, k)'
          = InWindow((shown.gone + 1)..shown.seen, k)
    BY <1>1, <1>4
  <2> QED BY <2>1, <2>2
<1>6. CountsAreTrue'
  BY <1>5 DEF TInv, CountsAreTrue, Written
<1> QED BY <1>2, <1>3, <1>6

\* What Publish writes is true of the journal as the run read it.
LEMMA PublishStep ==
  ASSUME TInv, Publish PROVE FileType' /\ LastInWindow' /\ CountsAreTrue'
<1>1. log' = log /\ pc = "returned"
  BY RunKeepsWorld DEF Publish, Return, worldVars
<1>2. /\ Len(log) \in Nat /\ now \in Nat /\ view.gone \in Nat
      /\ view.seen \in Nat /\ view.seen <= Len(log) /\ kinds \subseteq Kinds
  BY Types DEF TInv, IInv, TypeOK
<1>3. CASE UNCHANGED <<published, shown>>
  BY <1>1, <1>2, <1>3, QuietStep
<1>4. CASE /\ published' = [kinds  |-> kinds,
                            at     |-> now,
                            error  |-> PublishedError,
                            counts |-> [k \in Kinds |-> EventCount(stamps[k])]]
           /\ shown' = view
  <2> DEFINE count(k) == Cardinality(Members(stamps[k]))
  <2>1. /\ published'.kinds = kinds /\ published'.at = now /\ published'.error = error
        /\ \A k \in Kinds : /\ published'.counts[k].count = count(k)
                             /\ published'.counts[k].last = EventCount(stamps[k]).last
        /\ shown'.seen = view.seen /\ shown'.gone = view.gone
    BY <1>4 DEF PublishedError, EventCount
  <2>2. ASSUME NEW k \in Kinds  PROVE stamps[k] \in [Times -> Nat]
    BY DEF TInv, IInv, TypeOK, Bags
  <2>3. now - Window \in Int
    BY <1>2, JournalAssumption DEF JournalAssumption
  <2>4. FileType'
    <3>1. \A k \in Kinds : count(k) \in Nat
      BY <2>2, Stamps
    <3>2. view.seen \in 0..Len(log)
      BY <1>2
    <3> QED BY <1>1, <1>2, <2>1, <3>1, <3>2 DEF FileType
  <2>5. LastInWindow'
    <3>1. ASSUME NEW k \in Kinds, count(k) > 0
          PROVE  /\ EventCount(stamps[k]).last \in Int
                 /\ EventCount(stamps[k]).last > now - Window
      <4>1. PICK t \in Times : stamps[k][t] > 0
        <5>1. Members(stamps[k]) # {}
          BY <3>1, FS_EmptySet
        <5>2. PICK t \in Times : 1..stamps[k][t] # {}
          BY <5>1 DEF Members
        <5>3. stamps[k][t] > 0
          BY <2>2, <5>2
        <5> QED BY <5>3
      <4>2. t > now - Window /\ t \in Int
        BY <1>1, <4>1 DEF TInv, Returned, Times
      <4>3. EventCount(stamps[k]).last \in Int /\ EventCount(stamps[k]).last >= t
        BY <2>2, <4>1, LastStamp
      <4> QED BY <2>3, <4>2, <4>3
    <3> QED BY <2>1, <3>1 DEF LastInWindow
  <2>6. ASSUME NEW k \in kinds
        PROVE  /\ count(k) <= Cardinality(After(1..view.seen, k, now - Window))
               /\ error = "none" =>
                    count(k) >= Cardinality(
                                  After((view.gone + 1)..view.seen, k, now - Window))
    <3>1. k \in Kinds /\ stamps[k] \in [Times -> Nat] /\ TypeOK
      BY <1>2, <2>2 DEF TInv, IInv
    <3>2. /\ 1..view.seen \in SUBSET (1..Len(log))
          /\ (view.gone + 1)..view.seen \in SUBSET (1..Len(log))
      BY <1>2
    <3>3. ReplyIsTrue /\ Returned
      BY DEF TInv, IInv
    <3>4. /\ \A t \in Times : stamps[k][t] <= Number(1..view.seen, k, t)
          /\ \A t \in Times : stamps[k][t] > 0 => t > now - Window
          /\ error = "none" =>
               \A t \in Times : t > now - Window =>
                 stamps[k][t] >= Number((view.gone + 1)..view.seen, k, t)
      BY <1>1, <3>1, <3>3 DEF ReplyIsTrue, Returned
    <3>5. count(k) <= Cardinality(After(1..view.seen, k, now - Window))
      BY <2>3, <3>1, <3>2, <3>4, NoMoreStamps
    <3>6. ASSUME error = "none"
          PROVE  count(k) >= Cardinality(After((view.gone + 1)..view.seen, k, now - Window))
      BY <2>3, <3>1, <3>2, <3>4, <3>6, NoFewerStamps
    <3> QED BY <3>5, <3>6
  <2>7. ASSUME NEW k
        PROVE  /\ InWindow(1..shown.seen, k)' = After(1..view.seen, k, now - Window)
               /\ InWindow((shown.gone + 1)..shown.seen, k)'
                    = After((view.gone + 1)..view.seen, k, now - Window)
    BY <1>1, <2>1 DEF InWindow, After
  <2>8. CountsAreTrue'
    <3> HIDE DEF count
    <3>1. ASSUME NEW k \in kinds
          PROVE  /\ published'.counts[k].count
                      <= Cardinality(InWindow(1..shown.seen, k)')
                 /\ published'.error = "none" =>
                      published'.counts[k].count
                        >= Cardinality(InWindow((shown.gone + 1)..shown.seen, k)')
      BY <1>2, <2>1, <2>6, <2>7
    <3> QED BY <2>1, <3>1 DEF CountsAreTrue
  <2> QED BY <2>4, <2>5, <2>8
<1> QED BY <1>3, <1>4 DEF Publish

LEMMA TStepInv == ASSUME TInv, [TroubleNext]_troubleVars PROVE TInv'
<1>1. IInv' /\ Returned'
  BY TStep, ReturnedInv DEF TInv
<1>2. CASE World /\ UNCHANGED <<published, shown>>
  <2>1. Grows
    BY <1>2, WorldGrows DEF TInv, IInv
  <2>2. Len(log') \in Nat
    BY <2>1 DEF Grows
  <2> QED BY <1>1, <1>2, <2>1, <2>2, QuietStep DEF Grows, TInv
<1>3. ASSUME log' = log, UNCHANGED <<published, shown>>  PROVE TInv'
  <2>1. Len(log) \in Nat
    BY Types DEF TInv, IInv
  <2> QED BY <1>1, <1>3, <2>1, QuietStep DEF TInv
<1>4. CASE (Run \/ Die) /\ UNCHANGED <<published, shown>>
  BY <1>3, <1>4, RunKeepsWorld DEF worldVars
<1>5. CASE UNCHANGED troubleVars
  BY <1>3, <1>5 DEF troubleVars, vars, worldVars
<1>6. CASE Publish
  BY <1>1, <1>6, PublishStep DEF TInv
<1> QED BY <1>2, <1>4, <1>5, <1>6 DEF TroubleNext

LEMMA TroubleInductive == TroubleSpec => []TInv
<1>1. TroubleInit => TInv
  BY TInitInv
<1>2. TInv /\ [TroubleNext]_troubleVars => TInv'
  BY TStepInv
<1> QED BY <1>1, <1>2, PTL DEF TroubleSpec

-----------------------------------------------------------------------------
(* The theorems. *)

\* What the host state file says happened in the last twelve hours is true of
\* the journal the collector read, whatever was lost, refused or cut short.
THEOREM PublishedIsTrue == TroubleSpec => []CountsAreTrue
<1>1. TInv => CountsAreTrue
  BY DEF TInv
<1> QED BY <1>1, TroubleInductive, PTL

\* A row that carries neither "old" nor "not refreshed" is about events of the
\* window and one stale limit before the login.
THEOREM PlainIsCurrent == TroubleSpec => []PlainRowsAreCurrent
<1>1. TInv => PlainRowsAreCurrent
  <2> SUFFICES ASSUME TInv, NEW k \in Kinds, Row(k), ~ Noted
               PROVE  published.counts[k].last > clock - StaleAfter - Window
    BY DEF PlainRowsAreCurrent
  <2>1. /\ published.counts[k].last \in Int
        /\ published.counts[k].last > published.at - Window
    BY DEF TInv, LastInWindow, Row
  <2>2. ~ (clock - published.at > StaleAfter)
    BY DEF Noted, Stale
  <2>3. clock \in Nat /\ published.at \in Int /\ Window \in Int /\ StaleAfter \in Nat
    BY Types, JournalAssumption, TroubleAssumption
    DEF JournalAssumption, TroubleAssumption, TInv, IInv, FileType
  <2> QED BY <2>1, <2>2, <2>3
<1> QED BY <1>1, TroubleInductive, PTL

\* TROUBLE is silent about an enabled kind only when the journal held no such
\* event of the window: a failed read shows as a warning.
THEOREM SilenceIsQuiet == TroubleSpec => []QuietIsQuiet
<1>1. TInv => QuietIsQuiet
  <2> SUFFICES ASSUME TInv, NEW k \in published.kinds \cap enabled,
                      Written, ~ Row(k), ~ Warning
               PROVE  InWindow((shown.gone + 1)..shown.seen, k) = {}
    BY DEF QuietIsQuiet
  <2> DEFINE W == InWindow((shown.gone + 1)..shown.seen, k)
             c == published.counts[k].count
  <2>1. k \in Kinds /\ c \in Nat
    BY DEF TInv, FileType
  <2>2. ~ (c > 0)
    BY DEF Row
  <2>3. published.error = "none"
    BY DEF Warning
  <2>4. c >= Cardinality(W)
    BY <2>3 DEF TInv, CountsAreTrue
  <2>5. IsFiniteSet(W)
    <3>1. shown.gone + 1 \in Int /\ shown.seen \in Int
      BY DEF TInv, FileType
    <3>2. IsFiniteSet((shown.gone + 1)..shown.seen)
      BY <3>1, FS_Interval
    <3>3. W \in SUBSET ((shown.gone + 1)..shown.seen)
      BY DEF InWindow
    <3> QED BY <3>2, <3>3, FS_Subset
  <2>6. Cardinality(W) \in Nat
    BY <2>5, FS_CardinalityType
  <2> HIDE DEF W, c
  <2>7. Cardinality(W) = 0
    BY <2>1, <2>2, <2>4, <2>6
  <2>8. W = {}
    BY <2>5, <2>7, FS_EmptySet
  <2> QED BY <2>8 DEF W
<1> QED BY <1>1, TroubleInductive, PTL
=============================================================================
