--------------------------- MODULE JournalProofs ---------------------------
(***************************************************************************)
(* Theorems about Journal, for any kinds, window, log and mishaps.         *)
(***************************************************************************)
EXTENDS Journal, FiniteSetTheorems, TLAPS

-----------------------------------------------------------------------------
(* Counting entries. *)

LEMMA HitsFinite ==
  ASSUME NEW l, NEW S, IsFiniteSet(S), NEW k, NEW t
  PROVE  /\ IsFiniteSet(Hits(l, S, k, t))
         /\ Cardinality(Hits(l, S, k, t)) \in Nat
<1>1. Hits(l, S, k, t) \in SUBSET S
  BY DEF Hits
<1>2. IsFiniteSet(Hits(l, S, k, t))
  BY <1>1, FS_Subset
<1> QED BY <1>2, FS_CardinalityType

LEMMA HitsMono ==
  ASSUME NEW l, NEW T, IsFiniteSet(T), NEW S \in SUBSET T, NEW k, NEW t
  PROVE  Cardinality(Hits(l, S, k, t)) <= Cardinality(Hits(l, T, k, t))
<1>1. Hits(l, S, k, t) \in SUBSET Hits(l, T, k, t)
  BY DEF Hits
<1> QED BY <1>1, HitsFinite, FS_Subset

LEMMA HitsJoin ==
  ASSUME NEW l, NEW S, IsFiniteSet(S), NEW T, IsFiniteSet(T), NEW k, NEW t
  PROVE  LET both == Cardinality(Hits(l, S \cup T, k, t))
             sum  == Cardinality(Hits(l, S, k, t)) + Cardinality(Hits(l, T, k, t))
         IN  both <= sum /\ (S \cap T = {} => both = sum)
<1> DEFINE A == Hits(l, S, k, t)
           B == Hits(l, T, k, t)
<1>1. Hits(l, S \cup T, k, t) = A \cup B
  BY DEF Hits
<1>2. IsFiniteSet(A) /\ IsFiniteSet(B) /\ IsFiniteSet(A \cap B)
  BY HitsFinite, FS_Intersection
<1>3. /\ Cardinality(A) \in Nat /\ Cardinality(B) \in Nat
      /\ Cardinality(A \cap B) \in Nat
  BY <1>2, FS_CardinalityType
<1>4. Cardinality(A \cup B) = Cardinality(A) + Cardinality(B) - Cardinality(A \cap B)
  BY <1>2, FS_Union
<1>5. S \cap T = {} => A \cap B = {}
  BY DEF Hits
<1>6. S \cap T = {} => Cardinality(A \cap B) = 0
  BY <1>5, FS_EmptySet
<1> HIDE DEF A, B
<1>7. Cardinality(A \cup B) <= Cardinality(A) + Cardinality(B)
  BY <1>3, <1>4
<1>8. S \cap T = {} => Cardinality(A \cup B) = Cardinality(A) + Cardinality(B)
  BY <1>3, <1>4, <1>6
<1> QED BY <1>1, <1>7, <1>8 DEF A, B

\* Counts over intervals of positions.
LEMMA NumberType ==
  ASSUME NEW a \in Int, NEW b \in Int, NEW k, NEW t
  PROVE  Number(a..b, k, t) \in Nat
BY FS_Interval, HitsFinite DEF Number

LEMMA NumberMono ==
  ASSUME NEW a \in Int, NEW b \in Int, NEW S \in SUBSET (a..b), NEW k, NEW t
  PROVE  Number(S, k, t) <= Number(a..b, k, t)
BY FS_Interval, HitsMono DEF Number

-----------------------------------------------------------------------------
(* The inductive invariant. *)

AtMost(bags, n) ==
    \A k \in Kinds, t \in Times : bags[k][t] <= Number(1..n, k, t)

AtLeast(bags, from, to, since, ks) ==
    \A k \in ks, t \in Times :
        t > since => bags[k][t] >= Number((from + 1)..to, k, t)

LogInv ==
    /\ \A i \in 1..Len(log) : log[i].at <= clock
    /\ \A i, j \in 1..Len(log) : i < j => log[i].at <= log[j].at

FileInv ==
    /\ AtMost(file.stamps, file.cursor)
    /\ AtLeast(file.stamps, vacuumed, file.cursor, clock - Window, file.kinds)

\* What holds of the stamps and entries a run works with, step by step.
RunInv ==
    /\ pc # "idle" => now <= clock
    /\ pc \in {"incremental", "window", "scan"} => AtMost(known, Len(log))
    /\ pc = "incremental" =>
         /\ cursor # 0
         /\ AtMost(known, cursor)
         /\ AtLeast(known, vacuumed, cursor, now - Window, kinds)
    /\ pc = "scan" => view.gone <= vacuumed
    /\ pc = "scan" /\ ~ full =>
         /\ cursor # 0
         /\ AtMost(known, cursor)
         /\ AtLeast(known, view.gone, cursor, now - Window, kinds)
         /\ out = {i \in (view.gone + 1)..view.seen : i > cursor}
    /\ pc = "scan" /\ ~ full => cursor <= view.seen
    /\ pc = "scan" /\ full =>
         out = {i \in (view.gone + 1)..view.seen : log[i].at >= now - Window}

IInv == TypeOK /\ LogInv /\ FileInv /\ RunInv /\ ReplyIsTrue

LEMMA InitInv == Init => IInv
<1> SUFFICES ASSUME Init PROVE IInv OBVIOUS
<1> USE JournalAssumption DEF JournalAssumption, Init, RunInit
<1>1. NoStamps \in Bags
  BY DEF NoStamps, Bags
<1>2. TypeOK
  <2>1. log \in Seq([kind : Kinds \cup {Other}, at : Times])
    OBVIOUS
  <2>2. Len(log) = 0
    OBVIOUS
  <2>3. 0 \in Times /\ 0 \in 0..Len(log)
    BY <2>2 DEF Times
  <2>4. view \in [gone : 0..Len(log), seen : 0..Len(log)]
    BY <2>3
  <2> QED BY <1>1, <2>1, <2>3, <2>4 DEF TypeOK, NoFile
<1>3. LogInv
  BY DEF LogInv
<1>4. FileInv
  <2>1. ASSUME NEW k \in Kinds, NEW t \in Times
        PROVE  NoStamps[k][t] <= Number(1..0, k, t)
    <3>1. NoStamps[k][t] = 0
      BY DEF NoStamps
    <3>2. Hits(log, 1..0, k, t) = {}
      BY DEF Hits
    <3>3. Number(1..0, k, t) = 0
      BY <3>2, FS_EmptySet DEF Number
    <3> QED BY <3>1, <3>3
  <2> QED BY <2>1 DEF FileInv, AtMost, AtLeast, NoFile
<1>5. RunInv /\ ReplyIsTrue
  BY DEF RunInv, ReplyIsTrue
<1> QED BY <1>2, <1>3, <1>4, <1>5 DEF IInv

-----------------------------------------------------------------------------
(* What a step of the world does to the journal. *)

LEMMA UpTo ==
  ASSUME NEW n \in Nat, NEW m \in Nat, m <= n
  PROVE  m \in 0..n /\ n \in 0..n /\ 0 \in 0..n
OBVIOUS

\* The types of what the world and the run work on.
LEMMA Types ==
  ASSUME TypeOK
  PROVE  /\ Len(log) \in Nat
         /\ clock \in Nat /\ now \in Nat
         /\ vacuumed \in Nat /\ vacuumed <= Len(log)
         /\ file.cursor \in Nat /\ file.cursor <= Len(log)
         /\ cursor \in Nat /\ cursor <= Len(log)
         /\ view.gone \in Nat /\ view.seen \in Nat /\ view.seen <= Len(log)
         /\ out \subseteq 1..Len(log)
         /\ log \in Seq([kind : Kinds \cup {Other}, at : Times])
<1>1. /\ log \in Seq([kind : Kinds \cup {Other}, at : Times])
      /\ clock \in Times /\ now \in Times
      /\ out \subseteq 1..Len(log)
  BY DEF TypeOK
<1>2. Len(log) \in Nat
  BY <1>1
<1>3. Times \subseteq Nat
  BY DEF Times
<1>4. /\ vacuumed \in 0..Len(log) /\ file.cursor \in 0..Len(log) /\ cursor \in 0..Len(log)
  BY DEF TypeOK
<1>5. view.gone \in 0..Len(log) /\ view.seen \in 0..Len(log)
  BY DEF TypeOK
<1>6. \A i \in 0..Len(log) : i \in Nat /\ i <= Len(log)
  BY <1>2
<1> HIDE DEF Times
<1> QED BY <1>1, <1>2, <1>3, <1>4, <1>5, <1>6

LEMMA EntryType ==
  ASSUME TypeOK, NEW i \in 1..Len(log)
  PROVE  log[i].at \in Nat
<1> DEFINE Entries == [kind : Kinds \cup {Other}, at : Times]
<1>0. log \in Seq(Entries) /\ Len(log) \in Nat
  BY Types
<1>1. log[i] \in Entries
  <2> HIDE DEF Entries
  <2> QED BY <1>0
<1>2. Times \subseteq Nat
  BY DEF Times
<1> QED BY <1>1, <1>2

LEMMA LogStep ==
  ASSUME TypeOK, NEW k \in Kinds \cup {Other}, Log(k)
  PROVE  /\ log' \in Seq([kind : Kinds \cup {Other}, at : Times])
         /\ Len(log') = Len(log) + 1
         /\ \A i \in 1..Len(log) : log'[i] = log[i]
         /\ log'[Len(log) + 1] = [kind |-> k, at |-> clock]
         /\ UNCHANGED <<clock, vacuumed, enabled, file, view>>
         /\ UNCHANGED <<pc, now, kinds, known, cursor, out, full, stamps, error>>
<1> DEFINE entry == [kind |-> k, at |-> clock]
<1>1. entry \in [kind : Kinds \cup {Other}, at : Times]
  BY DEF TypeOK
<1>2. log \in Seq([kind : Kinds \cup {Other}, at : Times])
  BY DEF TypeOK
<1>3. log' = Append(log, entry)
  BY DEF Log
<1> HIDE DEF entry
<1>4. /\ log' \in Seq([kind : Kinds \cup {Other}, at : Times])
      /\ Len(log') = Len(log) + 1
      /\ \A i \in 1..Len(log) : log'[i] = log[i]
      /\ log'[Len(log) + 1] = entry
  BY <1>1, <1>2, <1>3
<1> QED BY <1>4 DEF Log, runVars, entry

\* A step of the world only adds entries of this moment, and only ever moves
\* the clock and the vacuum forward.
Grows ==
    /\ log' \in Seq([kind : Kinds \cup {Other}, at : Times])
    /\ Len(log) <= Len(log')
    /\ \A i \in 1..Len(log) : log'[i] = log[i]
    /\ \A i \in 1..Len(log') : i > Len(log) => i = Len(log') /\ log'[i].at = clock
    /\ clock' \in Times /\ clock <= clock'
    /\ vacuumed' \in 0..Len(log') /\ vacuumed <= vacuumed'
    /\ enabled' \subseteq Kinds
    /\ file' \in {file, NoFile}
    /\ UNCHANGED <<pc, now, kinds, known, cursor, out, full, stamps, error, view>>

LEMMA WorldGrows ==
  ASSUME TypeOK, World PROVE Grows
<1>1. ASSUME log' = log PROVE
        /\ log' \in Seq([kind : Kinds \cup {Other}, at : Times])
        /\ Len(log) <= Len(log')
        /\ \A i \in 1..Len(log) : log'[i] = log[i]
        /\ \A i \in 1..Len(log') : i > Len(log) => i = Len(log') /\ log'[i].at = clock
  BY <1>1, Types
<1>2. /\ clock \in Times /\ clock <= clock
      /\ vacuumed \in 0..Len(log) /\ vacuumed <= vacuumed
      /\ enabled \subseteq Kinds
  <2>1. clock \in Times /\ enabled \subseteq Kinds
    BY DEF TypeOK
  <2> QED BY <2>1, Types
<1>3. CASE Vacuum
  <2>1. vacuumed' \in 0..Len(log) /\ vacuumed <= vacuumed'
    BY <1>3, Types DEF Vacuum
  <2> QED BY <1>1, <1>2, <1>3, <2>1 DEF Vacuum, runVars, Grows
<1>4. CASE Configure
  BY <1>1, <1>2, <1>4 DEF Configure, runVars, Grows
<1>5. CASE Tick
  <2>1. clock' \in Times /\ clock <= clock'
    BY <1>5, Types, JournalAssumption DEF JournalAssumption, Tick, Times
  <2> QED BY <1>1, <1>2, <1>5, <2>1 DEF Tick, runVars, Grows
<1>6. CASE Lose
  BY <1>1, <1>2, <1>6 DEF Lose, worldVars, runVars, Grows
<1>7. ASSUME NEW k \in Kinds \cup {Other}, Log(k) PROVE Grows
  <2>1. /\ log' \in Seq([kind : Kinds \cup {Other}, at : Times])
        /\ \A i \in 1..Len(log) : log'[i] = log[i]
        /\ UNCHANGED <<clock, vacuumed, enabled, file, view>>
        /\ UNCHANGED <<pc, now, kinds, known, cursor, out, full, stamps, error>>
    BY <1>7, LogStep
  <2>2. Len(log') = Len(log) + 1 /\ log'[Len(log) + 1].at = clock
    <3>1. Len(log') = Len(log) + 1 /\ log'[Len(log) + 1] = [kind |-> k, at |-> clock]
      BY <1>7, LogStep
    <3> QED BY <3>1
  <2>3. Len(log) \in Nat /\ vacuumed \in Nat /\ vacuumed <= Len(log)
    BY Types
  <2>4. \A i \in 1..Len(log') : i > Len(log) => i = Len(log') /\ log'[i].at = clock
    BY <2>2, <2>3
  <2>5. Len(log) <= Len(log') /\ vacuumed \in 0..Len(log')
    BY <2>2, <2>3
  <2> QED BY <1>2, <2>1, <2>4, <2>5 DEF Grows
<1> QED BY <1>3, <1>4, <1>5, <1>6, <1>7 DEF World

\* The world leaves every count of logged entries alone.
LEMMA WorldKeepsHits ==
  ASSUME TypeOK, World, NEW S \in SUBSET (1..Len(log)), NEW k, NEW t
  PROVE  Hits(log', S, k, t) = Hits(log, S, k, t)
<1>1. \A i \in S : log'[i] = log[i]
  BY WorldGrows DEF Grows
<1> QED BY <1>1 DEF Hits

-----------------------------------------------------------------------------
(* The world preserves the invariant. *)

LEMMA WorldInv == ASSUME IInv, World PROVE IInv'
<1>1. TypeOK /\ Grows
  BY WorldGrows DEF IInv
<1>2. TypeOK'
  <2>1. \A i \in 0..Len(log) : i \in 0..Len(log')
    BY <1>1, Types DEF Grows
  <2>2. \A i \in 1..Len(log) : i \in 1..Len(log')
    BY <1>1, Types DEF Grows
  <2>3. NoFile.cursor \in 0..Len(log') /\ NoFile.kinds \subseteq Kinds /\ NoFile.stamps \in Bags
    <3>1. Len(log') \in Nat
      BY <1>1 DEF Grows
    <3> QED BY <3>1 DEF NoFile, NoStamps, Bags
  <2>4. file'.cursor \in 0..Len(log') /\ file'.kinds \subseteq Kinds /\ file'.stamps \in Bags
    BY <1>1, <2>1, <2>3 DEF Grows, TypeOK
  <2>5. view' \in [gone : 0..Len(log'), seen : 0..Len(log')]
    BY <1>1, <2>1 DEF Grows, TypeOK
  <2>6. cursor' \in 0..Len(log') /\ out' \subseteq 1..Len(log')
    BY <1>1, <2>1, <2>2 DEF Grows, TypeOK
  <2> QED BY <1>1, <2>4, <2>5, <2>6 DEF Grows, TypeOK
<1>3. LogInv'
  <2>1. ASSUME NEW i \in 1..Len(log') PROVE log'[i].at <= clock'
    <3>1. CASE i <= Len(log)
      <4>1. log'[i] = log[i] /\ log[i].at <= clock /\ clock <= clock'
        BY <1>1, <3>1, Types DEF Grows, IInv, LogInv
      <4>2. clock \in Nat /\ clock' \in Nat /\ log[i].at \in Nat
        <5>1. Times \subseteq Nat /\ clock' \in Times
          BY <1>1 DEF Times, Grows
        <5>2. i \in 1..Len(log)
          BY <1>1, <3>1, Types
        <5> QED BY <1>1, <5>1, <5>2, Types, EntryType
      <4> QED BY <4>1, <4>2
    <3>2. CASE i > Len(log)
      BY <1>1, <3>2 DEF Grows
    <3> QED BY <1>1, <3>1, <3>2, Types
  <2>2. ASSUME NEW i \in 1..Len(log'), NEW j \in 1..Len(log'), i < j
        PROVE  log'[i].at <= log'[j].at
    <3>1. i <= Len(log)
      BY <1>1, <2>2, Types DEF Grows
    <3>2. CASE j <= Len(log)
      BY <1>1, <2>2, <3>1, <3>2, Types DEF Grows, IInv, LogInv
    <3>3. CASE j > Len(log)
      <4>1. log'[i] = log[i] /\ log[i].at <= clock /\ log'[j].at = clock
        BY <1>1, <3>1, <3>3, Types DEF Grows, IInv, LogInv
      <4> QED BY <4>1
    <3> QED BY <1>1, <3>2, <3>3, Types
  <2> QED BY <2>1, <2>2 DEF LogInv
\* Counts of what was logged before do not change.
<1>4. ASSUME NEW a \in Nat, NEW b \in Nat, b <= Len(log), NEW k, NEW t
      PROVE  /\ Cardinality(Hits(log', (a + 1)..b, k, t)) = Number((a + 1)..b, k, t)
             /\ Cardinality(Hits(log', 1..b, k, t)) = Number(1..b, k, t)
  <2>1. (a + 1)..b \in SUBSET (1..Len(log)) /\ 1..b \in SUBSET (1..Len(log))
    BY <1>1, <1>4, Types
  <2> QED BY <1>1, <2>1, WorldKeepsHits DEF Number
<1>5. ASSUME NEW bags, NEW b \in Nat, b <= Len(log), AtMost(bags, b)
      PROVE  \A k \in Kinds, t \in Times : bags[k][t] <= Cardinality(Hits(log', 1..b, k, t))
  BY <1>4, <1>5 DEF AtMost
<1>6. ASSUME NEW bags \in Bags, NEW a \in Nat, NEW c \in Nat, a <= c,
             NEW b \in Nat, b <= Len(log), NEW since \in Int, NEW until \in Int,
             since <= until, NEW ks \in SUBSET Kinds, AtLeast(bags, a, b, since, ks)
      PROVE  \A k \in ks, t \in Times :
                t > until => bags[k][t] >= Cardinality(Hits(log', (c + 1)..b, k, t))
  <2> SUFFICES ASSUME NEW k \in ks, NEW t \in Times, t > until
               PROVE  bags[k][t] >= Cardinality(Hits(log', (c + 1)..b, k, t))
    OBVIOUS
  <2>1. bags[k][t] >= Number((a + 1)..b, k, t)
    <3>1. t \in Int /\ t > since
      BY <1>6 DEF Times
    <3> QED BY <1>6, <3>1 DEF AtLeast
  <2>2. Number((c + 1)..b, k, t) <= Number((a + 1)..b, k, t)
    <3>1. (c + 1)..b \in SUBSET ((a + 1)..b)
      BY <1>6
    <3>2. a + 1 \in Int /\ b \in Int
      OBVIOUS
    <3> QED BY <3>1, <3>2, NumberMono
  <2>3. Cardinality(Hits(log', (c + 1)..b, k, t)) = Number((c + 1)..b, k, t)
    BY <1>4, <1>6
  <2>4. /\ Number((c + 1)..b, k, t) \in Nat /\ Number((a + 1)..b, k, t) \in Nat
        /\ bags[k][t] \in Nat
    <3>1. a + 1 \in Int /\ c + 1 \in Int /\ b \in Int
      OBVIOUS
    <3>2. bags[k][t] \in Nat
      BY <1>6 DEF Bags
    <3> QED BY <3>1, <3>2, NumberType
  <2> QED BY <2>1, <2>2, <2>3, <2>4
<1>7. FileInv'
  <2>1. CASE file' = NoFile
    <3>1. \A k \in Kinds, t \in Times : Cardinality(Hits(log', 1..0, k, t)) \in Nat
      BY FS_Interval, HitsFinite
    <3>2. \A k \in Kinds, t \in Times : NoStamps[k][t] = 0
      BY DEF NoStamps
    <3> QED BY <2>1, <3>1, <3>2 DEF FileInv, AtMost, AtLeast, NoFile, Number
  <2>2. CASE file' = file
    <3> DEFINE s == file.stamps
               c == file.cursor
    <3>1. AtMost(s, c) /\ AtLeast(s, vacuumed, c, clock - Window, file.kinds)
      BY DEF IInv, FileInv
    <3>2. /\ c \in Nat /\ c <= Len(log) /\ s \in Bags /\ file.kinds \in SUBSET Kinds
          /\ vacuumed \in Nat /\ vacuumed' \in Nat /\ vacuumed <= vacuumed'
          /\ clock - Window \in Int /\ clock' - Window \in Int
          /\ clock - Window <= clock' - Window
      <4>1. file.stamps \in Bags /\ file.kinds \in SUBSET Kinds
        BY <1>1 DEF TypeOK
      <4>2. Times \subseteq Nat /\ Window \in Int
        BY JournalAssumption DEF JournalAssumption, Times
      <4>3. Len(log') \in Nat
        BY <1>1 DEF Grows
      <4> QED BY <1>1, <4>1, <4>2, <4>3, Types DEF Grows
    <3> HIDE DEF s, c
    <3>3. \A k \in Kinds, t \in Times : s[k][t] <= Cardinality(Hits(log', 1..c, k, t))
      BY <1>5, <3>1, <3>2
    <3>4. \A k \in file.kinds, t \in Times : t > clock' - Window =>
             s[k][t] >= Cardinality(Hits(log', (vacuumed' + 1)..c, k, t))
      BY <1>6, <3>1, <3>2
    <3> QED BY <2>2, <3>3, <3>4 DEF FileInv, AtMost, AtLeast, Number, s, c
  <2> QED BY <1>1, <2>1, <2>2 DEF Grows
<1>8. ReplyIsTrue'
  <2> SUFFICES ASSUME pc' = "returned", NEW k \in kinds', NEW t \in Times
               PROVE  /\ stamps'[k][t] <= Cardinality(Hits(log', 1..view'.seen, k, t))
                      /\ error' = "none" /\ t > now' - Window =>
                           stamps'[k][t] >=
                             Cardinality(Hits(log', (view'.gone + 1)..view'.seen, k, t))
    BY DEF ReplyIsTrue, Number
  <2>1. pc = "returned" /\ k \in kinds /\ UNCHANGED <<stamps, view, error, now>>
    BY <1>1 DEF Grows
  <2>2. /\ stamps[k][t] <= Number(1..view.seen, k, t)
        /\ error = "none" /\ t > now - Window =>
             stamps[k][t] >= Number((view.gone + 1)..view.seen, k, t)
    BY <2>1 DEF IInv, ReplyIsTrue
  <2>3. view.gone \in Nat /\ view.seen \in Nat /\ view.seen <= Len(log)
    BY <1>1, Types
  <2> QED BY <1>4, <2>1, <2>2, <2>3
<1>9. RunInv'
  <2> DEFINE Old == RunInv
  <2>1. /\ UNCHANGED <<pc, now, kinds, known, cursor, out, full, view>>
        /\ now \in Nat /\ clock \in Nat /\ clock' \in Nat /\ clock <= clock'
        /\ vacuumed \in Nat /\ vacuumed' \in Nat /\ vacuumed <= vacuumed'
        /\ view.gone \in Nat /\ view.seen \in Nat /\ view.seen <= Len(log)
        /\ cursor \in Nat /\ cursor <= Len(log)
        /\ Len(log) \in Nat /\ Len(log') \in Nat /\ Len(log) <= Len(log')
        /\ now - Window \in Int
    <3>1. Times \subseteq Nat /\ Window \in Int
      BY JournalAssumption DEF JournalAssumption, Times
    <3>2. Len(log') \in Nat
      BY <1>1 DEF Grows
    <3> QED BY <1>1, <3>1, <3>2, Types DEF Grows
  <2>2. kinds \in SUBSET Kinds /\ known \in Bags
    BY <1>1 DEF TypeOK
  <2>3. RunInv
    BY DEF IInv
  <2>4. pc' # "idle" => now' <= clock'
    <3>1. pc # "idle" => now <= clock
      BY <2>3 DEF RunInv
    <3> QED BY <2>1, <3>1
  <2>5. ASSUME AtMost(known, Len(log)) PROVE AtMost(known, Len(log))'
    <3> SUFFICES ASSUME NEW k \in Kinds, NEW t \in Times
                 PROVE  known[k][t] <= Cardinality(Hits(log', 1..Len(log'), k, t))
      BY <2>1 DEF AtMost, Number
    <3>0. IsFiniteSet(1..Len(log)) /\ IsFiniteSet(1..Len(log'))
      <4>1. 1 \in Int /\ Len(log) \in Int /\ Len(log') \in Int
        BY <2>1
      <4> QED BY <4>1, FS_Interval
    <3>1. known[k][t] <= Cardinality(Hits(log', 1..Len(log), k, t))
      BY <1>5, <2>1, <2>5
    <3>2. Cardinality(Hits(log', 1..Len(log), k, t))
             <= Cardinality(Hits(log', 1..Len(log'), k, t))
      <4>1. 1..Len(log) \in SUBSET (1..Len(log'))
        BY <2>1
      <4> QED BY <4>1, <3>0, HitsMono
    <3>3. /\ known[k][t] \in Nat
          /\ Cardinality(Hits(log', 1..Len(log), k, t)) \in Nat
          /\ Cardinality(Hits(log', 1..Len(log'), k, t)) \in Nat
      BY <3>0, <2>2, HitsFinite DEF Bags
    <3> QED BY <3>1, <3>2, <3>3
  <2>6. ASSUME AtMost(known, cursor) PROVE AtMost(known, cursor)'
    BY <1>5, <2>1, <2>6 DEF AtMost, Number
  <2>7. ASSUME NEW from \in Nat, NEW to \in Nat, from <= to,
               AtLeast(known, from, cursor, now - Window, kinds)
        PROVE  \A k \in kinds, t \in Times : t > now - Window =>
                 known[k][t] >= Cardinality(Hits(log', (to + 1)..cursor, k, t))
    <3>1. now - Window <= now - Window
      BY <2>1
    <3> QED BY <1>6, <2>1, <2>2, <2>7, <3>1
  <2>8. pc' = "incremental" =>
          /\ cursor' # 0
          /\ AtMost(known, cursor)'
          /\ AtLeast(known, vacuumed, cursor, now - Window, kinds)'
    BY <2>1, <2>3, <2>6, <2>7 DEF RunInv, AtLeast, Number
  <2>9. pc' = "scan" /\ ~ full' =>
         /\ cursor' # 0
         /\ AtMost(known, cursor)'
         /\ AtLeast(known, view.gone, cursor, now - Window, kinds)'
         /\ out' = {i \in (view'.gone + 1)..view'.seen : i > cursor'}
    <3>1. view.gone <= view.gone
      BY <2>1
    <3> QED BY <2>1, <2>3, <2>6, <2>7, <3>1 DEF RunInv, AtLeast, Number
  <2>10. pc' = "scan" /\ full' =>
           out' = {i \in (view'.gone + 1)..view'.seen : log'[i].at >= now' - Window}
    <3>1. \A i \in (view.gone + 1)..view.seen : log'[i] = log[i]
      BY <1>1, <2>1 DEF Grows
    <3> QED BY <2>1, <2>3, <3>1 DEF RunInv
  <2>11. /\ pc' = "scan" => view'.gone <= vacuumed'
         /\ pc' = "scan" /\ ~ full' => cursor' <= view'.seen
         /\ pc' \in {"incremental", "window", "scan"} => AtMost(known, Len(log))'
    <3>1. /\ pc = "scan" => view.gone <= vacuumed
          /\ pc = "scan" /\ ~ full => cursor <= view.seen
          /\ pc \in {"incremental", "window", "scan"} => AtMost(known, Len(log))
      BY <2>3 DEF RunInv
    <3>2. view.gone <= vacuumed => view.gone <= vacuumed'
      BY <2>1
    <3> QED BY <2>1, <2>5, <3>1, <3>2
  <2> QED BY <2>4, <2>8, <2>9, <2>10, <2>11 DEF RunInv
<1> QED BY <1>2, <1>3, <1>7, <1>8, <1>9 DEF IInv
-----------------------------------------------------------------------------
(* The run preserves the invariant. *)

\* Every step of the run leaves the world alone.
LEMMA RunKeepsWorld ==
  ASSUME Run \/ Return \/ Die PROVE UNCHANGED worldVars
BY DEF Run, Return, Die, RunOver, Start, ReadAfterCursor, CursorRefused, ReadWindow, Save,
       Reads, Fails, Returns, worldVars

LEMMA Below ==
  ASSUME NEW n \in Nat, NEW s \in Nat, NEW p \in {0, s}, s <= n
  PROVE  p <= n
OBVIOUS

LEMMA PrunedType == ASSUME NEW s \in Bags PROVE Pruned(s) \in Bags
BY DEF Pruned, Bags

LEMMA PrunedAt ==
  ASSUME NEW s, NEW k \in Kinds, NEW t \in Times
  PROVE  Pruned(s)[k][t] = IF t > now - Window THEN s[k][t] ELSE 0
BY DEF Pruned

\* When the read gave entries, the last of them is the last the journal had.
LEMMA LastOut ==
  ASSUME IInv, pc = "scan", out # {}
  PROVE  Max(out) = view.seen /\ view.seen \in out
<1>1. /\ view.gone \in Nat /\ view.seen \in Nat /\ view.seen <= Len(log)
      /\ cursor \in Nat /\ now - Window \in Int /\ Len(log) \in Nat
  BY Types, JournalAssumption DEF JournalAssumption, IInv
<1>2. PICK i : i \in out
  OBVIOUS
<1>3. view.seen \in out /\ \A j \in out : j \in Int /\ view.seen >= j
  <2>1. CASE full
    <3>1. out = {j \in (view.gone + 1)..view.seen : log[j].at >= now - Window}
      BY <2>1 DEF IInv, RunInv
    <3>2. i \in 1..Len(log) /\ view.seen \in 1..Len(log) /\ i <= view.seen
      BY <1>1, <1>2, <3>1
    <3>3. log[i].at \in Nat /\ log[view.seen].at \in Nat
      BY <3>2, EntryType DEF IInv
    <3>4. log[view.seen].at >= log[i].at
      BY <3>2, <3>3, <1>1 DEF IInv, LogInv
    <3>5. log[view.seen].at >= now - Window
      BY <1>1, <1>2, <3>1, <3>3, <3>4
    <3> QED BY <1>1, <1>2, <3>1, <3>2, <3>5
  <2>2. CASE ~ full
    <3>1. out = {j \in (view.gone + 1)..view.seen : j > cursor}
      BY <2>2 DEF IInv, RunInv
    <3> QED BY <1>1, <1>2, <3>1
  <2> QED BY <2>1, <2>2
<1>4. \E x \in out : \A y \in out : x >= y
  BY <1>3
<1>5. Max(out) \in out /\ \A y \in out : Max(out) >= y
  BY <1>4 DEF Max
<1> QED BY <1>3, <1>5, <1>1

\* A step that leaves the world and the file alone, and does not return.
LEMMA FrameInv ==
  ASSUME IInv, UNCHANGED <<worldVars, file>>
  PROVE  LogInv' /\ FileInv'
BY DEF IInv, worldVars, LogInv, FileInv, AtMost, AtLeast, Number

LEMMA StartInv == ASSUME IInv, Start PROVE IInv'
<1>1. /\ UNCHANGED <<worldVars, file, view, out, full, stamps, error>>
      /\ now' = clock /\ kinds' = enabled /\ known' = file.stamps
      /\ cursor' = UsableCursor
      /\ pc' = IF UsableCursor # 0 THEN "incremental" ELSE "window"
  BY DEF Start
<1>2. TypeOK'
  <2>1. UsableCursor \in 0..Len(log)
    <3>1. Len(log) \in Nat /\ file.cursor \in 0..Len(log)
      BY Types DEF IInv
    <3> QED BY <3>1 DEF UsableCursor
  <2> QED BY <1>1, <2>1 DEF IInv, TypeOK, worldVars
<1>3. LogInv' /\ FileInv'
  BY <1>1, FrameInv
<1>4. ReplyIsTrue'
  BY <1>1 DEF ReplyIsTrue
<1>5. RunInv'
  <2>1. FileInv /\ Len(log) \in Nat /\ file.cursor \in Nat /\ file.cursor <= Len(log)
        /\ clock \in Nat
    BY Types DEF IInv
  <2>2. ASSUME NEW k \in Kinds, NEW t \in Times
        PROVE  file.stamps[k][t] <= Number(1..Len(log), k, t)
    <3>1. file.stamps[k][t] <= Number(1..file.cursor, k, t)
      BY <2>1 DEF FileInv, AtMost
    <3>2. Number(1..file.cursor, k, t) <= Number(1..Len(log), k, t)
      <4>1. 1..file.cursor \in SUBSET (1..Len(log)) /\ 1 \in Int /\ Len(log) \in Int
        BY <2>1
      <4> QED BY <4>1, NumberMono
    <3>3. Number(1..file.cursor, k, t) \in Nat /\ Number(1..Len(log), k, t) \in Nat
      BY <2>1, NumberType
    <3>4. file.stamps[k][t] \in Nat
      <4>1. file.stamps \in Bags
        BY DEF IInv, TypeOK
      <4> QED BY <4>1 DEF Bags
    <3> QED BY <3>1, <3>2, <3>3, <3>4
  <2>3. AtMost(known, Len(log))'
    BY <1>1, <2>2 DEF AtMost, Number, worldVars
  <2>4. cursor' # 0 => cursor' = file.cursor /\ kinds' = file.kinds
    BY <1>1 DEF UsableCursor
  <2>5. cursor' # 0 => AtMost(known, cursor)'
    BY <1>1, <2>1, <2>4 DEF FileInv, AtMost, Number, worldVars
  <2>6. cursor' # 0 => AtLeast(known, vacuumed, cursor, now - Window, kinds)'
    BY <1>1, <2>1, <2>4 DEF FileInv, AtLeast, Number, worldVars
  <2>7. pc' # "scan" /\ (pc' = "incremental" => cursor' # 0)
    BY <1>1
  <2>8. now' <= clock'
    <3>1. now' = clock /\ clock' = clock
      BY <1>1 DEF worldVars
    <3> QED BY <2>1, <3>1
  <2> QED BY <2>3, <2>5, <2>6, <2>7, <2>8 DEF RunInv
<1> QED BY <1>2, <1>3, <1>4, <1>5 DEF IInv

LEMMA CursorRefusedInv == ASSUME IInv, CursorRefused PROVE IInv'
<1>1. /\ UNCHANGED <<worldVars, file, view, now, kinds, known, cursor, out, full, stamps, error>>
      /\ pc = "incremental" /\ pc' = "window"
  BY DEF CursorRefused
<1>2. TypeOK'
  BY <1>1 DEF IInv, TypeOK, worldVars
<1>3. RunInv'
  BY <1>1 DEF IInv, RunInv, worldVars, AtMost, Number
<1>4. ReplyIsTrue'
  BY <1>1 DEF ReplyIsTrue
<1> QED BY <1>1, <1>2, <1>3, <1>4, FrameInv DEF IInv

\* The read printed its entries.
LEMMA ReadsInv ==
  ASSUME IInv, NEW positions, NEW inFull \in BOOLEAN, Reads(positions, inFull),
         \/ pc = "incremental" /\ ~ inFull /\ positions = {i \in Available : i > cursor}
         \/ /\ pc = "window" /\ inFull
            /\ positions = {i \in Available : log[i].at >= now - Window}
  PROVE  IInv'
<1>1. /\ UNCHANGED <<worldVars, file, now, kinds, known, cursor, stamps, error>>
      /\ out' = positions /\ full' = inFull /\ pc' = "scan"
      /\ view' = [gone |-> vacuumed, seen |-> Len(log)]
  BY DEF Reads, Views
<1>2. /\ Len(log) \in Nat /\ vacuumed \in 0..Len(log) /\ Len(log) \in 0..Len(log)
      /\ view \in [gone : 0..Len(log), seen : 0..Len(log)]
      /\ cursor \in Nat /\ cursor <= Len(log) /\ vacuumed \in Nat
  <2>1. view \in [gone : 0..Len(log), seen : 0..Len(log)]
    BY DEF IInv, TypeOK
  <2>2. Len(log) \in Nat /\ vacuumed \in Nat /\ vacuumed <= Len(log)
        /\ cursor \in Nat /\ cursor <= Len(log)
    BY Types DEF IInv
  <2>3. vacuumed \in 0..Len(log) /\ Len(log) \in 0..Len(log)
    BY <2>2, UpTo
  <2> QED BY <2>1, <2>2, <2>3
<1>3. /\ view'.gone = vacuumed /\ view'.seen = Len(log)
      /\ view' \in [gone : 0..Len(log), seen : 0..Len(log)]
  BY <1>1, <1>2
<1>4. positions \subseteq 1..Len(log)
  <2>1. Len(log) \in Nat /\ vacuumed \in Nat
    BY Types DEF IInv
  <2>2. Available \subseteq 1..Len(log)
    BY <2>1 DEF Available
  <2> QED BY <2>2
<1>5. TypeOK'
  BY <1>1, <1>3, <1>4 DEF IInv, TypeOK, worldVars
<1>6. ReplyIsTrue'
  BY <1>1 DEF ReplyIsTrue
<1>7. RunInv'
  <2>1. RunInv /\ pc \in {"incremental", "window"}
    BY DEF IInv
  <2>2. now' <= clock' /\ AtMost(known, Len(log))'
    BY <1>1, <2>1 DEF RunInv, worldVars, AtMost, Number
  <2>3. view'.gone <= vacuumed'
    <3>1. vacuumed' = vacuumed /\ vacuumed \in Nat /\ view'.gone = vacuumed
      BY <1>1, <1>3, Types DEF IInv, worldVars
    <3>2. vacuumed <= vacuumed
      BY <3>1
    <3> QED BY <3>1, <3>2
  <2>4. CASE inFull
    BY <1>1, <1>3, <2>2, <2>3, <2>4 DEF RunInv, worldVars, Available
  <2>5. CASE ~ inFull
    <3>1. /\ cursor' # 0 /\ cursor' <= view'.seen
          /\ AtMost(known, cursor)'
      BY <1>1, <1>2, <1>3, <2>1, <2>5 DEF RunInv, worldVars, AtMost, Number
    <3>2. AtLeast(known, view.gone, cursor, now - Window, kinds)'
      BY <1>1, <1>3, <2>1, <2>5 DEF RunInv, worldVars, AtLeast, Number
    <3>3. out' = {i \in (view'.gone + 1)..view'.seen : i > cursor'}
      BY <1>1, <1>3, <2>5 DEF Available
    <3> QED BY <1>1, <2>2, <2>3, <2>5, <3>1, <3>2, <3>3 DEF RunInv
  <2> QED BY <2>4, <2>5
<1> QED BY <1>1, <1>5, <1>6, <1>7, FrameInv DEF IInv

LEMMA FailsInv ==
  ASSUME IInv, Fails, pc \in {"incremental", "window"} PROVE IInv'
<1>1. /\ UNCHANGED <<worldVars, file, now, kinds>>
      /\ stamps' = Pruned(known) /\ error' = "failed" /\ pc' = "returned"
      /\ known' = NoStamps /\ cursor' = 0 /\ out' = {} /\ full' = FALSE
      /\ view' = [gone |-> vacuumed, seen |-> Len(log)]
  BY DEF Fails, Returns, Views
<1>2. /\ Len(log) \in Nat /\ vacuumed \in 0..Len(log) /\ Len(log) \in 0..Len(log)
      /\ 0 \in 0..Len(log)
      /\ view \in [gone : 0..Len(log), seen : 0..Len(log)]
  <2>1. view \in [gone : 0..Len(log), seen : 0..Len(log)]
    BY DEF IInv, TypeOK
  <2>2. Len(log) \in Nat /\ vacuumed \in Nat /\ vacuumed <= Len(log)
    BY Types DEF IInv
  <2>3. vacuumed \in 0..Len(log) /\ Len(log) \in 0..Len(log) /\ 0 \in 0..Len(log)
    BY <2>2, UpTo
  <2> QED BY <2>1, <2>2, <2>3
<1>3. /\ view'.seen = Len(log)
      /\ view' \in [gone : 0..Len(log), seen : 0..Len(log)]
  BY <1>1, <1>2
<1>4. known \in Bags /\ NoStamps \in Bags
  BY DEF IInv, TypeOK, NoStamps, Bags
<1>5. TypeOK'
  BY <1>1, <1>2, <1>3, <1>4, PrunedType DEF IInv, TypeOK, worldVars
<1>6. RunInv'
  BY <1>1 DEF IInv, RunInv, worldVars
<1>7. ReplyIsTrue'
  <2> SUFFICES ASSUME NEW k \in kinds, NEW t \in Times
               PROVE  Pruned(known)[k][t] <= Number(1..Len(log), k, t)
    BY <1>1, <1>3 DEF ReplyIsTrue, Number, worldVars
  <2>1. k \in Kinds
    BY DEF IInv, TypeOK
  <2>2. known[k][t] <= Number(1..Len(log), k, t)
    BY <2>1 DEF IInv, RunInv, AtMost
  <2>3. Number(1..Len(log), k, t) \in Nat
    <3>1. Len(log) \in Nat
      BY Types DEF IInv
    <3>2. 1 \in Int /\ Len(log) \in Int
      BY <3>1
    <3> QED BY <3>2, NumberType
  <2>4. Pruned(known)[k][t] \in {0, known[k][t]}
    BY <2>1, PrunedAt
  <2>5. known[k][t] \in Nat
    BY <1>4, <2>1 DEF Bags
  <2> QED BY <2>2, <2>3, <2>4, <2>5, Below
<1> QED BY <1>1, <1>5, <1>6, <1>7, FrameInv DEF IInv

-----------------------------------------------------------------------------
(* What a scan counts. *)

\* Every entry of the read is at or before the cursor that will be saved, and
\* that is at or before the end of the journal as it was read.
LEMMA LastCursorRange ==
  ASSUME IInv, pc = "scan"
  PROVE  /\ LastCursor \in Nat /\ LastCursor <= view.seen
         /\ out \subseteq 1..LastCursor
         /\ ~ full => cursor <= LastCursor
<1>1. /\ view.gone \in Nat /\ view.seen \in Nat /\ view.seen <= Len(log)
      /\ cursor \in Nat /\ Len(log) \in Nat
  BY Types DEF IInv
<1>2. ~ full => cursor <= view.seen
  BY DEF IInv, RunInv
<1>3. CASE out = {}
  BY <1>1, <1>2, <1>3 DEF LastCursor
<1>4. CASE out # {}
  <2>1. LastCursor = view.seen
    BY <1>4, LastOut DEF LastCursor
  <2>2. out \subseteq (view.gone + 1)..view.seen
    BY DEF IInv, RunInv, TypeOK
  <2>3. \A i \in (view.gone + 1)..view.seen : i \in 1..view.seen
    BY <1>1
  <2>4. view.seen <= view.seen
    BY <1>1
  <2> QED BY <1>1, <1>2, <2>1, <2>2, <2>3, <2>4
<1> QED BY <1>3, <1>4

LEMMA OutFinite ==
  ASSUME IInv PROVE IsFiniteSet(out)
<1>1. out \in SUBSET (1..Len(log)) /\ 1 \in Int /\ Len(log) \in Int
  BY Types DEF IInv
<1> QED BY <1>1, FS_Interval, FS_Subset

\* The types of the two terms of Scanned.
LEMMA ScannedType ==
  ASSUME IInv, NEW k \in Kinds, NEW t \in Times
  PROVE  /\ Number(out, k, t) \in Nat /\ Base[k][t] \in Nat
         /\ Scanned[k][t] \in Nat
         /\ Scanned[k][t] = Base[k][t] + (IF k \in kinds THEN Number(out, k, t) ELSE 0)
<1>1. Number(out, k, t) \in Nat
  BY OutFinite, HitsFinite DEF Number
<1>2. Base[k][t] \in Nat
  <2>1. known \in Bags /\ NoStamps \in Bags
    BY DEF IInv, TypeOK, NoStamps, Bags
  <2>2. Base \in Bags
    BY <2>1 DEF Base
  <2> QED BY <2>2 DEF Bags
<1>3. Scanned[k][t] = Base[k][t] + (IF k \in kinds THEN Number(out, k, t) ELSE 0)
  BY DEF Scanned
<1> QED BY <1>1, <1>2, <1>3

\* A sum of two counts of separate entries is a count.
LEMMA ScanCountsOnce ==
  ASSUME IInv, pc = "scan", NEW k \in Kinds, NEW t \in Times
  PROVE  Scanned[k][t] <= Number(1..LastCursor, k, t)
<1> DEFINE before == IF full THEN {} ELSE 1..cursor
<1>1. /\ LastCursor \in Nat /\ cursor \in Nat
      /\ out \subseteq 1..LastCursor /\ (~ full => cursor <= LastCursor)
  BY LastCursorRange, Types DEF IInv
<1>2. before \subseteq 1..LastCursor /\ before \cap out = {}
  <2>1. CASE full
    BY <2>1
  <2>2. CASE ~ full
    <3>1. out = {i \in (view.gone + 1)..view.seen : i > cursor}
      BY <2>2 DEF IInv, RunInv
    <3>2. \A i \in out : i > cursor /\ i \in Int
      <4>1. \A i \in out : i \in Int
        BY <1>1
      <4> QED BY <3>1, <4>1
    <3>3. \A i \in 1..cursor : ~ i > cursor
      BY <1>1
    <3>4. 1..cursor \subseteq 1..LastCursor
      BY <1>1, <2>2
    <3> QED BY <2>2, <3>2, <3>3, <3>4
  <2> QED BY <2>1, <2>2
<1>3. IsFiniteSet(1..LastCursor) /\ IsFiniteSet(before) /\ IsFiniteSet(out)
  <2>1. 1 \in Int /\ LastCursor \in Int
    BY <1>1
  <2>2. IsFiniteSet(1..LastCursor)
    BY <2>1, FS_Interval
  <2> QED BY <1>2, <2>2, OutFinite, FS_Subset
<1>4. Base[k][t] <= Number(before, k, t)
  <2>1. CASE full
    <3>1. Base[k][t] = 0
      BY <2>1 DEF Base, NoStamps
    <3>2. Number(before, k, t) \in Nat
      BY <1>3, HitsFinite DEF Number
    <3> QED BY <3>1, <3>2
  <2>2. CASE ~ full
    BY <2>2 DEF Base, IInv, RunInv, AtMost
  <2> QED BY <2>1, <2>2
<1> HIDE DEF before
<1>5. Number(before \cup out, k, t) = Number(before, k, t) + Number(out, k, t)
  BY <1>2, <1>3, HitsJoin DEF Number
<1>6. Number(before \cup out, k, t) <= Number(1..LastCursor, k, t)
  <2>1. before \cup out \in SUBSET (1..LastCursor)
    BY <1>1, <1>2
  <2> QED BY <2>1, <1>3, HitsMono DEF Number
<1>7. /\ Number(before, k, t) \in Nat /\ Number(1..LastCursor, k, t) \in Nat
      /\ Number(before \cup out, k, t) \in Nat
  <2>1. IsFiniteSet(before \cup out)
    BY <1>3, FS_Union
  <2> QED BY <2>1, <1>3, HitsFinite DEF Number
<1> QED BY <1>4, <1>5, <1>6, <1>7, ScannedType

LEMMA ScanMissesNothing ==
  ASSUME IInv, pc = "scan", NEW k \in kinds, NEW t \in Times, t > now - Window
  PROVE  Scanned[k][t] >= Number((view.gone + 1)..view.seen, k, t)
<1> DEFINE all    == (view.gone + 1)..view.seen
           before == IF full THEN {} ELSE (view.gone + 1)..cursor
<1>1. /\ view.gone \in Nat /\ view.seen \in Nat /\ view.seen <= Len(log)
      /\ cursor \in Nat /\ Len(log) \in Nat /\ now - Window \in Int
  BY Types, JournalAssumption DEF JournalAssumption, IInv
<1>2. k \in Kinds
  BY DEF IInv, TypeOK
<1>3. IsFiniteSet(all) /\ IsFiniteSet(before) /\ IsFiniteSet(out)
  <2>1. view.gone + 1 \in Int /\ view.seen \in Int /\ cursor \in Int
    BY <1>1
  <2> QED BY <2>1, FS_Interval, FS_EmptySet, OutFinite
<1>4. Base[k][t] >= Number(before, k, t)
  <2>1. CASE full
    <3>1. Base[k][t] = 0
      BY <1>2, <2>1 DEF Base, NoStamps
    <3>2. Hits(log, before, k, t) = {}
      BY <2>1 DEF Hits
    <3>3. Number(before, k, t) = 0
      BY <3>2, FS_EmptySet DEF Number
    <3> QED BY <3>1, <3>3
  <2>2. CASE ~ full
    BY <2>2 DEF Base, IInv, RunInv, AtLeast
  <2> QED BY <2>1, <2>2
<1>5. Hits(log, all, k, t) \in SUBSET Hits(log, before \cup out, k, t)
  <2> SUFFICES ASSUME NEW i \in all, log[i].kind = k, log[i].at = t
               PROVE  i \in before \cup out
    BY DEF Hits
  <2>1. CASE full
    <3>1. out = {j \in all : log[j].at >= now - Window}
      BY <2>1 DEF IInv, RunInv
    <3>2. t \in Int
      BY DEF Times
    <3>3. t >= now - Window
      BY <1>1, <3>2
    <3> QED BY <3>1, <3>3
  <2>2. CASE ~ full
    <3>1. out = {j \in all : j > cursor}
      BY <2>2 DEF IInv, RunInv
    <3>2. i > cursor \/ i \in (view.gone + 1)..cursor
      BY <1>1
    <3> QED BY <2>2, <3>1, <3>2
  <2> QED BY <2>1, <2>2
<1> HIDE DEF before, all
<1>6. Number(before \cup out, k, t) <= Number(before, k, t) + Number(out, k, t)
  BY <1>3, HitsJoin DEF Number
<1>7. IsFiniteSet(before \cup out)
  BY <1>3, FS_Union
<1>8. Number(all, k, t) <= Number(before \cup out, k, t)
  BY <1>5, <1>7, HitsFinite, FS_Subset DEF Number
<1>9. /\ Number(before, k, t) \in Nat /\ Number(all, k, t) \in Nat
      /\ Number(before \cup out, k, t) \in Nat
  BY <1>3, <1>7, HitsFinite DEF Number
<1>10. /\ Base[k][t] \in Nat /\ Number(out, k, t) \in Nat
       /\ Scanned[k][t] = Base[k][t] + Number(out, k, t)
  BY <1>2, ScannedType
<1>11. Scanned[k][t] >= Number(all, k, t)
  BY <1>4, <1>6, <1>8, <1>9, <1>10
<1> QED BY <1>11 DEF all

-----------------------------------------------------------------------------
(* Saving, returning, dying. *)

LEMMA SaveInv == ASSUME IInv, Save PROVE IInv'
<1>1. /\ UNCHANGED <<worldVars, now, kinds>>
      /\ pc = "scan" /\ pc' = "returned"
      /\ stamps' = Pruned(Scanned) /\ error' = "none"
      /\ known' = NoStamps /\ cursor' = 0 /\ out' = {} /\ full' = FALSE
      /\ view'.gone = view.gone /\ view'.seen = view.seen
  <2>1. view \in [gone : 0..Len(log), seen : 0..Len(log)]
    BY DEF IInv, TypeOK
  <2> QED BY <2>1 DEF Save, Returns
<1>2. \/ file' = [cursor |-> LastCursor, kinds |-> kinds, stamps |-> Pruned(Scanned)]
      \/ file' = file
  BY DEF Save
<1>3. /\ view.gone \in Nat /\ view.seen \in Nat /\ view.seen <= Len(log)
      /\ vacuumed \in Nat /\ Len(log) \in Nat /\ now \in Nat /\ clock \in Nat
      /\ now - Window \in Int /\ clock - Window \in Int
  BY Types, JournalAssumption DEF JournalAssumption, IInv
<1>4. LastCursor \in Nat /\ LastCursor <= view.seen
  BY <1>1, LastCursorRange
<1>5. Scanned \in Bags
  <2>1. \A k \in Kinds, t \in Times : Scanned[k][t] \in Nat
    BY ScannedType
  <2>2. /\ Scanned = [k \in Kinds |-> Scanned[k]]
        /\ \A k \in Kinds : Scanned[k] = [t \in Times |-> Scanned[k][t]]
    BY DEF Scanned
  <2> HIDE DEF Scanned
  <2>3. \A k \in Kinds : Scanned[k] \in [Times -> Nat]
    BY <2>1, <2>2
  <2> QED BY <2>2, <2>3 DEF Bags
\* What is kept of a scan is no more than it counted, and all of it in the window.
<1>6. ASSUME NEW k \in Kinds, NEW t \in Times
      PROVE  /\ Pruned(Scanned)[k][t] <= Number(1..LastCursor, k, t)
             /\ Pruned(Scanned)[k][t] <= Number(1..view.seen, k, t)
  <2>1. Pruned(Scanned)[k][t] \in {0, Scanned[k][t]}
    BY PrunedAt
  <2>2. Scanned[k][t] <= Number(1..LastCursor, k, t)
    BY <1>1, ScanCountsOnce
  <2>3. Number(1..LastCursor, k, t) \in Nat /\ Number(1..view.seen, k, t) \in Nat
    BY <1>3, <1>4, NumberType
  <2>4. Number(1..LastCursor, k, t) <= Number(1..view.seen, k, t)
    <3>1. 1..LastCursor \in SUBSET (1..view.seen) /\ 1 \in Int /\ view.seen \in Int
      BY <1>3, <1>4
    <3> QED BY <3>1, NumberMono
  <2>5. Scanned[k][t] \in Nat
    BY ScannedType
  <2>6. Scanned[k][t] <= Number(1..view.seen, k, t)
    BY <2>2, <2>3, <2>4, <2>5
  <2> QED BY <2>1, <2>2, <2>3, <2>5, <2>6, Below
<1>7. ASSUME NEW k \in kinds, NEW t \in Times, t > now - Window
      PROVE  Pruned(Scanned)[k][t] >= Number((view.gone + 1)..view.seen, k, t)
  <2>1. k \in Kinds
    BY DEF IInv, TypeOK
  <2>2. Pruned(Scanned)[k][t] = Scanned[k][t]
    BY <1>7, <2>1, PrunedAt
  <2> QED BY <1>1, <1>7, <2>2, ScanMissesNothing
<1>8. TypeOK'
  <2>1. NoStamps \in Bags /\ Pruned(Scanned) \in Bags
    BY <1>5, PrunedType DEF NoStamps, Bags
  <2>2. 0 \in 0..Len(log) /\ LastCursor \in 0..Len(log)
    <3>1. LastCursor <= Len(log)
      BY <1>3, <1>4
    <3> QED BY <1>3, <1>4, <3>1, UpTo
  <2>3. file'.cursor \in 0..Len(log) /\ file'.kinds \subseteq Kinds /\ file'.stamps \in Bags
    BY <1>2, <2>1, <2>2 DEF IInv, TypeOK
  <2>4. view' \in [gone : 0..Len(log), seen : 0..Len(log)]
    BY DEF Save, IInv, TypeOK
  <2> QED BY <1>1, <2>1, <2>2, <2>3, <2>4 DEF IInv, TypeOK, worldVars
<1>9. LogInv'
  BY <1>1 DEF IInv, LogInv, worldVars
<1>10. FileInv'
  <2>1. CASE file' = file
    BY <1>1, <2>1, FrameInv
  <2>2. CASE file' = [cursor |-> LastCursor, kinds |-> kinds, stamps |-> Pruned(Scanned)]
    <3>1. /\ file'.cursor = LastCursor /\ file'.kinds = kinds
          /\ file'.stamps = Pruned(Scanned)
          /\ log' = log /\ clock' = clock /\ vacuumed' = vacuumed
      BY <1>1, <2>2 DEF worldVars
    <3>2. ASSUME NEW k \in kinds, NEW t \in Times, t > clock - Window
          PROVE  Pruned(Scanned)[k][t] >= Number((vacuumed + 1)..LastCursor, k, t)
      <4>1. view.gone <= vacuumed /\ now <= clock
        BY <1>1 DEF IInv, RunInv
      <4>2. t > now - Window
        <5>1. t \in Int /\ Window \in Int
          BY JournalAssumption DEF JournalAssumption, Times
        <5> QED BY <1>3, <3>2, <4>1, <5>1
      <4>3. Pruned(Scanned)[k][t] >= Number((view.gone + 1)..view.seen, k, t)
        BY <1>7, <4>2
      <4>4. Number((vacuumed + 1)..LastCursor, k, t)
               <= Number((view.gone + 1)..view.seen, k, t)
        <5>1. /\ (vacuumed + 1)..LastCursor \in SUBSET ((view.gone + 1)..view.seen)
              /\ view.gone + 1 \in Int /\ view.seen \in Int
          BY <1>3, <1>4, <4>1
        <5> QED BY <5>1, NumberMono
      <4>5. /\ Number((vacuumed + 1)..LastCursor, k, t) \in Nat
            /\ Number((view.gone + 1)..view.seen, k, t) \in Nat
        <5>1. /\ vacuumed + 1 \in Int /\ LastCursor \in Int
              /\ view.gone + 1 \in Int /\ view.seen \in Int
          BY <1>3, <1>4
        <5> QED BY <5>1, NumberType
      <4>6. Pruned(Scanned)[k][t] \in Nat
        <5>1. Pruned(Scanned) \in Bags /\ k \in Kinds
          BY <1>5, PrunedType DEF IInv, TypeOK
        <5> QED BY <5>1 DEF Bags
      <4> QED BY <4>3, <4>4, <4>5, <4>6
    <3> QED BY <1>6, <3>1, <3>2 DEF FileInv, AtMost, AtLeast, Number
  <2> QED BY <1>2, <2>1, <2>2
<1>11. RunInv'
  BY <1>1 DEF IInv, RunInv, worldVars
<1>12. ReplyIsTrue'
  <2>1. kinds \subseteq Kinds
    BY DEF IInv, TypeOK
  <2>2. log' = log
    BY <1>1 DEF worldVars
  <2> QED BY <1>1, <1>6, <1>7, <2>1, <2>2 DEF ReplyIsTrue, Number
<1> QED BY <1>8, <1>9, <1>10, <1>11, <1>12 DEF IInv

LEMMA RunOverInv == ASSUME IInv, RunOver PROVE IInv'
<1>1. /\ UNCHANGED <<worldVars, file, view>>
      /\ pc' = "idle" /\ now' = 0 /\ kinds' = {} /\ known' = NoStamps /\ cursor' = 0
      /\ out' = {} /\ full' = FALSE /\ stamps' = NoStamps /\ error' = "none"
  BY DEF RunOver
<1>2. TypeOK'
  <2>1. NoStamps \in Bags /\ 0 \in Times
    BY JournalAssumption DEF JournalAssumption, NoStamps, Bags, Times
  <2>2. Len(log) \in Nat
    BY Types DEF IInv
  <2>3. 0 \in 0..Len(log)
    BY <2>2
  <2> QED BY <1>1, <2>1, <2>3 DEF IInv, TypeOK, worldVars
<1>3. RunInv' /\ ReplyIsTrue'
  BY <1>1 DEF RunInv, ReplyIsTrue
<1> QED BY <1>1, <1>2, <1>3, FrameInv DEF IInv

LEMMA StutterInv == ASSUME IInv, UNCHANGED vars PROVE IInv'
<1>1. UNCHANGED <<clock, log, vacuumed, enabled, file, pc, now, kinds, known, cursor,
                  out, full, stamps, error, view>>
  BY DEF vars, worldVars, runVars
<1>2. TypeOK'
  BY <1>1 DEF IInv, TypeOK
<1>3. RunInv'
  BY <1>1 DEF IInv, RunInv, AtMost, AtLeast, Number
<1>4. ReplyIsTrue'
  BY <1>1 DEF IInv, ReplyIsTrue, Number
<1> QED BY <1>1, <1>2, <1>3, <1>4, FrameInv DEF IInv, worldVars

-----------------------------------------------------------------------------
(* The theorems. *)

LEMMA StepInv == ASSUME IInv, [Next]_vars PROVE IInv'
<1>1. CASE World
  BY <1>1, WorldInv
<1>2. CASE Start
  BY <1>2, StartInv
<1>3. CASE ReadAfterCursor
  <2>1. pc = "incremental"
    BY <1>3 DEF ReadAfterCursor
  <2>2. CASE Reads({i \in Available : i > cursor}, FALSE)
    BY <2>1, <2>2, ReadsInv
  <2>3. CASE Fails
    BY <2>1, <2>3, FailsInv
  <2> QED BY <1>3, <2>2, <2>3 DEF ReadAfterCursor
<1>4. CASE CursorRefused
  BY <1>4, CursorRefusedInv
<1>5. CASE ReadWindow
  <2>1. pc = "window"
    BY <1>5 DEF ReadWindow
  <2>2. CASE Reads({i \in Available : log[i].at >= now - Window}, TRUE)
    BY <2>1, <2>2, ReadsInv
  <2>3. CASE Fails
    BY <2>1, <2>3, FailsInv
  <2> QED BY <1>5, <2>2, <2>3 DEF ReadWindow
<1>6. CASE Save
  BY <1>6, SaveInv
<1>7. CASE Return \/ Die
  BY <1>7, RunOverInv DEF Return, Die
<1>8. CASE UNCHANGED vars
  BY <1>8, StutterInv
<1> QED BY <1>1, <1>2, <1>3, <1>4, <1>5, <1>6, <1>7, <1>8 DEF Next, Run

LEMMA Inductive == Spec => []IInv
<1>1. Init => IInv
  BY InitInv
<1>2. IInv /\ [Next]_vars => IInv'
  BY StepInv
<1> QED BY <1>1, <1>2, PTL DEF Spec

\* Every variable of collect_events keeps its type: the saved cursor is always a
\* cursor of the journal, the saved stamps are always counts.
THEOREM TypeCorrect == Spec => []TypeOK
<1>1. IInv => TypeOK
  BY DEF IInv
<1> QED BY <1>1, Inductive, PTL

\* collect_events never saves an event twice, whatever is vacuumed, refused,
\* reconfigured, lost or cut short.
THEOREM CountedOnce == Spec => []NothingTwice
<1>1. IInv => NothingTwice
  BY DEF IInv, FileInv, AtMost, NothingTwice
<1> QED BY <1>1, Inductive, PTL

\* The cursor collect_events saves never passes an event it did not count.
THEOREM NonePassedOver == Spec => []NothingPassedOver
<1>1. IInv => NothingPassedOver
  BY DEF IInv, FileInv, AtLeast, NothingPassedOver
<1> QED BY <1>1, Inductive, PTL

\* The counts collect_events returns are those of the journal as it was read.
THEOREM RepliesAreTrue == Spec => []ReplyIsTrue
<1>1. IInv => ReplyIsTrue
  BY DEF IInv
<1> QED BY <1>1, Inductive, PTL
=============================================================================
