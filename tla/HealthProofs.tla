---------------------------- MODULE HealthProofs ----------------------------
(***************************************************************************)
(* Theorems about Health, for any Docker kinds and hosts.                  *)
(***************************************************************************)
EXTENDS Health, FiniteSetTheorems, TLAPS

-----------------------------------------------------------------------------
(* The inductive invariant. *)

Places == Keys \cup {"off", "names", "fqdn", "probe", "asking", "done"}
Entries == {"none", "error", "na", "missing", "probed", "rows", "empty", "raised"}

TypeOK ==
    /\ at \in [AllTasks -> Places]
    /\ cache = [key \in Keys |-> cache[key]]
    /\ holder = [key \in Keys |-> holder[key]]
    /\ asked = [key \in Keys |-> asked[key]]
    /\ named \in SUBSET AllTasks
    /\ entry \in [AllTasks -> Entries]
    /\ knewNames \in BOOLEAN

\* A request is counted when its lock is taken, and the lock is only given back
\* with an answer remembered.
IndexInv ==
    \A key \in Keys :
        /\ cache[key] \in Replies(key) \cup {Unknown}
        /\ cache[key] # Unknown => holder[key] = NoTask
        /\ asked[key] = IF cache[key] = Unknown /\ holder[key] = NoTask THEN 0 ELSE 1

Unlisting(k) == /\ cache["containers"] \notin {Unknown, Error}
                /\ k \notin cache["containers"].kinds
NodeNamed    == cache["info"] \notin {Unknown, Error} /\ cache["info"].named
Wanted(k)    == /\ cache["services"] \notin {Unknown, Error}
                /\ k \in cache["services"].kinds

\* How far the search for a container has come, and what it has seen by then.
SearchInv ==
    \A k \in DockerKinds :
        LET t == ClusterTask(k)
            past(key) == at[t] = key \/ holder[key] = t
        IN  /\ past("info") \/ past("services") \/ entry[t] \in {"na", "missing"}
                 => Unlisting(k)
            /\ past("services") \/ entry[t] = "missing" => NodeNamed
            /\ entry[t] = "missing" => Wanted(k)

\* Where a known peer name came from, and that one pass has one call.
NamesInv ==
    /\ named # {} \/ knewNames => config.given \/ NodesKnown
    /\ info # NoInfo => phase # "open" /\ tasks # {}

Inv == TypeOK /\ IndexInv /\ SearchInv /\ NamesInv

-----------------------------------------------------------------------------
(* What the daemon's replies look like. *)

LEMMA UnknownIsNoReply ==
  ASSUME NEW key \in Keys  PROVE  Unknown \notin Replies(key)
BY DEF Keys, Replies, Unknown, Error

LEMMA NamedReply ==
  ASSUME NEW reply \in Replies("nodes")  PROVE  reply.named \in BOOLEAN
BY DEF Replies

LEMMA Initially == Init => Inv
<1> SUFFICES ASSUME Init  PROVE  Inv
  OBVIOUS
<1>1. TypeOK
  BY DEF Init, TypeOK, Places, Entries
<1>2. IndexInv
  BY DEF Init, IndexInv
<1>3. SearchInv
  <2>1. ASSUME NEW k \in DockerKinds  PROVE  ClusterTask(k) \in AllTasks
    BY DEF AllTasks, ClusterKinds
  <2>2. ASSUME NEW k \in DockerKinds  PROVE  ClusterTask(k) # NoTask
    BY DEF ClusterTask, NoTask
  <2> QED BY <2>1, <2>2 DEF Init, SearchInv, Keys
<1>4. NamesInv
  BY DEF Init, NamesInv
<1> QED BY <1>1, <1>2, <1>3, <1>4 DEF Inv

-----------------------------------------------------------------------------
(* Steps of a thread. *)

\* What a check may do with a reply to each of the questions.
LEMMA ConcludesShape ==
  ASSUME TypeOK, NEW t \in AllTasks, NEW key \in Keys, NEW reply \in Replies(key),
         Concludes(t, key, reply)
  PROVE  /\ at' \in [AllTasks -> Places] /\ entry' \in [AllTasks -> Entries]
         /\ \A u \in AllTasks \ {t} : at'[u] = at[u] /\ entry'[u] = entry[u]
         /\ UNCHANGED <<phase, tasks>>
         /\ at'[t] \in {"probe", "info", "services", "done"}
         /\ named' = named \/ (key = "nodes" /\ reply.named /\ named' = named \cup {t})
         /\ at'[t] = "info" =>
              key = "containers" /\ reply # Error /\ t[2] \notin reply.kinds
         /\ at'[t] = "services" => key = "info" /\ reply # Error /\ reply.named
         /\ entry'[t] \in {"na", "missing"} /\ entry'[t] # entry[t] =>
              key \in {"info", "services"}
         /\ entry'[t] = "missing" /\ entry[t] # "missing" =>
              key = "services" /\ reply # Error /\ t[2] \in reply.kinds
<1> USE DEF Concludes, TypeOK
<1>1. named' = named \/ (key = "nodes" /\ reply.named /\ named' = named \cup {t})
  OBVIOUS
<1>2. CASE key = "containers" /\ Unlisted(reply)
  BY <1>1, <1>2 DEF Says, Gives, Budget!Answer, Entries, Places
<1>3. CASE key = "containers" /\ ~ Unlisted(reply)
  BY <1>1, <1>3 DEF Goes, budgetVars, Places, Keys, Kinds, Unlisted
<1>4. CASE key = "info"
  <2>1. CASE reply # Error /\ reply.named
    BY <1>1, <1>4, <2>1 DEF Goes, budgetVars, Places, Keys
  <2>2. CASE ~ (reply # Error /\ reply.named)
    BY <1>1, <1>4, <2>2 DEF Says, Gives, Budget!Answer, Entries, Places
  <2> QED BY <2>1, <2>2
<1>5. CASE key = "services"
  BY <1>1, <1>5 DEF Says, Gives, Budget!Answer, Entries, Places, Kinds
<1>6. CASE key = "nodes"
  BY <1>1, <1>6 DEF Goes, budgetVars, Places
<1> QED BY <1>2, <1>3, <1>4, <1>5, <1>6 DEF Keys


LEMMA ClusterTasks ==
  ASSUME NEW k \in DockerKinds
  PROVE  ClusterTask(k) \in AllTasks /\ ClusterTask(k) # NoTask /\ ClusterTask(k)[2] = k
BY DEF AllTasks, ClusterKinds, ClusterTask, NoTask

\* What a listing said stays remembered.
LEMMA Remembers ==
  ASSUME NEW k, \A key \in Keys : cache[key] # Unknown => cache'[key] = cache[key]
  PROVE  /\ Unlisting(k) => Unlisting(k)'
         /\ NodeNamed => NodeNamed'
         /\ Wanted(k) => Wanted(k)'
BY DEF Keys, Unlisting, NodeNamed, Wanted

\* A check that goes on with a reply has seen what its next place requires.
LEMMA ConcludesKeepsSearch ==
  ASSUME Inv, NEW t \in AllTasks, NEW key \in Keys, NEW reply \in Replies(key),
         Concludes(t, key, reply),
         at[t] = key \/ holder[key] = t,
         reply # Unknown,
         cache'[key] = reply,
         \A other \in Keys : cache[other] # Unknown => cache'[other] = cache[other],
         \A other \in Keys : holder'[other] \in {holder[other], NoTask}
  PROVE  SearchInv'
<1> SUFFICES ASSUME NEW k \in DockerKinds
             PROVE  LET u == ClusterTask(k)
                        past(place) == at'[u] = place \/ holder'[place] = u
                    IN  /\ past("info") \/ past("services") \/ entry'[u] \in {"na", "missing"}
                             => Unlisting(k)'
                        /\ past("services") \/ entry'[u] = "missing" => NodeNamed'
                        /\ entry'[u] = "missing" => Wanted(k)'
  BY DEF SearchInv
<1> DEFINE u == ClusterTask(k)
           past(place) == at[u] = place \/ holder[place] = u
           past2(place) == at'[u] = place \/ holder'[place] = u
<1>1. u \in AllTasks /\ u # NoTask /\ u[2] = k
  BY ClusterTasks
<1>2. /\ past("info") \/ past("services") \/ entry[u] \in {"na", "missing"} => Unlisting(k)
      /\ past("services") \/ entry[u] = "missing" => NodeNamed
      /\ entry[u] = "missing" => Wanted(k)
  BY DEF Inv, SearchInv
<1>3. /\ Unlisting(k) => Unlisting(k)'
      /\ NodeNamed => NodeNamed'
      /\ Wanted(k) => Wanted(k)'
  BY Remembers
<1>4. \A place \in Keys : holder'[place] = u => holder[place] = u
  BY <1>1
<1>5. CASE u # t
  <2>1. at'[u] = at[u] /\ entry'[u] = entry[u]
    BY <1>1, <1>5, ConcludesShape DEF Inv
  <2> QED BY <1>2, <1>3, <1>4, <2>1 DEF Keys
<1>6. CASE u = t
  <2>0. past(key)
    BY <1>6
  <2>1. /\ at'[u] = "info" => key = "containers" /\ reply # Error /\ k \notin reply.kinds
        /\ at'[u] = "services" => key = "info" /\ reply # Error /\ reply.named
        /\ entry'[u] \in {"na", "missing"} /\ entry'[u] # entry[u] => key \in {"info", "services"}
        /\ entry'[u] = "missing" /\ entry[u] # "missing" =>
             key = "services" /\ reply # Error /\ k \in reply.kinds
    BY <1>1, <1>6, ConcludesShape DEF Inv
  <2>2. at'[u] = "info" => Unlisting(k)'
    BY <2>1 DEF Unlisting
  <2>3. at'[u] = "services" => Unlisting(k)' /\ NodeNamed'
    BY <1>2, <1>3, <2>0, <2>1 DEF NodeNamed
  <2>4. holder'["info"] = u => Unlisting(k)'
    BY <1>2, <1>3, <1>4 DEF Keys
  <2>5. holder'["services"] = u => Unlisting(k)' /\ NodeNamed'
    BY <1>2, <1>3, <1>4 DEF Keys
  <2>6. entry'[u] \in {"na", "missing"} => Unlisting(k)'
    BY <1>2, <1>3, <2>0, <2>1
  <2>7. entry'[u] = "missing" => NodeNamed' /\ Wanted(k)'
    BY <1>2, <1>3, <2>0, <2>1 DEF Wanted
  <2> QED BY <2>2, <2>3, <2>4, <2>5, <2>6, <2>7
<1> QED BY <1>5, <1>6

LEMMA ConcludesKeepsNames ==
  ASSUME Inv, NEW t \in AllTasks, NEW key \in Keys, NEW reply \in Replies(key),
         Concludes(t, key, reply),
         reply # Unknown,
         cache'[key] = reply,
         \A other \in Keys : cache[other] # Unknown => cache'[other] = cache[other],
         UNCHANGED <<config, knewNames, info>>
  PROVE  NamesInv'
<1>1. /\ named' = named \/ (key = "nodes" /\ reply.named)
      /\ UNCHANGED <<phase, tasks>>
  BY ConcludesShape DEF Inv
<1>2. NodesKnown => NodesKnown'
  BY DEF NodesKnown, Keys
<1>3. key = "nodes" /\ reply.named => NodesKnown'
  BY DEF NodesKnown
<1> QED BY <1>1, <1>2, <1>3 DEF NamesInv, Inv

\* A reply seen for the first time: no one knew it before, no one had seen less.
LEMMA ReplyKeeps ==
  ASSUME Inv, NEW t \in AllTasks, NEW key \in Keys, Reply(t, key)  PROVE  Inv'
<1> USE DEF Inv
<1>1. PICK reply \in Replies(key) :
          /\ cache' = [cache EXCEPT ![key] = reply]
          /\ holder' = [holder EXCEPT ![key] = NoTask]
          /\ Concludes(t, key, reply)
  BY DEF Reply, Remembered, Unlocked
<1>2. holder[key] = t /\ cache[key] = Unknown /\ t # NoTask
  BY DEF Reply, IndexInv, AllTasks, NoTask, ClusterTask, SystemdTask, PeersTask, DnsTask
<1>3. reply # Unknown
  BY <1>1, UnknownIsNoReply
<1>4. TypeOK'
  <2>1. /\ at' \in [AllTasks -> Places] /\ entry' \in [AllTasks -> Entries]
        /\ named' \in SUBSET AllTasks
    BY <1>1, ConcludesShape DEF TypeOK
  <2>2. /\ cache' = [other \in Keys |-> cache'[other]]
        /\ holder' = [other \in Keys |-> holder'[other]]
    BY <1>1 DEF TypeOK
  <2> QED BY <2>1, <2>2 DEF Reply, TypeOK
<1>5. IndexInv'
  BY <1>1, <1>2, <1>3 DEF Reply, IndexInv, TypeOK
<1>6. /\ cache'[key] = reply
      /\ \A other \in Keys : cache[other] # Unknown => cache'[other] = cache[other]
      /\ \A other \in Keys : holder'[other] \in {holder[other], NoTask}
  BY <1>1, <1>2 DEF TypeOK
<1>7. SearchInv'
  BY <1>1, <1>2, <1>3, <1>6, ConcludesKeepsSearch
<1>8. NamesInv'
  BY <1>1, <1>3, <1>6, ConcludesKeepsNames DEF Reply
<1> QED BY <1>4, <1>5, <1>7, <1>8

\* A remembered reply tells every other check the same.
LEMMA ReuseKeeps ==
  ASSUME Inv, NEW t \in AllTasks, NEW key \in Keys, Reuse(t, key)  PROVE  Inv'
<1> USE DEF Inv
<1>1. /\ cache[key] \in Replies(key) /\ cache[key] # Unknown
      /\ Concludes(t, key, cache[key])
      /\ at[t] = key
      /\ UNCHANGED <<config, indexVars, knewNames, info>>
  BY DEF Reuse, IndexInv
<1>2. TypeOK'
  <2>1. /\ at' \in [AllTasks -> Places] /\ entry' \in [AllTasks -> Entries]
        /\ named' \in SUBSET AllTasks
    BY <1>1, ConcludesShape DEF TypeOK
  <2> QED BY <1>1, <2>1 DEF TypeOK, indexVars
<1>3. IndexInv'
  BY <1>1 DEF IndexInv, indexVars
<1>4. SearchInv'
  BY <1>1, ConcludesKeepsSearch DEF indexVars
<1>5. NamesInv'
  BY <1>1, ConcludesKeepsNames DEF indexVars
<1> QED BY <1>2, <1>3, <1>4, <1>5

LEMMA AskKeeps ==
  ASSUME Inv, NEW t \in AllTasks, NEW key \in Keys, Ask(t, key)  PROVE  Inv'
<1> USE DEF Inv
<1>1. TypeOK'
  BY DEF Ask, TypeOK, Places
<1>2. IndexInv'
  <2>1. t # NoTask
    BY DEF AllTasks, NoTask, ClusterTask, SystemdTask, PeersTask, DnsTask
  <2>2. cache[key] = Unknown /\ asked[key] = 0
    BY DEF Ask, MayAsk, IndexInv
  <2>3. /\ holder'[key] = t /\ asked'[key] = 1
        /\ \A other \in Keys \ {key} :
              holder'[other] = holder[other] /\ asked'[other] = asked[other]
    BY <2>2 DEF Ask, TypeOK
  <2> QED BY <2>1, <2>2, <2>3 DEF Ask, IndexInv
<1>3. SearchInv'
  <2> SUFFICES ASSUME NEW k \in DockerKinds
               PROVE  \A place \in {"info", "services"} :
                          at'[ClusterTask(k)] = place \/ holder'[place] = ClusterTask(k)
                            => at[ClusterTask(k)] = place \/ holder[place] = ClusterTask(k)
    BY DEF Ask, SearchInv, Unlisting, NodeNamed, Wanted
  <2> QED BY ClusterTasks DEF Ask, TypeOK, Keys
<1>4. NamesInv'
  BY DEF Ask, budgetVars, NamesInv, NodesKnown
<1> QED BY <1>1, <1>2, <1>3, <1>4

\* What a check does by itself tells it nothing about the containers.
LEMMA OwnShape ==
  ASSUME TypeOK, NEW t \in AllTasks, OwnStep(t)
  PROVE  /\ at' \in [AllTasks -> Places] /\ entry' \in [AllTasks -> Entries]
         /\ \A u \in AllTasks : at'[u] = at[u] \/ at'[u] \notin {"info", "services"}
         /\ \A u \in AllTasks : entry'[u] = entry[u] \/ entry'[u] \notin {"na", "missing"}
         /\ UNCHANGED <<phase, tasks, config, indexVars, knewNames, info>>
         /\ named' = named \/ (config.given /\ named' = named \cup {t})
<1> USE DEF TypeOK
<1>1. CASE Names(t)
  BY <1>1 DEF Names, Goes, budgetVars, Places, Keys
<1>2. CASE Fqdn(t)
  <2>1. CASE Goes(t, "names")
    BY <1>2, <2>1 DEF Fqdn, Goes, budgetVars, Places, Keys
  <2>2. CASE Gives(t, "error", "raised")
    BY <1>2, <2>2 DEF Fqdn, Gives, Budget!Answer, Places, Entries, Keys
  <2> QED BY <1>2, <2>1, <2>2 DEF Fqdn
<1>3. CASE Probe(t)
  <2>1. \E what \in {"probed", "error", "raised", "rows", "empty"} :
            Says(t, what) \/ Gives(t, "error", what)
    BY <1>3, Zenon DEF Probe
  <2>2. PICK what \in {"probed", "error", "raised", "rows", "empty"},
             answer \in {"value", "error"} :
            Gives(t, answer, what)
    BY <2>1, Zenon DEF Says
  <2> QED BY <1>3, <2>2 DEF Probe, Gives, Budget!Answer, Places, Entries, Keys
<1> QED BY <1>1, <1>2, <1>3 DEF OwnStep

LEMMA OwnStepKeeps ==
  ASSUME Inv, NEW t \in AllTasks, OwnStep(t)  PROVE  Inv'
<1> USE DEF Inv
<1>1. /\ at' \in [AllTasks -> Places] /\ entry' \in [AllTasks -> Entries]
      /\ \A u \in AllTasks : at'[u] = at[u] \/ at'[u] \notin {"info", "services"}
      /\ \A u \in AllTasks : entry'[u] = entry[u] \/ entry'[u] \notin {"na", "missing"}
      /\ UNCHANGED <<phase, tasks, config, indexVars, knewNames, info>>
      /\ named' = named \/ (config.given /\ named' = named \cup {t})
  BY OwnShape
<1>2. TypeOK'
  BY <1>1 DEF TypeOK, indexVars
<1>3. IndexInv'
  BY <1>1 DEF IndexInv, indexVars
<1>4. SearchInv'
  BY <1>1, ClusterTasks DEF SearchInv, indexVars, Unlisting, NodeNamed, Wanted
<1>5. NamesInv'
  BY <1>1 DEF NamesInv, indexVars, NodesKnown
<1> QED BY <1>2, <1>3, <1>4, <1>5

-----------------------------------------------------------------------------
(* Steps of the pass. *)

LEMMA OpenKeeps == ASSUME Inv, Open  PROVE  Inv'
<1> USE DEF Inv, Open, Budget!Open, indexVars
<1>1. \A t \in AllTasks : at'[t] \in Places \ {"info", "services"}
  BY DEF FirstStep, Places, Keys
<1>2. TypeOK'
  BY <1>1 DEF TypeOK
<1>3. IndexInv'
  BY DEF IndexInv
<1>4. SearchInv'
  BY <1>1, ClusterTasks DEF SearchInv, Unlisting, NodeNamed, Wanted
<1>5. NamesInv'
  BY DEF NamesInv, NodesKnown
<1> QED BY <1>2, <1>3, <1>4, <1>5

\* Steps that leave the checks and the index alone.
LEMMA PassKeeps ==
  ASSUME Inv, UNCHANGED <<config, at, indexVars, named, entry>>,
         knewNames' \in {knewNames, named # {}},
         info' # NoInfo => phase' # "open" /\ tasks' # {}
  PROVE  Inv'
<1> USE DEF Inv, indexVars
<1>1. TypeOK'
  BY DEF TypeOK
<1>2. IndexInv' /\ SearchInv'
  BY DEF IndexInv, SearchInv, Unlisting, NodeNamed, Wanted
<1>3. NamesInv'
  BY DEF NamesInv, NodesKnown
<1> QED BY <1>1, <1>2, <1>3

LEMMA NextKeeps == Inv /\ [Next]_vars => Inv'
<1> SUFFICES ASSUME Inv, [Next]_vars  PROVE  Inv'
  OBVIOUS
<1>1. CASE Open
  BY <1>1, OpenKeeps
<1>2. CASE Close
  BY <1>2, PassKeeps DEF Close, Budget!Close, Inv, NamesInv
<1>3. CASE Assemble
  BY <1>3, PassKeeps DEF Assemble, budgetVars
<1>4. CASE Exit
  BY <1>4, PassKeeps DEF Exit, Budget!Stop, Inv, NamesInv
<1>5. CASE Gone \/ UNCHANGED vars
  BY <1>5, PassKeeps DEF Gone, vars, budgetVars, Inv, NamesInv
<1>6. ASSUME NEW t \in AllTasks, ThreadStep(t)  PROVE  Inv'
  BY <1>6, OwnStepKeeps, AskKeeps, ReplyKeeps, ReuseKeeps DEF ThreadStep, DaemonStep
<1> QED BY <1>1, <1>2, <1>3, <1>4, <1>5, <1>6 DEF Next

\* Each step of each thread, of the daemon and of the pass keeps the listings, the
\* searches and the names in order, for any number of checks.
THEOREM Invariance == Spec => []Inv
BY Initially, NextKeeps, PTL DEF Spec

-----------------------------------------------------------------------------
(* The theorems. *)

\* The Docker daemon is asked for each listing at most once per pass: the lookup is
\* under the same lock as the request (ContainerIndex), for every interleaving of
\* any number of probes and whether or not a request fails.
THEOREM DaemonAskedOnce == Spec => []AskedOnce
<1>1. Inv => AskedOnce
  BY DEF Inv, IndexInv, AskedOnce
<1> QED BY <1>1, Invariance, PTL

\* locate_member only says "n/a here" or "no running container" of what the daemon
\* said: a listing that failed is never taken for one without the kind.
THEOREM AbsenceWasMeasured == Spec => []AbsenceIsMeasured
<1>1. Inv => AbsenceIsMeasured
  BY DEF Inv, SearchInv, AbsenceIsMeasured, Unlisting, NodeNamed, Wanted
<1> QED BY <1>1, Invariance, PTL

-----------------------------------------------------------------------------
(* Every kind once.                                                        *)

\* Sets of positions have a first one.
LEMMA FirstPosition ==
  ASSUME NEW T \in SUBSET Nat, T # {}
  PROVE  \E n \in T : \A m \in T : n <= m
<1> DEFINE Ups == {0..n : n \in T}
           R == StrictSubsetOrdering(Nat)
<1>1. IsWellFoundedOn(R, FiniteSubsetsOf(Nat))
  BY FS_StrictSubsetOrderingWellFounded
<1>2. Ups \subseteq FiniteSubsetsOf(Nat)
  <2>1. \A n \in T : IsFiniteSet(0..n) /\ 0..n \subseteq Nat
    BY FS_Interval
  <2> QED BY <2>1 DEF FiniteSubsetsOf
<1>3. Ups # {}
  OBVIOUS
<1>4. ASSUME NEW m \in Nat, NEW n \in Nat, m < n  PROVE  <<0..m, 0..n>> \in R
  <2>1. n \in 0..n /\ n \notin 0..m
    BY <1>4
  <2>2. 0..m \subseteq 0..n /\ 0..m # 0..n /\ 0..m \subseteq Nat /\ 0..n \subseteq Nat
    BY <1>4, <2>1
  <2> QED BY <2>2 DEF StrictSubsetOrdering
<1> HIDE DEF R
<1>5. PICK U \in Ups : \A V \in Ups : ~ (<<V, U>> \in R)
  BY <1>1, <1>2, <1>3, WFMin
<1>6. PICK n \in T : U = 0..n
  OBVIOUS
<1>7. \A m \in T : ~ (m < n)
  BY <1>4, <1>5, <1>6
<1> QED BY <1>7

\* list(dict.fromkeys(s)) has each of its members at one place.
LEMMA OnePlace ==
  ASSUME NEW S, NEW s \in Seq(S), NEW x \in ToSet(s)
  PROVE  \E i \in FirstPlaces(s) : {j \in FirstPlaces(s) : s[j] = x} = {i}
<1> DEFINE T == {i \in DOMAIN s : s[i] = x}
<1>1. T \in SUBSET Nat /\ T # {}
  BY DEF ToSet
<1>2. PICK i \in T : \A j \in T : i <= j
  BY <1>1, FirstPosition
<1>3. i \in FirstPlaces(s) /\ s[i] = x
  BY <1>2 DEF FirstPlaces
<1>4. ASSUME NEW j \in FirstPlaces(s), s[j] = x  PROVE  j = i
  <2>1. j \in T /\ j <= i
    BY <1>3, <1>4 DEF FirstPlaces
  <2>2. i <= j /\ i \in Nat /\ j \in Nat
    BY <1>1, <1>2, <2>1
  <2> QED BY <2>1, <2>2
<1> QED BY <1>3, <1>4

\* What is known of the answers, and of the verdicts once the call has closed.  A
\* probe of a cluster never raises: its failures are entries of their own.
AnswerInv ==
    /\ config \in Configs
    /\ answered \in [AllTasks -> {"none", "value", "error"}]
    /\ tasks \in {{}, Registered}
    /\ \A t \in AllTasks : at[t] = "fqdn" => t = DnsTask
    /\ \A k \in ClusterKinds : answered[ClusterTask(k)] # "error"
    /\ phase # "open" =>
         \A t \in tasks :
             /\ verdict[t] \in {"result", "failed", "truncated"}
             /\ verdict[t] = "result" => answered[t] # "none"
             /\ verdict[t] = "failed" => answered[t] = "error"

LEMMA RegisteredTasks == ASSUME config \in Configs  PROVE  Registered \subseteq AllTasks
BY HealthAssumption
   DEF Registered, RunnableKinds, Runnable, AllTasks, ClusterTask, SystemdTask, PeersTask, DnsTask

LEMMA AnswersInitially == Init => AnswerInv
BY DEF Init, Budget!Init, AnswerInv, Registered, AllTasks, ClusterKinds

\* What a step of a thread may do to the answers: give one, once, and an error only
\* where a check may raise.
Answering ==
    /\ UNCHANGED <<phase, tasks, verdict>>
    /\ answered' \in [AllTasks -> {"none", "value", "error"}]
    /\ \A t \in AllTasks :
          /\ answered[t] # "none" => answered'[t] = answered[t] /\ entry'[t] = entry[t]
          /\ at'[t] = "fqdn" => at[t] = "fqdn"
    /\ \A k \in ClusterKinds : answered'[ClusterTask(k)] # "error"

LEMMA GoesIsAnswering ==
  ASSUME TypeOK, AnswerInv, NEW t \in AllTasks, NEW place, place # "fqdn", Goes(t, place)
  PROVE  Answering
BY DEF AnswerInv, TypeOK, Goes, budgetVars, Answering

LEMMA GivesIsAnswering ==
  ASSUME TypeOK, AnswerInv, NEW t \in AllTasks, NEW answer \in {"value", "error"}, NEW what,
         answer = "error" => t \in {SystemdTask, DnsTask},
         Gives(t, answer, what)
  PROVE  Answering
<1>1. /\ answered[t] = "none" /\ answered'[t] = answer
      /\ answered' \in [AllTasks -> {"none", "value", "error"}]
      /\ \A u \in AllTasks \ {t} : answered'[u] = answered[u]
      /\ UNCHANGED <<phase, tasks, verdict>>
  BY DEF AnswerInv, Gives, Budget!Answer
<1>2. \A u \in AllTasks \ {t} : entry'[u] = entry[u]
  BY DEF Gives, TypeOK
<1>3. \A u \in AllTasks : at'[u] = "fqdn" => at[u] = "fqdn"
  BY DEF Gives, TypeOK
<1>4. ASSUME NEW k \in ClusterKinds  PROVE  answered'[ClusterTask(k)] # "error"
  <2>1. ClusterTask(k) \in AllTasks /\ ClusterTask(k) \notin {SystemdTask, DnsTask}
    BY DEF AllTasks, ClusterTask, SystemdTask, DnsTask
  <2> QED BY <1>1, <2>1 DEF AnswerInv
<1> QED BY <1>1, <1>2, <1>3, <1>4 DEF Answering

LEMMA ConcludesIsAnswering ==
  ASSUME TypeOK, AnswerInv, NEW t \in AllTasks, NEW key \in Keys, NEW reply,
         Concludes(t, key, reply)
  PROVE  Answering
<1>1. \/ \E place \in {"probe", "info", "services"} : Goes(t, place)
      \/ \E what \in {"error", "na", "missing"} : Says(t, what)
  BY DEF Concludes, Keys
<1> QED BY <1>1, GoesIsAnswering, GivesIsAnswering DEF Says

LEMMA ThreadIsAnswering ==
  ASSUME TypeOK, AnswerInv, NEW t \in AllTasks, ThreadStep(t)
  PROVE  Answering /\ UNCHANGED <<config, knewNames, info>>
<1>1. CASE Names(t)
  <2>1. PICK place \in {"probe", "nodes"} : Goes(t, place)
    BY <1>1 DEF Names
  <2> QED BY <1>1, <2>1, GoesIsAnswering DEF Names
<1>2. CASE Fqdn(t)
  <2>1. t = DnsTask
    BY <1>2 DEF Fqdn, AnswerInv
  <2> QED BY <1>2, <2>1, GoesIsAnswering, GivesIsAnswering DEF Fqdn
<1>3. CASE Probe(t)
  <2>1. \E what \in {"probed", "error", "rows", "empty", "raised"} :
            \/ Gives(t, "value", what)
            \/ t = SystemdTask /\ Gives(t, "error", what)
    BY <1>3, Zenon DEF Probe, Says
  <2>2. UNCHANGED <<config, knewNames, info>>
    BY <1>3 DEF Probe
  <2> QED BY <2>1, <2>2, GivesIsAnswering
<1>4. ASSUME NEW key \in Keys, Ask(t, key)
      PROVE  Answering /\ UNCHANGED <<config, knewNames, info>>
  BY <1>4 DEF Ask, AnswerInv, TypeOK, budgetVars, Answering
<1>5. ASSUME NEW key \in Keys, Reply(t, key)
      PROVE  Answering /\ UNCHANGED <<config, knewNames, info>>
  BY <1>5, ConcludesIsAnswering DEF Reply
<1>6. ASSUME NEW key \in Keys, Reuse(t, key)
      PROVE  Answering /\ UNCHANGED <<config, knewNames, info>>
  BY <1>6, ConcludesIsAnswering DEF Reuse
<1> QED BY <1>1, <1>2, <1>3, <1>4, <1>5, <1>6 DEF ThreadStep, OwnStep, DaemonStep

LEMMA AnsweringKeeps ==
  ASSUME AnswerInv, Answering, UNCHANGED config  PROVE  AnswerInv'
<1>1. tasks \subseteq AllTasks
  BY RegisteredTasks DEF AnswerInv
<1>2. (tasks \in {{}, Registered})'
  BY DEF AnswerInv, Answering, Registered, RunnableKinds, EnabledKinds, Runnable, Kind
<1> QED BY <1>1, <1>2 DEF AnswerInv, Answering

LEMMA OpenKeepsAnswers == ASSUME TypeOK, AnswerInv, Open  PROVE  AnswerInv'
<1> USE DEF Open, Budget!Open
<1>1. (tasks \in {{}, Registered})'
  BY DEF AnswerInv, Registered, RunnableKinds, EnabledKinds, Runnable, Kind
<1>2. \A t \in AllTasks : at'[t] = "fqdn" => t = DnsTask
  BY DEF FirstStep
<1>3. \A k \in ClusterKinds : answered'[ClusterTask(k)] # "error"
  BY DEF AllTasks
<1> QED BY <1>1, <1>2, <1>3 DEF AnswerInv

\* The call gives every check one of the three verdicts.
LEMMA CloseKeepsAnswers == ASSUME AnswerInv, Close  PROVE  AnswerInv'
<1> USE DEF Close, Budget!Close
<1>1. PICK late \in SUBSET tasks : verdict' = Budget!Judgement(late)
  OBVIOUS
<1>2. tasks \subseteq AllTasks
  BY RegisteredTasks DEF AnswerInv
<1>3. ASSUME NEW t \in tasks
      PROVE  /\ verdict'[t] \in {"result", "failed", "truncated"}
             /\ verdict'[t] = "result" => answered[t] # "none"
             /\ verdict'[t] = "failed" => answered[t] = "error"
  <2>1. verdict'[t] =
          CASE t \notin tasks -> "none"
            [] t \in tasks /\ (t \in late \/ answered[t] = "none") -> "truncated"
            [] t \in tasks \ late /\ answered[t] = "value" -> "result"
            [] t \in tasks \ late /\ answered[t] = "error" -> "failed"
    BY <1>1, <1>2 DEF Budget!Judgement
  <2>2. answered[t] \in {"none", "value", "error"}
    BY <1>2 DEF AnswerInv
  <2>3. CASE t \in late \/ answered[t] = "none"
    BY <2>1, <2>3
  <2>4. CASE t \notin late /\ answered[t] = "value"
    BY <2>1, <2>4
  <2>5. CASE t \notin late /\ answered[t] = "error"
    BY <2>1, <2>5
  <2> QED BY <2>2, <2>3, <2>4, <2>5
<1>4. (tasks \in {{}, Registered})'
  BY DEF AnswerInv, Registered, RunnableKinds, EnabledKinds, Runnable, Kind
<1> QED BY <1>3, <1>4 DEF AnswerInv

\* Steps after the call.
LEMMA AfterKeepsAnswers ==
  ASSUME AnswerInv, UNCHANGED <<tasks, answered, verdict, config, at>>,
         phase' # "open" => phase # "open"
  PROVE  AnswerInv'
<1>1. (tasks \in {{}, Registered})'
  BY DEF AnswerInv, Registered, RunnableKinds, EnabledKinds, Runnable, Kind
<1> QED BY <1>1 DEF AnswerInv

LEMMA AnswersKeep == Inv /\ AnswerInv /\ [Next]_vars => AnswerInv'
<1> SUFFICES ASSUME Inv, AnswerInv, [Next]_vars  PROVE  AnswerInv'
  OBVIOUS
<1>1. CASE Open
  BY <1>1, OpenKeepsAnswers DEF Inv
<1>2. CASE Close
  BY <1>2, CloseKeepsAnswers
<1>3. CASE Assemble
  BY <1>3, AfterKeepsAnswers DEF Assemble, budgetVars
<1>4. CASE Exit
  BY <1>4, AfterKeepsAnswers DEF Exit, Budget!Stop
<1>5. CASE Gone \/ UNCHANGED vars
  BY <1>5, AfterKeepsAnswers DEF Gone, vars, budgetVars
<1>6. ASSUME NEW t \in AllTasks, ThreadStep(t)  PROVE  AnswerInv'
  BY <1>6, ThreadIsAnswering, AnsweringKeeps DEF Inv
<1> QED BY <1>1, <1>2, <1>3, <1>4, <1>5, <1>6 DEF Next

\* The call has closed and the HealthInfo is put together.
LEMMA Assembling ==
  ASSUME Inv, AnswerInv, Assemble
  PROVE  /\ tasks = Registered /\ Registered \subseteq AllTasks
         /\ \A t \in tasks : verdict[t] \in {"result", "failed", "truncated"}
         /\ \A k \in ClusterKinds : ClusterTask(k) \in tasks => ~ Failed(ClusterTask(k))
         /\ info'.clusters = ClusterRows
         /\ info'.host = HostRows
         /\ info'.truncated = {t[2] : t \in {u \in tasks : Has(u, "truncated")}}
         /\ info'.peers_probed = PeersProbed
         /\ UNCHANGED <<tasks, verdict, config, entry, knewNames>>
<1>1. /\ tasks = Registered /\ Registered \subseteq AllTasks
      /\ \A t \in tasks : verdict[t] \in {"result", "failed", "truncated"}
      /\ \A t \in tasks : verdict[t] = "failed" => answered[t] = "error"
  BY RegisteredTasks DEF Assemble, AnswerInv
<1>2. \A k \in ClusterKinds : ClusterTask(k) \in tasks => ~ Failed(ClusterTask(k))
  BY <1>1 DEF AnswerInv, Failed, Has
<1> QED BY <1>1, <1>2 DEF Assemble, budgetVars

LEMMA KindsAreApart ==
  /\ DockerKinds \cap HostRunKinds = {} /\ ClusterKinds \cap HostKinds = {}
  /\ \A k \in ClusterKinds \cup HostKinds : k \notin {"peers", "dns"}
BY HealthAssumption DEF ClusterKinds, HostRunKinds, HostKinds, StateKinds

\* The place of a kind, and what is said of it.
LEMMA SaidOf ==
  ASSUME Inv, AnswerInv, Assemble, NEW k \in ToSet(config.enabled)
  PROVE  /\ k \in ClusterKinds \cup HostKinds
         /\ Cardinality({j \in DOMAIN info'.clusters : info'.clusters[j].kind = k})
              = IF (Runnable(k) /\ HasClusterRow(k)) \/ Unchecked(k) THEN 1 ELSE 0
         /\ Cardinality({j \in DOMAIN info'.host : info'.host[j] = k})
              = IF HasHostRow(k) THEN 1 ELSE 0
         /\ Runnable(k) => ClusterTask(k) \in tasks
         /\ k = "systemd" => SystemdTask \in tasks
         /\ k \in info'.truncated <=>
              \/ Runnable(k) /\ Has(ClusterTask(k), "truncated")
              \/ k = "systemd" /\ Has(SystemdTask, "truncated")
<1>1. config.enabled \in Seq(ClusterKinds \cup HostKinds)
  BY HealthAssumption DEF AnswerInv
<1>2. PICK i \in EnabledKinds : {j \in EnabledKinds : Kind(j) = k} = {i}
  BY <1>1, OnePlace DEF EnabledKinds, Kind
<1>3. Kind(i) = k /\ \A j \in EnabledKinds : Kind(j) = k => j = i
  BY <1>2
<1>4. k \in ClusterKinds \cup HostKinds
  BY <1>1 DEF ToSet
<1>5. Cardinality({i}) = 1 /\ Cardinality({}) = 0
  BY FS_Singleton, FS_EmptySet
<1>6. Cardinality({j \in DOMAIN info'.clusters : info'.clusters[j].kind = k})
        = IF (Runnable(k) /\ HasClusterRow(k)) \/ Unchecked(k) THEN 1 ELSE 0
  <2> DEFINE here == {j \in DOMAIN ClusterRows : ClusterRows[j].kind = k}
  <2>1. info'.clusters = ClusterRows
    BY Assembling
  <2>2. \A j \in DOMAIN ClusterRows : ClusterRows[j].kind = Kind(j)
    BY DEF ClusterRows
  <2>3. DOMAIN ClusterRows
          = {j \in RunnableKinds : HasClusterRow(Kind(j))} \cup UncheckedKinds
    BY DEF ClusterRows
  <2>4. \A j : j \in here <=>
            j = i /\ ((Runnable(k) /\ HasClusterRow(k)) \/ Unchecked(k))
    BY <1>3, <2>2, <2>3 DEF RunnableKinds, UncheckedKinds
  <2>5. here = IF (Runnable(k) /\ HasClusterRow(k)) \/ Unchecked(k) THEN {i} ELSE {}
    BY <2>4
  <2> QED BY <1>5, <2>1, <2>5
<1>7. Cardinality({j \in DOMAIN info'.host : info'.host[j] = k})
        = IF HasHostRow(k) THEN 1 ELSE 0
  <2> DEFINE here == {j \in DOMAIN HostRows : HostRows[j] = k}
  <2>1. info'.host = HostRows
    BY Assembling
  <2>2. \A j : j \in here <=> j = i /\ HasHostRow(k)
    BY <1>3 DEF HostRows
  <2>3. here = IF HasHostRow(k) THEN {i} ELSE {}
    BY <2>2
  <2> QED BY <1>5, <2>1, <2>3
<1>8. tasks = Registered
  BY Assembling
<1>9. Runnable(k) => ClusterTask(k) \in tasks
  BY <1>3, <1>8 DEF Registered, RunnableKinds
<1>10. k = "systemd" => SystemdTask \in tasks
  BY <1>3, <1>8 DEF Registered
<1>11. k \in info'.truncated <=>
          \/ Runnable(k) /\ Has(ClusterTask(k), "truncated")
          \/ k = "systemd" /\ Has(SystemdTask, "truncated")
  <2>1. k \in info'.truncated <=> \E t \in tasks : Has(t, "truncated") /\ t[2] = k
    BY Assembling
  <2>2. ASSUME NEW t \in tasks, t[2] = k
        PROVE  \/ Runnable(k) /\ t = ClusterTask(k)
               \/ k = "systemd" /\ t = SystemdTask
    <3>1. k \notin {"peers", "dns"}
      BY <1>4, KindsAreApart
    <3>2. t \notin {PeersTask, DnsTask}
      BY <2>2, <3>1 DEF PeersTask, DnsTask
    <3>3. CASE t = SystemdTask
      BY <2>2, <3>3 DEF SystemdTask
    <3>4. ASSUME NEW j \in RunnableKinds, t = ClusterTask(Kind(j))
          PROVE  Runnable(k) /\ t = ClusterTask(k)
      BY <2>2, <3>4 DEF RunnableKinds, ClusterTask
    <3> QED BY <1>8, <3>2, <3>3, <3>4 DEF Registered
  <2>3. ClusterTask(k)[2] = k /\ SystemdTask[2] = "systemd"
    BY DEF ClusterTask, SystemdTask
  <2> QED BY <1>9, <1>10, <2>1, <2>2, <2>3
<1> QED BY <1>4, <1>6, <1>7, <1>9, <1>10, <1>11

LEMMA AccountsForKind ==
  ASSUME Inv, AnswerInv, Assemble, NEW k \in ToSet(config.enabled)
  PROVE  Mentions(k)' = IF k \in DockerKinds /\ ~ config.client /\ ~ config.docker
                        THEN 0 ELSE 1
<1>1. Mentions(k)' =
        (IF (Runnable(k) /\ HasClusterRow(k)) \/ Unchecked(k) THEN 1 ELSE 0)
          + (IF HasHostRow(k) THEN 1 ELSE 0)
          + (IF k \in info'.truncated THEN 1 ELSE 0)
  BY SaidOf DEF Mentions
<1>2. /\ k \in ClusterKinds \cup HostKinds
      /\ Runnable(k) => ClusterTask(k) \in tasks
      /\ k = "systemd" => SystemdTask \in tasks
      /\ k \in info'.truncated <=>
           \/ Runnable(k) /\ Has(ClusterTask(k), "truncated")
           \/ k = "systemd" /\ Has(SystemdTask, "truncated")
  BY SaidOf
<1>3. \A t \in tasks : verdict[t] \in {"result", "failed", "truncated"}
  BY Assembling
<1>4. CASE k \in ClusterKinds
  <2>1. k \notin HostKinds /\ (k \in DockerKinds <=> k \notin HostRunKinds)
    BY <1>4, KindsAreApart DEF ClusterKinds
  <2>2. ~ HasHostRow(k) /\ k # "systemd"
    BY <2>1 DEF HasHostRow, HostKinds
  <2>3. CASE Runnable(k)
    <3>1. HasClusterRow(k) <=> ~ Has(ClusterTask(k), "truncated")
      BY <1>2, <1>3, <2>3 DEF HasClusterRow, Answered, Result, Failed, Has
    <3>2. ~ Unchecked(k) /\ ~ (k \in DockerKinds /\ ~ config.client)
      BY <1>4, <2>1, <2>3 DEF Unchecked, Runnable
    <3> QED BY <1>1, <1>2, <2>2, <2>3, <3>1, <3>2
  <2>4. CASE ~ Runnable(k)
    <3>1. k \in DockerKinds /\ ~ config.client /\ (Unchecked(k) <=> config.docker)
      BY <1>4, <2>1, <2>4 DEF Unchecked, Runnable
    <3>2. Mentions(k)' = IF Unchecked(k) THEN 1 ELSE 0
      BY <1>1, <1>2, <2>2, <2>4
    <3> QED BY <3>1, <3>2
  <2> QED BY <2>3, <2>4
<1>5. CASE k \in HostKinds
  <2>1. k \notin ClusterKinds /\ k \notin DockerKinds
    BY <1>5, KindsAreApart DEF ClusterKinds
  <2>2. ~ Runnable(k) /\ ~ Unchecked(k)
    BY <2>1 DEF Runnable, Unchecked
  <2>3. HasHostRow(k) <=> ~ (k = "systemd" /\ Has(SystemdTask, "truncated"))
    BY <1>2, <1>3, <1>5
       DEF HasHostRow, HostKinds, StateKinds, Answered, Result, Failed, Has
  <2> QED BY <1>1, <1>2, <2>1, <2>2, <2>3
<1> QED BY <1>2, <1>4, <1>5

LEMMA AssembledRowsAreTrue ==
  ASSUME Inv, AnswerInv, Assemble, NEW i \in DOMAIN ClusterRows,
         NEW row, row = ClusterRows[i]
  PROVE  TrueRow(row)'
<1>1. i \in {j \in RunnableKinds : HasClusterRow(Kind(j))} \cup UncheckedKinds
  BY DEF ClusterRows
<1>2. row = [kind |-> Kind(i),
             says |-> IF i \in RunnableKinds THEN RowFor(ClusterTask(Kind(i))) ELSE "unchecked"]
  BY <1>1 DEF ClusterRows
<1>3. UNCHANGED <<tasks, verdict, config, entry>>
  BY Assembling
<1>4. \/ i \in RunnableKinds /\ HasClusterRow(Kind(i))
      \/ i \in UncheckedKinds /\ i \notin RunnableKinds
  <2>1. UncheckedKinds \cap RunnableKinds = {}
    BY DEF UncheckedKinds, RunnableKinds, Unchecked
  <2> QED BY <1>1, <2>1
<1>5. CASE i \in RunnableKinds /\ HasClusterRow(Kind(i))
  <2> DEFINE t == ClusterTask(Kind(i))
  <2>1. Kind(i) \in ClusterKinds /\ t \in tasks /\ t \in AllTasks
    BY <1>5, Assembling DEF Registered, RunnableKinds, Runnable, AllTasks
  <2>2. Result(t)
    BY <1>5, <2>1, Assembling DEF HasClusterRow, Answered
  <2>3. row.kind = Kind(i) /\ row.says = entry[t]
    BY <1>2, <1>5, <2>2 DEF RowFor
  <2>4. entry[t] # "unchecked"
    BY <2>1 DEF Inv, TypeOK, Entries
  <2> QED BY <1>3, <2>1, <2>2, <2>3, <2>4 DEF TrueRow, Result, Has
<1>6. CASE i \in UncheckedKinds /\ i \notin RunnableKinds
  <2>1. row.kind = Kind(i) /\ row.says = "unchecked"
    BY <1>2, <1>6
  <2>2. config.docker /\ ~ config.client /\ Kind(i) \in DockerKinds
    BY <1>6 DEF UncheckedKinds, Unchecked, Runnable, ClusterKinds
  <2> QED BY <1>3, <2>1, <2>2 DEF TrueRow
<1> QED BY <1>4, <1>5, <1>6

LEMMA AssembleIsTrue == ASSUME Inv, AnswerInv, Assemble  PROVE  RowsAreAnswers'
<1>1. EveryKindOnce'
  <2>1. UNCHANGED config
    BY Assembling
  <2> QED BY <2>1, AccountsForKind DEF EveryKindOnce
<1>2. (\A i \in DOMAIN info.clusters : TrueRow(info.clusters[i]))'
  <2>1. info'.clusters = ClusterRows
    BY Assembling
  <2>2. \A i \in DOMAIN ClusterRows : \A row : row = ClusterRows[i] => TrueRow(row)'
    BY AssembledRowsAreTrue
  <2> QED BY <2>1, <2>2 DEF TrueRow
<1>3. knewNames' => info'.peers_probed
  BY Assembling DEF Inv, NamesInv, PeersProbed
<1> QED BY <1>1, <1>2, <1>3 DEF RowsAreAnswers

\* What has been put together stays as it is, and true: an answer that came too
\* late changes no entry a row was made of.
LEMMA RowsStayTrue ==
  ASSUME RowsAreAnswers, AnswerInv, phase # "open",
         UNCHANGED <<info, config, tasks, verdict, knewNames>>,
         \A t \in tasks : answered[t] # "none" => entry'[t] = entry[t]
  PROVE  RowsAreAnswers'
<1> SUFFICES ASSUME info # NoInfo  PROVE  RowsAreAnswers'
  BY DEF RowsAreAnswers
<1>1. EveryKindOnce'
  BY DEF RowsAreAnswers, EveryKindOnce, Mentions
<1>2. ASSUME NEW row, TrueRow(row)  PROVE  TrueRow(row)'
  BY <1>2 DEF TrueRow, AnswerInv
<1>3. (\A i \in DOMAIN info.clusters : TrueRow(info.clusters[i]))'
  BY <1>2 DEF RowsAreAnswers
<1> QED BY <1>1, <1>3 DEF RowsAreAnswers

LEMMA RowsKeep == Inv /\ AnswerInv /\ RowsAreAnswers /\ [Next]_vars => RowsAreAnswers'
<1> SUFFICES ASSUME Inv, AnswerInv, RowsAreAnswers, [Next]_vars  PROVE  RowsAreAnswers'
  OBVIOUS
<1>1. CASE Open
  BY <1>1 DEF Open, Inv, NamesInv, RowsAreAnswers
<1>2. CASE Close
  BY <1>2 DEF Close, Budget!Close, Inv, NamesInv, RowsAreAnswers
<1>3. CASE Assemble
  BY <1>3, AssembleIsTrue
<1>4. CASE Exit
  BY <1>4, RowsStayTrue DEF Exit, Budget!Stop
<1>5. CASE Gone \/ UNCHANGED vars
  <2>1. CASE info = NoInfo
    BY <1>5, <2>1 DEF Gone, vars, RowsAreAnswers
  <2> QED BY <1>5, <2>1, RowsStayTrue DEF Gone, vars, budgetVars, Inv, NamesInv
<1>6. ASSUME NEW t \in AllTasks, ThreadStep(t)  PROVE  RowsAreAnswers'
  <2>1. Answering /\ UNCHANGED <<config, knewNames, info>>
    BY <1>6, ThreadIsAnswering DEF Inv
  <2>2. CASE info = NoInfo
    BY <2>1, <2>2 DEF RowsAreAnswers
  <2>3. CASE info # NoInfo
    <3>1. phase # "open" /\ tasks \subseteq AllTasks
      BY <2>3, RegisteredTasks DEF Inv, NamesInv, AnswerInv
    <3> QED BY <2>1, <3>1, RowsStayTrue DEF Answering
  <2> QED BY <2>2, <2>3
<1> QED BY <1>1, <1>2, <1>3, <1>4, <1>5, <1>6 DEF Next

\* A blown budget is never shown as a verdict, no enabled kind is lost or told twice,
\* and a peers check that was cut off with names in hand counts as probed: for any
\* list of kinds, any order of the checks and whatever answers late.
THEOREM RowsWereAnswers == Spec => []RowsAreAnswers
<1>1. Init => RowsAreAnswers
  BY DEF Init, RowsAreAnswers
<1> QED BY <1>1, AnswersInitially, AnswersKeep, RowsKeep, Invariance, PTL DEF Spec
=============================================================================
