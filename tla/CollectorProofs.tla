-------------------------- MODULE CollectorProofs ---------------------------
(***************************************************************************)
(* Theorems about Collector, for any hosts, sizes and limits.              *)
(***************************************************************************)
EXTENDS Collector, TLAPS

-----------------------------------------------------------------------------
(* The inductive invariant. *)

Dumps   == {Absent} \cup [exists : {TRUE}, of : Nat, parts : Nat]
Rates   == {Nothing} \cup [given : {TRUE}, requests : Int, real : Int]
Counts  == {Nothing} \cup [given : {TRUE}, at : Nat, n : Nat]
Sums    == {Nothing} \cup [given : {TRUE}, total : Int, at : Nat, served : Nat]
Codes   == {"none", "not-installed", "parse", "internal", "cleanup"}
States  == [written_at : Nat, vrrp : Dumps, error : Codes, apache : Rates,
            updates : Counts, asked : Nat, kept : BOOLEAN]

InCollect == pc \in {"collect", "vrrp", "apache", "updates", "cleanup", "write"}

TypeOK ==
    /\ clock \in Nat /\ served \in Nat /\ since \in Nat
    /\ dump \in Dumps /\ work \in Dumps /\ copy \in Dumps
    /\ writing => dump.exists
    /\ totals \in Sums
    /\ state \in States /\ host \in States
    /\ wrote \in BOOLEAN
    /\ InHelper \/ InCollect \/ pc \in {"idle", "stopped"}

\* A copy that the run's own attempts left behind is in its state before that is
\* published.
CopyInv ==
    /\ InHelper \/ InCollect => ~ wrote
    /\ pc = "write" /\ copy.exists => state.error = "cleanup"
    /\ wrote /\ copy.exists => host.error = "cleanup"

WholeAndAsked(s) == s.vrrp.parts = Parts /\ s.vrrp.of >= s.asked

\* From the sweep on, every dump there is answers this run's signal, or a later
\* one; what is moved, read and published is one of these.
VrrpInv ==
    /\ pc \in {"signal", "poll", "copy", "move"} =>
         /\ state.asked <= clock
         /\ dump.exists => dump.of >= state.asked
         /\ work.exists => work.of >= state.asked
    /\ work.exists <=> pc = "move"
    /\ InHelper => ~ state.vrrp.exists /\ (copy.exists => state.kept)
    /\ InCollect /\ copy.exists /\ ~ state.kept => copy.of >= state.asked
    /\ state.vrrp.exists /\ ~ state.kept => WholeAndAsked(state)
    /\ host.vrrp.exists /\ ~ host.kept => WholeAndAsked(host)

Honest(rate) == rate.given => rate.requests \in 0..rate.real

\* No restart of the web server that the totals do not know of lies before them.
RateInv ==
    /\ since <= served
    /\ totals.given => /\ totals.served - totals.total <= since
                       /\ totals.served <= served
    /\ Honest(state.apache) /\ Honest(host.apache)

InTime(count) == count.given => count.n >= count.at

FreshInv ==
    /\ state.written_at <= clock
    /\ InTime(state.updates) /\ InTime(host.updates)

Inv == TypeOK /\ CopyInv /\ VrrpInv /\ RateInv /\ FreshInv

-----------------------------------------------------------------------------
(* The records. *)

LEMMA Constants == Parts \in Nat \ {0} /\ MaxClock \in Nat /\ Never \in Nat
BY CollectorAssumption DEF Never

LEMMA DumpFields ==
  /\ Absent \in Dumps /\ ~ Absent.exists
  /\ \A n, p \in Nat : [exists |-> TRUE, of |-> n, parts |-> p] \in Dumps
  /\ \A d \in Dumps : /\ d.exists \in BOOLEAN
                      /\ d.exists => d.of \in Nat /\ d.parts \in Nat
<1>1. Absent \in Dumps /\ Absent.exists = FALSE
  BY DEF Dumps, Absent
<1>2. \A n, p \in Nat : [exists |-> TRUE, of |-> n, parts |-> p] \in Dumps
  BY DEF Dumps
<1>3. \A d \in [exists : {TRUE}, of : Nat, parts : Nat] :
          d.exists = TRUE /\ d.of \in Nat /\ d.parts \in Nat
  OBVIOUS
<1> QED BY <1>1, <1>2, <1>3 DEF Dumps

LEMMA RealDump ==
  ASSUME NEW d \in Dumps, d.exists
  PROVE  d = [exists |-> TRUE, of |-> d.of, parts |-> d.parts]
<1>1. d # Absent
  BY DumpFields
<1>2. d \in [exists : {TRUE}, of : Nat, parts : Nat]
  BY <1>1 DEF Dumps
<1> QED BY <1>2

LEMMA NothingGiven ==
  /\ Nothing \in Rates \cap Counts \cap Sums
  /\ ~ Nothing.given /\ Honest(Nothing) /\ InTime(Nothing)
BY DEF Rates, Counts, Sums, Nothing, Honest, InTime

LEMMA SumFields ==
  ASSUME NEW s \in Sums
  PROVE  /\ s.given \in BOOLEAN
         /\ s.given => s.total \in Int /\ s.at \in Nat /\ s.served \in Nat
<1>1. Nothing.given = FALSE
  BY DEF Nothing
<1>2. CASE s \in [given : {TRUE}, total : Int, at : Nat, served : Nat]
  BY <1>2
<1> QED BY <1>1, <1>2 DEF Sums

LEMMA StateFields ==
  ASSUME NEW s \in States
  PROVE  /\ s.written_at \in Nat /\ s.vrrp \in Dumps /\ s.error \in Codes
         /\ s.apache \in Rates /\ s.updates \in Counts
         /\ s.asked \in Nat /\ s.kept \in BOOLEAN
BY DEF States

LEMMA FreshState ==
  ASSUME NEW k \in BOOLEAN
  PROVE  LET s == [NoState EXCEPT !.kept = k] IN
         /\ s \in States
         /\ s.written_at = 0 /\ s.vrrp = Absent /\ s.apache = Nothing
         /\ s.updates = Nothing /\ s.asked = Never /\ s.kept = k
<1>1. [NoState EXCEPT !.kept = k] =
        [written_at |-> 0, vrrp |-> Absent, error |-> "none", apache |-> Nothing,
         updates |-> Nothing, asked |-> Never, kept |-> k]
  BY DEF NoState
<1> QED BY <1>1, Constants, DumpFields, NothingGiven DEF States, Codes

LEMMA EmptyState ==
  /\ NoState \in States
  /\ NoState.written_at = 0 /\ NoState.vrrp = Absent /\ NoState.apache = Nothing
  /\ NoState.updates = Nothing /\ NoState.asked = Never /\ NoState.kept = FALSE
BY Constants, DumpFields, NothingGiven DEF NoState, States, Codes

-----------------------------------------------------------------------------
(* The invariant is kept. *)

LEMMA Initially == Init => Inv
<1> SUFFICES ASSUME Init  PROVE  Inv
  OBVIOUS
<1> USE DEF Init
<1>1. TypeOK
  BY EmptyState, NothingGiven, DumpFields DEF TypeOK
<1>2. CopyInv /\ VrrpInv
  BY EmptyState, DumpFields DEF CopyInv, VrrpInv, InHelper, InCollect
<1>3. RateInv /\ FreshInv
  BY EmptyState, NothingGiven DEF RateInv, FreshInv
<1> QED BY <1>1, <1>2, <1>3 DEF Inv

\* What goes on around the service: the clock, the dump and the counters only move
\* forward.
LEMMA WorldShape ==
  ASSUME TypeOK, RateInv, World
  PROVE  /\ clock' \in Nat /\ clock' >= clock
         /\ dump' \in Dumps
         /\ dump'.exists /\ dump' # dump => dump'.of = clock \/ dump'.of = dump.of
         /\ dump'.exists => dump'.of = clock \/ (dump.exists /\ dump'.of = dump.of)
         /\ writing' => dump'.exists
         /\ served' \in Nat /\ since' \in Nat
         /\ since <= since' /\ since' <= served' /\ served <= served'
         /\ UNCHANGED <<config, pc, helperVars, copy, totals, state, host, wrote>>
<1> USE DEF World, TypeOK, RateInv
<1>1. CASE Serve
  BY <1>1, DumpFields DEF Serve
<1>2. CASE WritePart
  <2>1. /\ dump = [exists |-> TRUE, of |-> dump.of, parts |-> dump.parts]
        /\ dump.of \in Nat /\ dump.parts \in Nat
    BY <1>2, RealDump, DumpFields DEF WritePart
  <2>2. dump' = [exists |-> TRUE, of |-> dump.of, parts |-> dump.parts + 1]
    BY <1>2, <2>1 DEF WritePart
  <2> QED BY <1>2, <2>1, <2>2, DumpFields DEF WritePart
<1>3. CASE Switch
  BY <1>3 DEF Switch
<1>4. CASE Request \/ Restart
  BY <1>4 DEF Request, Restart
<1>5. CASE Tick
  BY <1>5 DEF Tick
<1>6. CASE Stick
  BY <1>6 DEF Stick
<1> QED BY <1>1, <1>2, <1>3, <1>4, <1>5, <1>6

LEMMA WorldKeeps == ASSUME Inv, World  PROVE  Inv'
<1> USE DEF Inv
<1>1. /\ clock' \in Nat /\ clock' >= clock
      /\ dump' \in Dumps
      /\ dump'.exists => dump'.of = clock \/ (dump.exists /\ dump'.of = dump.of)
      /\ writing' => dump'.exists
      /\ served' \in Nat /\ since' \in Nat
      /\ since <= since' /\ since' <= served' /\ served <= served'
      /\ UNCHANGED <<config, pc, helperVars, copy, totals, state, host, wrote>>
  BY WorldShape
<1>2. TypeOK'
  BY <1>1 DEF TypeOK, helperVars, InHelper, InCollect
<1>3. CopyInv'
  BY <1>1 DEF CopyInv, InHelper, InCollect
<1>4. VrrpInv'
  <2>1. state.asked \in Nat /\ clock \in Nat
    BY StateFields DEF TypeOK
  <2>2. state.asked <= clock => state.asked <= clock'
    BY <1>1, <2>1
  <2> QED BY <1>1, <2>1, <2>2, DumpFields DEF VrrpInv, helperVars, InHelper, InCollect, TypeOK,
             WholeAndAsked
<1>5. RateInv'
  <2>1. totals.given => totals.total \in Int /\ totals.served \in Nat
    BY SumFields DEF TypeOK
  <2> QED BY <1>1, <2>1 DEF RateInv, TypeOK
<1>6. FreshInv'
  BY <1>1, StateFields DEF FreshInv, TypeOK
<1> QED BY <1>2, <1>3, <1>4, <1>5, <1>6

LEMMA StartKeeps == ASSUME Inv, Start  PROVE  Inv'
<1> USE DEF Inv
<1>1. /\ state' \in States
      /\ state'.written_at = 0 /\ state'.vrrp = Absent /\ state'.apache = Nothing
      /\ state'.updates = Nothing /\ state'.kept = copy.exists
  BY FreshState, DumpFields DEF Start, TypeOK
<1>2. /\ pc' = "helper" /\ wrote' = FALSE
      /\ UNCHANGED <<worldVars, dump, helperVars, copy, totals, host>>
  BY DEF Start
<1>3. TypeOK'
  BY <1>1, <1>2 DEF TypeOK, worldVars, helperVars, InHelper
<1>4. CopyInv' /\ VrrpInv'
  BY <1>1, <1>2, DumpFields DEF Start, CopyInv, VrrpInv, WholeAndAsked, InHelper, InCollect,
     helperVars, TypeOK
<1>5. RateInv' /\ FreshInv'
  BY <1>1, <1>2, NothingGiven DEF RateInv, FreshInv, worldVars, TypeOK
<1> QED BY <1>3, <1>4, <1>5

\* The steps of the helper neither publish nor count.
LEMMA HelperKeepsRest ==
  ASSUME Inv, InHelper, (InHelper \/ InCollect)', pc' # "write",
         UNCHANGED <<clock, served, since, totals, host, wrote>>,
         state' \in States,
         state'.apache = state.apache, state'.updates = state.updates,
         state'.written_at = state.written_at,
         copy' = copy \/ copy' = work,
         work' \in {work, dump, Absent},
         dump' \in {dump, Absent}, writing' => writing /\ dump' = dump
  PROVE  TypeOK' /\ CopyInv' /\ RateInv' /\ FreshInv'
<1>1. TypeOK'
  BY DumpFields DEF Inv, TypeOK
<1>2. CopyInv'
  BY DEF Inv, CopyInv
<1>3. RateInv' /\ FreshInv'
  BY DEF Inv, RateInv, FreshInv
<1> QED BY <1>1, <1>2, <1>3

LEMMA SweepKeeps == ASSUME Inv, Sweep  PROVE  Inv'
<1> USE DEF Inv
<1>1. state' = [written_at |-> state.written_at, vrrp |-> state.vrrp,
                error |-> state.error, apache |-> state.apache,
                updates |-> state.updates, asked |-> clock, kept |-> state.kept]
  BY DEF Sweep, TypeOK, States
<1>2. state' \in States
  BY <1>1, StateFields DEF States, TypeOK
<1>3. /\ pc = "helper" /\ pc' = "signal"
      /\ dump' = Absent /\ writing' = FALSE
      /\ UNCHANGED <<clock, served, since, helperVars, copy, totals, host, wrote>>
  BY DEF Sweep, Sweeps, Removes
<1>4. TypeOK' /\ CopyInv' /\ RateInv' /\ FreshInv'
  BY <1>1, <1>2, <1>3, HelperKeepsRest DEF InHelper, helperVars
<1>5. VrrpInv'
  BY <1>1, <1>3, DumpFields DEF VrrpInv, InHelper, InCollect, helperVars, TypeOK
<1> QED BY <1>4, <1>5

\* The other steps of the helper, by where it is and goes.
LEMMA HelperShape ==
  ASSUME Helper, ~ Sweep
  PROVE  /\ InHelper /\ (InHelper \/ InCollect)' /\ pc' # "write"
         /\ UNCHANGED <<clock, served, since, totals, state, host, wrote>>
         /\ \/ /\ pc \in {"signal", "poll"}
               /\ pc' \in {"signal", "poll", "copy"}
               /\ UNCHANGED <<dump, writing, work, copy>>
            \/ /\ Copy
            \/ /\ pc' = "collect"
               /\ UNCHANGED <<dump, writing, work, copy>>
               /\ pc # "move"
            \/ /\ pc' = "collect" /\ pc = "move"
               /\ work' = Absent /\ copy' = work
               /\ Removes
            \/ /\ pc' = "collect"
               /\ work' = Absent /\ copy' = copy
               /\ Removes \/ UNCHANGED <<dump, writing>>
<1> USE DEF InHelper, InCollect, worldVars, helperVars
<1>1. CASE NobodyToAsk
  BY <1>1 DEF NobodyToAsk, HelperExits
<1>2. CASE Signal
  BY <1>2 DEF Signal, HelperExits
<1>3. CASE Poll
  BY <1>3 DEF Poll, HelperExits
<1>4. CASE Copy
  BY <1>4 DEF Copy
<1>5. CASE Move
  BY <1>5 DEF Move, HelperExits
<1>6. CASE Refuse
  BY <1>6 DEF Refuse, HelperExits
<1>7. CASE GiveUp
  BY <1>7 DEF GiveUp, HelperExits
<1>8. CASE HelperDies
  BY <1>8 DEF HelperDies, HelperExits
<1> QED BY <1>1, <1>2, <1>3, <1>4, <1>5, <1>6, <1>7, <1>8 DEF Helper

LEMMA HelperKeeps == ASSUME Inv, Helper, ~ Sweep  PROVE  Inv'
<1> USE DEF Inv
<1>1. /\ InHelper /\ (InHelper \/ InCollect)' /\ pc' # "write"
      /\ UNCHANGED <<clock, served, since, totals, state, host, wrote>>
  BY HelperShape
<1>2. CASE /\ pc \in {"signal", "poll"} /\ pc' \in {"signal", "poll", "copy"}
           /\ UNCHANGED <<dump, writing, work, copy>>
  <2>1. VrrpInv'
    BY <1>1, <1>2 DEF VrrpInv, InHelper, InCollect, WholeAndAsked
  <2> QED BY <1>1, <1>2, <2>1, HelperKeepsRest DEF TypeOK
<1>3. CASE Copy
  <2>1. /\ pc = "copy" /\ pc' = "move" /\ dump.exists /\ work' = dump
        /\ UNCHANGED <<dump, writing, copy>>
    BY <1>3 DEF Copy, worldVars
  <2>2. VrrpInv'
    BY <1>1, <2>1 DEF VrrpInv, InHelper, InCollect, WholeAndAsked
  <2> QED BY <1>1, <2>1, <2>2, HelperKeepsRest DEF TypeOK
<1>4. CASE /\ pc' = "collect" /\ pc # "move"
           /\ UNCHANGED <<dump, writing, work, copy>>
  <2>1. VrrpInv'
    BY <1>1, <1>4 DEF VrrpInv, InHelper, InCollect, WholeAndAsked
  <2> QED BY <1>1, <1>4, <2>1, HelperKeepsRest DEF TypeOK
<1>5. CASE /\ pc' = "collect" /\ pc = "move"
           /\ work' = Absent /\ copy' = work
           /\ Removes
  <2>1. VrrpInv'
    BY <1>1, <1>5, DumpFields DEF VrrpInv, InHelper, InCollect, WholeAndAsked
  <2> QED BY <1>1, <1>5, <2>1, HelperKeepsRest DEF TypeOK, Removes
<1>6. CASE /\ pc' = "collect"
           /\ work' = Absent /\ copy' = copy
           /\ Removes \/ UNCHANGED <<dump, writing>>
  <2>1. VrrpInv'
    BY <1>1, <1>6, DumpFields DEF VrrpInv, InHelper, InCollect, WholeAndAsked
  <2> QED BY <1>1, <1>6, <2>1, HelperKeepsRest DEF TypeOK, Removes
<1> QED BY <1>2, <1>3, <1>4, <1>5, <1>6, HelperShape

-----------------------------------------------------------------------------
(* status-collect. *)

\* A step from one place to the next with another state.
LEMMA BecomesKeeps ==
  ASSUME Inv, InCollect, NEW place, NEW next \in States, Becomes(place, next),
         place \in {"vrrp", "apache", "updates", "cleanup", "write"},
         copy' \in {copy, Absent},
         next.asked = state.asked, next.kept = state.kept,
         totals' \in Sums,
         totals'.given => totals'.served - totals'.total <= since /\ totals'.served <= served,
         place = "write" /\ copy'.exists => next.error = "cleanup",
         next.vrrp.exists /\ ~ next.kept => WholeAndAsked(next),
         Honest(next.apache),
         next.written_at <= clock, InTime(next.updates)
  PROVE  Inv'
<1> USE DEF Inv, Becomes, worldVars, helperVars
<1>1. TypeOK'
  BY DumpFields DEF TypeOK, InCollect
<1>2. CopyInv'
  BY DEF CopyInv, InHelper, InCollect
<1>3. VrrpInv'
  BY DumpFields DEF VrrpInv, InHelper, InCollect, WholeAndAsked
<1>4. RateInv' /\ FreshInv'
  BY DEF RateInv, FreshInv
<1> QED BY <1>1, <1>2, <1>3, <1>4

LEMMA BeginKeeps == ASSUME Inv, Begin  PROVE  Inv'
<1> DEFINE next == [state EXCEPT !.written_at = clock]
<1>1. state \in States /\ clock \in Nat
  BY DEF Inv, TypeOK
<1>2. /\ next \in States /\ next.written_at = clock /\ next.vrrp = state.vrrp
      /\ next.apache = state.apache /\ next.updates = state.updates
      /\ next.asked = state.asked /\ next.kept = state.kept
  BY <1>1 DEF States
<1> HIDE DEF next
<1>3. Becomes("vrrp", next) /\ pc = "collect" /\ UNCHANGED <<copy, totals>>
  BY DEF Begin, next
<1> QED BY <1>1, <1>2, <1>3, BecomesKeeps
      DEF Inv, TypeOK, VrrpInv, RateInv, FreshInv, WholeAndAsked, InCollect

\* The copy is published only if it is whole, and every outcome is a state.
LEMMA VrrpKeeps == ASSUME Inv, Vrrp  PROVE  Inv'
<1> DEFINE coded(code) == [state EXCEPT !.error = code]
           shown(code) == [state EXCEPT !.vrrp = copy, !.error = code]
<1>1. state \in States /\ copy \in Dumps /\ pc = "vrrp" /\ UNCHANGED totals
  BY DEF Inv, TypeOK, Vrrp
<1>2. \A code \in Codes :
         /\ coded(code) \in States /\ coded(code).written_at = state.written_at
         /\ coded(code).vrrp = state.vrrp
         /\ coded(code).apache = state.apache /\ coded(code).updates = state.updates
         /\ coded(code).asked = state.asked /\ coded(code).kept = state.kept
  BY <1>1 DEF States
<1>3. \A code \in Codes :
         /\ shown(code) \in States /\ shown(code).written_at = state.written_at
         /\ shown(code).vrrp = copy
         /\ shown(code).apache = state.apache /\ shown(code).updates = state.updates
         /\ shown(code).asked = state.asked /\ shown(code).kept = state.kept
  BY <1>1 DEF States
<1>4. {Cleanup("parse"), Cleanup("none"), "not-installed", "internal"} \subseteq Codes
  BY DEF Cleanup, Codes
<1>5. \/ Becomes("apache", state) /\ UNCHANGED copy
      \/ \E code \in Codes : Becomes("apache", coded(code)) /\ copy' \in {copy, Absent}
      \/ \E code \in Codes : /\ Becomes("apache", shown(code)) /\ copy' \in {copy, Absent}
                             /\ copy.exists /\ copy.parts = Parts
  BY <1>4, Zenon DEF Vrrp, Left
<1> HIDE DEF coded, shown
<1> USE DEF Inv, TypeOK, VrrpInv, RateInv, FreshInv, InCollect
<1>6. CASE Becomes("apache", state) /\ UNCHANGED copy
  BY <1>1, <1>6, BecomesKeeps
<1>7. ASSUME NEW code \in Codes, Becomes("apache", coded(code)), copy' \in {copy, Absent}
      PROVE  Inv'
  BY <1>1, <1>2, <1>7, BecomesKeeps DEF WholeAndAsked
<1>8. ASSUME NEW code \in Codes, Becomes("apache", shown(code)), copy' \in {copy, Absent},
             copy.exists, copy.parts = Parts
      PROVE  Inv'
  <2>1. ~ state.kept => WholeAndAsked(shown(code))
    BY <1>1, <1>3, <1>8 DEF WholeAndAsked
  <2> QED BY <1>1, <1>3, <1>8, <2>1, BecomesKeeps
<1> QED BY <1>5, <1>6, <1>7, <1>8

\* A total that went down since is a restart, and then there is no rate.
LEMMA ApacheKeeps == ASSUME Inv, Apache  PROVE  Inv'
<1> DEFINE rate == [given |-> TRUE, requests |-> Total - totals.total,
                    real |-> served - totals.served]
           block == IF HasRate THEN rate ELSE Nothing
           next == [state EXCEPT !.apache = block]
           sums == [given |-> TRUE, total |-> Total, at |-> state.written_at,
                    served |-> served]
<1>1. /\ state \in States /\ totals \in Sums /\ pc = "apache" /\ UNCHANGED copy
      /\ served \in Nat /\ since \in Nat
  BY DEF Inv, TypeOK, Apache
<1>2. Total = served - since /\ Total \in Int
  BY <1>1 DEF Total
<1>3. block \in Rates /\ Honest(block)
  <2>1. CASE HasRate
    <3>1. /\ totals.total \in Int /\ totals.served \in Nat
          /\ Total >= totals.total
          /\ totals.served - totals.total <= since
      BY <1>1, <2>1, SumFields DEF HasRate, Inv, RateInv
    <3>2. /\ Total - totals.total \in Int /\ served - totals.served \in Int
          /\ 0 <= Total - totals.total /\ Total - totals.total <= served - totals.served
      BY <1>1, <1>2, <3>1
    <3> QED BY <2>1, <3>2 DEF Rates, Honest
  <2>2. CASE ~ HasRate
    BY <2>2, NothingGiven
  <2> QED BY <2>1, <2>2
<1>4. sums \in Sums /\ sums.served - sums.total <= since /\ sums.served <= served
  BY <1>1, <1>2, StateFields DEF Sums
<1> HIDE DEF block, sums
<1>5. /\ next \in States /\ next.written_at = state.written_at /\ next.vrrp = state.vrrp
      /\ next.apache = block /\ next.updates = state.updates
      /\ next.asked = state.asked /\ next.kept = state.kept
  BY <1>1, <1>3 DEF States
<1> HIDE DEF next
<1>6. \/ Becomes("updates", state) /\ UNCHANGED totals
      \/ Becomes("updates", next) /\ totals' \in {sums, totals}
  BY DEF Apache, next, block, sums
<1> USE DEF Inv, TypeOK, VrrpInv, RateInv, FreshInv, InCollect
<1>7. CASE Becomes("updates", state) /\ UNCHANGED totals
  BY <1>1, <1>7, BecomesKeeps
<1>8. CASE Becomes("updates", next) /\ totals' \in {sums, totals}
  BY <1>1, <1>3, <1>4, <1>5, <1>8, BecomesKeeps DEF WholeAndAsked
<1> QED BY <1>6, <1>7, <1>8

\* A new answer carries the time the run began at, an old one its own.
LEMMA UpdatesKeeps == ASSUME Inv, Updates  PROVE  Inv'
<1> DEFINE next(count) == [state EXCEPT !.updates = count]
           new == [given |-> TRUE, at |-> state.written_at, n |-> clock]
<1>1. /\ state \in States /\ clock \in Nat /\ pc = "updates" /\ UNCHANGED <<copy, totals>>
      /\ state.written_at \in Nat /\ state.written_at <= clock
  BY StateFields DEF Inv, TypeOK, Updates, FreshInv
<1>2. Previous \in Counts /\ InTime(Previous)
  BY StateFields DEF Inv, TypeOK, FreshInv, Previous
<1>3. new \in Counts /\ InTime(new)
  BY <1>1 DEF Counts, InTime
<1> HIDE DEF new
<1>4. PICK count \in {Previous, new, Nothing} : Becomes("cleanup", next(count))
  BY Zenon DEF Updates, Answered, Kept, new
<1>5. count \in Counts /\ InTime(count)
  BY <1>2, <1>3, <1>4, NothingGiven
<1>6. /\ next(count) \in States /\ next(count).written_at = state.written_at
      /\ next(count).vrrp = state.vrrp
      /\ next(count).apache = state.apache /\ next(count).updates = count
      /\ next(count).asked = state.asked /\ next(count).kept = state.kept
  BY <1>1, <1>5 DEF States
<1> HIDE DEF next
<1> QED BY <1>1, <1>4, <1>5, <1>6, BecomesKeeps
      DEF Inv, TypeOK, VrrpInv, RateInv, FreshInv, WholeAndAsked, InCollect

\* The last look at the copy: it is gone, or the state says that it is not.
LEMMA CleanUpKeeps == ASSUME Inv, CleanUp  PROVE  Inv'
<1> DEFINE next == [state EXCEPT !.error = Cleanup(@)]
<1>1. state \in States /\ pc = "cleanup" /\ UNCHANGED totals
  BY DEF Inv, TypeOK, CleanUp
<1>2. Cleanup(state.error) \in Codes
  BY <1>1, StateFields DEF Cleanup, Codes
<1>3. /\ next \in States /\ next.written_at = state.written_at /\ next.vrrp = state.vrrp
      /\ next.apache = state.apache /\ next.updates = state.updates
      /\ next.asked = state.asked /\ next.kept = state.kept
      /\ next.error = Cleanup(state.error)
  BY <1>1, <1>2 DEF States
<1> HIDE DEF next
<1> USE DEF Inv, TypeOK, VrrpInv, RateInv, FreshInv, InCollect
<1>4. CASE Becomes("write", next) /\ copy' = Left(copy)
  <2>1. copy' \in {copy, Absent} /\ (copy'.exists => next.error = "cleanup")
    BY <1>3, <1>4, DumpFields DEF Left, Cleanup
  <2> QED BY <1>1, <1>3, <1>4, <2>1, BecomesKeeps DEF WholeAndAsked
<1>5. CASE ~ copy.exists /\ Becomes("write", state) /\ UNCHANGED copy
  BY <1>1, <1>5, BecomesKeeps
<1> QED BY <1>4, <1>5 DEF CleanUp, FinalRemoval, next

\* What is published is the state of the run.
LEMMA WriteKeeps == ASSUME Inv, Write  PROVE  Inv'
<1> USE DEF Inv, Write, worldVars, helperVars
<1>1. (host' = state /\ wrote' = TRUE) \/ (UNCHANGED <<host, wrote>> /\ wrote = FALSE)
  BY DEF CopyInv, InHelper, InCollect, TypeOK
<1>2. TypeOK'
  BY <1>1, EmptyState DEF TypeOK
<1>3. CopyInv'
  BY <1>1 DEF CopyInv, InHelper, InCollect
<1>4. VrrpInv'
  BY <1>1, EmptyState, DumpFields DEF VrrpInv, InHelper, InCollect, WholeAndAsked
<1>5. RateInv' /\ FreshInv'
  BY <1>1, EmptyState, NothingGiven DEF RateInv, FreshInv, TypeOK
<1> QED BY <1>2, <1>3, <1>4, <1>5

LEMMA StopPostKeeps == ASSUME Inv, StopPost  PROVE  Inv'
<1> USE DEF Inv, StopPost, worldVars, helperVars
<1>1. copy' \in {copy, Absent}
  BY DEF Left
<1>2. TypeOK'
  BY <1>1, DumpFields DEF TypeOK
<1>3. CopyInv'
  BY <1>1, DumpFields DEF CopyInv, InHelper, InCollect
<1>4. VrrpInv'
  BY <1>1, DumpFields DEF VrrpInv, InHelper, InCollect, WholeAndAsked
<1>5. RateInv' /\ FreshInv'
  BY DEF RateInv, FreshInv
<1> QED BY <1>2, <1>3, <1>4, <1>5

\* A run that is killed publishes nothing.
LEMMA DieKeeps == ASSUME Inv, Die  PROVE  Inv'
<1> USE DEF Inv, Die, worldVars
<1>1. TypeOK'
  BY EmptyState, DumpFields DEF TypeOK
<1>2. CopyInv'
  BY DEF CopyInv, TypeOK, InHelper, InCollect
<1>3. VrrpInv'
  BY EmptyState, DumpFields DEF VrrpInv, InHelper, InCollect, WholeAndAsked
<1>4. RateInv' /\ FreshInv'
  BY EmptyState, NothingGiven DEF RateInv, FreshInv, TypeOK
<1> QED BY <1>1, <1>2, <1>3, <1>4

LEMMA StutterKeeps == ASSUME Inv, UNCHANGED vars  PROVE  Inv'
BY DEF Inv, TypeOK, CopyInv, VrrpInv, RateInv, FreshInv, vars, worldVars, helperVars,
       InHelper, InCollect, WholeAndAsked

LEMMA NextKeeps == Inv /\ [Next]_vars => Inv'
BY WorldKeeps, StartKeeps, SweepKeeps, HelperKeeps, BeginKeeps, VrrpKeeps, ApacheKeeps,
   UpdatesKeeps, CleanUpKeeps, WriteKeeps, StopPostKeeps, DieKeeps, StutterKeeps
   DEF Next, Collect

\* Each step of the helper, of a run, of keepalived and of the clock keeps what is
\* known of the copy of the dump, the totals and the count of updates.
THEOREM Invariance == Spec => []Inv
BY Initially, NextKeeps, PTL DEF Spec

-----------------------------------------------------------------------------
(* The theorems. *)

\* The copy of the dump never outlives a run that published, unless the state it
\* published says so: run()'s `finally` and ExecStopPost between them, for every
\* order of kills and of times the directory refuses deletions.
THEOREM CopyNeverUnreported == Spec => []CopyIsGoneOrReported
<1>1. Inv => CopyIsGoneOrReported
  BY DEF Inv, CopyInv, CopyIsGoneOrReported
<1> QED BY <1>1, Invariance, PTL

\* A published VRRP block is a whole dump, written after this run's helper asked.
THEOREM VrrpIsNeverOld == Spec => []VrrpIsThisRuns
<1>1. Inv => VrrpIsThisRuns
  BY DEF Inv, VrrpInv, WholeAndAsked, VrrpIsThisRuns
<1> QED BY <1>1, Invariance, PTL

\* The request rate only claims requests that were served in its window
\* (_window_and_rate), across restarts of the web server.
THEOREM RateNeverInvents == Spec => []RateIsTrue
<1>1. Inv => RateIsTrue
  BY DEF Inv, RateInv, Honest, RateIsTrue
<1> QED BY <1>1, Invariance, PTL

\* A count of updates was never taken before the time it carries: neither a failed
\* simulation nor the hourly limit refreshes an old answer.
THEOREM FailureNeverRefreshes == Spec => []FailedCheckIsNotFresh
<1>1. Inv => FailedCheckIsNotFresh
  BY DEF Inv, FreshInv, InTime, FailedCheckIsNotFresh
<1> QED BY <1>1, Invariance, PTL
=============================================================================
