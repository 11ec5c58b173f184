-------------------------- MODULE TelemetryProofs --------------------------
(***************************************************************************)
(* What devices report: the counts of plays (PlayEvents) and the notices   *)
(* of outages (DeviceAlerts), each for any number of events, devices and   *)
(* incidents, and any bounds on the time.                                  *)
(*                                                                         *)
(* Both jobs read, and write what they concluded after the world has gone  *)
(* on.  So both invariants speak of what a run saw as well as of what is.  *)
(***************************************************************************)
EXTENDS DeviceAlerts, PlayEvents, FiniteSetTheorems, TLAPS

-----------------------------------------------------------------------------
(* Sums over finite sets. *)

(* Among the subsets of a finite set that have a property one is smallest. *)
LEMMA SmallestOf ==
  ASSUME NEW F, IsFiniteSet(F), NEW B \in SUBSET (SUBSET F), B # {}
  PROVE  \E U \in B : \A V \in SUBSET U : V # U => V \notin B
<1> DEFINE R == StrictSubsetOrdering(F)
<1>1. IsWellFoundedOn(R, FiniteSubsetsOf(F)) BY FS_StrictSubsetOrderingWellFounded
<1>2. B \subseteq FiniteSubsetsOf(F) BY FS_Subset DEF FiniteSubsetsOf
<1> HIDE DEF R
<1>3. PICK U \in B : \A V \in B : ~ (<<V, U>> \in R) BY <1>1, <1>2, WFMin, Zenon
<1>4. ASSUME NEW V \in SUBSET U, V # U, V \in B PROVE FALSE
  <2>1. <<V, U>> \in R BY <1>4 DEF R, StrictSubsetOrdering
  <2> QED BY <2>1, <1>3, <1>4
<1> QED BY <1>4

(* MapThenSumSet, unfolded: the function of the subsets of T that recurses *)
(* on itself, and its value at T.                                          *)
AnyOf(s) == CHOOSE x \in s : TRUE

IsSum(h, f, T) ==
  h = [s \in SUBSET T |-> IF s = {} THEN 0 ELSE f[AnyOf(s)] + h[s \ {AnyOf(s)}]]

Total(f, T) == (CHOOSE h : IsSum(h, f, T))[T]

LEMMA AnyOfIn == ASSUME NEW s, s # {} PROVE AnyOf(s) \in s
BY DEF AnyOf

(* The sum over a subset is the same, whichever function it is taken from. *)
LEMMA SumsAgree ==
  ASSUME NEW f, NEW T, NEW V \in SUBSET T, IsFiniteSet(V),
         NEW h, IsSum(h, f, T), NEW k, IsSum(k, f, V)
  PROVE  \A s \in SUBSET V : h[s] = k[s]
<1> DEFINE B == {s \in SUBSET V : h[s] # k[s]}
<1>1. SUFFICES B = {} OBVIOUS
<1>2. SUFFICES ASSUME B # {} PROVE FALSE OBVIOUS
<1>3. PICK s \in B : \A r \in SUBSET s : r # s => r \notin B
  <2>1. B \in SUBSET (SUBSET V) OBVIOUS
  <2> HIDE DEF B
  <2> QED BY <1>2, <2>1, SmallestOf
<1>4. s \in SUBSET V /\ s \in SUBSET T /\ h[s] # k[s] BY <1>3
<1>5. h[s] = IF s = {} THEN 0 ELSE f[AnyOf(s)] + h[s \ {AnyOf(s)}] BY <1>4 DEF IsSum
<1>6. k[s] = IF s = {} THEN 0 ELSE f[AnyOf(s)] + k[s \ {AnyOf(s)}] BY <1>4 DEF IsSum
<1>7. s # {} BY <1>4, <1>5, <1>6
<1> DEFINE r == s \ {AnyOf(s)}
<1>8. r \in SUBSET s /\ r # s /\ r \in SUBSET V BY <1>4, <1>7, AnyOfIn
<1>9. h[r] = k[r] BY <1>8, <1>3
<1> QED BY <1>4, <1>5, <1>6, <1>7, <1>9

(* There is a function that recurses on itself: a smallest set without one *)
(* would have one, made of those of its subsets.                           *)
LEMMA SumExists ==
  ASSUME NEW f, NEW F, IsFiniteSet(F)
  PROVE  \A T \in SUBSET F : \E h : IsSum(h, f, T)
<1> DEFINE B == {T \in SUBSET F : ~ \E h : IsSum(h, f, T)}
<1>1. SUFFICES ASSUME B # {} PROVE FALSE OBVIOUS
<1>2. PICK U \in B : \A V \in SUBSET U : V # U => V \notin B
  <2>1. B \in SUBSET (SUBSET F) OBVIOUS
  <2> HIDE DEF B
  <2> QED BY <1>1, <2>1, SmallestOf
<1>3. U \in SUBSET F /\ ~ \E h : IsSum(h, f, U) BY <1>2
<1>4. \A V \in SUBSET U : V # U => \E h : IsSum(h, f, V) BY <1>2, <1>3
<1> DEFINE S(V) == CHOOSE h : IsSum(h, f, V)
           g == [s \in SUBSET U |-> IF s = {} THEN 0
                                    ELSE f[AnyOf(s)] + Total(f, s \ {AnyOf(s)})]
<1>5. \A V \in SUBSET U : V # U => IsSum(S(V), f, V) /\ Total(f, V) = S(V)[V]
  BY <1>4 DEF Total
<1> HIDE DEF B, S
<1>6. ASSUME NEW W \in SUBSET U, W # U
      PROVE  g[W] = Total(f, W)
  <2>1. IsSum(S(W), f, W) /\ Total(f, W) = S(W)[W] BY <1>5, <1>6
  <2>2. S(W)[W] = IF W = {} THEN 0 ELSE f[AnyOf(W)] + S(W)[W \ {AnyOf(W)}]
    BY <2>1 DEF IsSum
  <2>3. CASE W = {} BY <2>1, <2>2, <2>3
  <2>4. CASE W # {}
    <3> DEFINE X == W \ {AnyOf(W)}
    <3>1. X \in SUBSET W /\ X \in SUBSET U /\ X # U BY <2>4, <1>6, AnyOfIn
    <3>2. IsSum(S(X), f, X) /\ Total(f, X) = S(X)[X] BY <1>5, <3>1
    <3>3. IsFiniteSet(X) BY <3>1, <1>3, FS_Subset
    <3> HIDE DEF X
    <3>4. S(W)[X] = S(X)[X]
      <4>1. X \in SUBSET X OBVIOUS
      <4> QED BY <4>1, <3>1, <3>2, <3>3, <2>1, SumsAgree
    <3>5. g[W] = f[AnyOf(W)] + Total(f, X) BY <2>4 DEF X
    <3> QED BY <2>1, <2>2, <2>4, <3>2, <3>4, <3>5 DEF X
  <2> QED BY <2>3, <2>4
<1>7. IsSum(g, f, U)
  <2>1. ASSUME NEW s \in SUBSET U, s # {}
        PROVE  g[s \ {AnyOf(s)}] = Total(f, s \ {AnyOf(s)})
    <3>1. s \ {AnyOf(s)} \in SUBSET U /\ s \ {AnyOf(s)} # U BY <2>1, AnyOfIn
    <3> HIDE DEF g
    <3> QED BY <3>1, <1>6
  <2>2. \A s \in SUBSET U : (IF s = {} THEN 0 ELSE f[AnyOf(s)] + Total(f, s \ {AnyOf(s)}))
                           = IF s = {} THEN 0 ELSE f[AnyOf(s)] + g[s \ {AnyOf(s)}]
    <3> HIDE DEF g
    <3> QED BY <2>1
  <2>3. g = [s \in SUBSET U |-> IF s = {} THEN 0 ELSE f[AnyOf(s)] + g[s \ {AnyOf(s)}]]
    BY <2>2
  <2> HIDE DEF g
  <2> QED BY <2>3 DEF IsSum
<1> QED BY <1>3, <1>7

(* A sum is one of its terms and the sum of the others.                    *)
LEMMA SumStep ==
  ASSUME NEW f, NEW T, IsFiniteSet(T)
  PROVE  Total(f, T) = IF T = {} THEN 0
                       ELSE f[AnyOf(T)] + Total(f, T \ {AnyOf(T)})
<1> DEFINE S(V) == CHOOSE h : IsSum(h, f, V)
<1>1. \A V \in SUBSET T : IsSum(S(V), f, V) /\ Total(f, V) = S(V)[V]
  BY SumExists DEF Total
<1> HIDE DEF S
<1>2. S(T)[T] = IF T = {} THEN 0 ELSE f[AnyOf(T)] + S(T)[T \ {AnyOf(T)}]
  BY <1>1 DEF IsSum
<1> DEFINE X == T \ {AnyOf(T)}
<1>3. X \in SUBSET T /\ T \in SUBSET T /\ X \in SUBSET X OBVIOUS
<1>4. IsFiniteSet(X) BY FS_Subset
<1> HIDE DEF X
<1>5. S(T)[X] = S(X)[X]
  <2>1. IsSum(S(T), f, T) /\ IsSum(S(X), f, X) BY <1>1, <1>3
  <2> QED BY <2>1, <1>3, <1>4, SumsAgree
<1> QED BY <1>1, <1>2, <1>3, <1>5 DEF X

(* If no term is smaller the sum is not.                                   *)
LEMMA SumGrows ==
  ASSUME NEW F, IsFiniteSet(F), NEW f, NEW g,
         \A x \in F : f[x] \in Nat /\ g[x] \in Nat /\ f[x] <= g[x]
  PROVE  Total(f, F) \in Nat /\ Total(g, F) \in Nat /\ Total(f, F) <= Total(g, F)
<1> DEFINE OK(T) == Total(f, T) \in Nat /\ Total(g, T) \in Nat /\ Total(f, T) <= Total(g, T)
           B == {T \in SUBSET F : ~OK(T)}
<1>1. SUFFICES ASSUME B # {} PROVE FALSE
  <2>1. F \in SUBSET F OBVIOUS
  <2> QED BY <2>1
<1>2. PICK U \in B : \A V \in SUBSET U : V # U => V \notin B
  <2>1. B \in SUBSET (SUBSET F) OBVIOUS
  <2> HIDE DEF B
  <2> QED BY <1>1, <2>1, SmallestOf
<1>3. U \in SUBSET F /\ ~OK(U) /\ IsFiniteSet(U) BY <1>2, FS_Subset
<1>4. /\ Total(f, U) = IF U = {} THEN 0 ELSE f[AnyOf(U)] + Total(f, U \ {AnyOf(U)})
      /\ Total(g, U) = IF U = {} THEN 0 ELSE g[AnyOf(U)] + Total(g, U \ {AnyOf(U)})
  BY <1>3, SumStep
<1>5. U # {} BY <1>3, <1>4
<1> DEFINE a == AnyOf(U)
           V == U \ {a}
<1>6. a \in U BY <1>5, AnyOfIn
<1>7. V \in SUBSET U /\ V # U /\ V \in SUBSET F BY <1>6, <1>3
<1>8. OK(V) BY <1>7, <1>2
<1>9. f[a] \in Nat /\ g[a] \in Nat /\ f[a] <= g[a] BY <1>6, <1>3
<1>10. Total(f, U) = f[a] + Total(f, V) /\ Total(g, U) = g[a] + Total(g, V) BY <1>4, <1>5
<1> HIDE DEF a, V
<1> QED BY <1>3, <1>8, <1>9, <1>10

(* The sum of one count of each day.                                       *)
SumOf(counts, placement, T) ==
  (CHOOSE h : h = [s \in SUBSET T |->
                     IF s = {} THEN 0
                     ELSE counts[AnyOf(s)][placement] + h[s \ {AnyOf(s)}]])[T]

LEMMA SumOfIsTotal ==
  ASSUME NEW counts, NEW placement, NEW T
  PROVE  SumOf(counts, placement, T) = Total([d \in T |-> counts[d][placement]], T)
<1> DEFINE f == [d \in T |-> counts[d][placement]]
           Q(h) == h = [s \in SUBSET T |->
                          IF s = {} THEN 0
                          ELSE counts[AnyOf(s)][placement] + h[s \ {AnyOf(s)}]]
<1>1. SumOf(counts, placement, T) = (CHOOSE h : Q(h))[T]
  BY Zenon DEF SumOf
<1>2. ASSUME NEW h PROVE Q(h) <=> IsSum(h, f, T)
  <2>1. \A s \in SUBSET T : s # {} => f[AnyOf(s)] = counts[AnyOf(s)][placement]
    BY AnyOfIn
  <2> HIDE DEF f
  <2>2. [s \in SUBSET T |-> IF s = {} THEN 0
                            ELSE counts[AnyOf(s)][placement] + h[s \ {AnyOf(s)}]]
          = [s \in SUBSET T |-> IF s = {} THEN 0 ELSE f[AnyOf(s)] + h[s \ {AnyOf(s)}]]
    BY <2>1
  <2> QED BY <2>2 DEF IsSum
<1> HIDE DEF Q, f
<1>3. (CHOOSE h : Q(h)) = (CHOOSE h : IsSum(h, f, T)) BY <1>2
<1> QED BY <1>1, <1>3 DEF Total, f

-----------------------------------------------------------------------------
(* How often a submission was rendered.                                    *)

(* What can be said of the tables at any time, and of a run that looked at *)
(* them earlier: it saw every row that it may leave to itself (RunLooked), *)
(* what it does not count again was counted before (RunBegun), and what it *)
(* counts is between what it saw and what was ever accepted (RunCounted).  *)
Rendered == {e \in Events : started[e] # Null}

EventsOn(R, d) == {r.event : r \in {r \in R : DayOf(r.event) = d}}

AcceptedOn(d) == {e \in accepted : DayOf(e) = d}

AtMost(count, E) ==
  count.plays <= Cardinality(E \ Wall) /\ count.wall <= Cardinality(E \cap Wall)

AtLeast(count, E) ==
  Cardinality(E \ Wall) <= count.plays /\ Cardinality(E \cap Wall) <= count.wall

(* Rows that a run at time t or later need not look at again.              *)
Old(t) == {r \in rows : r.at <= t - Overlap}

(* The types, and that of the plays finitely many have been rendered.      *)
PlayShapes ==
  /\ now \in 0..MaxTime
  /\ started \in [Events -> (0..now) \cup {Null}]
  /\ IsFiniteSet(Rendered)
  /\ acked \subseteq Events
  /\ requests \subseteq [at : 0..now, events : SUBSET Rendered]
  /\ rows \subseteq [event : Rendered, at : 0..now]
  /\ daily \in [Days -> Count]
  /\ watermark \in (0..now) \cup {Null}
  /\ waiting \subseteq 0..now
  /\ horizon \in Int
  /\ accepted \subseteq Rendered
  /\ run # Null => run \in Job

(* An INSERT commits within its latency.                                   *)
InsertsInTime == \A q \in requests : now <= q.at + Latency

(* A play has one row, and was accepted with it.                           *)
RowsOnce ==
  /\ \A r, s \in rows : r.event = s.event => r = s
  /\ \A r \in rows : r.event \in accepted

(* Rows of the days that no run has found expired are never deleted.       *)
RetainedStay ==
  \A e \in accepted : DayOf(e) >= horizon => \E r \in rows : r.event = e

(* No count exceeds the plays accepted.                                    *)
CountsAreAccepted == \A d \in Days : AtMost(daily[d], AcceptedOn(d))

(* What the next run may leave alone is in the counts, for days that no    *)
(* run has found expired.                                                  *)
OldAreCounted ==
  watermark # Null =>
    \A d \in Days : d >= horizon =>
      AtLeast(daily[d], EventsOn(Old(watermark), d))

(* A run saw every row that is old by its start.                           *)
RunLooked ==
  run # Null =>
    /\ run.at <= now /\ run.looked \subseteq rows
    /\ Old(run.at) \subseteq run.looked
    /\ \A d \in run.days : d >= RetentionStart(run.at)

(* A day retained that the run does not count again has old rows only.     *)
RunBegun ==
  run # Null /\ run.step = "begun" =>
    \A r \in run.looked :
      DayOf(r.event) >= RetentionStart(run.at) /\ DayOf(r.event) \notin run.days
        => watermark # Null /\ r \in Old(watermark)

(* No count of a run exceeds the plays accepted, is below the count it     *)
(* replaces, unless it is of a day that was found expired and the run was  *)
(* overtaken, or misses a row that the run saw.                            *)
RunCounted ==
  run # Null /\ run.step = "counted" =>
    \A d \in Days :
      /\ AtMost(run.daily[d], AcceptedOn(d))
      /\ d >= horizon \/ ~Overtaken =>
           /\ daily[d].plays <= run.daily[d].plays
           /\ daily[d].wall <= run.daily[d].wall
      /\ d >= horizon /\ d >= RetentionStart(run.at) =>
           AtLeast(run.daily[d], EventsOn(run.looked, d))

(* The inductive invariant of PlayEvents.                                  *)
PlayInv ==
  /\ PlayShapes /\ InsertsInTime /\ RowsOnce /\ RetainedStay /\ CountsAreAccepted
  /\ OldAreCounted /\ RunLooked /\ RunBegun /\ RunCounted

-----------------------------------------------------------------------------
(* Time does not go back to an earlier day.                                *)
LEMMA DayGrows ==
  ASSUME NEW a \in Nat, NEW b \in Nat, a <= b
  PROVE  Day(a) \in Nat /\ Day(b) \in Nat /\ Day(a) <= Day(b)
<1> DEFINE L == DayLength
<1>1. L \in Nat \ {0} BY PlayEventsConstantsOK
<1>2. /\ a \div L \in Nat /\ a % L \in 0..(L - 1) /\ a = L * (a \div L) + (a % L)
      /\ b \div L \in Nat /\ b % L \in 0..(L - 1) /\ b = L * (b \div L) + (b % L)
  BY <1>1
<1> DEFINE x == a \div L
           y == b \div L
<1>3. ASSUME y < x PROVE FALSE
  <2>1. x \in Nat /\ y \in Nat BY <1>2
  <2>2. x >= y + 1 BY <2>1, <1>3
  <2>3. L * x >= L * (y + 1)
    <3> HIDE DEF x, y, L
    <3> QED BY <1>1, <2>1, <2>2
  <2>4. L * (y + 1) = L * y + L
    <3> HIDE DEF x, y, L
    <3> QED BY <1>1, <2>1
  <2> DEFINE lx == L * x
             ly == L * y
  <2>5. lx \in Nat /\ ly \in Nat
    <3> HIDE DEF x, y, L
    <3> QED BY <1>1, <2>1
  <2>6. lx >= ly + L BY <2>3, <2>4
  <2>7. a >= lx /\ b < ly + L
    <3>1. a % L \in Nat /\ b % L < L /\ b % L \in Nat BY <1>1, <1>2
    <3>2. a = lx + (a % L) /\ b = ly + (b % L) BY <1>2
    <3> HIDE DEF lx, ly, L
    <3> QED BY <3>1, <3>2, <2>5, <1>1
  <2> HIDE DEF lx, ly, L
  <2> QED BY <2>5, <2>6, <2>7, <1>1
<1> QED BY <1>2, <1>3 DEF Day

(* As many events as rows, if no two rows are of one event.                *)
LEMMA RowsAreEvents ==
  ASSUME NEW R, IsFiniteSet(R), \A r, s \in R : r.event = s.event => r = s
  PROVE  /\ IsFiniteSet({r.event : r \in R})
         /\ Cardinality({r.event : r \in R}) = Cardinality(R)
<1> DEFINE E == {r.event : r \in R}
           f == [r \in R |-> r.event]
<1>1. f \in Bijection(R, E)
  BY DEF Bijection, Injection, Surjection, IsInjective
<1>2. ExistsBijection(R, E) BY <1>1 DEF ExistsBijection
<1> HIDE DEF E
<1> QED BY <1>2, FS_Bijection DEF E

(* There are no more rows than plays rendered.                             *)
LEMMA RowsAreFinite ==
  ASSUME PlayShapes, RowsOnce
  PROVE  IsFiniteSet(rows)
<1> DEFINE f == [r \in rows |-> r.event]
<1>1. f \in Injection(rows, Rendered)
  BY DEF PlayShapes, RowsOnce, Injection, IsInjective
<1>2. IsFiniteSet(Rendered) BY DEF PlayShapes
<1> HIDE DEF f
<1> QED BY <1>1, <1>2, FS_Injection

(* More plays, more counted.                                               *)
LEMMA CountsGrow ==
  ASSUME NEW F, IsFiniteSet(F), NEW E \in SUBSET F, NEW c \in Count
  PROVE  /\ AtMost(c, E) => AtMost(c, F)
         /\ AtLeast(c, F) => AtLeast(c, E)
<1>1. /\ IsFiniteSet(F \ Wall) /\ IsFiniteSet(F \cap Wall) BY FS_Subset
<1>2. E \ Wall \subseteq F \ Wall /\ E \cap Wall \subseteq F \cap Wall OBVIOUS
<1>3. /\ Cardinality(E \ Wall) <= Cardinality(F \ Wall)
      /\ Cardinality(E \cap Wall) <= Cardinality(F \cap Wall)
      /\ IsFiniteSet(E \ Wall) /\ IsFiniteSet(E \cap Wall)
  BY <1>1, <1>2, FS_Subset
<1>4. /\ Cardinality(E \ Wall) \in Nat /\ Cardinality(F \ Wall) \in Nat
      /\ Cardinality(E \cap Wall) \in Nat /\ Cardinality(F \cap Wall) \in Nat
  BY <1>1, <1>3, FS_CardinalityType
<1>5. c.plays \in Nat /\ c.wall \in Nat BY DEF Count
<1> QED BY <1>3, <1>4, <1>5 DEF AtMost, AtLeast

(* What recompute counts are the plays that have rows.                     *)
LEMMA CountOfRows ==
  ASSUME PlayShapes, RowsOnce, NEW d
  PROVE  LET E == EventsOn(rows, d) IN
         /\ IsFiniteSet(E) /\ CountOf(d) \in Count
         /\ CountOf(d).plays = Cardinality(E \ Wall)
         /\ CountOf(d).wall = Cardinality(E \cap Wall)
<1> DEFINE of == {r \in rows : DayOf(r.event) = d}
           P == {r \in of : NotWall(r.event)}
           W == {r \in of : r.event \in Wall}
           E == EventsOn(rows, d)
<1>1. IsFiniteSet(rows) BY RowsAreFinite
<1>2. IsFiniteSet(P) /\ IsFiniteSet(W) /\ IsFiniteSet(of) BY <1>1, FS_Subset
<1>3. \A r, s \in rows : r.event = s.event => r = s BY DEF RowsOnce
<1>4. /\ {r.event : r \in P} = E \ Wall
      /\ {r.event : r \in W} = E \cap Wall
  BY DEF EventsOn, NotWall
<1>5. E = {r.event : r \in of} BY DEF EventsOn
<1>6. P \subseteq rows /\ W \subseteq rows /\ of \subseteq rows OBVIOUS
<1>7. CountOf(d) = [plays |-> Cardinality(P), wall |-> Cardinality(W)] BY DEF CountOf
<1> HIDE DEF P, W, E, of
<1>8. Cardinality(P) \in Nat /\ Cardinality(W) \in Nat BY <1>2, FS_CardinalityType
<1>9. /\ Cardinality({r.event : r \in P}) = Cardinality(P)
      /\ Cardinality({r.event : r \in W}) = Cardinality(W)
      /\ IsFiniteSet({r.event : r \in of})
  BY <1>2, <1>3, <1>6, RowsAreEvents
<1>10. IsFiniteSet(E) BY <1>5, <1>9
<1>11. /\ Cardinality(E \ Wall) = Cardinality(P)
       /\ Cardinality(E \cap Wall) = Cardinality(W)
  BY <1>4, <1>9
<1>12. /\ CountOf(d).plays = Cardinality(E \ Wall)
       /\ CountOf(d).wall = Cardinality(E \cap Wall)
  BY <1>7, <1>11
<1>13. CountOf(d) \in Count BY <1>7, <1>8 DEF Count
<1> QED BY <1>10, <1>12, <1>13 DEF E

(* Nor plays accepted.                                                     *)
LEMMA AcceptedIsFinite ==
  ASSUME PlayShapes, NEW d
  PROVE  IsFiniteSet(AcceptedOn(d))
<1>1. AcceptedOn(d) \subseteq Rendered /\ IsFiniteSet(Rendered)
  BY DEF PlayShapes, AcceptedOn
<1> QED BY <1>1, FS_Subset

(* While the plays and the tables stay, what is said of them stays.        *)
LEMMA TablesStay ==
  ASSUME PlayInv, UNCHANGED <<rows, accepted, daily, watermark, horizon>>,
         \A e \in Rendered : started'[e] = started[e]
  PROVE  RowsOnce' /\ RetainedStay' /\ CountsAreAccepted' /\ OldAreCounted'
<1>1. \A e \in Rendered : DayOf(e)' = DayOf(e) BY DEF DayOf, Day
<1>2. accepted \subseteq Rendered /\ \A r \in rows : r.event \in Rendered
  BY DEF PlayInv, PlayShapes
<1>3. RowsOnce' BY DEF PlayInv, RowsOnce
<1>4. \A t : RetentionStart(t)' = RetentionStart(t) BY DEF RetentionStart, Day
<1>5. RetainedStay' BY <1>1, <1>2, <1>4 DEF PlayInv, RetainedStay, RetentionStart, Day
<1>6. \A d : AcceptedOn(d)' = AcceptedOn(d) BY <1>1, <1>2 DEF AcceptedOn
<1>7. CountsAreAccepted'
  BY <1>6 DEF PlayInv, CountsAreAccepted, AtMost, Days, Day
<1>8. \A d : EventsOn(Old(watermark), d)' = EventsOn(Old(watermark), d)
  BY <1>1, <1>2 DEF EventsOn, Old
<1>9. OldAreCounted'
  BY <1>4, <1>8 DEF PlayInv, OldAreCounted, AtLeast, Days, Day, RetentionStart
<1> QED BY <1>3, <1>5, <1>7, <1>9

(* So does what is said of a run, while time passes.                       *)
LEMMA RunStays ==
  ASSUME PlayInv, UNCHANGED <<rows, accepted, daily, watermark, horizon, run>>,
         now' \in Nat, now <= now',
         \A e \in Rendered : started'[e] = started[e]
  PROVE  RunLooked' /\ RunBegun' /\ RunCounted'
<1>1. \A e \in Rendered : DayOf(e)' = DayOf(e) BY DEF DayOf, Day
<1>2. accepted \subseteq Rendered /\ \A r \in rows : r.event \in Rendered
  BY DEF PlayInv, PlayShapes
<1>3. RunLooked'
  BY DEF PlayInv, RunLooked, Old, PlayShapes, Job, RetentionStart, Day
<1>4. RunBegun'
  BY <1>1, <1>2 DEF PlayInv, RunLooked, RunBegun, Old, RetentionStart, Day
<1>5. \A d : AcceptedOn(d)' = AcceptedOn(d) BY <1>1, <1>2 DEF AcceptedOn
<1>6. run # Null => \A d : EventsOn(run.looked, d)' = EventsOn(run.looked, d)
  BY <1>1, <1>2 DEF EventsOn, PlayInv, RunLooked
<1>7. RunCounted'
  BY <1>5, <1>6
  DEF PlayInv, RunCounted, Overtaken, AtMost, AtLeast, Days, Day, RetentionStart
<1> QED BY <1>3, <1>4, <1>7

(* A play that is rendered was of no row, request or count.                *)
LEMMA RenderStep ==
  ASSUME PlayInv, NEW e \in Events, Render(e)
  PROVE  PlayInv'
<1>1. /\ started[e] = Null /\ started' = [started EXCEPT ![e] = now]
      /\ UNCHANGED <<now, acked, requests, rows, accepted, daily, watermark, waiting,
                     run, horizon>>
  BY DEF Render, jobVars
<1>2. PlayShapes BY DEF PlayInv
<1>3. now \in Nat /\ now # Null BY <1>2, PlayEventsConstantsOK DEF PlayShapes
<1>4. Rendered' = Rendered \cup {e} BY <1>1, <1>2, <1>3 DEF Rendered, PlayShapes
<1>5. IsFiniteSet(Rendered)'
  <2>1. IsFiniteSet(Rendered) BY <1>2 DEF PlayShapes
  <2> QED BY <2>1, <1>4, FS_AddElement
<1>6. started' \in [Events -> (0..now) \cup {Null}] BY <1>1, <1>2, <1>3 DEF PlayShapes
<1>7. PlayShapes'
  <2>1. /\ requests \subseteq [at : 0..now, events : SUBSET (Rendered \cup {e})]
        /\ rows \subseteq [event : Rendered \cup {e}, at : 0..now]
        /\ accepted \subseteq Rendered \cup {e}
    BY <1>2 DEF PlayShapes
  <2>2. (run # Null => run \in Job)' BY <1>1, <1>2 DEF PlayShapes, Job, Row, Count, Days, Day
  <2> QED BY <2>1, <2>2, <1>1, <1>2, <1>4, <1>5, <1>6 DEF PlayShapes, Days, Day, Count
<1>8. InsertsInTime' BY <1>1 DEF PlayInv, InsertsInTime
<1>9. \A x \in Rendered : started'[x] = started[x] BY <1>1, <1>2 DEF Rendered, PlayShapes
<1>10. RowsOnce' /\ RetainedStay' /\ CountsAreAccepted' /\ OldAreCounted'
  BY <1>1, <1>9, TablesStay
<1>11. RunLooked' /\ RunBegun' /\ RunCounted' BY <1>1, <1>3, <1>9, RunStays
<1> QED BY <1>7, <1>8, <1>10, <1>11 DEF PlayInv

(* A request carries plays that were rendered, and is as old as now.       *)
LEMMA ReceiveStep ==
  ASSUME PlayInv, NEW E \in SUBSET Kept, Receive(E)
  PROVE  PlayInv'
<1>1. /\ requests' = requests \cup {[at |-> now, events |-> E]}
      /\ UNCHANGED <<now, started, acked, rows, accepted, daily, watermark, waiting,
                     run, horizon>>
  BY DEF Receive, jobVars
<1>2. PlayShapes /\ InsertsInTime BY DEF PlayInv
<1>3. now \in Nat /\ now \in 0..now /\ Latency \in Nat
  BY <1>2, PlayEventsConstantsOK DEF PlayShapes
<1>4. Rendered' = Rendered BY <1>1 DEF Rendered
<1>5. E \in SUBSET Rendered BY DEF Kept, Rendered
<1>6. PlayShapes'
  <2>1. requests' \subseteq [at : 0..now, events : SUBSET Rendered]
    BY <1>1, <1>2, <1>3, <1>5 DEF PlayShapes
  <2>2. (run # Null => run \in Job)' BY <1>1, <1>2 DEF PlayShapes, Job, Row, Count, Days, Day
  <2> QED BY <2>1, <2>2, <1>1, <1>2, <1>4 DEF PlayShapes, Days, Day, Count
<1>7. InsertsInTime' BY <1>1, <1>2, <1>3 DEF InsertsInTime
<1>8. RowsOnce' /\ RetainedStay' /\ CountsAreAccepted' /\ OldAreCounted'
  BY <1>1, TablesStay
<1>9. RunLooked' /\ RunBegun' /\ RunCounted' BY <1>1, <1>3, RunStays
<1> QED BY <1>6, <1>7, <1>8, <1>9 DEF PlayInv

(* Time waits for an INSERT that has taken as long as it may.              *)
LEMMA TickStep ==
  ASSUME PlayInv, Tick
  PROVE  PlayInv'
<1>1. /\ now < MaxTime /\ now' = now + 1
      /\ \A q \in requests : now < q.at + Latency
      /\ UNCHANGED <<started, acked, requests, rows, accepted, daily, watermark, waiting,
                     run, horizon>>
  BY DEF Tick, feedVars, jobVars
<1>2. PlayShapes BY DEF PlayInv
<1>3. now \in Nat /\ MaxTime \in Nat /\ now' \in 0..MaxTime /\ Latency \in Nat
      /\ 0..now \subseteq 0..now'
  BY <1>1, <1>2, PlayEventsConstantsOK DEF PlayShapes
<1>4. Rendered' = Rendered BY <1>1 DEF Rendered
<1>5. PlayShapes'
  <2>1. /\ started \in [Events -> (0..now') \cup {Null}]
        /\ watermark \in (0..now') \cup {Null}
        /\ waiting \subseteq 0..now'
    BY <1>2, <1>3 DEF PlayShapes
  <2>2. requests \subseteq [at : 0..now', events : SUBSET Rendered]
    BY <1>2, <1>3 DEF PlayShapes
  <2>3. rows \subseteq [event : Rendered, at : 0..now'] BY <1>2, <1>3 DEF PlayShapes
  <2>4. (run # Null => run \in Job)' BY <1>1, <1>2 DEF PlayShapes, Job, Row, Count, Days, Day
  <2> QED BY <2>1, <2>2, <2>3, <2>4, <1>1, <1>2, <1>3, <1>4 DEF PlayShapes, Days, Day, Count
<1>6. InsertsInTime'
  <2>1. \A q \in requests : q.at \in Nat BY <1>2, <1>3 DEF PlayShapes
  <2> QED BY <1>1, <1>3, <2>1 DEF InsertsInTime
<1>7. RowsOnce' /\ RetainedStay' /\ CountsAreAccepted' /\ OldAreCounted'
  BY <1>1, TablesStay
<1>8. RunLooked' /\ RunBegun' /\ RunCounted' BY <1>1, <1>3, RunStays
<1> QED BY <1>5, <1>6, <1>7, <1>8 DEF PlayInv

(* Retention moves on with time.                                           *)
LEMMA RetentionGrows ==
  ASSUME NEW a \in Nat, NEW b \in Nat, a <= b
  PROVE  /\ RetentionStart(a) \in Int /\ RetentionStart(b) \in Int
         /\ RetentionStart(a) <= RetentionStart(b)
<1>1. Day(a) \in Nat /\ Day(b) \in Nat /\ Day(a) <= Day(b) BY DayGrows
<1>2. Retention \in Nat BY PlayEventsConstantsOK
<1> QED BY <1>1, <1>2 DEF RetentionStart

(* A play is of a day within the bound on the time.                        *)
LEMMA DaysAreDays ==
  ASSUME PlayShapes, NEW e \in Rendered
  PROVE  DayOf(e) \in Days /\ DayOf(e) \in Nat
<1>1. started[e] \in 0..now /\ now \in 0..MaxTime BY DEF PlayShapes, Rendered
<1>2. MaxTime \in Nat BY PlayEventsConstantsOK
<1>3. started[e] \in Nat /\ started[e] <= MaxTime BY <1>1, <1>2
<1> QED BY <1>2, <1>3, DayGrows DEF DayOf, Days

(* What is stored late is not old yet, as latency is less than overlap.    *)
LEMMA StoreStep ==
  ASSUME PlayInv, NEW q \in requests, Store(q)
  PROVE  PlayInv'
<1> DEFINE new == {row \in [event : q.events, at : {q.at}] : ~IsDuplicate(row)}
           events == {row.event : row \in new}
<1>1. /\ requests' = requests \ {q} /\ rows' = rows \cup new
      /\ accepted' = accepted \cup events
      /\ acked' \in {acked, acked \cup q.events}
      /\ UNCHANGED <<now, started, daily, watermark, waiting, run, horizon>>
  BY DEF Store, jobVars
<1>2. PlayShapes /\ InsertsInTime /\ RowsOnce BY DEF PlayInv
<1>3. /\ now \in Nat /\ q.at \in 0..now /\ q.events \in SUBSET Rendered
      /\ now <= q.at + Latency
  BY <1>2 DEF PlayShapes, InsertsInTime
<1>4. Latency \in Nat /\ Overlap \in Nat /\ Latency < Overlap BY PlayEventsConstantsOK
<1>5. Rendered' = Rendered /\ Rendered \subseteq Events BY <1>1 DEF Rendered
<1>6. \A r \in new : /\ r \in [event : Rendered, at : 0..now] /\ r.at = q.at
                     /\ r = [event |-> r.event, at |-> q.at]
                     /\ \A s \in rows : s.event # r.event
  BY <1>3 DEF IsDuplicate
<1>7. events \subseteq Rendered /\ \A r \in new : r.event \in events BY <1>6
<1>8. \A e \in events : \E r \in new : r.event = e OBVIOUS
<1> HIDE DEF new, events
<1>9. PlayShapes'
  <2>1. requests' \subseteq [at : 0..now, events : SUBSET Rendered]
    BY <1>1, <1>2 DEF PlayShapes
  <2>2. rows' \subseteq [event : Rendered, at : 0..now] BY <1>1, <1>2, <1>6 DEF PlayShapes
  <2>3. accepted' \subseteq Rendered BY <1>1, <1>2, <1>7 DEF PlayShapes
  <2>4. acked' \subseteq Events BY <1>1, <1>2, <1>3, <1>5 DEF PlayShapes
  <2>5. (run # Null => run \in Job)' BY <1>1, <1>2 DEF PlayShapes, Job, Row, Count, Days, Day
  <2> QED BY <2>1, <2>2, <2>3, <2>4, <2>5, <1>1, <1>2, <1>5 DEF PlayShapes, Days, Day, Count
<1>10. InsertsInTime' BY <1>1, <1>2 DEF InsertsInTime
<1>11. RowsOnce'
  <2>1. \A r, s \in rows' : r.event = s.event => r = s
    BY <1>1, <1>2, <1>6 DEF RowsOnce
  <2>2. \A r \in rows' : r.event \in accepted' BY <1>1, <1>2, <1>7 DEF RowsOnce
  <2> QED BY <2>1, <2>2 DEF RowsOnce
<1>12. \A e : DayOf(e)' = DayOf(e) BY <1>1 DEF DayOf, Day
<1>13. RetainedStay'
  BY <1>1, <1>8, <1>12 DEF PlayInv, RetainedStay, RetentionStart, Day
<1>14. \A d : /\ AcceptedOn(d) \subseteq AcceptedOn(d)'
              /\ IsFiniteSet(AcceptedOn(d)')
  <2> TAKE d
  <2>1. AcceptedOn(d) \subseteq AcceptedOn(d)' BY <1>1, <1>12 DEF AcceptedOn
  <2>2. AcceptedOn(d)' \subseteq Rendered BY <1>1, <1>2, <1>7 DEF AcceptedOn, PlayShapes
  <2>3. IsFiniteSet(Rendered) BY <1>2 DEF PlayShapes
  <2> QED BY <2>1, <2>2, <2>3, FS_Subset
<1>15. \A d, c : c \in Count /\ AtMost(c, AcceptedOn(d)) => AtMost(c, AcceptedOn(d)')
  BY <1>14, CountsGrow
<1>16. CountsAreAccepted'
  <2>1. \A d \in Days : daily[d] \in Count BY <1>2 DEF PlayShapes
  <2>2. \A d \in Days : AtMost(daily[d], AcceptedOn(d)) BY DEF PlayInv, CountsAreAccepted
  <2>3. \A d \in Days : AtMost(daily[d], AcceptedOn(d)') BY <2>1, <2>2, <1>15
  <2> QED BY <2>3, <1>1 DEF CountsAreAccepted, AtMost, Days, Day
<1>17. \A t \in 0..now : Old(t)' = Old(t)
  <2> TAKE t \in 0..now
  <2>1. \A r \in new : ~ (r.at <= t - Overlap) BY <1>3, <1>4, <1>6
  <2> QED BY <2>1, <1>1 DEF Old
<1>18. OldAreCounted'
  <2>1. watermark # Null => watermark \in 0..now BY <1>2 DEF PlayShapes
  <2>2. watermark # Null => Old(watermark)' = Old(watermark) BY <2>1, <1>1, <1>17 DEF Old
  <2>3. watermark # Null =>
          \A d : EventsOn(Old(watermark), d)' = EventsOn(Old(watermark), d)
    BY <2>2, <1>12 DEF EventsOn
  <2> QED BY <2>3, <1>1 DEF PlayInv, OldAreCounted, AtLeast, Days, Day, RetentionStart
<1>19. RunLooked'
  <2>1. run # Null => run.at \in 0..now
    BY <1>2 DEF PlayInv, PlayShapes, RunLooked, Job
  <2>2. run # Null => Old(run.at)' = Old(run.at) BY <2>1, <1>1, <1>17 DEF Old
  <2> QED BY <2>2, <1>1 DEF PlayInv, RunLooked, RetentionStart, Day
<1>20. RunBegun'
  BY <1>1, <1>12 DEF PlayInv, RunBegun, Old, RetentionStart, Day
<1>21. RunCounted'
  <2>1. run # Null => \A d \in Days : run.daily[d] \in Count BY <1>2 DEF PlayShapes, Job
  <2>2. \A d : EventsOn(run.looked, d)' = EventsOn(run.looked, d)
    BY <1>1, <1>12 DEF EventsOn
  <2>3. ASSUME run # Null, run.step = "counted", NEW d \in Days
        PROVE  AtMost(run.daily[d], AcceptedOn(d)')
    BY <2>1, <2>3, <1>15 DEF PlayInv, RunCounted
  <2> QED BY <2>2, <2>3, <1>1
      DEF PlayInv, RunCounted, Overtaken, AtMost, AtLeast, Days, Day, RetentionStart
<1> QED BY <1>9, <1>10, <1>11, <1>13, <1>16, <1>18, <1>19, <1>20, <1>21 DEF PlayInv

(* A run leaves out what is old by the last watermark, and that is counted;*)
(* the time it took may be long past.                                      *)
LEMMA BeginStep ==
  ASSUME PlayInv, NEW t \in waiting \cup {now}, Begin(t)
  PROVE  PlayInv'
<1>1. /\ run' = [step |-> "begun", at |-> t, days |-> DaysToCount(t),
                 looked |-> rows, daily |-> daily]
      /\ waiting' = waiting \ {t}
      /\ UNCHANGED <<now, started, acked, requests, rows, accepted, daily, watermark,
                     horizon>>
  BY DEF Begin, feedVars
<1>2. PlayShapes BY DEF PlayInv
<1>3. /\ now \in Nat /\ now \in 0..MaxTime /\ MaxTime \in Nat
      /\ Overlap \in Nat /\ Null \notin Nat
  BY <1>2, PlayEventsConstantsOK DEF PlayShapes
<1>t. t \in 0..now BY <1>2, <1>3 DEF PlayShapes
<1>4. Rendered' = Rendered /\ Rendered \subseteq Events BY <1>1 DEF Rendered
<1>5. rows \subseteq Row
  <2>1. 0..now \subseteq 0..MaxTime BY <1>3
  <2> QED BY <2>1, <1>2, <1>4 DEF PlayShapes, Row
<1>6. DaysToCount(t) \subseteq Days
  <2>1. \A r \in rows : DayOf(r.event) \in Days BY <1>2, DaysAreDays DEF PlayShapes
  <2> QED BY <2>1 DEF DaysToCount
<1>7. run' \in Job
  <2>1. t \in 0..MaxTime BY <1>3, <1>t
  <2> QED BY <2>1, <1>1, <1>2, <1>5, <1>6 DEF Job, PlayShapes
<1>8. PlayShapes'
  <2>1. (run # Null => run \in Job)' BY <1>1, <1>7 DEF Job, Row, Count, Days, Day
  <2>2. waiting' \subseteq 0..now BY <1>1, <1>2 DEF PlayShapes
  <2> QED BY <2>1, <2>2, <1>1, <1>2, <1>4 DEF PlayShapes, Days, Day, Count
<1>9. InsertsInTime' BY <1>1 DEF PlayInv, InsertsInTime
<1>10. RowsOnce' /\ RetainedStay' /\ CountsAreAccepted' /\ OldAreCounted'
  BY <1>1, TablesStay
<1>11. RunLooked'
  <2>1. t <= now BY <1>3, <1>t
  <2>2. \A d \in DaysToCount(t) : d >= RetentionStart(t) BY DEF DaysToCount
  <2>3. Old(t) \subseteq rows BY DEF Old
  <2>4. Old(run.at)' = Old(t) /\ RetentionStart(run.at)' = RetentionStart(t)
    BY <1>1 DEF Old, RetentionStart, Day
  <2> QED BY <2>1, <2>2, <2>3, <2>4, <1>1, <1>3 DEF RunLooked
<1>12. RunBegun'
  <2>1. ASSUME NEW r \in rows, DayOf(r.event) >= RetentionStart(t),
               DayOf(r.event) \notin DaysToCount(t)
        PROVE  watermark # Null /\ r \in Old(watermark)
    <3>1. ~ (r.at > Since) BY <2>1 DEF DaysToCount
    <3>2. r.at \in 0..now BY <1>2 DEF PlayShapes
    <3>3. CASE watermark = Null BY <3>1, <3>2, <3>3, <1>3 DEF Since
    <3>4. CASE watermark # Null
      <4>1. watermark \in Nat BY <1>2, <1>3, <3>4 DEF PlayShapes
      <4> QED BY <3>1, <3>2, <3>4, <4>1, <1>3 DEF Since, Old
    <3> QED BY <3>3, <3>4
  <2>2. \A r \in rows : DayOf(r.event)' = DayOf(r.event) BY <1>1 DEF DayOf, Day
  <2>3. RetentionStart(run.at)' = RetentionStart(t) /\ Old(watermark)' = Old(watermark)
    BY <1>1 DEF Old, RetentionStart, Day
  <2> QED BY <2>1, <2>2, <2>3, <1>1 DEF RunBegun
<1>13. RunCounted'
  <2>1. run'.step = "begun" BY <1>1
  <2> QED BY <2>1 DEF RunCounted
<1> QED BY <1>8, <1>9, <1>10, <1>11, <1>12, <1>13 DEF PlayInv

(* A run that waits, or gives up, has touched nothing.                     *)
LEMMA WaitStep ==
  ASSUME PlayInv, ComeLate \/ \E t \in waiting : Skip(t)
  PROVE  PlayInv'
<1>1. /\ waiting' \subseteq waiting \cup {now}
      /\ UNCHANGED <<now, started, acked, requests, rows, accepted, daily, watermark,
                     run, horizon>>
  BY DEF ComeLate, Skip, feedVars
<1>2. PlayShapes BY DEF PlayInv
<1>3. Rendered' = Rendered BY <1>1 DEF Rendered
<1>4. PlayShapes'
  <2>1. now \in Nat BY <1>2, PlayEventsConstantsOK DEF PlayShapes
  <2>2. waiting' \subseteq 0..now BY <1>1, <1>2, <2>1 DEF PlayShapes
  <2>3. (run # Null => run \in Job)' BY <1>1, <1>2 DEF PlayShapes, Job, Row, Count, Days, Day
  <2> QED BY <2>2, <2>3, <1>1, <1>2, <1>3 DEF PlayShapes, Days, Day, Count
<1>5. InsertsInTime' BY <1>1 DEF PlayInv, InsertsInTime
<1>6. RowsOnce' /\ RetainedStay' /\ CountsAreAccepted' /\ OldAreCounted'
  BY <1>1, TablesStay
<1>7. now \in Nat /\ now <= now BY <1>2, PlayEventsConstantsOK DEF PlayShapes
<1>8. RunLooked' /\ RunBegun' /\ RunCounted' BY <1>1, <1>7, RunStays
<1> QED BY <1>4, <1>5, <1>6, <1>8 DEF PlayInv

(* What a run counts on a day: no less than it looked at, no more than was *)
(* ever accepted, and no less than had been counted.                       *)
LEMMA DayIsCounted ==
  ASSUME PlayInv, run # Null, run.step = "begun", NEW d \in Days
  PROVE  LET c == IF d \in run.days THEN CountOf(d) ELSE daily[d] IN
         /\ c \in Count
         /\ AtMost(c, AcceptedOn(d))
         /\ d >= horizon \/ ~Overtaken =>
              daily[d].plays <= c.plays /\ daily[d].wall <= c.wall
         /\ d >= horizon /\ d >= RetentionStart(run.at) =>
              AtLeast(c, EventsOn(run.looked, d))
<1> DEFINE E == EventsOn(rows, d)
           A == AcceptedOn(d)
           L == EventsOn(run.looked, d)
<1>1. PlayShapes /\ RowsOnce BY DEF PlayInv
<1>2. daily[d] \in Count /\ AtMost(daily[d], A)
  BY <1>1 DEF PlayShapes, PlayInv, CountsAreAccepted
<1>3. /\ IsFiniteSet(E) /\ CountOf(d) \in Count
      /\ CountOf(d).plays = Cardinality(E \ Wall)
      /\ CountOf(d).wall = Cardinality(E \cap Wall)
  BY <1>1, CountOfRows
<1>4. IsFiniteSet(A) BY <1>1, AcceptedIsFinite
<1>5. run.looked \subseteq rows /\ run.at \in Nat
  BY <1>1 DEF PlayInv, RunLooked, PlayShapes, Job
<1>6. L \subseteq E BY <1>5 DEF EventsOn
<1>7. E \subseteq A BY <1>1 DEF EventsOn, AcceptedOn, RowsOnce
<1>8. daily[d].plays \in Nat /\ daily[d].wall \in Nat BY <1>2 DEF Count
<1>9. CASE d \in run.days
  <2>1. ASSUME d >= horizon \/ ~Overtaken PROVE E = A
    <3>1. d >= RetentionStart(run.at) BY <1>9 DEF PlayInv, RunLooked
    <3>2. d >= horizon
      <4>1. RetentionStart(run.at) \in Int BY <1>5, RetentionGrows
      <4>2. d \in Int /\ horizon \in Int BY <1>1 DEF Days, PlayShapes
      <4> QED BY <2>1, <3>1, <4>1, <4>2 DEF Overtaken
    <3>3. ASSUME NEW e \in A PROVE e \in E
      <4>1. e \in accepted /\ DayOf(e) = d BY <3>3 DEF AcceptedOn
      <4>2. PICK r \in rows : r.event = e
        BY <4>1, <3>2 DEF PlayInv, RetainedStay
      <4> QED BY <4>1, <4>2 DEF EventsOn
    <3> QED BY <3>3, <1>7
  <2> HIDE DEF E, A, L
  <2>2. /\ Cardinality(E \ Wall) \in Nat /\ Cardinality(E \cap Wall) \in Nat
    <3>1. IsFiniteSet(E \ Wall) /\ IsFiniteSet(E \cap Wall) BY <1>3, FS_Subset
    <3> QED BY <3>1, FS_CardinalityType
  <2>3. AtLeast(CountOf(d), E) /\ AtMost(CountOf(d), E)
    BY <2>2, <1>3 DEF AtLeast, AtMost
  <2>4. AtMost(CountOf(d), A) BY <2>3, <1>3, <1>4, <1>7, CountsGrow
  <2>5. AtLeast(CountOf(d), L) BY <2>3, <1>3, <1>6, CountsGrow
  <2>6. d >= horizon \/ ~Overtaken =>
          daily[d].plays <= CountOf(d).plays /\ daily[d].wall <= CountOf(d).wall
    BY <1>2, <1>3, <2>1 DEF AtMost
  <2> QED BY <2>4, <2>5, <2>6, <1>3, <1>9 DEF A, L
<1>10. CASE d \notin run.days
  <2>1. ASSUME d >= horizon, d >= RetentionStart(run.at)
        PROVE  AtLeast(daily[d], L)
    <3>1. CASE L = {}
      <4>1. /\ L \ Wall = {} /\ L \cap Wall = {} BY <3>1
      <4>2. Cardinality({}) = 0 BY FS_EmptySet
      <4> HIDE DEF L
      <4> QED BY <4>1, <4>2, <1>8 DEF AtLeast
    <3>2. CASE L # {}
      <4> DEFINE K == EventsOn(Old(watermark), d)
      <4>1. \A r \in run.looked : DayOf(r.event) = d
                                    => watermark # Null /\ r \in Old(watermark)
        BY <2>1, <1>10 DEF PlayInv, RunBegun
      <4>2. watermark # Null /\ L \subseteq K BY <4>1, <3>2 DEF EventsOn
      <4>6. AtLeast(daily[d], K) BY <4>2, <2>1 DEF PlayInv, OldAreCounted
      <4>7. IsFiniteSet(K)
        <5>1. K \subseteq E BY DEF EventsOn, Old
        <5> HIDE DEF K, E
        <5> QED BY <5>1, <1>3, FS_Subset
      <4> HIDE DEF K, L
      <4> QED BY <4>2, <4>6, <4>7, <1>2, CountsGrow
    <3> QED BY <3>1, <3>2
  <2> HIDE DEF A, L
  <2>2. daily[d].plays <= daily[d].plays /\ daily[d].wall <= daily[d].wall BY <1>8
  <2> QED BY <2>1, <2>2, <1>2, <1>10 DEF A, L
<1> QED BY <1>9, <1>10

(* The counts of a run, day by day (DayIsCounted).                         *)
LEMMA RecomputeStep ==
  ASSUME PlayInv, Recompute
  PROVE  PlayInv'
<1> DEFINE counts == [d \in Days |-> IF d \in run.days THEN CountOf(d) ELSE daily[d]]
<1>1. /\ run # Null /\ run.step = "begun"
      /\ run' = [run EXCEPT !.step = "counted", !.daily = counts]
      /\ UNCHANGED <<now, started, acked, requests, rows, accepted, daily, watermark,
                     waiting, horizon>>
  BY DEF Recompute, feedVars
<1>2. PlayShapes /\ run \in Job BY <1>1 DEF PlayInv, PlayShapes
<1>3. \A d \in Days : /\ counts[d] \in Count
                      /\ AtMost(counts[d], AcceptedOn(d))
                      /\ d >= horizon \/ ~Overtaken =>
                           /\ daily[d].plays <= counts[d].plays
                           /\ daily[d].wall <= counts[d].wall
                      /\ d >= horizon /\ d >= RetentionStart(run.at) =>
                           AtLeast(counts[d], EventsOn(run.looked, d))
  BY <1>1, DayIsCounted
<1>4. counts \in [Days -> Count] BY <1>3
<1> HIDE DEF counts
<1>5. /\ run'.step = "counted" /\ run'.daily = counts /\ run'.at = run.at
      /\ run'.days = run.days /\ run'.looked = run.looked
  BY <1>1, <1>2 DEF Job
<1>6. run' \in Job BY <1>1, <1>2, <1>4 DEF Job
<1>7. Rendered' = Rendered BY <1>1 DEF Rendered
<1>8. PlayShapes'
  <2>1. (run # Null => run \in Job)' BY <1>1, <1>6 DEF Job, Row, Count, Days, Day
  <2> QED BY <2>1, <1>1, <1>2, <1>7 DEF PlayShapes, Days, Day, Count
<1>9. InsertsInTime' BY <1>1 DEF PlayInv, InsertsInTime
<1>10. RowsOnce' /\ RetainedStay' /\ CountsAreAccepted' /\ OldAreCounted'
  BY <1>1, TablesStay
<1>11. RunLooked'
  <2>1. Old(run.at)' = Old(run.at) /\ RetentionStart(run.at)' = RetentionStart(run.at)
    BY <1>1, <1>5 DEF Old, RetentionStart, Day
  <2> QED BY <2>1, <1>1, <1>5 DEF PlayInv, RunLooked
<1>12. RunBegun' BY <1>5 DEF RunBegun
<1>13. RunCounted'
  <2>1. \A d : /\ AcceptedOn(d)' = AcceptedOn(d)
               /\ EventsOn(run.looked, d)' = EventsOn(run.looked, d)
    BY <1>1, <1>5 DEF AcceptedOn, EventsOn, DayOf, Day
  <2>2. RetentionStart(run.at)' = RetentionStart(run.at) /\ Days' = Days
        /\ run' # Null /\ ~Overtaken' => ~Overtaken
    BY <1>1, <1>5 DEF RetentionStart, Day, Days, Overtaken
  <2> QED BY <2>1, <2>2, <1>1, <1>3, <1>5 DEF RunCounted, AtMost, AtLeast
<1> QED BY <1>8, <1>9, <1>10, <1>11, <1>12, <1>13 DEF PlayInv

(* What the run counted replaces the counts; only rows of days no longer   *)
(* retained are deleted.                                                   *)
LEMMA CommitStep ==
  ASSUME PlayInv, Commit
  PROVE  PlayInv'
<1>1. /\ run # Null /\ run.step = "counted" /\ daily' = run.daily
      /\ watermark' = run.at /\ run' = Null
      /\ UNCHANGED <<now, waiting, started, acked, requests, accepted>>
  BY DEF Commit, feedVars
<1>2. PICK D \in SUBSET Expired(run.at) : rows' = rows \ D BY DEF Commit, kSubset
<1>3. PlayShapes /\ RowsOnce /\ run \in Job BY <1>1 DEF PlayInv, PlayShapes
<1>4. /\ now \in Nat /\ run.at \in 0..now /\ run.at \in Nat
      /\ run.looked \subseteq rows /\ Old(run.at) \subseteq run.looked
  BY <1>1, <1>3 DEF PlayInv, RunLooked, PlayShapes, Job
<1>5. run.at # Null BY <1>4, PlayEventsConstantsOK
<1>6. Rendered' = Rendered BY <1>1 DEF Rendered
<1>7. \A e : DayOf(e)' = DayOf(e) BY <1>1 DEF DayOf, Day
<1>8. /\ Days' = Days /\ RetentionStart(run.at) \in Int
      /\ horizon \in Int /\ horizon' \in Int
      /\ horizon <= horizon' /\ RetentionStart(run.at) <= horizon'
  <2>1. RetentionStart(run.at) \in Int /\ horizon \in Int
    BY <1>3, <1>4, RetentionGrows DEF PlayShapes
  <2>2. horizon' = IF horizon < RetentionStart(run.at) THEN RetentionStart(run.at)
                                                       ELSE horizon
    BY DEF Commit
  <2> QED BY <2>1, <2>2 DEF Days, Day
<1>9. PlayShapes'
  <2>1. run.daily \in [Days -> Count] BY <1>3 DEF Job
  <2>2. (run # Null => run \in Job)' BY <1>1
  <2> QED BY <2>1, <2>2, <1>1, <1>2, <1>3, <1>4, <1>6, <1>8
      DEF PlayShapes, Days, Day, Count
<1>10. InsertsInTime' BY <1>1 DEF PlayInv, InsertsInTime
<1>11. RowsOnce' BY <1>1, <1>2, <1>3 DEF RowsOnce
<1>12. RetainedStay'
  <2>1. ASSUME NEW e \in accepted, DayOf(e) >= horizon'
        PROVE  \E r \in rows' : r.event = e
    <3>1. DayOf(e) \in Nat BY <1>3, DaysAreDays DEF PlayShapes
    <3>2. DayOf(e) >= horizon /\ DayOf(e) >= RetentionStart(run.at)
      BY <2>1, <3>1, <1>8
    <3>3. PICK r \in rows : r.event = e BY <3>2 DEF PlayInv, RetainedStay
    <3>4. r \notin Expired(run.at) BY <3>1, <3>2, <3>3, <1>8 DEF Expired
    <3> QED BY <3>3, <3>4, <1>2
  <2> QED BY <2>1, <1>1, <1>7 DEF RetainedStay
<1>13. CountsAreAccepted'
  <2>1. \A d \in Days : AtMost(run.daily[d], AcceptedOn(d))
    BY <1>1 DEF PlayInv, RunCounted
  <2>2. \A d : AcceptedOn(d)' = AcceptedOn(d) BY <1>1, <1>7 DEF AcceptedOn
  <2> QED BY <2>1, <2>2, <1>1, <1>8 DEF CountsAreAccepted, AtMost
<1>14. OldAreCounted'
  <2>1. ASSUME NEW d \in Days, d >= horizon'
        PROVE  AtLeast(run.daily[d], EventsOn(Old(watermark), d)')
    <3>1. AtLeast(run.daily[d], EventsOn(run.looked, d))
      <4>1. d \in Int BY DEF Days
      <4>2. d >= horizon /\ d >= RetentionStart(run.at) BY <2>1, <4>1, <1>8
      <4> QED BY <4>2, <1>1 DEF PlayInv, RunCounted
    <3>2. IsFiniteSet(EventsOn(run.looked, d))
      <4>1. IsFiniteSet(EventsOn(rows, d)) BY <1>3, CountOfRows
      <4>2. EventsOn(run.looked, d) \subseteq EventsOn(rows, d) BY <1>4 DEF EventsOn
      <4> QED BY <4>1, <4>2, FS_Subset
    <3>3. EventsOn(Old(watermark), d)' \subseteq EventsOn(run.looked, d)
      <4>1. Old(watermark)' \subseteq Old(run.at) BY <1>1, <1>2 DEF Old
      <4> QED BY <4>1, <1>4, <1>7 DEF EventsOn
    <3>4. run.daily[d] \in Count BY <1>3 DEF Job
    <3> QED BY <3>1, <3>2, <3>3, <3>4, CountsGrow
  <2> QED BY <2>1, <1>1, <1>8 DEF OldAreCounted, AtLeast
<1>15. RunLooked' /\ RunBegun' /\ RunCounted'
  BY <1>1 DEF RunLooked, RunBegun, RunCounted
<1> QED BY <1>9, <1>10, <1>11, <1>12, <1>13, <1>14, <1>15 DEF PlayInv

(* A run that is undone leaves the tables as they were.                    *)
LEMMA RollBackStep ==
  ASSUME PlayInv, RollBack
  PROVE  PlayInv'
<1>1. /\ run' = Null
      /\ UNCHANGED <<now, started, acked, requests, rows, accepted, daily, watermark,
                     waiting, horizon>>
  BY DEF RollBack, feedVars
<1>2. PlayShapes BY DEF PlayInv
<1>3. Rendered' = Rendered BY <1>1 DEF Rendered
<1>4. PlayShapes'
  BY <1>1, <1>2, <1>3 DEF PlayShapes, Days, Day, Count
<1>5. InsertsInTime' BY <1>1 DEF PlayInv, InsertsInTime
<1>6. RowsOnce' /\ RetainedStay' /\ CountsAreAccepted' /\ OldAreCounted'
  BY <1>1, TablesStay
<1>7. RunLooked' /\ RunBegun' /\ RunCounted'
  BY <1>1 DEF RunLooked, RunBegun, RunCounted
<1> QED BY <1>4, <1>5, <1>6, <1>7 DEF PlayInv

(* At the start nothing is rendered, stored or counted.                    *)
LEMMA NothingPlayed ==
  ASSUME PlayInit
  PROVE  PlayInv
<1>1. /\ now = 0 /\ started = [e \in Events |-> Null]
      /\ acked = {} /\ requests = {} /\ rows = {} /\ accepted = {}
      /\ daily = [d \in Days |-> [plays |-> 0, wall |-> 0]]
      /\ watermark = Null /\ run = Null
      /\ waiting = {} /\ horizon = RetentionStart(0)
  BY DEF PlayInit
<1>2. Rendered = {} BY <1>1 DEF Rendered
<1>3. IsFiniteSet({}) /\ Cardinality({}) = 0 BY FS_EmptySet
<1>4. PlayShapes
  <2>1. daily \in [Days -> Count] BY <1>1 DEF Count
  <2>2. now \in 0..MaxTime BY <1>1, PlayEventsConstantsOK
  <2>3. horizon \in Int BY <1>1, RetentionGrows
  <2> QED BY <2>1, <2>2, <2>3, <1>1, <1>2, <1>3 DEF PlayShapes
<1>5. InsertsInTime /\ RowsOnce /\ RetainedStay /\ OldAreCounted
  BY <1>1 DEF InsertsInTime, RowsOnce, RetainedStay, OldAreCounted
<1>6. CountsAreAccepted
  <2> SUFFICES ASSUME NEW d \in Days PROVE AtMost(daily[d], AcceptedOn(d))
    BY DEF CountsAreAccepted
  <2>1. AcceptedOn(d) = {} BY <1>1 DEF AcceptedOn
  <2>2. AcceptedOn(d) \ Wall = {} /\ AcceptedOn(d) \cap Wall = {} BY <2>1
  <2> QED BY <2>2, <1>1, <1>3 DEF AtMost
<1>7. RunLooked /\ RunBegun /\ RunCounted BY <1>1 DEF RunLooked, RunBegun, RunCounted
<1> QED BY <1>4, <1>5, <1>6, <1>7 DEF PlayInv

(* Every step keeps the invariant.                                         *)
LEMMA PlayNextKeeps ==
  ASSUME PlayInv, [PlayNext]_playVars
  PROVE  PlayInv'
<1>1. ASSUME NEW e \in Events, Render(e) PROVE PlayInv' BY <1>1, RenderStep
<1>2. ASSUME NEW E \in SUBSET Kept, Receive(E) PROVE PlayInv' BY <1>2, ReceiveStep
<1>3. ASSUME NEW q \in requests, Store(q) PROVE PlayInv' BY <1>3, StoreStep
<1>4. ASSUME NEW t \in waiting \cup {now}, Begin(t) PROVE PlayInv' BY <1>4, BeginStep
<1>10. CASE ComeLate \/ \E t \in waiting : Skip(t) BY <1>10, WaitStep
<1>5. CASE Recompute BY <1>5, RecomputeStep
<1>6. CASE Commit BY <1>6, CommitStep
<1>7. CASE RollBack BY <1>7, RollBackStep
<1>8. CASE Tick BY <1>8, TickStep
<1>9. CASE UNCHANGED playVars
  <2>1. UNCHANGED <<now, started, acked, requests, rows, accepted, daily, watermark,
                    waiting, run, horizon>>
    BY <1>9 DEF playVars, feedVars, jobVars
  <2>2. RowsOnce' /\ RetainedStay' /\ CountsAreAccepted' /\ OldAreCounted'
    BY <2>1, TablesStay
  <2>3. now \in Nat /\ now <= now BY DEF PlayInv, PlayShapes
  <2>4. RunLooked' /\ RunBegun' /\ RunCounted' BY <2>1, <2>3, RunStays
  <2>5. InsertsInTime' BY <2>1 DEF PlayInv, InsertsInTime
  <2>6. Rendered' = Rendered BY <2>1 DEF Rendered
  <2>7. (run # Null => run \in Job)'
    BY <2>1 DEF PlayInv, PlayShapes, Job, Row, Count, Days, Day
  <2>8. PlayShapes' BY <2>1, <2>6, <2>7 DEF PlayInv, PlayShapes, Days, Day, Count
  <2> QED BY <2>2, <2>4, <2>5, <2>8 DEF PlayInv
<1> QED BY <1>1, <1>2, <1>3, <1>4, <1>5, <1>6, <1>7, <1>8, <1>9, <1>10 DEF PlayNext

(* It holds at every state.                                                *)
LEMMA PlayInvariant == PlaySpec => []PlayInv
<1>1. PlayInit => PlayInv BY NothingPlayed
<1>2. PlayInv /\ [PlayNext]_playVars => PlayInv' BY PlayNextKeeps
<1> QED BY <1>1, <1>2, PTL DEF PlaySpec

(* No count exceeds the plays that were ever accepted of its day and       *)
(* placement, for any number of plays, resends and runs (recordPlayEvents, *)
(* which skips an event it has; recompute, which counts a whole day        *)
(* again).                                                                 *)
THEOREM PlaysAreCountedOnce == PlaySpec => []CountedOnce
<1>1. PlayInv => CountedOnce
  <2> SUFFICES ASSUME PlayInv PROVE CountedOnce OBVIOUS
  <2>1. PlayShapes /\ CountsAreAccepted BY DEF PlayInv
  <2>2. now \in Nat /\ MaxTime \in Nat /\ 0..now \subseteq 0..MaxTime
    BY <2>1, PlayEventsConstantsOK DEF PlayShapes
  <2>3. Rendered \subseteq Events BY DEF Rendered
  <2>4. PlayTypesOK BY <2>1, <2>2, <2>3 DEF PlayTypesOK, PlayShapes, Row
  <2>5. ASSUME NEW d \in Days
        PROVE  LET of == {e \in accepted : DayOf(e) = d} IN
               /\ daily[d].plays <= Cardinality(of \ Wall)
               /\ daily[d].wall <= Cardinality(of \cap Wall)
    BY <2>1 DEF CountsAreAccepted, AtMost, AcceptedOn
  <2> QED BY <2>4, <2>5 DEF CountedOnce
<1> QED BY <1>1, PlayInvariant, PTL

(* Only the commit of a run moves the watermark, and by then every row     *)
(* that was there when it looked is in the counts, if no run has found its *)
(* day expired (PlayEventAggregationJob.run, WATERMARK_OVERLAP_MS).        *)
THEOREM NoPlayIsMissed == PlaySpec => NothingMissed
<1> DEFINE A == watermark' # watermark =>
                  \A d \in Days : d >= horizon' =>
                    LET of == {r.event : r \in {r \in run.looked : DayOf(r.event) = d}} IN
                    /\ Cardinality(of \ Wall) <= daily'[d].plays
                    /\ Cardinality(of \cap Wall) <= daily'[d].wall
<1>1. PlayInv /\ [PlayNext]_playVars => A
  <2> SUFFICES ASSUME PlayInv, [PlayNext]_playVars, watermark' # watermark,
                      NEW d \in Days, d >= horizon'
               PROVE  LET of == {r.event : r \in {r \in run.looked : DayOf(r.event) = d}} IN
                      /\ Cardinality(of \ Wall) <= daily'[d].plays
                      /\ Cardinality(of \cap Wall) <= daily'[d].wall
    OBVIOUS
  <2>1. Commit
    BY DEF PlayNext, Render, Receive, Store, ComeLate, Begin, Skip, Recompute, RollBack,
           Tick, playVars, jobVars
  <2>2. /\ run # Null /\ run.step = "counted"
        /\ daily' = run.daily
        /\ horizon' = IF horizon < RetentionStart(run.at) THEN RetentionStart(run.at)
                                                          ELSE horizon
    BY <2>1 DEF Commit
  <2>3. d >= horizon /\ d >= RetentionStart(run.at)
    <3>1. run.at \in Nat /\ horizon \in Int
      BY <2>2, PlayEventsConstantsOK DEF PlayInv, PlayShapes, Job
    <3>2. RetentionStart(run.at) \in Int /\ d \in Int BY <3>1, RetentionGrows DEF Days
    <3> QED BY <2>2, <3>1, <3>2
  <2>4. AtLeast(run.daily[d], EventsOn(run.looked, d))
    BY <2>2, <2>3 DEF PlayInv, RunCounted
  <2> QED BY <2>2, <2>4 DEF AtLeast, EventsOn
<1> HIDE DEF A
<1>2. PlaySpec => [][A]_playVars BY <1>1, PlayInvariant, PTL DEF PlaySpec
<1> QED BY <1>2, PTL DEF NothingMissed, A

(* A run that was not overtaken replaces a count by one that is no smaller,*)
(* and so does any run on days that none has found expired: no such sum of *)
(* counts that a requester is shown gets smaller (recompute,               *)
(* deleteExpired).                                                         *)
THEOREM ImpressionsNeverShrink == PlaySpec => NeverShrinks
<1> DEFINE A == \A from, to \in Days : \A placement \in {"plays", "wall"} :
                  from >= horizon \/ ~Overtaken =>
                    Impressions(from, to, placement)
                      <= Impressions(from, to, placement)'
<1>1. PlayInv /\ [PlayNext]_playVars => A
  <2> SUFFICES ASSUME PlayInv, [PlayNext]_playVars, NEW from \in Days, NEW to \in Days,
                      NEW placement \in {"plays", "wall"},
                      from >= horizon \/ ~Overtaken
               PROVE  Impressions(from, to, placement) <= Impressions(from, to, placement)'
    OBVIOUS
  <2> DEFINE T == from..to
             f == [d \in T |-> daily[d][placement]]
             g == [d \in T |-> daily'[d][placement]]
  <2>1. PlayShapes BY DEF PlayInv
  <2>2. from \in Int /\ to \in Int BY DEF Days
  <2>3. T \subseteq Days
    <3>1. Day(MaxTime) \in Int BY PlayEventsConstantsOK, DayGrows
    <3> QED BY <3>1 DEF Days
  <2>4. IsFiniteSet(T) BY <2>2, FS_Interval
  <2>5. /\ Impressions(from, to, placement) = Total(f, T)
        /\ Impressions(from, to, placement)' = Total(g, T)
    <3>1. /\ Impressions(from, to, placement) = SumOf(daily, placement, T)
          /\ Impressions(from, to, placement)' = SumOf(daily', placement, T)
      BY DEF Impressions, MapThenSumSet, MapThenFoldSet, SumOf, AnyOf
    <3> QED BY <3>1, SumOfIsTotal
  <2>6. \A d \in Days : daily[d] \in Count BY <2>1 DEF PlayShapes
  <2>h. \A d \in T : d >= horizon \/ ~Overtaken
    <3>1. horizon \in Int BY <2>1 DEF PlayShapes
    <3> QED BY <3>1, <2>2
  <2>7. \A d \in T : /\ daily'[d] \in Count
                     /\ daily[d].plays <= daily'[d].plays
                     /\ daily[d].wall <= daily'[d].wall
    <3>1. CASE Commit
      <4>1. run # Null /\ run.step = "counted" /\ daily' = run.daily
        BY <3>1 DEF Commit
      <4>2. run.daily \in [Days -> Count] BY <4>1, <2>1 DEF PlayShapes, Job
      <4> QED BY <4>1, <4>2, <2>3, <2>h DEF PlayInv, RunCounted
    <3>2. CASE ~Commit
      <4>1. daily' = daily
        BY <3>2 DEF PlayNext, Render, Receive, Store, ComeLate, Begin, Skip, Recompute,
                    RollBack, Tick, playVars, jobVars
      <4> QED BY <4>1, <2>3, <2>6 DEF Count
    <3> QED BY <3>1, <3>2
  <2>8. \A d \in T : f[d] \in Nat /\ g[d] \in Nat /\ f[d] <= g[d]
    BY <2>3, <2>6, <2>7 DEF Count
  <2> HIDE DEF f, g, T
  <2>9. Total(f, T) <= Total(g, T) BY <2>4, <2>8, SumGrows
  <2> QED BY <2>5, <2>9
<1>2. PlaySpec => [][A]_playVars BY <1>1, PlayInvariant, PTL DEF PlaySpec
<1> QED BY <1>2 DEF NeverShrinks

-----------------------------------------------------------------------------
(* One notice per outage, for any devices, heartbeats, spells and          *)
(* incidents, and that detection implements Outages: an outage that was    *)
(* announced and goes on is the open incident in the table and in every    *)
(* finding (GoesOn), whatever was edited or heard since, and a finding to  *)
(* alert is about an outage of which there is no notice (FindingsAreNew).  *)

USE NoticesConstantsOK, DeviceAlertsConstantsOK

Known(n) == notices[n] # "NONE"

(* Incidents are numbered without gaps, and the open one has its notice.   *)
IncidentsInRow ==
  /\ \A d \in Device, i, j \in Incident :
       Known(Off(d, i)) /\ j < i => Known(Off(d, j))
  /\ \A d \in Device, i \in Incident : alerts[d].incident = i => Known(Off(d, i))

(* The outage of a notice began with a heartbeat and in a spell that the   *)
(* device had, and while no other heartbeat came it has been silent.       *)
AboutThePast ==
  \A d \in Device, i \in Incident : Known(Off(d, i)) =>
    /\ about[d][i][1] <= devices[d].seen
    /\ about[d][i][2] <= devices[d].spell
    /\ about[d][i][1] = devices[d].seen => ~devices[d].recent

(* The outage that the notice of incident i is about has not ended.        *)
Lasts(d, i) ==
  Known(Off(d, i)) /\ devices[d].active
    /\ about[d][i] = <<devices[d].seen, devices[d].spell>>

GoesOn ==
  \A d \in Device, i \in Incident : Lasts(d, i) =>
    /\ alerts[d].incident = i /\ alerts[d].seen = devices[d].seen
    /\ job.at = "read" => job.findings[d].state.incident = i

(* What the run under way found was so when it read.                       *)
FindingsFollow ==
  job.at = "read" => \A d \in Device :
    LET f == job.findings[d] IN
    /\ f.state.incident \in {None, alerts[d].incident}
    /\ f.recovered # None => f.recovered = alerts[d].incident /\ f.state.incident = None
    /\ f.alert => f.state.incident = None
    /\ f.state.seen <= devices[d].seen /\ f.spell <= devices[d].spell
    /\ f.alert /\ f.state.seen = devices[d].seen => ~devices[d].recent
    /\ devices[d].seen = f.state.seen \/ \A i \in Incident : ~Lasts(d, i)

FindingsAreNew ==
  job.at = "read" => \A d \in Device, i \in Incident :
    job.findings[d].alert /\ Known(Off(d, i))
      => about[d][i] # <<job.findings[d].state.seen, job.findings[d].spell>>

Distinct ==
  \A d \in Device, i, j \in Incident :
    i # j /\ Known(Off(d, i)) /\ Known(Off(d, j)) => about[d][i] # about[d][j]

IInv ==
  /\ TypeOK
  /\ IncidentsInRow
  /\ AboutThePast
  /\ GoesOn
  /\ FindingsFollow
  /\ FindingsAreNew
  /\ Distinct

-----------------------------------------------------------------------------
(* Notices and their numbers.                                              *)

(* A set of numbers without gaps holds those up to its size. *)
LEMMA NoGaps ==
  ASSUME NEW N \in Nat, NEW S \in SUBSET (1..N),
         \A i, j \in 1..N : i \in S /\ j < i => j \in S
  PROVE  /\ Cardinality(S) \in Nat
         /\ \A i \in 1..N : i \in S <=> i <= Cardinality(S)
  <1>f. IsFiniteSet(1..N) BY FS_Interval
  <1>1. IsFiniteSet(S) BY <1>f, FS_Subset
  <1>2. Cardinality(S) \in Nat BY <1>1, FS_CardinalityType
  <1>3. ASSUME NEW i \in S PROVE i <= Cardinality(S)
    <2>1. \A j \in 1..i : j \in 1..N /\ (j = i \/ j < i) BY <1>3
    <2>s. 1..i \subseteq S BY <1>3, <2>1
    <2>2. Cardinality(1..i) <= Cardinality(S) BY <1>1, <2>s, FS_Subset
    <2>3. Cardinality(1..i) = i BY <1>3, FS_Interval
    <2> QED BY <2>2, <2>3
  <1>4. ASSUME NEW i \in 1..N, i \notin S PROVE Cardinality(S) < i
    <2>1. S \subseteq 1..(i - 1) BY <1>4
    <2>2. /\ IsFiniteSet(1..(i - 1))
          /\ Cardinality(1..(i - 1)) = i - 1
      BY FS_Interval
    <2>3. Cardinality(S) <= Cardinality(1..(i - 1)) BY <2>1, <2>2, FS_Subset
    <2> QED BY <1>2, <2>2, <2>3
  <1> QED BY <1>2, <1>3, <1>4

LEMMA NoticeShapes ==
  /\ \A d \in Device, i \in Incident : Off(d, i) \in Notice /\ Rec(d, i) \in Notice
  /\ \A s \in Slots : Review(s) \in Notice
  /\ \A d, e, i, j : /\ Off(d, i) = Off(e, j) => d = e /\ i = j
                     /\ Rec(d, i) = Rec(e, j) => d = e /\ i = j
                     /\ Off(d, i) # Rec(e, j)
                     /\ Review(d) # Off(e, j) /\ Review(d) # Rec(e, j)
  /\ \A d, i : /\ Off(d, i)[1] = "OFFLINE" /\ Off(d, i)[2] = d /\ Off(d, i)[3] = i
               /\ Rec(d, i)[1] = "RECOVERED" /\ Rec(d, i)[2] = d /\ Rec(d, i)[3] = i
               /\ Review(d)[1] = "REVIEW"
  /\ \A n \in Notice : \/ \E d \in Device, i \in Incident : n = Off(d, i)
                       \/ \E d \in Device, i \in Incident : n = Rec(d, i)
                       \/ \E s \in Slots : n = Review(s)
  BY DEF Off, Rec, Review, Notice

(* A fresh incident is the first that has no notice yet. *)
LEMMA NextIsFresh ==
  ASSUME NoticesConstantsOK, NEW table, NEW d \in Device,
         \A i, j \in Incident :
           table[Off(d, i)] # "NONE" /\ j < i => table[Off(d, j)] # "NONE"
  PROVE  /\ NextIncident(table, d) \in Nat \ {0}
         /\ \A j \in Incident :
              table[Off(d, j)] # "NONE" <=> j < NextIncident(table, d)
  <1> DEFINE S == {i \in Incident : table[Off(d, i)] # "NONE"}
  <1>1. S \in SUBSET (1..MaxIncidents) BY DEF Incident
  <1>2. \A i, j \in 1..MaxIncidents : i \in S /\ j < i => j \in S BY DEF Incident
  <1>3. MaxIncidents \in Nat BY DEF NoticesConstantsOK
  <1> HIDE DEF S
  <1>4. /\ Cardinality(S) \in Nat
        /\ \A i \in 1..MaxIncidents : i \in S <=> i <= Cardinality(S)
    BY <1>1, <1>2, <1>3, NoGaps
  <1>5. NextIncident(table, d) = Cardinality(S) + 1 BY DEF NextIncident, S
  <1>6. \A j \in Incident : j \in S <=> j < NextIncident(table, d)
    BY <1>3, <1>4, <1>5 DEF Incident
  <1>7. \A j \in Incident : j \in S <=> table[Off(d, j)] # "NONE" BY DEF S
  <1> QED BY <1>4, <1>5, <1>6, <1>7

-----------------------------------------------------------------------------
(* What the devices do, and a run that dies.                               *)

(* A device is heard or activated again, or it stays silent, or off.       *)
Later(new, old) ==
  /\ new.seen >= old.seen /\ new.spell >= old.spell
  /\ new.seen = old.seen /\ new.recent => old.recent
  /\ new.spell = old.spell /\ new.active => old.active

LEMMA DevicesMove ==
  ASSUME IInv, UNCHANGED <<alerts, notices, about>>, job' \in {job, Idle},
         devices' \in [Device -> DeviceRow],
         \A d \in Device : Later(devices'[d], devices[d])
  PROVE  IInv'
<1>1. \A d \in Device : /\ devices[d].seen \in Nat /\ devices[d].spell \in Nat
                        /\ devices'[d].seen \in Nat /\ devices'[d].spell \in Nat
                        /\ devices[d] \in DeviceRow
  BY DEF IInv, TypeOK, DeviceRow
<1>2. \A d \in Device, i \in Incident :
        /\ about[d][i] \in (0..MaxBeats) \X (0..MaxSpells)
        /\ about[d][i] = <<about[d][i][1], about[d][i][2]>>
        /\ about[d][i][1] \in Nat /\ about[d][i][2] \in Nat
  BY DEF IInv, TypeOK
<1>3. TypeOK'
  <2>1. Idle \in [at : {"idle", "read"}, findings : [Device -> Finding]]
    BY DEF Idle, Nothing, Finding, AlertState, None
  <2> QED  BY <2>1 DEF IInv, TypeOK
<1>4. IncidentsInRow'
  BY DEF IInv, IncidentsInRow, Known
<1>5. AboutThePast'
  <2> SUFFICES ASSUME NEW d \in Device, NEW i \in Incident, Known(Off(d, i))
               PROVE  /\ about[d][i][1] <= devices'[d].seen
                      /\ about[d][i][2] <= devices'[d].spell
                      /\ about[d][i][1] = devices'[d].seen => ~devices'[d].recent
    BY DEF AboutThePast, Known
  <2>1. /\ about[d][i][1] <= devices[d].seen /\ about[d][i][2] <= devices[d].spell
        /\ about[d][i][1] = devices[d].seen => ~devices[d].recent
    BY DEF IInv, AboutThePast
  <2>2. /\ devices'[d].seen >= devices[d].seen /\ devices'[d].spell >= devices[d].spell
        /\ devices'[d].seen = devices[d].seen /\ devices'[d].recent => devices[d].recent
    BY DEF Later
  <2>3. /\ about[d][i][1] <= devices'[d].seen /\ about[d][i][2] <= devices'[d].spell
        /\ about[d][i][1] = devices'[d].seen => devices'[d].seen = devices[d].seen
    <3> DEFINE a == about[d][i][1]
               b == about[d][i][2]
    <3>1. /\ a \in Nat /\ b \in Nat /\ a <= devices[d].seen /\ b <= devices[d].spell
          /\ devices[d].seen \in Nat /\ devices[d].spell \in Nat
          /\ devices'[d].seen \in Nat /\ devices'[d].spell \in Nat
      BY <1>1, <1>2, <2>1
    <3> HIDE DEF a, b
    <3>2. /\ a <= devices'[d].seen /\ b <= devices'[d].spell
          /\ a = devices'[d].seen => devices'[d].seen = devices[d].seen
      BY <2>2, <3>1
    <3> QED  BY <3>2 DEF a, b
  <2> QED  BY <2>1, <2>2, <2>3
<1>6. ASSUME NEW d \in Device, NEW i \in Incident, Lasts(d, i)'
      PROVE  Lasts(d, i) /\ devices'[d].seen = devices[d].seen
  <2>1. /\ Known(Off(d, i)) /\ devices'[d].active
        /\ about[d][i] = <<devices'[d].seen, devices'[d].spell>>
    BY <1>6 DEF Lasts, Known
  <2>2. about[d][i][1] = devices'[d].seen /\ about[d][i][2] = devices'[d].spell
    BY <2>1
  <2>3. about[d][i][1] <= devices[d].seen /\ about[d][i][2] <= devices[d].spell
    BY <2>1 DEF IInv, AboutThePast
  <2>4. devices'[d].seen = devices[d].seen /\ devices'[d].spell = devices[d].spell
    BY <1>1, <2>2, <2>3 DEF Later
  <2> QED  BY <2>1, <2>4 DEF Lasts, Later
<1>7. GoesOn'
  <2> SUFFICES ASSUME NEW d \in Device, NEW i \in Incident, Lasts(d, i)'
               PROVE  /\ alerts[d].incident = i /\ alerts[d].seen = devices'[d].seen
                      /\ job'.at = "read" => job'.findings[d].state.incident = i
    BY DEF GoesOn
  <2> QED  BY <1>6 DEF IInv, GoesOn, Idle
<1>8. CASE job' = job
  <2>1. ASSUME job.at = "read", NEW d \in Device
        PROVE  LET f == job.findings[d] IN
               /\ f.state.seen <= devices'[d].seen /\ f.spell <= devices'[d].spell
               /\ f.alert /\ f.state.seen = devices'[d].seen => ~devices'[d].recent
               /\ devices'[d].seen = f.state.seen \/ \A i \in Incident : ~Lasts(d, i)'
    <3> DEFINE f == job.findings[d]
    <3>1. /\ f.state.seen <= devices[d].seen /\ f.spell <= devices[d].spell
          /\ f.alert /\ f.state.seen = devices[d].seen => ~devices[d].recent
          /\ devices[d].seen = f.state.seen \/ \A i \in Incident : ~Lasts(d, i)
      BY <2>1 DEF IInv, FindingsFollow
    <3>2. f.state.seen \in Nat /\ f.spell \in Nat
      BY DEF IInv, TypeOK, Finding, AlertState
    <3> HIDE DEF f
    <3>3. f.state.seen <= devices'[d].seen /\ f.spell <= devices'[d].spell
      BY <1>1, <3>1, <3>2 DEF Later
    <3>4. f.alert /\ f.state.seen = devices'[d].seen => ~devices'[d].recent
      BY <1>1, <3>1, <3>2 DEF Later
    <3>5. devices'[d].seen = f.state.seen \/ \A i \in Incident : ~Lasts(d, i)'
      BY <1>6, <3>1
    <3> QED  BY <3>3, <3>4, <3>5 DEF f
  <2>2. FindingsFollow'
    BY <1>8, <2>1 DEF IInv, FindingsFollow
  <2>3. FindingsAreNew'
    BY <1>8 DEF IInv, FindingsAreNew, Known
  <2> QED  BY <2>2, <2>3, <1>3, <1>4, <1>5, <1>7 DEF IInv, Distinct, Known
<1>9. CASE job' = Idle
  <2>1. FindingsFollow' /\ FindingsAreNew'
    BY <1>9 DEF FindingsFollow, FindingsAreNew, Idle
  <2> QED  BY <2>1, <1>3, <1>4, <1>5, <1>7 DEF IInv, Distinct, Known
<1> QED  BY <1>8, <1>9

LEMMA RowStep ==
  ASSUME IInv, NEW d \in Device, NEW row \in DeviceRow, Later(row, devices[d]),
         Becomes(d, row)
  PROVE  IInv'
<1>1. /\ devices' = [devices EXCEPT ![d] = row]
      /\ UNCHANGED <<alerts, job, notices, about>>
  BY DEF Becomes
<1>2. \A e \in Device : /\ devices[e] \in DeviceRow
                        /\ devices'[e] = IF e = d THEN row ELSE devices[e]
  BY <1>1 DEF IInv, TypeOK
<1>3. \A e \in Device : Later(devices[e], devices[e])
  BY <1>2 DEF DeviceRow, Later
<1>4. devices' \in [Device -> DeviceRow]
  BY <1>1 DEF IInv, TypeOK
<1> QED  BY <1>1, <1>2, <1>3, <1>4, DevicesMove

LEMMA DeviceSteps ==
  ASSUME IInv, NEW d \in Device,
         \/ Heartbeat(d) \/ GoesSilent(d) \/ ShieldEnds(d) \/ TurnsQuiet(d)
         \/ \E active \in BOOLEAN : Edit(d, active)
  PROVE  IInv'
<1>1. /\ devices[d] \in DeviceRow
      /\ devices[d].seen \in Nat /\ devices[d].spell \in Nat
  BY DEF IInv, TypeOK, DeviceRow
<1>2. CASE Heartbeat(d)
  <2> DEFINE seen == devices[d].seen + 1
             row == [devices[d] EXCEPT !.seen = seen, !.recent = TRUE]
  <2>1. devices[d].seen < MaxBeats /\ Becomes(d, row)
    BY <1>2 DEF Heartbeat
  <2>2. seen \in 0..MaxBeats /\ seen > devices[d].seen
    BY <1>1, <2>1
  <2> HIDE DEF seen
  <2>3. /\ row \in DeviceRow /\ row.seen = seen
        /\ row.spell = devices[d].spell /\ row.active = devices[d].active
    BY <1>1, <2>2 DEF DeviceRow
  <2> HIDE DEF row
  <2>4. Later(row, devices[d])
    BY <1>1, <2>2, <2>3 DEF Later
  <2> QED  BY <2>1, <2>3, <2>4, RowStep
<1>3. CASE GoesSilent(d) \/ ShieldEnds(d)
  <2>1. PICK row \in {[devices[d] EXCEPT !.recent = FALSE],
                      [devices[d] EXCEPT !.shield = FALSE]} : Becomes(d, row)
    BY <1>3 DEF GoesSilent, ShieldEnds
  <2>2. /\ row \in DeviceRow /\ row.seen = devices[d].seen
        /\ row.spell = devices[d].spell /\ row.active = devices[d].active
        /\ row.recent => devices[d].recent
    BY <1>1, <2>1 DEF DeviceRow
  <2>3. Later(row, devices[d])
    BY <1>1, <2>2 DEF Later
  <2> QED  BY <2>1, <2>2, <2>3, RowStep
<1>4. CASE TurnsQuiet(d)
  <2> DEFINE row == [devices[d] EXCEPT !.quiet = ~@, !.shield = TRUE]
  <2>1. Becomes(d, row)
    BY <1>4 DEF TurnsQuiet
  <2>2. /\ row \in DeviceRow /\ row.seen = devices[d].seen
        /\ row.spell = devices[d].spell /\ row.active = devices[d].active
        /\ row.recent = devices[d].recent
    BY <1>1 DEF DeviceRow
  <2> HIDE DEF row
  <2>3. Later(row, devices[d])
    BY <1>1, <2>2 DEF Later
  <2> QED  BY <2>1, <2>2, <2>3, RowStep
<1>5. ASSUME NEW active \in BOOLEAN, Edit(d, active)
      PROVE  IInv'
  <2> DEFINE again == active /\ ~devices[d].active
             spell == IF again THEN devices[d].spell + 1 ELSE devices[d].spell
             row == [devices[d] EXCEPT !.active = active, !.shield = TRUE,
                                       !.edited = TRUE, !.spell = spell]
  <2>1. (again => devices[d].spell < MaxSpells) /\ Becomes(d, row)
    BY <1>5, Zenon DEF Edit
  <2>2. spell \in 0..MaxSpells /\ spell >= devices[d].spell
        /\ (spell = devices[d].spell /\ active => devices[d].active)
    BY <1>1, <2>1 DEF DeviceRow
  <2> HIDE DEF spell
  <2>3. /\ row \in DeviceRow /\ row.seen = devices[d].seen
        /\ row.spell = spell /\ row.active = active /\ row.recent = devices[d].recent
    BY <1>1, <2>2 DEF DeviceRow
  <2> HIDE DEF row
  <2>4. Later(row, devices[d])
    BY <1>1, <2>2, <2>3 DEF Later
  <2> QED  BY <2>1, <2>3, <2>4, RowStep
<1> QED  BY <1>2, <1>3, <1>4, <1>5

LEMMA DiesStep ==
  ASSUME IInv, JobDies
  PROVE  IInv'
<1>1. /\ job' = Idle /\ UNCHANGED <<alerts, notices, about>>
      /\ devices' = [d \in Device |->
           [devices[d] EXCEPT !.edited = devices[d].edited \/ job.findings[d].edited]]
  BY DEF JobDies
<1>2. ASSUME NEW d \in Device
      PROVE  devices'[d] \in DeviceRow /\ Later(devices'[d], devices[d])
  <2>1. devices[d] \in DeviceRow /\ devices[d].seen \in Nat /\ devices[d].spell \in Nat
    BY DEF IInv, TypeOK, DeviceRow
  <2>2. (devices[d].edited \/ job.findings[d].edited) \in BOOLEAN
    OBVIOUS
  <2>3. PICK edited \in BOOLEAN : devices'[d] = [devices[d] EXCEPT !.edited = edited]
    BY <1>1, <2>2
  <2> QED  BY <2>1, <2>3 DEF DeviceRow, Later
<1>3. devices' \in [Device -> DeviceRow]
  BY <1>1, <1>2
<1> QED  BY <1>1, <1>2, <1>3, DevicesMove

-----------------------------------------------------------------------------
(* What a run reads.                                                       *)

LEMMA StatusFacts ==
  ASSUME NEW row \in DeviceRow
  PROVE  /\ StatusOf(row) \in DeviceStatus
         /\ StatusOf(row) = "OFFLINE" => row.active /\ ~row.recent
         /\ row.active /\ ~row.recent => StillOpen(StatusOf(row))
  BY DEF StatusOf, DeviceStatus, DeviceRow, StillOpen

LEMMA EvaluateFacts ==
  ASSUME NEW row \in DeviceRow, NEW prev \in AlertState
  PROVE  LET f == Evaluate(row, prev) IN
         /\ f \in Finding
         /\ f.state.seen = row.seen /\ f.spell = row.spell
         /\ f.state.incident \in {None, prev.incident}
         /\ f.recovered # None => f.recovered = prev.incident /\ f.state.incident = None
         /\ f.alert => f.state.incident = None /\ row.active /\ ~row.recent
         /\ row.active /\ ~row.recent /\ row.seen = prev.seen
              => f.state.incident = prev.incident
<1> DEFINE status == StatusOf(row)
           incident == IF Heard(row, prev) \/ ~StillOpen(status)
                       THEN None ELSE prev.incident
           state == [status |-> status, seen |-> row.seen, incident |-> incident]
           alert == /\ status = "OFFLINE" /\ row.seen # 0 /\ incident = None
                    /\ ~Grace(row, prev) /\ ~row.shield
           f == Evaluate(row, prev)
<1>1. /\ row.seen \in 0..MaxBeats /\ row.spell \in 0..MaxSpells
      /\ row.edited \in BOOLEAN /\ row.shield \in BOOLEAN /\ row.recent \in BOOLEAN
      /\ prev.seen \in 0..MaxBeats /\ prev.incident \in Incident \cup {None}
  BY DEF DeviceRow, AlertState
<1>2. status \in DeviceStatus /\ (status = "OFFLINE" => row.active /\ ~row.recent)
      /\ (row.active /\ ~row.recent => StillOpen(status))
  BY StatusFacts
<1>3. Grace(row, prev) \in BOOLEAN /\ Recovered(row, prev) \in {None, prev.incident}
      /\ (Recovered(row, prev) # None => Heard(row, prev))
      /\ (Heard(row, prev) <=> row.seen > prev.seen)
      /\ (Recovered(row, prev) # None) \in BOOLEAN
  BY <1>1 DEF Grace, Recovered, Heard
<1>4. f = [state |-> state, alert |-> alert, grace |-> Grace(row, prev),
           edited |-> row.edited, recovered |-> Recovered(row, prev),
           looks |-> Recovered(row, prev) # None, spell |-> row.spell]
  BY DEF Evaluate
<1>5. /\ f.state = state /\ f.alert = alert /\ f.spell = row.spell
      /\ f.recovered = Recovered(row, prev)
  BY <1>4
<1> HIDE DEF f, status
<1>6. incident \in {None, prev.incident}
      /\ (Heard(row, prev) => incident = None)
      /\ (StillOpen(status) /\ row.seen = prev.seen => incident = prev.incident)
  BY <1>1, <1>3
<1> HIDE DEF incident
<1>7. /\ state \in AlertState /\ state.seen = row.seen /\ state.incident = incident
  BY <1>1, <1>2, <1>6 DEF AlertState
<1>8. alert \in BOOLEAN /\ (alert => status = "OFFLINE" /\ incident = None)
  OBVIOUS
<1> HIDE DEF alert, state
<1>9. f \in Finding
  BY <1>1, <1>3, <1>4, <1>7, <1>8 DEF Finding
<1> QED  BY <1>2, <1>3, <1>5, <1>6, <1>7, <1>8, <1>9 DEF f

LEMMA ReadsStep ==
  ASSUME IInv, JobReads
  PROVE  IInv'
<1>1. /\ job' = [at |-> "read", findings |->
                   [d \in Device |-> Evaluate(devices[d], alerts[d])]]
      /\ UNCHANGED <<alerts, notices, about>>
  BY DEF JobReads
<1>2. job'.at = "read" /\ \A d \in Device :
        job'.findings[d] = Evaluate(devices[d], alerts[d])
  BY <1>1
<1>3. ASSUME NEW d \in Device
      PROVE  /\ devices[d] \in DeviceRow /\ devices'[d] \in DeviceRow
             /\ devices'[d].active = devices[d].active
             /\ devices'[d].seen = devices[d].seen /\ devices'[d].spell = devices[d].spell
             /\ devices'[d].recent = devices[d].recent
             /\ devices[d].seen \in Nat /\ devices[d].spell \in Nat
             /\ alerts[d] \in AlertState
  <2>0. PICK late \in SUBSET {e \in Device : devices[e].edited} :
          devices' = [e \in Device |-> [devices[e] EXCEPT !.edited = e \in late]]
    BY DEF JobReads
  <2>1. PICK edited \in BOOLEAN : devices'[d] = [devices[d] EXCEPT !.edited = edited]
    <3>1. (d \in late) \in BOOLEAN
      OBVIOUS
    <3> QED  BY <2>0, <3>1
  <2>2. devices[d] \in DeviceRow /\ alerts[d] \in AlertState
    BY DEF IInv, TypeOK
  <2> QED  BY <2>1, <2>2 DEF DeviceRow
<1>4. devices' \in [Device -> DeviceRow]
  <2>1. devices' = [d \in Device |-> devices'[d]]
    BY DEF JobReads
  <2> QED  BY <1>3, <2>1
<1>5. ASSUME NEW d \in Device
      PROVE  LET f == job'.findings[d] IN
             /\ f \in Finding
             /\ f.state.seen = devices[d].seen /\ f.spell = devices[d].spell
             /\ f.state.incident \in {None, alerts[d].incident}
             /\ f.recovered # None =>
                  f.recovered = alerts[d].incident /\ f.state.incident = None
             /\ f.alert => /\ f.state.incident = None
                           /\ devices[d].active /\ ~devices[d].recent
             /\ devices[d].active /\ ~devices[d].recent
                  /\ devices[d].seen = alerts[d].seen
                  => f.state.incident = alerts[d].incident
  BY <1>2, <1>3, EvaluateFacts
<1>6. TypeOK'
  <2>1. job' \in [at : {"idle", "read"}, findings : [Device -> Finding]]
    BY <1>1, <1>2, <1>5
  <2> QED  BY <1>1, <1>4, <2>1 DEF IInv, TypeOK
<1>7. IncidentsInRow' /\ Distinct'
  BY <1>1 DEF IInv, IncidentsInRow, Distinct, Known
<1>8. AboutThePast'
  BY <1>1, <1>3 DEF IInv, AboutThePast, Known
<1>9. \A d \in Device, i \in Incident : Lasts(d, i)' <=> Lasts(d, i)
  BY <1>1, <1>3 DEF Lasts, Known
<1>10. ASSUME NEW d \in Device, NEW i \in Incident, Lasts(d, i)
       PROVE  /\ alerts[d].incident = i /\ alerts[d].seen = devices[d].seen
              /\ job'.findings[d].state.incident = i
  <2>1. alerts[d].incident = i /\ alerts[d].seen = devices[d].seen
    BY <1>10 DEF IInv, GoesOn
  <2>2. devices[d].active /\ ~devices[d].recent
    BY <1>10 DEF IInv, AboutThePast, Lasts
  <2> QED  BY <1>5, <2>1, <2>2
<1>11. GoesOn'
  BY <1>1, <1>3, <1>9, <1>10 DEF GoesOn
<1>12. FindingsFollow'
  <2> SUFFICES ASSUME NEW d \in Device
               PROVE  LET f == job'.findings[d] IN
                      /\ f.state.incident \in {None, alerts'[d].incident}
                      /\ f.recovered # None =>
                           f.recovered = alerts'[d].incident /\ f.state.incident = None
                      /\ f.alert => f.state.incident = None
                      /\ f.state.seen <= devices'[d].seen /\ f.spell <= devices'[d].spell
                      /\ f.alert /\ f.state.seen = devices'[d].seen => ~devices'[d].recent
                      /\ devices'[d].seen = f.state.seen \/ \A i \in Incident : ~Lasts(d, i)'
    BY DEF FindingsFollow
  <2> QED  BY <1>1, <1>3, <1>5
<1>13. FindingsAreNew'
  <2> SUFFICES ASSUME NEW d \in Device, NEW i \in Incident,
                      job'.findings[d].alert, Known(Off(d, i)),
                      about[d][i] = <<job'.findings[d].state.seen, job'.findings[d].spell>>
               PROVE  FALSE
    BY <1>1 DEF FindingsAreNew, Known
  <2>1. devices[d].active /\ job'.findings[d].state.incident = None
        /\ about[d][i] = <<devices[d].seen, devices[d].spell>>
    BY <1>5
  <2>2. Lasts(d, i)
    BY <2>1 DEF Lasts
  <2>3. None \notin Incident
    BY DEF None, Incident
  <2> QED  BY <1>10, <2>1, <2>2, <2>3
<1> QED  BY <1>6, <1>7, <1>8, <1>11, <1>12, <1>13 DEF IInv

(* What became of the notice of an outage: the finding keeps its recovery, *)
(* or drops it.                                                            *)
LEMMA LooksStep ==
  ASSUME IInv, NEW d \in Device, JobLooks(d)
  PROVE  IInv'
<1> DEFINE i == job.findings[d].recovered
           kept == IF WorthTelling(notices, d, i) THEN i ELSE None
<1>1. /\ job' = [job EXCEPT !.findings[d].looks = FALSE, !.findings[d].recovered = kept]
      /\ UNCHANGED <<devices, alerts, notices, about>>
  BY DEF JobLooks
<1>2. kept \in {i, None}
  OBVIOUS
<1>3. /\ job \in [at : {"idle", "read"}, findings : [Device -> Finding]]
      /\ job.findings[d] \in Finding
  BY DEF IInv, TypeOK
<1> HIDE DEF kept
<1>4. /\ job'.at = job.at
      /\ \A e \in Device : job'.findings[e] =
           IF e = d THEN [job.findings[d] EXCEPT !.looks = FALSE, !.recovered = kept]
                    ELSE job.findings[e]
      /\ job'.findings = [e \in Device |-> job'.findings[e]]
      /\ job' = [at |-> job'.at, findings |-> job'.findings]
  BY <1>1, <1>3
<1>5. ASSUME NEW e \in Device
      PROVE  LET f == job.findings[e]
                 g == job'.findings[e]
             IN /\ g \in Finding
                /\ g.state = f.state /\ g.alert = f.alert /\ g.spell = f.spell
                /\ g.recovered \in {f.recovered, None}
  <2>1. job.findings[e] \in Finding /\ job.findings[e].recovered \in Incident \cup {None}
    BY <1>3 DEF Finding
  <2>2. CASE e # d
    BY <1>4, <2>1, <2>2
  <2>3. CASE e = d
    <3>1. job'.findings[e] = [job.findings[e] EXCEPT !.looks = FALSE, !.recovered = kept]
      BY <1>4, <2>3
    <3>2. kept \in Incident \cup {None} /\ kept \in {job.findings[e].recovered, None}
      BY <1>2, <2>1, <2>3
    <3> HIDE DEF i
    <3> QED  BY <2>1, <3>1, <3>2 DEF Finding
  <2> QED  BY <2>2, <2>3
<1>6. TypeOK'
  <2>1. job' \in [at : {"idle", "read"}, findings : [Device -> Finding]]
    BY <1>3, <1>4, <1>5
  <2> QED  BY <1>1, <2>1 DEF IInv, TypeOK
<1>7. IncidentsInRow' /\ AboutThePast' /\ Distinct'
  BY <1>1 DEF IInv, IncidentsInRow, AboutThePast, Distinct, Known
<1>8. \A e \in Device, j \in Incident : Lasts(e, j)' <=> Lasts(e, j)
  BY <1>1 DEF Lasts, Known
<1>9. GoesOn'
  BY <1>1, <1>4, <1>5, <1>8 DEF IInv, GoesOn
<1>10. FindingsFollow'
  <2> SUFFICES ASSUME job'.at = "read", NEW e \in Device
               PROVE  LET f == job'.findings[e] IN
                      /\ f.state.incident \in {None, alerts[e].incident}
                      /\ f.recovered # None =>
                           f.recovered = alerts[e].incident /\ f.state.incident = None
                      /\ f.alert => f.state.incident = None
                      /\ f.state.seen <= devices[e].seen /\ f.spell <= devices[e].spell
                      /\ f.alert /\ f.state.seen = devices[e].seen => ~devices[e].recent
                      /\ devices[e].seen = f.state.seen \/ \A j \in Incident : ~Lasts(e, j)'
    BY <1>1 DEF FindingsFollow
  <2> QED  BY <1>4, <1>5, <1>8 DEF IInv, FindingsFollow
<1>11. FindingsAreNew'
  BY <1>1, <1>4, <1>5 DEF IInv, FindingsAreNew, Known
<1> QED  BY <1>6, <1>7, <1>9, <1>10, <1>11 DEF IInv

-----------------------------------------------------------------------------
(* What a run writes.                                                      *)

Id(d) == NextIncident(notices, d)

OpensNow(d) == job.findings[d].alert /\ Id(d) \in Incident

Found(d) == job.findings[d]

(* The next number is free.                                                *)
LEMMA IdIsFree ==
  ASSUME IInv, NEW d \in Device
  PROVE  /\ Id(d) \in Nat \ {0}
         /\ \A i \in Incident : Known(Off(d, i)) <=> i < Id(d)
         /\ alerts[d].incident # Id(d)
<1>1. /\ Id(d) \in Nat \ {0}
      /\ \A i \in Incident : Known(Off(d, i)) <=> i < Id(d)
  BY NextIsFresh DEF IInv, IncidentsInRow, Known, Id
<1>2. alerts[d].incident \in Incident \cup {None}
  BY DEF IInv, TypeOK, AlertState
<1>3. alerts[d].incident \in Incident => Known(Off(d, alerts[d].incident))
  BY DEF IInv, IncidentsInRow
<1>4. Incident \subseteq Nat /\ None = 0
  BY DEF Incident, None
<1> QED  BY <1>1, <1>2, <1>3, <1>4

LEMMA WriteFacts ==
  ASSUME IInv, JobWrites
  PROVE  /\ job.at = "read" /\ job' = Idle
         /\ notices' \in [Notice -> Status]
         /\ \A d \in Device, i \in Incident :
              /\ Known(Off(d, i))' <=> Known(Off(d, i)) \/ (OpensNow(d) /\ i = Id(d))
              /\ about'[d][i] = IF OpensNow(d) /\ i = Id(d)
                                THEN <<Found(d).state.seen, Found(d).spell>> ELSE about[d][i]
         /\ about' \in [Device -> [Incident -> (0..MaxBeats) \X (0..MaxSpells)]]
         /\ alerts' \in [Device -> AlertState]
         /\ \A d \in Device :
              /\ Found(d) \in Finding
              /\ alerts'[d].seen = Found(d).state.seen
              /\ alerts'[d].incident = IF OpensNow(d) THEN Id(d) ELSE Found(d).state.incident
         /\ devices' \in [Device -> DeviceRow]
         /\ \A d \in Device :
              /\ devices'[d].active = devices[d].active
              /\ devices'[d].seen = devices[d].seen /\ devices'[d].spell = devices[d].spell
              /\ devices'[d].recent = devices[d].recent
<1> DEFINE new == {Off(d, Id(d)) : d \in {e \in Device : OpensNow(e)}}
                    \cup {Rec(d, Found(d).recovered) :
                            d \in {e \in Device : Found(e).recovered # None}}
<1>1. /\ job.at = "read" /\ job' = Idle
      /\ notices' = [n \in Notice |->
           IF n \in new /\ notices[n] = "NONE" THEN "PENDING" ELSE notices[n]]
      /\ about' = [d \in Device |-> [i \in Incident |->
           IF OpensNow(d) /\ i = Id(d) THEN <<Found(d).state.seen, Found(d).spell>>
                                       ELSE about[d][i]]]
      /\ alerts' = [d \in Device |->
           IF OpensNow(d) THEN [Found(d).state EXCEPT !.incident = Id(d)]
                          ELSE Found(d).state]
      /\ devices' = [d \in Device |->
           [devices[d] EXCEPT !.shield = devices[d].shield \/ Found(d).grace]]
  BY DEF JobWrites, OpensNow, Found, Id
<1>2. \A d \in Device, i \in Incident :
        Off(d, i) \in new <=> OpensNow(d) /\ i = Id(d)
  BY NoticeShapes DEF OpensNow
<1> HIDE DEF new
<1>3. notices' \in [Notice -> Status]
  BY <1>1 DEF IInv, TypeOK, Status, Live
<1>4. ASSUME NEW d \in Device, NEW i \in Incident
      PROVE  Known(Off(d, i))' <=> Known(Off(d, i)) \/ (OpensNow(d) /\ i = Id(d))
  <2>1. Off(d, i) \in Notice
    BY NoticeShapes
  <2>2. notices'[Off(d, i)] = IF Off(d, i) \in new /\ notices[Off(d, i)] = "NONE"
                              THEN "PENDING" ELSE notices[Off(d, i)]
    BY <1>1, <2>1
  <2> QED  BY <1>2, <2>2 DEF Known
<1>5. ASSUME NEW d \in Device
      PROVE  /\ Found(d) \in Finding
             /\ Found(d).state \in AlertState
             /\ Found(d).state.seen \in 0..MaxBeats /\ Found(d).spell \in 0..MaxSpells
             /\ Found(d).grace \in BOOLEAN
             /\ devices[d] \in DeviceRow
  BY DEF IInv, TypeOK, Finding, AlertState, Found
<1>6. about' \in [Device -> [Incident -> (0..MaxBeats) \X (0..MaxSpells)]]
  BY <1>1, <1>5 DEF IInv, TypeOK
<1>7. ASSUME NEW d \in Device
      PROVE  /\ alerts'[d] \in AlertState
             /\ alerts'[d].seen = Found(d).state.seen
             /\ alerts'[d].incident = IF OpensNow(d) THEN Id(d) ELSE Found(d).state.incident
  <2>1. CASE OpensNow(d)
    <3>1. alerts'[d] = [Found(d).state EXCEPT !.incident = Id(d)] /\ Id(d) \in Incident
      BY <1>1, <2>1 DEF OpensNow
    <3> QED  BY <1>5, <2>1, <3>1 DEF AlertState
  <2>2. CASE ~OpensNow(d)
    BY <1>1, <1>5, <2>2
  <2> QED  BY <2>1, <2>2
<1>8. alerts' \in [Device -> AlertState]
  <2>1. alerts' = [d \in Device |-> alerts'[d]]
    BY <1>1
  <2> QED  BY <1>7, <2>1
<1>9. ASSUME NEW d \in Device
      PROVE  /\ devices'[d] \in DeviceRow /\ devices'[d].active = devices[d].active
             /\ devices'[d].seen = devices[d].seen /\ devices'[d].spell = devices[d].spell
             /\ devices'[d].recent = devices[d].recent
  <2>1. (devices[d].shield \/ Found(d).grace) \in BOOLEAN
    OBVIOUS
  <2>2. PICK shield \in BOOLEAN : devices'[d] = [devices[d] EXCEPT !.shield = shield]
    BY <1>1, <2>1
  <2> QED  BY <1>5, <2>2 DEF DeviceRow
<1>10. devices' \in [Device -> DeviceRow]
  <2>1. devices' = [d \in Device |-> devices'[d]]
    BY <1>1
  <2> QED  BY <1>9, <2>1
<1>11. \A d \in Device, i \in Incident :
         about'[d][i] = IF OpensNow(d) /\ i = Id(d)
                        THEN <<Found(d).state.seen, Found(d).spell>> ELSE about[d][i]
  BY <1>1
<1> QED  BY <1>1, <1>3, <1>4, <1>5, <1>6, <1>7, <1>8, <1>9, <1>10, <1>11

LEMMA WritesStep ==
  ASSUME IInv, JobWrites
  PROVE  IInv'
<1>1. /\ job.at = "read" /\ job' = Idle
      /\ \A d \in Device, i \in Incident :
           /\ Known(Off(d, i))' <=> Known(Off(d, i)) \/ (OpensNow(d) /\ i = Id(d))
           /\ about'[d][i] = IF OpensNow(d) /\ i = Id(d)
                             THEN <<Found(d).state.seen, Found(d).spell>> ELSE about[d][i]
      /\ \A d \in Device :
           /\ Found(d) \in Finding
           /\ alerts'[d].seen = Found(d).state.seen
           /\ alerts'[d].incident = IF OpensNow(d) THEN Id(d) ELSE Found(d).state.incident
           /\ devices'[d].active = devices[d].active
           /\ devices'[d].seen = devices[d].seen /\ devices'[d].spell = devices[d].spell
           /\ devices'[d].recent = devices[d].recent
  BY WriteFacts
<1>2. TypeOK'
  <2>1. Idle \in [at : {"idle", "read"}, findings : [Device -> Finding]]
    BY DEF Idle, Nothing, Finding, AlertState, None
  <2> QED  BY <2>1, WriteFacts DEF TypeOK
<1>3. ASSUME NEW d \in Device
      PROVE  /\ Found(d).state.incident \in {None, alerts[d].incident}
             /\ Found(d).alert => Found(d).state.incident = None
             /\ Found(d).state.seen <= devices[d].seen /\ Found(d).spell <= devices[d].spell
             /\ Found(d).alert /\ Found(d).state.seen = devices[d].seen
                  => ~devices[d].recent
             /\ devices[d].seen = Found(d).state.seen \/ \A i \in Incident : ~Lasts(d, i)
  BY <1>1 DEF IInv, FindingsFollow, Found
<1>4. Incident \subseteq Nat /\ None = 0 /\ None \notin Incident
  BY DEF Incident, None
<1>5. ASSUME NEW d \in Device, OpensNow(d)
      PROVE  /\ ~Known(Off(d, Id(d))) /\ Id(d) \in Incident /\ Found(d).alert
             /\ \A i \in Incident : Known(Off(d, i)) =>
                  about[d][i] # <<Found(d).state.seen, Found(d).spell>>
  <2>1. Id(d) \in Incident /\ Found(d).alert
    BY <1>5 DEF OpensNow, Found
  <2>2. ~Known(Off(d, Id(d)))
    BY <1>4, <2>1, IdIsFree
  <2> QED  BY <1>1, <2>1, <2>2 DEF IInv, FindingsAreNew, Found
<1>6. IncidentsInRow'
  <2>1. ASSUME NEW d \in Device, NEW i \in Incident, NEW j \in Incident,
               Known(Off(d, i))', j < i
        PROVE  Known(Off(d, j))'
    <3>1. CASE Known(Off(d, i))
      BY <1>1, <2>1, <3>1 DEF IInv, IncidentsInRow
    <3>2. CASE OpensNow(d) /\ i = Id(d)
      BY <1>1, <2>1, <3>2, IdIsFree
    <3> QED  BY <1>1, <2>1, <3>1, <3>2
  <2>2. ASSUME NEW d \in Device, NEW i \in Incident, alerts'[d].incident = i
        PROVE  Known(Off(d, i))'
    <3>1. CASE OpensNow(d)
      BY <1>1, <2>2, <3>1
    <3>2. CASE ~OpensNow(d)
      <4>1. alerts[d].incident = i
        BY <1>1, <1>3, <1>4, <2>2, <3>2
      <4> QED  BY <1>1, <4>1 DEF IInv, IncidentsInRow
    <3> QED  BY <3>1, <3>2
  <2> QED  BY <2>1, <2>2 DEF IncidentsInRow
<1>7. AboutThePast'
  <2> SUFFICES ASSUME NEW d \in Device, NEW i \in Incident, Known(Off(d, i))'
               PROVE  /\ about'[d][i][1] <= devices'[d].seen
                      /\ about'[d][i][2] <= devices'[d].spell
                      /\ about'[d][i][1] = devices'[d].seen => ~devices'[d].recent
    BY DEF AboutThePast
  <2>1. CASE OpensNow(d) /\ i = Id(d)
    <3>1. about'[d][i] = <<Found(d).state.seen, Found(d).spell>>
      BY <1>1, <2>1
    <3>2. about'[d][i][1] = Found(d).state.seen /\ about'[d][i][2] = Found(d).spell
      BY <3>1
    <3> QED  BY <1>1, <1>3, <1>5, <2>1, <3>2
  <2>2. CASE ~(OpensNow(d) /\ i = Id(d))
    <3>1. about'[d][i] = about[d][i] /\ Known(Off(d, i))
      BY <1>1, <2>2
    <3> QED  BY <1>1, <3>1 DEF IInv, AboutThePast
  <2> QED  BY <2>1, <2>2
<1>8. GoesOn'
  <2> SUFFICES ASSUME NEW d \in Device, NEW i \in Incident, Lasts(d, i)'
               PROVE  alerts'[d].incident = i /\ alerts'[d].seen = devices'[d].seen
    BY <1>1 DEF GoesOn, Idle
  <2>0. /\ Known(Off(d, i))' /\ devices[d].active
        /\ about'[d][i] = <<devices[d].seen, devices[d].spell>>
    BY <1>1 DEF Lasts
  <2>1. CASE OpensNow(d) /\ i = Id(d)
    <3>1. <<Found(d).state.seen, Found(d).spell>> = <<devices[d].seen, devices[d].spell>>
      BY <1>1, <2>0, <2>1
    <3> QED  BY <1>1, <2>1, <3>1
  <2>2. CASE ~(OpensNow(d) /\ i = Id(d))
    <3>1. about'[d][i] = about[d][i] /\ Known(Off(d, i))
      BY <1>1, <2>0, <2>2
    <3>2. Lasts(d, i)
      BY <2>0, <3>1 DEF Lasts
    <3>3. Found(d).state.incident = i
      BY <1>1, <3>2 DEF IInv, GoesOn, Found
    <3>4. ~OpensNow(d)
      BY <1>3, <1>4, <1>5, <3>3
    <3>5. devices[d].seen = Found(d).state.seen
      BY <1>3, <3>2
    <3> QED  BY <1>1, <3>3, <3>4, <3>5
  <2> QED  BY <2>1, <2>2
<1>9. FindingsFollow' /\ FindingsAreNew'
  BY <1>1 DEF FindingsFollow, FindingsAreNew, Idle
<1>10. Distinct'
  <2> SUFFICES ASSUME NEW d \in Device, NEW i \in Incident, NEW j \in Incident,
                      i # j, Known(Off(d, i))', Known(Off(d, j))'
               PROVE  about'[d][i] # about'[d][j]
    BY DEF Distinct
  <2>1. CASE OpensNow(d) /\ i = Id(d)
    <3>1. Known(Off(d, j)) /\ about'[d][j] = about[d][j]
          /\ about'[d][i] = <<Found(d).state.seen, Found(d).spell>>
      BY <1>1, <2>1
    <3> QED  BY <1>5, <2>1, <3>1
  <2>2. CASE OpensNow(d) /\ j = Id(d)
    <3>1. Known(Off(d, i)) /\ about'[d][i] = about[d][i]
          /\ about'[d][j] = <<Found(d).state.seen, Found(d).spell>>
      BY <1>1, <2>2
    <3> QED  BY <1>5, <2>2, <3>1
  <2>3. CASE ~OpensNow(d) \/ Id(d) \notin {i, j}
    <3>1. Known(Off(d, i)) /\ about'[d][i] = about[d][i]
          /\ Known(Off(d, j)) /\ about'[d][j] = about[d][j]
      BY <1>1, <2>3
    <3> QED  BY <3>1 DEF IInv, Distinct
  <2> QED  BY <2>1, <2>2, <2>3
<1> QED  BY <1>2, <1>6, <1>7, <1>8, <1>9, <1>10 DEF IInv

-----------------------------------------------------------------------------
(* Delivery inserts no notice and takes none away.                         *)
LEMMA DeliveredStep ==
  ASSUME IInv, NEW n \in Notice, NEW status \in Live \cup Settled, Delivered(n, status)
  PROVE  IInv'
<1>1. /\ notices[n] \in Live /\ notices' = [notices EXCEPT ![n] = status]
      /\ UNCHANGED <<devices, alerts, job, about>>
  BY DEF Delivered
<1>2. TypeOK'
  BY <1>1 DEF IInv, TypeOK, Status
<1>3. \A m \in Notice : Known(m)' <=> Known(m)
  BY <1>1 DEF IInv, TypeOK, Known, Live, Settled
<1>4. \A d \in Device, i \in Incident : Known(Off(d, i))' <=> Known(Off(d, i))
  BY <1>3, NoticeShapes
<1>5. IncidentsInRow' /\ AboutThePast' /\ Distinct'
  BY <1>1, <1>4 DEF IInv, IncidentsInRow, AboutThePast, Distinct
<1>6. \A d \in Device, i \in Incident : Lasts(d, i)' <=> Lasts(d, i)
  BY <1>1, <1>4 DEF Lasts
<1>7. GoesOn' /\ FindingsFollow' /\ FindingsAreNew'
  BY <1>1, <1>4, <1>6 DEF IInv, GoesOn, FindingsFollow, FindingsAreNew
<1> QED  BY <1>2, <1>5, <1>7 DEF IInv

LEMMA InitHolds ==
  ASSUME Init
  PROVE  IInv
<1>1. /\ devices = [d \in Device |->
           [active |-> TRUE, seen |-> 0, recent |-> FALSE, quiet |-> FALSE,
            shield |-> TRUE, edited |-> FALSE, spell |-> 0]]
      /\ alerts = [d \in Device |-> Nothing.state] /\ job = Idle
      /\ notices = [n \in Notice |-> "NONE"]
      /\ about = [d \in Device |-> [i \in Incident |-> <<0, 0>>]]
  BY DEF Init
<1>2. /\ Nothing.state \in AlertState /\ Nothing \in Finding /\ Nothing.state.incident = None
  BY DEF Nothing, AlertState, Finding, DeviceStatus, None
<1>3. Idle \in [at : {"idle", "read"}, findings : [Device -> Finding]]
  BY <1>2 DEF Idle
<1>4. 0 \in 0..MaxBeats /\ 0 \in 0..MaxSpells
  BY DEF DeviceAlertsConstantsOK
<1>5. TypeOK
  BY <1>1, <1>2, <1>3, <1>4 DEF TypeOK, DeviceRow, Status
<1>6. \A d \in Device, i \in Incident : ~Known(Off(d, i)) /\ alerts[d].incident # i
  <2>1. None \notin Incident
    BY DEF None, Incident
  <2> QED  BY <1>1, <1>2, <2>1, NoticeShapes DEF Known
<1>7. job.at = "idle"
  BY <1>1 DEF Idle
<1> QED  BY <1>5, <1>6, <1>7 DEF IInv, IncidentsInRow, AboutThePast, GoesOn, Lasts,
                                FindingsFollow, FindingsAreNew, Distinct

LEMMA NextKeeps ==
  ASSUME IInv, [Next]_vars
  PROVE  IInv'
<1>1. ASSUME NEW d \in Device,
             \/ Heartbeat(d) \/ GoesSilent(d) \/ ShieldEnds(d) \/ TurnsQuiet(d)
             \/ \E active \in BOOLEAN : Edit(d, active)
      PROVE  IInv'
  BY <1>1, DeviceSteps
<1>2. CASE JobReads
  BY <1>2, ReadsStep
<1>3. CASE JobWrites
  BY <1>3, WritesStep
<1>4. CASE JobDies
  BY <1>4, DiesStep
<1>5. ASSUME NEW n \in Notice, NEW status \in Live \cup Settled, Delivered(n, status)
      PROVE  IInv'
  BY <1>5, DeliveredStep
<1>6. ASSUME NEW d \in Device, JobLooks(d)
      PROVE  IInv'
  BY <1>6, LooksStep
<1>7. CASE UNCHANGED vars
  <2>1. \A d \in Device : Later(devices'[d], devices[d])
    BY <1>7 DEF vars, IInv, TypeOK, DeviceRow, Later
  <2> QED  BY <1>7, <2>1, DevicesMove DEF vars, IInv, TypeOK
<1> QED  BY <1>1, <1>2, <1>3, <1>4, <1>5, <1>6, <1>7 DEF Next

(* The invariant holds in every reachable state.                           *)
LEMMA Invariant == Spec => []IInv
<1>1. Init => IInv
  BY InitHolds
<1>2. IInv /\ [Next]_vars => IInv'
  BY NextKeeps
<1> QED  BY <1>1, <1>2, PTL DEF Spec

(* One outage is one notice: no two notices of a device are about silences *)
(* after the same heartbeat in the same spell, wherever heartbeats, edits, *)
(* sleep and dying runs fall between the reads of DeviceOfflineAlertJob    *)
(* and its writes.                                                         *)
THEOREM OutagesHaveOneNotice == Spec => []OneNoticePerOutage
<1>1. IInv => OneNoticePerOutage
  BY DEF IInv, OneNoticePerOutage, Distinct, Known
<1> QED  BY <1>1, Invariant, PTL

-----------------------------------------------------------------------------
(* Refinement of Outages: a run that writes detects, the rest delivers or  *)
(* changes nothing that Outages sees.                                      *)

(* Both sides speak of the same notices.                                   *)
LEMMA SameWords ==
  /\ O!Notice = Notice /\ O!Incident = Incident /\ O!None = None
  /\ O!Live = Live /\ O!Settled = Settled /\ O!Status = Status
  /\ \A d, i : O!Off(d, i) = Off(d, i) /\ O!Rec(d, i) = Rec(d, i)
  /\ \A s : O!Review(s) = Review(s)
  /\ \A table, d : O!NextIncident(table, d) = NextIncident(table, d)
  <1>1. /\ O!Incident = Incident /\ O!None = None
        /\ \A d, i : O!Off(d, i) = Off(d, i) /\ O!Rec(d, i) = Rec(d, i)
        /\ \A s : O!Review(s) = Review(s)
    BY DEF O!Incident, Incident, O!None, None, O!Off, Off, O!Rec, Rec, O!Review, Review
  <1>2. O!Notice = Notice BY <1>1 DEF O!Notice, Notice
  <1>3. O!Live = Live /\ O!Settled = Settled BY DEF O!Live, Live, O!Settled, Settled
  <1>4. O!Status = Status BY <1>3 DEF O!Status, Status
  <1>5. \A table, d : O!NextIncident(table, d) = NextIncident(table, d)
    <2>1. \A S : O!Cardinality(S) = Cardinality(S)
      BY DEF O!Cardinality, Cardinality
    <2> QED
      BY <2>1 DEF O!NextIncident, NextIncident, O!Incident, Incident, O!Off, Off
  <1> QED BY <1>1, <1>2, <1>3, <1>4, <1>5

(* The open incidents, as Outages sees them.                               *)
Opened == [d \in Device |-> alerts[d].incident]

LEMMA WritesDetect ==
  ASSUME IInv, JobWrites
  PROVE  O!Detect
<1> DEFINE closed == {d \in Device : Opened[d] # None /\ Opened'[d] # Opened[d]}
           opened == {d \in Device : Opened'[d] = NextIncident(notices, d)}
           new    == {Off(d, Opened'[d]) : d \in opened}
           ended  == {Rec(d, Opened[d]) : d \in closed}
           told   == {Rec(d, Found(d).recovered) :
                        d \in {e \in Device : Found(e).recovered # None}}
           opens  == {d \in Device : OpensNow(d)}
<1>1. \A d \in Device :
        /\ Opened[d] = alerts[d].incident
        /\ Opened'[d] = IF OpensNow(d) THEN Id(d) ELSE Found(d).state.incident
  BY WriteFacts DEF Opened
<1>2. \A d \in Device : /\ Found(d).state.incident \in {None, Opened[d]}
                        /\ Found(d).recovered # None =>
                             /\ Found(d).recovered = Opened[d]
                             /\ Found(d).state.incident = None
  BY <1>1, WriteFacts DEF IInv, FindingsFollow, Found
<1>3. \A d \in Device : Id(d) \in Nat \ {0} /\ Opened[d] # Id(d) /\ None # Id(d)
  BY <1>1, IdIsFree DEF None
<1>4. opened = opens
  BY <1>1, <1>2, <1>3 DEF Id
<1>5. new = {Off(d, Id(d)) : d \in opens}
  BY <1>1, <1>4
<1>6. told \in SUBSET ended
  <2> SUFFICES ASSUME NEW d \in Device, Found(d).recovered # None
               PROVE  Rec(d, Found(d).recovered) \in ended
    OBVIOUS
  <2>1. Found(d).recovered # None
    OBVIOUS
  <2>2. Found(d).recovered = Opened[d] /\ Found(d).state.incident = None
    BY <1>2, <2>1
  <2>3. d \in closed
    BY <1>1, <1>3, <2>1, <2>2
  <2> QED  BY <2>2, <2>3
<1>7. notices' = [n \in Notice |-> IF n \in new \cup told /\ notices[n] = "NONE"
                                   THEN "PENDING" ELSE notices[n]]
  <2>1. notices' = [n \in Notice |->
          IF n \in {Off(d, Id(d)) : d \in opens} \cup told /\ notices[n] = "NONE"
          THEN "PENDING" ELSE notices[n]]
    BY DEF JobWrites, OpensNow, Found, Id
  <2> QED  BY <1>5, <2>1
<1>8. Opened' \in [Device -> Incident \cup {None}]
  <2>1. \A d \in Device : alerts'[d].incident \in Incident \cup {None}
    BY WriteFacts DEF AlertState
  <2> QED  BY <2>1 DEF Opened
<1>9. \A d \in Device : Opened'[d] \in {None, Opened[d], NextIncident(notices, d)}
  BY <1>1, <1>2 DEF Id
<1>10. \E T \in SUBSET ended :
         notices' = [n \in Notice |-> IF n \in new \cup T /\ notices[n] = "NONE"
                                      THEN "PENDING" ELSE notices[n]]
  <2> HIDE DEF told, ended, new
  <2> QED  BY <1>6, <1>7
<1>11. new = {O!Off(d, Opened'[d]) : d \in
               {d \in Device : Opened'[d] = O!NextIncident(notices, d)}}
  <2>1. opened = {d \in Device : Opened'[d] = O!NextIncident(notices, d)}
    BY SameWords
  <2>2. \A d \in Device : Off(d, Opened'[d]) = O!Off(d, Opened'[d])
    BY SameWords
  <2> HIDE DEF opened
  <2> QED  BY <2>1, <2>2
<1>12. ended = {O!Rec(d, Opened[d]) : d \in
                 {d \in Device : Opened[d] # O!None /\ Opened'[d] # Opened[d]}}
  <2>1. closed = {d \in Device : Opened[d] # O!None /\ Opened'[d] # Opened[d]}
    BY SameWords
  <2>2. \A d \in Device : Rec(d, Opened[d]) = O!Rec(d, Opened[d])
    BY SameWords
  <2>3. ended = {Rec(d, Opened[d]) : d \in closed} /\ closed \subseteq Device
    OBVIOUS
  <2> HIDE DEF closed, ended
  <2> QED  BY <2>1, <2>2, <2>3
<1>13. /\ Opened' \in [Device -> O!Incident \cup {O!None}]
       /\ \A d \in Device :
            Opened'[d] \in {O!None, Opened[d], O!NextIncident(notices, d)}
  BY <1>8, <1>9, SameWords
<1>14. \E T \in SUBSET ended :
         notices' = [n \in O!Notice |-> IF n \in new \cup T /\ notices[n] = "NONE"
                                        THEN "PENDING" ELSE notices[n]]
  <2> HIDE DEF ended, new
  <2> QED  BY <1>10, SameWords
<1>15. \E T \in SUBSET {O!Rec(d, Opened[d]) : d \in
                 {d \in Device : Opened[d] # O!None /\ Opened'[d] # Opened[d]}} :
         notices' = [n \in O!Notice |->
           IF n \in {O!Off(d, Opened'[d]) : d \in
                     {d \in Device : Opened'[d] = O!NextIncident(notices, d)}} \cup T
                /\ notices[n] = "NONE"
           THEN "PENDING" ELSE notices[n]]
  <2> HIDE DEF ended, new
  <2> QED  BY <1>11, <1>12, <1>14, ZenonT(30)
<1> QED  BY <1>13, <1>15, Zenon DEF O!Detect, Opened

LEMMA DeliveredDelivers ==
  ASSUME IInv, NEW n \in Notice, NEW status \in Live \cup Settled, Delivered(n, status)
  PROVE  O!Deliver
<1>1. /\ notices[n] \in Live /\ notices' = [notices EXCEPT ![n] = status]
      /\ n[1] = "RECOVERED" /\ status = "SENT" => notices[Off(n[2], n[3])] = "SENT"
      /\ UNCHANGED alerts
  BY DEF Delivered
<1>2. notices' \in [Notice -> Status]
  BY <1>1 DEF IInv, TypeOK, Status
<1>3. \A m \in Notice : notices'[m] # notices[m] =>
        notices[m] \in Live /\ notices'[m] \in Live \cup Settled
  BY <1>1 DEF IInv, TypeOK
<1>4. ASSUME NEW d \in Device, NEW i \in Incident,
             notices[Rec(d, i)] # "SENT", notices'[Rec(d, i)] = "SENT"
      PROVE  notices[Off(d, i)] = "SENT"
  <2>1. n = Rec(d, i) /\ status = "SENT"
    BY <1>1, <1>4, NoticeShapes DEF IInv, TypeOK
  <2>2. n[1] = "RECOVERED" /\ n[2] = d /\ n[3] = i
    BY <2>1, NoticeShapes
  <2> QED  BY <1>1, <2>1, <2>2
<1>5. UNCHANGED Opened
  BY <1>1 DEF Opened
<1> QED  BY <1>2, <1>3, <1>4, <1>5, SameWords DEF O!Deliver, Opened

(* Detection keeps what Outages promises, however stale what it read: at   *)
(* most one incident of a device is open, each with its one notice, and a  *)
(* recovery is only told of the incident that just ended.                  *)
THEOREM DetectionImplementsOutages == Spec => ImplementsOutages
<1>1. ASSUME Init
      PROVE  O!Init
  <2>1. \A d \in Device : alerts[d].incident = None
    BY <1>1 DEF Init, Nothing, None
  <2>2. [d \in Device |-> alerts[d].incident] = [d \in Device |-> None]
    BY <2>1
  <2> QED  BY <1>1, <2>2, SameWords DEF Init, O!Init
<1>2. ASSUME IInv, [Next]_vars
      PROVE  [O!Next]_(O!vars)
  <2>1. CASE JobWrites
    BY <1>2, <2>1, WritesDetect DEF O!Next
  <2>2. ASSUME NEW n \in Notice, NEW status \in Live \cup Settled, Delivered(n, status)
        PROVE  O!Next
    BY <1>2, <2>2, DeliveredDelivers DEF O!Next
  <2>3. CASE UNCHANGED <<alerts, notices>>
    BY <2>3 DEF O!vars
  <2>4. \/ JobWrites
        \/ \E n \in Notice, status \in Live \cup Settled : Delivered(n, status)
        \/ UNCHANGED <<alerts, notices>>
    <3>1. ASSUME NEW d \in Device,
                 \/ Heartbeat(d) \/ GoesSilent(d) \/ ShieldEnds(d) \/ TurnsQuiet(d)
                 \/ \E active \in BOOLEAN : Edit(d, active)
                 \/ JobLooks(d)
          PROVE  UNCHANGED <<alerts, notices>>
      <4>1. ASSUME NEW row, Becomes(d, row) PROVE UNCHANGED <<alerts, notices>>
        BY <4>1 DEF Becomes
      <4>2. CASE Heartbeat(d) \/ GoesSilent(d) \/ ShieldEnds(d) \/ TurnsQuiet(d)
        BY <4>1, <4>2, Zenon DEF Heartbeat, GoesSilent, ShieldEnds, TurnsQuiet
      <4>3. ASSUME NEW active \in BOOLEAN, Edit(d, active)
            PROVE  UNCHANGED <<alerts, notices>>
        BY <4>1, <4>3, Zenon DEF Edit
      <4>4. CASE JobLooks(d)
        BY <4>4, Zenon DEF JobLooks
      <4> QED  BY <3>1, <4>2, <4>3, <4>4
    <3>2. JobReads \/ JobDies \/ UNCHANGED vars => UNCHANGED <<alerts, notices>>
      BY DEF JobReads, JobDies, vars
    <3> QED  BY <1>2, <3>1, <3>2 DEF Next
  <2> QED  BY <2>1, <2>2, <2>3, <2>4
<1> QED  BY <1>1, <1>2, Invariant, PTL DEF Spec, ImplementsOutages, O!Spec

=============================================================================
