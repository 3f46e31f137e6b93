--------------------------- MODULE MeasuringProofs ---------------------------
(***************************************************************************)
(* Proofs about what the agent measures with: the sweep of a switch's        *)
(* tables, its counters and its forwarding table, the exporter on the        *)
(* agent's own host, the probes, the Go rewrite; and, at the end, when which  *)
(* switch is polled and what is remembered of it.                            *)
(* Each of them has an invariant of its own; they share no state.            *)
(***************************************************************************)
EXTENDS MCMeasuring, SequenceTheorems, FiniteSetTheorems, TLAPS

-----------------------------------------------------------------------------
(* The sweep of a switch's tables.                                           *)
Wrapped(n) == IF n < Rotating THEN n ELSE n - Rotating
(* The place after p.                                                       *)
NextPlace(p) == IF p + 1 = Rotating THEN 0 ELSE p + 1
(* Where a poll is in the rotation after t VLANs, the first of which is not *)
(* part of it.                                                              *)
Position(c, t) == IF t <= 1 THEN c ELSE Wrapped(c + t - 1)
(* v is among the places from s up to p, which may wrap round.              *)
Between(s, p, v) == IF s <= p THEN s <= v /\ v < p ELSE v >= s \/ v < p
(* Each place from s up to p has had a turn.                                *)
TurnsSince(s, p) == [v \in 0..(Rotating - 1) |-> IF Between(s, p, v) THEN 1 ELSE 0]

(* The least of a set is the one that is below all of them.                  *)
LEMMA MinIs ==
  ASSUME NEW S, NEW x \in S, S \subseteq Int, \A y \in S : x <= y
  PROVE  Min(S) = x
<1>1. \E m \in S : \A y \in S : m <= y OBVIOUS
<1>2. Min(S) \in S /\ \A y \in S : Min(S) <= y BY <1>1, Zenon DEF Min
<1>3. Min(S) \in Int /\ x \in Int BY <1>2
<1>4. Min(S) <= x /\ x <= Min(S) BY <1>2
<1> QED BY <1>3, <1>4

(* The least of two numbers.                                                 *)
LEMMA LesserOfTwo ==
  ASSUME NEW a \in Int, NEW b \in Int
  PROVE  Min({a, b}) = IF a <= b THEN a ELSE b
<1>1. \E m \in {a, b} : \A y \in {a, b} : m <= y OBVIOUS
<1>2. Min({a, b}) \in {a, b} /\ \A y \in {a, b} : Min({a, b}) <= y BY <1>1, Zenon DEF Min
<1> QED BY <1>2

(* A remainder is the one a division says.                                   *)
LEMMA DividesOnce ==
  ASSUME NEW d \in Nat, d > 0, NEW n \in Nat, NEW q \in Nat, NEW r \in Nat, r < d, n = q * d + r
  PROVE  n % d = r
OBVIOUS

(* Below twice the number of rotating VLANs the remainder takes it off once. *)
LEMMA WrapsOnce ==
  ASSUME NEW n \in 0..(2 * Rotating - 1)
  PROVE  n % Rotating = Wrapped(n)
<1>1. Rotating \in Nat /\ Rotating > 0 /\ n \in Nat BY SweepAssumption
<1>2. CASE n < Rotating BY <1>1, <1>2, DividesOnce, 0 * Rotating = 0 DEF Wrapped
<1>3. CASE ~(n < Rotating)
  <2>1. n - Rotating \in Nat /\ n - Rotating < Rotating /\ n = 1 * Rotating + (n - Rotating)
    BY <1>1, <1>3
  <2> QED BY <1>1, <1>3, <2>1, DividesOnce DEF Wrapped
<1> QED BY <1>2, <1>3

(* A turn taken where the rotation stands moves the rotation on by one.      *)
LEMMA TurnTaken ==
  ASSUME NEW s \in 0..(Rotating - 1), NEW p \in 0..(Rotating - 1),
         NEW t, t = TurnsSince(s, p),
         NEW more, more = [t EXCEPT ![p] = @ + 1],
         NEW least, least = Min({more[u] : u \in DOMAIN t})
  PROVE  [u \in DOMAIN t |-> more[u] - least] = TurnsSince(s, NextPlace(p))
<1> DEFINE V == 0..(Rotating - 1)
<1>1. Rotating \in Nat \ {0} BY SweepAssumption
<1>2. DOMAIN t = V BY DEF TurnsSince
<1>3. ~Between(s, p, p) BY <1>1 DEF Between
<1>4. \A v \in V : more[v] = IF Between(s, p, v) \/ v = p THEN 1 ELSE 0
  BY <1>2, <1>3 DEF TurnsSince
<1>5. NextPlace(p) \in V BY <1>1 DEF NextPlace
<1> DEFINE M == {more[u] : u \in V}
<1>9. least = Min(M) BY <1>2
<1>6. M \subseteq {0, 1} BY <1>4
<1>7. CASE s = NextPlace(p)
  <2>1. \A v \in V : Between(s, p, v) \/ v = p BY <1>1, <1>7 DEF Between, NextPlace
  <2>2. more[p] = 1 /\ M \subseteq {1} BY <1>4, <2>1
  <2>3. least = 1
    <3>1. 1 \in M /\ M \subseteq Int /\ \A y \in M : 1 <= y BY <2>2
    <3> HIDE DEF M
    <3> QED BY <3>1, <1>9, MinIs
  <2>4. \A v \in V : ~Between(s, NextPlace(p), v) BY <1>7, <1>1, <1>5 DEF Between
  <2>5. \A v \in V : more[v] - least = 0 BY <1>4, <2>1, <2>3
  <2> QED BY <1>2, <2>4, <2>5 DEF TurnsSince
<1>8. CASE s # NextPlace(p)
  <2>1. ~Between(s, p, NextPlace(p)) \/ NextPlace(p) = p BY <1>1, <1>8 DEF Between, NextPlace
  <2>2. NextPlace(p) # p BY <1>1, <1>8 DEF NextPlace
  <2>3. 0 \in M BY <1>4, <1>5, <2>1, <2>2
  <2>4. least = 0
    <3>1. M \subseteq Int /\ \A y \in M : 0 <= y BY <1>6
    <3> HIDE DEF M
    <3> QED BY <2>3, <3>1, <1>9, MinIs
  <2>5. \A v \in V : Between(s, NextPlace(p), v) <=> Between(s, p, v) \/ v = p
    BY <1>1, <1>8 DEF Between, NextPlace
  <2>6. \A v \in V : more[v] - least = IF Between(s, NextPlace(p), v) THEN 1 ELSE 0
    BY <1>4, <2>4, <2>5
  <2> QED BY <1>2, <2>6 DEF TurnsSince
<1> QED BY <1>7, <1>8

(* The VLANs of a poll: the first, then those from the cursor on.            *)
LEMMA VlansOfAPoll ==
  ASSUME NEW n, n = Len(VlansOfThisPoll), cursor \in 0..(Rotating - 1)
  PROVE  /\ n \in 1..(Rotating + 1) /\ VlansOfThisPoll[1] = FirstVlan
         /\ \A i \in 2..n : VlansOfThisPoll[i] = Wrapped(cursor + i - 2)
<1> DEFINE k == Min({MaxVlanWalks - 1, Rotating})
           R == Rotated
           T == SubSeq(R, 1, k)
<1>1. Rotating \in Nat \ {0} /\ MaxVlanWalks \in Nat \ {0, 1} /\ cursor \in Nat /\ cursor < Rotating
  BY SweepAssumption
<1>2. k \in 0..Rotating
  <2> DEFINE a == MaxVlanWalks - 1
  <2>1. a \in Nat /\ Rotating \in Nat BY <1>1
  <2> HIDE DEF a
  <2> QED BY <2>1, LesserOfTwo DEF a
<1>3. /\ R \in Seq(0..(Rotating - 1)) /\ Len(R) = Rotating
      /\ \A i \in 1..Rotating : R[i] = Wrapped(cursor + i - 1)
  <2>1. \A i \in 1..Rotating : (cursor + i - 1) % Rotating = Wrapped(cursor + i - 1)
    <3>1. \A i \in 1..Rotating : cursor + i - 1 \in 0..(2 * Rotating - 1) BY <1>1
    <3> QED BY <3>1, WrapsOnce
  <2>2. \A i \in 1..Rotating : Wrapped(cursor + i - 1) \in 0..(Rotating - 1)
    BY <1>1 DEF Wrapped
  <2>3. R = [i \in 1..Rotating |-> (cursor + i - 1) % Rotating] BY DEF Rotated
  <2> HIDE DEF R
  <2> QED BY <1>1, <2>1, <2>2, <2>3
<1> HIDE DEF k, R
<1>4. T \in Seq(0..(Rotating - 1)) /\ Len(T) = k /\ \A i \in 1..k : T[i] = Wrapped(cursor + i - 1)
  BY <1>1, <1>2, <1>3
<1>5. VlansOfThisPoll = <<FirstVlan>> \o T BY DEF VlansOfThisPoll, k, R
<1> HIDE DEF T
<1>6. /\ Len(<<FirstVlan>> \o T) = k + 1 /\ (<<FirstVlan>> \o T)[1] = FirstVlan
      /\ \A i \in 2..(k + 1) : (<<FirstVlan>> \o T)[i] = T[i - 1]
  BY <1>1, <1>2, <1>4
<1>7. n = k + 1 BY <1>5, <1>6
<1>8. \A i \in 2..(k + 1) : T[i - 1] = Wrapped(cursor + i - 2)
  <2> TAKE i \in 2..(k + 1)
  <2>1. i - 1 \in 1..k /\ cursor + (i - 1) - 1 = cursor + i - 2 BY <1>1, <1>2
  <2> QED BY <2>1, <1>4
<1> QED BY <1>1, <1>2, <1>5, <1>6, <1>7, <1>8

(* The list of VLANs is made when the optional walks begin, and is empty    *)
(* otherwise.                                                               *)
PollHolds ==
  /\ polling = "optional" => ids = VlansOfThisPoll
  /\ polling # "optional" => ids = <<>> /\ taken = 0

(* The VLANs that had a turn lie in a row, up to where the poll is.         *)
TurnsHold == \E s \in 0..(Rotating - 1) : turns = TurnsSince(s, Position(cursor, taken))

(* The invariant of the sweep.                                              *)
SweepInv == SweepTypeOK /\ PollHolds /\ TurnsHold /\ HonestSweep /\ SupportedIsHonest

(* A rotation that begins at the first place has had no turn.                *)
LEMMA NoTurnsYet ==
  /\ 0 \in 0..(Rotating - 1)
  /\ TurnsSince(0, Position(0, 0)) = [v \in 0..(Rotating - 1) |-> 0]
<1>1. Rotating \in Nat \ {0} BY SweepAssumption
<1>2. Position(0, 0) = 0 BY DEF Position
<1>3. \A v \in 0..(Rotating - 1) : ~Between(0, 0, v) BY <1>1 DEF Between
<1> QED BY <1>1, <1>2, <1>3 DEF TurnsSince

(* The invariant of the sweep holds at first ...                             *)
LEMMA SweepStarts == SweepInit => SweepInv
<1> SUFFICES ASSUME SweepInit PROVE SweepInv
  OBVIOUS
<1>1. Rotating \in Nat \ {0} BY SweepAssumption
<1>2. ids = <<>> /\ Len(ids) = 0 BY DEF SweepInit
<1>3. SweepTypeOK BY <1>1, <1>2 DEF SweepInit, SweepTypeOK
<1>4. PollHolds BY <1>2 DEF SweepInit, PollHolds
<1>5. TurnsHold
  <2>1. turns = TurnsSince(0, Position(cursor, taken)) BY NoTurnsYet DEF SweepInit
  <2> QED BY <2>1, NoTurnsYet DEF TurnsHold
<1>6. HonestSweep /\ SupportedIsHonest
  BY DEF SweepInit, HonestSweep, SupportedIsHonest, NoReport
<1> QED BY <1>3, <1>4, <1>5, <1>6 DEF SweepInv

(* ... it holds when a poll is over, if what was kept of it does ...         *)
LEMMA Rested ==
  ASSUME SweepInv, Rests, cursor' \in 0..(Rotating - 1), known' \subseteq Optional,
         TurnsHold', HonestSweep', SupportedIsHonest'
  PROVE  SweepInv'
<1>1. ids' = <<>> /\ Len(ids') = 0 BY DEF Rests
<1>2. SweepTypeOK' BY <1>1 DEF SweepTypeOK, Rests
<1>3. PollHolds' BY <1>1 DEF PollHolds, Rests
<1> QED BY <1>2, <1>3 DEF SweepInv

(* The workers take the VLANs in their order.                                *)
LEMMA NextTurn ==
  ASSUME SweepInv, WorkerTakes
  PROVE  SweepInv'
<1> DEFINE v == ids[taken + 1]
<1>1. Rotating \in Nat \ {0} BY SweepAssumption
<1>2. polling = "optional" /\ ids = VlansOfThisPoll /\ taken < Len(ids)
  BY DEF SweepInv, PollHolds, WorkerTakes, WorkersGoOn
<1>3. cursor \in 0..(Rotating - 1) /\ taken \in 0..Len(ids) BY DEF SweepInv, SweepTypeOK
<1>4. /\ Len(ids) \in 1..(Rotating + 1) /\ ids[1] = FirstVlan
      /\ \A i \in 2..Len(ids) : ids[i] = Wrapped(cursor + i - 2)
  BY <1>2, <1>3, VlansOfAPoll
<1>5. taken = 0 => v = FirstVlan BY <1>4
<1>6. taken > 0 => v = Position(cursor, taken)
  <2> SUFFICES ASSUME taken > 0 PROVE v = Position(cursor, taken)
    OBVIOUS
  <2>1. taken + 1 \in 2..Len(ids) /\ cursor + (taken + 1) - 2 = cursor + taken - 1
    BY <1>1, <1>2, <1>3, <1>4
  <2>2. v = Wrapped(cursor + taken - 1) BY <2>1, <1>4
  <2>3. taken = 1 => Wrapped(cursor + taken - 1) = cursor BY <1>1, <1>3 DEF Wrapped
  <2> QED BY <2>2, <2>3, <1>3, <1>4 DEF Position
<1>7. Position(cursor, taken) \in 0..(Rotating - 1)
  BY <1>1, <1>2, <1>3, <1>4 DEF Position, Wrapped
<1>8. v \in Vlans BY <1>1, <1>3, <1>4, <1>5, <1>6, <1>7 DEF Vlans, FirstVlan
<1>9. /\ taken' = taken + 1 /\ inFlight' = inFlight \cup {v}
      /\ UNCHANGED <<polling, timely, walks, ids, answered, failed, inARow, cursor, known,
                     report, readOnce>>
  BY DEF WorkerTakes
<1> DEFINE more == [turns EXCEPT ![v] = @ + 1]
           least == Min({more[u] : u \in DOMAIN turns})
<1>10. turns' = IF v = FirstVlan THEN turns ELSE [u \in DOMAIN turns |-> more[u] - least]
  BY DEF WorkerTakes
<1> HIDE DEF v, more, least
<1>11. SweepTypeOK'
  BY <1>2, <1>3, <1>4, <1>8, <1>9 DEF SweepInv, SweepTypeOK
<1>12. PollHolds'
  BY <1>2, <1>9 DEF PollHolds, VlansOfThisPoll, Rotated
<1>13. TurnsHold'
  <2> PICK s \in 0..(Rotating - 1) : turns = TurnsSince(s, Position(cursor, taken))
    BY DEF SweepInv, TurnsHold
  <2>1. CASE taken = 0
    <3>1. Position(cursor', taken') = Position(cursor, taken) BY <2>1, <1>9 DEF Position
    <3>2. turns' = turns BY <2>1, <1>5, <1>10
    <3> QED BY <3>1, <3>2 DEF TurnsHold
  <2>2. CASE taken # 0
    <3>1. v = Position(cursor, taken) BY <2>2, <1>3, <1>4, <1>6
    <3>2. v # FirstVlan BY <3>1, <1>1, <1>7 DEF FirstVlan
    <3>3. turns' = TurnsSince(s, NextPlace(v))
      <4>1. turns = TurnsSince(s, v) /\ v \in 0..(Rotating - 1) BY <3>1, <1>7
      <4>2. turns' = [u \in DOMAIN turns |-> more[u] - least] BY <3>2, <1>10
      <4>3. more = [turns EXCEPT ![v] = @ + 1] /\ least = Min({more[u] : u \in DOMAIN turns})
        BY DEF more, least
      <4> QED BY <4>1, <4>2, <4>3, TurnTaken
    <3>4. Position(cursor', taken') = NextPlace(v)
      BY <3>1, <2>2, <1>1, <1>2, <1>3, <1>4, <1>9 DEF Position, Wrapped, NextPlace
    <3> QED BY <3>3, <3>4 DEF TurnsHold
  <2> QED BY <2>1, <2>2
<1>14. HonestSweep' /\ SupportedIsHonest'
  BY <1>9 DEF SweepInv, HonestSweep, SupportedIsHonest
<1> QED BY <1>11, <1>12, <1>13, <1>14 DEF SweepInv

(* What is reported says what was not read.                                  *)
LEMMA NothingLeftOut ==
  ASSUME SweepTypeOK, failed = {}, ~(NotWalked > 0)
  PROVE  Vlans \subseteq answered
<1>1. Rotating \in Nat BY SweepAssumption
<1>2. IsFiniteSet(Vlans) BY <1>1, FS_Interval DEF Vlans
<1>3. answered \in SUBSET Vlans BY DEF SweepTypeOK
<1>4. Cardinality(failed) = 0 BY FS_EmptySet
<1>5. Cardinality(Vlans) \in Nat /\ Cardinality(answered) \in Nat
  BY <1>2, <1>3, FS_Subset, FS_CardinalityType
<1>6. Cardinality(answered) <= Cardinality(Vlans) BY <1>2, <1>3, FS_Subset
<1>7. Cardinality(Vlans) = Cardinality(answered) BY <1>4, <1>5, <1>6 DEF NotWalked
<1> QED BY <1>2, <1>3, <1>7, FS_Subset

(* A report leaves out nothing it does not call partial, and the cursor      *)
(* goes to where the rotation stands.                                        *)
LEMMA ReportHolds ==
  ASSUME SweepInv, SweepReported
  PROVE  SweepInv'
<1>1. Rotating \in Nat \ {0} BY SweepAssumption
<1> DEFINE W == {k \in Optional : walks[k] = "whole"}
           X == {k \in Optional : walks[k] # "whole"}
<1>2. PICK read \in SUBSET Optional : W \subseteq read /\ known' = KeptHonest(read, NotWhole)
  BY DEF SweepReported
<1>3. /\ report' = [partial |-> NotWhole,
                    missing |-> X \cup (IF Vlans \subseteq answered THEN {} ELSE {"fdb"})]
      /\ readOnce' = readOnce \cup W
      /\ cursor' = IF taken > 1 THEN PastTaken(taken - 1) ELSE cursor
      /\ polling = "optional" /\ Rests /\ turns' = turns
  BY DEF SweepReported
<1>4. X \subseteq NotWhole /\ Optional = X \cup W BY DEF NotWhole, WalksCut
<1>5. SupportedIsHonest'
  BY <1>2, <1>3, <1>4 DEF SweepInv, SweepTypeOK, SupportedIsHonest, KeptHonest
<1>6. ~(Vlans \subseteq answered) => "fdb" \in NotWhole
  <2>1. SweepTypeOK BY DEF SweepInv
  <2> QED BY <2>1, NothingLeftOut DEF NotWhole, WalksCut
<1>7. HonestSweep' BY <1>3, <1>4, <1>6 DEF HonestSweep
<1>8. known' \subseteq Optional BY <1>2 DEF KeptHonest, SweepInv, SweepTypeOK
<1>9. cursor \in 0..(Rotating - 1) /\ taken \in 0..Len(ids) /\ ids = VlansOfThisPoll
  BY <1>3 DEF SweepInv, SweepTypeOK, PollHolds
<1>10. Len(ids) \in 1..(Rotating + 1) BY <1>9, VlansOfAPoll
<1>11. cursor' = Position(cursor, taken) /\ cursor' \in 0..(Rotating - 1)
  <2>1. CASE taken > 1
    <3>1. cursor + (taken - 1) \in 0..(2 * Rotating - 1) /\ cursor + (taken - 1) = cursor + taken - 1
      BY <2>1, <1>1, <1>9, <1>10
    <3>2. cursor' = Wrapped(cursor + taken - 1) BY <2>1, <1>3, <3>1, WrapsOnce DEF PastTaken
    <3> QED BY <2>1, <3>1, <3>2, <1>1, <1>9, <1>10 DEF Position, Wrapped
  <2>2. CASE ~(taken > 1) BY <2>2, <1>3, <1>9, <1>10 DEF Position
  <2> QED BY <2>1, <2>2
<1>12. TurnsHold'
  <2>1. taken' = 0 BY <1>3 DEF Rests
  <2>2. Position(cursor', taken') = Position(cursor, taken) BY <2>1, <1>11 DEF Position
  <2> QED BY <2>2, <1>3 DEF SweepInv, TurnsHold
<1> QED BY <1>3, <1>5, <1>7, <1>8, <1>11, <1>12, Rested

(* ... and after every step.                                                 *)
LEMMA SweepStep == SweepInv /\ [SweepNext]_sweepVars => SweepInv'
<1> SUFFICES ASSUME SweepInv, [SweepNext]_sweepVars PROVE SweepInv'
  OBVIOUS
<1>0. ASSUME UNCHANGED <<ids, taken, cursor, turns, readOnce, known>>,
             polling' = polling \/ (polling # "optional" /\ polling' # "optional"),
             HonestSweep', polling' \in {"idle", "core", "optional"}, timely' \in BOOLEAN,
             walks' \in [Optional -> {"out", "running", "whole", "error", "timeout", "skipped"}],
             inFlight' \subseteq Vlans, answered' \subseteq Vlans, failed' \subseteq Vlans
      PROVE  SweepInv'
  <2>1. SweepTypeOK' BY <1>0 DEF SweepInv, SweepTypeOK
  <2>2. PollHolds' BY <1>0 DEF SweepInv, PollHolds, VlansOfThisPoll, Rotated
  <2>3. TurnsHold' BY <1>0 DEF SweepInv, TurnsHold
  <2>4. SupportedIsHonest' BY <1>0 DEF SweepInv, SupportedIsHonest
  <2> QED BY <1>0, <2>1, <2>2, <2>3, <2>4 DEF SweepInv
<1> USE DEF keptVars
<1>k. HonestSweep /\ SweepTypeOK BY DEF SweepInv
<1>h. UNCHANGED report => HonestSweep' BY <1>k DEF HonestSweep
<1>1. CASE PollBegins
  <2>1. HonestSweep' BY <1>1 DEF PollBegins, HonestSweep, NoReport
  <2> QED BY <1>0, <1>1, <1>k, <2>1 DEF PollBegins, SweepTypeOK
<1>2. CASE DeadlinePasses
  BY <1>0, <1>2, <1>k, <1>h DEF DeadlinePasses, SweepTypeOK
<1>3. CASE PollAbandoned
  <2>1. Rests /\ taken = 0 /\ taken' = 0 /\ UNCHANGED keptVars
    BY <1>3 DEF PollAbandoned, Rests, SweepInv, PollHolds
  <2>2. TurnsHold' BY <2>1 DEF SweepInv, TurnsHold
  <2> QED BY <2>1, <2>2, <1>h, Rested DEF SweepInv, SweepTypeOK, SupportedIsHonest
<1>4. CASE OptionalBegins
  <2>1. /\ polling = "core" /\ polling' = "optional" /\ ids' = VlansOfThisPoll
        /\ walks' = [k \in Optional |-> IF timely THEN "running" ELSE "skipped"]
        /\ UNCHANGED <<timely, taken, inFlight, answered, failed, inARow, keptVars>>
    BY <1>4 DEF OptionalBegins
  <2>2. taken' = 0 BY <2>1 DEF SweepInv, PollHolds
  <2>3. Len(ids') \in Nat BY <2>1, <1>k, VlansOfAPoll, SweepAssumption DEF SweepTypeOK
  <2>4. SweepTypeOK' BY <2>1, <2>2, <2>3, <1>k DEF SweepTypeOK
  <2>5. PollHolds' BY <2>1 DEF PollHolds, VlansOfThisPoll, Rotated
  <2>6. TurnsHold' BY <2>1 DEF SweepInv, TurnsHold
  <2> QED BY <2>1, <2>4, <2>5, <2>6, <1>h DEF SweepInv, SupportedIsHonest
<1>5. ASSUME NEW k \in Optional, NEW how \in {"whole", "error"}, OptionalWalked(k, how)
      PROVE  SweepInv'
  BY <1>0, <1>5, <1>k, <1>h DEF OptionalWalked, SweepTypeOK
<1>6. CASE WorkerTakes BY <1>6, NextTurn
<1>7. ASSUME NEW v \in inFlight, NEW ok \in BOOLEAN, VlanWalked(v, ok) PROVE SweepInv'
  BY <1>0, <1>7, <1>k, <1>h DEF VlanWalked, SweepTypeOK
<1>8. CASE SweepReported BY <1>8, ReportHolds
<1>9. CASE AgentRestarts
  <2>1. Rests /\ taken' = 0 /\ cursor' = 0 BY <1>9 DEF AgentRestarts, Rests
  <2>2. DOMAIN turns = 0..(Rotating - 1) BY DEF SweepInv, TurnsHold, TurnsSince
  <2>3. turns' = TurnsSince(0, Position(cursor', taken'))
    BY <1>9, <2>1, <2>2, NoTurnsYet DEF AgentRestarts
  <2>4. TurnsHold' BY <2>3, NoTurnsYet DEF TurnsHold
  <2>5. HonestSweep' /\ SupportedIsHonest' /\ known' \subseteq Optional
    BY <1>9 DEF AgentRestarts, HonestSweep, SupportedIsHonest, NoReport
  <2> QED BY <2>1, <2>4, <2>5, NoTurnsYet, Rested
<1>10. CASE UNCHANGED sweepVars BY <1>0, <1>10, <1>k, <1>h DEF sweepVars, workVars, SweepTypeOK
<1> QED BY <1>1, <1>2, <1>3, <1>4, <1>5, <1>6, <1>7, <1>8, <1>9, <1>10 DEF SweepNext

(* It implies what the runs check.                                           *)
LEMMA SweepInvIsEnough == SweepInv => SweepIsHonest
<1> SUFFICES ASSUME SweepInv PROVE SweepIsHonest
  OBVIOUS
<1>1. RotationFair BY DEF SweepInv, TurnsHold, TurnsSince, RotationFair
<1> QED BY <1>1 DEF SweepInv, SweepIsHonest

(* A poll that leaves something out says so, passes over no VLAN, and takes  *)
(* back nothing that was supported, for every number of VLANs and workers and *)
(* every bound of a poll (defaultReadTables, keepSupportedHonest in          *)
(* src/snmpTopology.js).                                                     *)
THEOREM SweepStaysHonest == SweepSpec => []SweepIsHonest
<1>1. SweepInv /\ [SweepNext]_sweepVars => SweepInv' BY SweepStep
<1> QED BY <1>1, SweepStarts, SweepInvIsEnough, PTL DEF SweepSpec

-----------------------------------------------------------------------------
(* A reading of counters.                                                    *)
LEMMA AtMostSoMany ==
  ASSUME NEW S, S \subseteq Nat, IsFiniteSet(S), NEW n \in Nat,
         NEW T, T = {i \in S : Cardinality({j \in S : j < i}) < n}
  PROVE  Cardinality(T) <= n
<1> DEFINE Below(i) == {j \in S : j < i}
           f == [i \in T |-> Cardinality(Below(i))]
<1>1. ASSUME NEW i \in S PROVE IsFiniteSet(Below(i)) /\ Cardinality(Below(i)) \in Nat
  BY FS_Subset, FS_CardinalityType
<1>2. ASSUME NEW i \in S, NEW k \in S, i < k PROVE Cardinality(Below(i)) < Cardinality(Below(k))
  <2>0. i \in Nat /\ k \in Nat /\ S \subseteq Nat OBVIOUS
  <2>a. ASSUME NEW j \in Below(i) \cup {i} PROVE j \in S /\ j < k
    <3>1. j \in S /\ j \in Nat /\ (j < i \/ j = i) BY <2>0
    <3> QED BY <3>1, <2>0, <1>2
  <2>1. Below(i) \cup {i} \in SUBSET Below(k) BY <2>a
  <2>2. i \notin Below(i) BY <1>2
  <2>3. Cardinality(Below(i) \cup {i}) = Cardinality(Below(i)) + 1 BY <1>1, <2>2, FS_AddElement
  <2>4. Cardinality(Below(i) \cup {i}) <= Cardinality(Below(k)) BY <1>1, <2>1, FS_Subset
  <2>5. Cardinality(Below(i)) \in Nat /\ Cardinality(Below(k)) \in Nat BY <1>1
  <2> HIDE DEF Below
  <2> QED BY <2>3, <2>4, <2>5
<1> HIDE DEF Below
<1>3. ASSUME NEW i \in T PROVE f[i] \in 0..(n - 1)
  <2>1. i \in S /\ Cardinality(Below(i)) < n BY DEF Below
  <2> QED BY <1>1, <2>1
<1>4. ASSUME NEW i \in T, NEW k \in T, f[i] = f[k] PROVE i = k
  <2>1. i \in S /\ k \in S /\ Cardinality(Below(i)) = Cardinality(Below(k)) BY <1>4
  <2>2. ~(i < k) /\ ~(k < i) BY <2>1, <1>1, <1>2
  <2> QED BY <2>1, <2>2
<1>5. f \in Injection(T, 0..(n - 1)) BY <1>3, <1>4 DEF Injection, IsInjective
<1>6. IsFiniteSet(0..(n - 1)) /\ Cardinality(0..(n - 1)) = n BY FS_Interval
<1> HIDE DEF f
<1> QED BY <1>5, <1>6, FS_Injection

(* What one snapshot says is of one life of the device, unless it is torn.  *)
SnapshotHolds(s) ==
  /\ s.uptime \in Int
  /\ s.seen \subseteq Interfaces /\ Cardinality(s.seen) <= MaxInterfaces
  /\ \A i \in s.seen, c \in Columns : s.counters[i][c] # Absent =>
       /\ s.counters[i][c].width = IF c \in Counted32 /\ s.hc THEN 64 ELSE 32
       /\ s.uptime # Untold /\ ~s.torn => s.counters[i][c].life = s.uptime

(* A snapshot does not know of a life that is still to come.                *)
TakenBy(s, now) == s.uptime # Untold => s.uptime <= now /\ (s.torn => s.uptime < now)

(* The types of the reading.                                                *)
ReadingTypeOK ==
  /\ board \in Switchboards /\ life \in 0..MaxRestarts
  /\ group \in Groups \cup {"idle", "read"} /\ walking \subseteq Columns
  /\ uptime \in Untold..MaxRestarts
  /\ got \in [Walks -> [rows : SUBSET Interfaces, life : 0..MaxRestarts]]
  /\ restarted \in BOOLEAN /\ readings \in 0..MaxReadings

(* Walks under way belong to their group; what a walk brought without a     *)
(* restart is of the life whose uptime was read.                            *)
WalksHold ==
  /\ group \in {"hc", "narrow"} => walking \subseteq Counted32
  /\ group = "single" => walking \subseteq Single
  /\ group \in {"idle", "read"} => walking = {}
  /\ group = "idle" => uptime = Untold
  /\ \A w \in Walks : got[w].rows # {} /\ uptime # Untold /\ ~restarted => got[w].life = uptime

(* The uptime read is that of the present life, or of an earlier one if the *)
(* device restarted since; no snapshot knows a later one.                   *)
UptimeHolds ==
  /\ uptime # Untold => /\ restarted => uptime < life
                        /\ ~restarted => uptime = life
                        /\ TakenBy(latest, uptime)
  /\ TakenBy(latest, life)

(* Both snapshots hold, and after a torn one the uptime is another.         *)
PairHolds ==
  /\ SnapshotHolds(before) /\ SnapshotHolds(latest)
  /\ before.torn /\ before.uptime # Untold => latest.uptime # before.uptime

(* The invariant of the reading.                                            *)
ReadingInv == ReadingTypeOK /\ WalksHold /\ UptimeHolds /\ PairHolds

(* Uptimes that were not told are below all others.                          *)
LEMMA UntoldIsLeast ==
  /\ Untold = -1 /\ Untold \in Untold..MaxRestarts /\ 0..MaxRestarts \subseteq Untold..MaxRestarts
  /\ 0 \in 0..MaxRestarts /\ 0 \in 0..MaxReadings
BY CountersAssumption DEF Untold

(* Every column has its walks.                                               *)
LEMMA WalksApart ==
  /\ \A c \in Counted32 : <<"hc", c>> \in Walks /\ <<"narrow", c>> \in Walks
  /\ \A c \in Single : <<"single", c>> \in Walks
  /\ \A c \in Columns : c \in Counted32 \/ c \in Single
  /\ \A c \in Counted32 : c \notin Single
  /\ MaxRestarts \in Nat /\ MaxReadings \in Nat /\ MaxInterfaces \in Nat
BY CountersAssumption DEF Walks, Columns

(* A snapshot that was not taken holds.                                      *)
LEMMA NothingRead == SnapshotHolds(NoSnapshot) /\ \A n : TakenBy(NoSnapshot, n)
<1>1. NoSnapshot.seen = {} /\ NoSnapshot.uptime = Untold BY DEF NoSnapshot
<1>2. Cardinality({}) = 0 BY FS_EmptySet
<1> QED BY <1>1, <1>2, WalksApart DEF SnapshotHolds, TakenBy, Untold

(* Walks that brought nothing have no rows.                                  *)
LEMMA NoWalksYet ==
  /\ NoWalks \in [Walks -> [rows : SUBSET Interfaces, life : 0..MaxRestarts]]
  /\ \A w \in Walks : NoWalks[w].rows = {}
BY WalksApart DEF NoWalks, Empty

(* The invariant of the readings holds at first ...                          *)
LEMMA CountersStart == CountersInit => ReadingInv
<1> SUFFICES ASSUME CountersInit PROVE ReadingInv
  OBVIOUS
<1>1. ReadingTypeOK BY NoWalksYet, UntoldIsLeast DEF CountersInit, ReadingTypeOK
<1>2. WalksHold BY NoWalksYet DEF CountersInit, WalksHold
<1>3. UptimeHolds BY NothingRead DEF CountersInit, UptimeHolds
<1>4. PairHolds BY NothingRead DEF CountersInit, PairHolds, NoSnapshot
<1> QED BY <1>1, <1>2, <1>3, <1>4 DEF ReadingInv

(* A walk brings what the device has when it is walked.                      *)
LEMMA WalkHolds ==
  ASSUME ReadingInv, NEW c \in Columns, Walked(c)
  PROVE  ReadingInv'
<1>1. PICK rows \in {board[<<group, c>>], {}} :
        got' = [got EXCEPT ![<<group, c>>] = [rows |-> rows, life |-> life]]
  BY DEF Walked
<1>2. /\ c \in walking
      /\ UNCHANGED <<board, life, uptime, restarted, before, latest, readings>>
      /\ \/ group' = group /\ walking' = walking \ {c}
         \/ group' \in {"read", "narrow", "single"} /\ walking' = ColumnsOf(group')
  BY DEF Walked, AfterGroup
<1>3. <<group, c>> \in Walks /\ group # "idle"
  <2>1. group \in {"hc", "narrow", "single"} BY <1>2 DEF ReadingInv, ReadingTypeOK, WalksHold, Groups
  <2> QED BY <1>2, <2>1, WalksApart DEF ReadingInv, WalksHold
<1>4. board[<<group, c>>] \in SUBSET Interfaces
  BY <1>3, CountersAssumption DEF ReadingInv, ReadingTypeOK
<1>5. /\ got' \in [Walks -> [rows : SUBSET Interfaces, life : 0..MaxRestarts]]
      /\ \A w \in Walks : got'[w].life = IF w = <<group, c>> THEN life ELSE got[w].life
      /\ \A w \in Walks : w # <<group, c>> => got'[w].rows = got[w].rows
  BY <1>1, <1>3, <1>4 DEF ReadingInv, ReadingTypeOK
<1>6. ReadingTypeOK'
  BY <1>2, <1>5 DEF ReadingInv, ReadingTypeOK, Groups, ColumnsOf, Columns
<1>7. WalksHold'
  BY <1>2, <1>3, <1>5 DEF ReadingInv, WalksHold, UptimeHolds, ColumnsOf
<1>8. UptimeHolds' BY <1>2 DEF ReadingInv, UptimeHolds
<1>9. PairHolds' BY <1>2 DEF ReadingInv, PairHolds
<1> QED BY <1>6, <1>7, <1>8, <1>9 DEF ReadingInv

(* A snapshot that is taken is of one life of the device, unless it restarted. *)
LEMMA SnapshotIsOne ==
  ASSUME ReadingInv, SnapshotTaken
  PROVE  /\ SnapshotHolds(latest') /\ latest'.uptime = uptime /\ latest'.torn = restarted
<1> DEFINE h == HaveHc(got)
           S == Shown
           C == [i \in S |-> [c \in Columns |-> Pick(c, i)]]
<1>1. latest' = [uptime |-> uptime, hc |-> h, seen |-> S, counters |-> C, torn |-> restarted]
  BY DEF SnapshotTaken
<1>2. \A c \in Columns : SourceOf(c) \in Walks BY WalksApart DEF SourceOf
<1>3. /\ Indexes \subseteq Interfaces
  <2>1. InOctets \in Columns /\ InErrors \in Columns BY CountersAssumption DEF Columns
  <2> QED BY <1>2, <2>1 DEF Indexes, ReadingInv, ReadingTypeOK
<1>4. Interfaces \subseteq Nat /\ IsFiniteSet(Indexes)
  BY <1>3, CountersAssumption, FS_Subset
<1>5. S \subseteq Interfaces BY <1>3 DEF Shown
<1>6. Cardinality(S) <= MaxInterfaces
  <2>1. S = {i \in Indexes : Cardinality({j \in Indexes : j < i}) < MaxInterfaces} BY DEF Shown
  <2>2. Indexes \subseteq Nat BY <1>3, <1>4
  <2> HIDE DEF S
  <2> QED BY <2>1, <2>2, <1>4, WalksApart, AtMostSoMany
<1>7. ASSUME NEW i \in S, NEW c \in Columns, Pick(c, i) # Absent
      PROVE  /\ Pick(c, i).width = IF c \in Counted32 /\ h THEN 64 ELSE 32
             /\ uptime # Untold /\ ~restarted => Pick(c, i).life = uptime
  <2>1. Pick(c, i) = [life |-> got[SourceOf(c)].life,
                      width |-> IF SourceOf(c)[1] = "hc" THEN 64 ELSE 32]
        /\ got[SourceOf(c)].rows # {}
    BY <1>7 DEF Pick
  <2>2. SourceOf(c)[1] = "hc" <=> c \in Counted32 /\ h BY WalksApart DEF SourceOf
  <2>3. uptime # Untold /\ ~restarted => got[SourceOf(c)].life = uptime
    BY <1>2, <2>1 DEF ReadingInv, WalksHold
  <2> QED BY <2>1, <2>2, <2>3
<1>8. uptime \in Int BY WalksApart DEF ReadingInv, ReadingTypeOK, Untold
<1>9. /\ latest'.uptime = uptime /\ latest'.seen = S /\ latest'.hc = h /\ latest'.torn = restarted
      /\ \A i \in S, c \in Columns : latest'.counters[i][c] = Pick(c, i)
  BY <1>1
<1> HIDE DEF h, S, C
<1> QED BY <1>5, <1>6, <1>7, <1>8, <1>9 DEF SnapshotHolds

(* ... and after every step.                                                 *)
LEMMA CountersStep == ReadingInv /\ [CountersNext]_readingVars => ReadingInv'
<1> SUFFICES ASSUME ReadingInv, [CountersNext]_readingVars PROVE ReadingInv'
  OBVIOUS
<1>t. life \in Nat /\ uptime \in Int /\ (uptime # Untold => uptime \in Nat) /\ latest.uptime \in Int
  BY WalksApart DEF ReadingInv, ReadingTypeOK, PairHolds, SnapshotHolds, Untold
<1>1. CASE ClockRead
  <2>1. ReadingTypeOK'
    <3>1. readings + 1 \in 0..MaxReadings
      BY <1>1, WalksApart DEF ClockRead, ReadingInv, ReadingTypeOK
    <3> QED BY <1>1, <3>1, NoWalksYet, UntoldIsLeast
        DEF ClockRead, ReadingInv, ReadingTypeOK, Columns, Groups
  <2>2. WalksHold' BY <1>1, NoWalksYet DEF ClockRead, WalksHold
  <2>3. UptimeHolds' BY <1>1 DEF ClockRead, ReadingInv, UptimeHolds
  <2>4. PairHolds' BY <1>1 DEF ClockRead, ReadingInv, PairHolds
  <2> QED BY <2>1, <2>2, <2>3, <2>4 DEF ReadingInv
<1>2. CASE SnapshotTaken
  <2>1. SnapshotHolds(latest') /\ latest'.uptime = uptime /\ latest'.torn = restarted
    BY <1>2, SnapshotIsOne
  <2>2. ReadingTypeOK'
    BY <1>2, NoWalksYet, UntoldIsLeast DEF SnapshotTaken, ReadingInv, ReadingTypeOK
  <2>3. WalksHold' BY <1>2, NoWalksYet DEF SnapshotTaken, ReadingInv, WalksHold
  <2>4. life' = life /\ uptime' = Untold /\ before' = latest BY <1>2 DEF SnapshotTaken
  <2>5. UptimeHolds' BY <1>t, <2>1, <2>4 DEF ReadingInv, UptimeHolds, TakenBy
  <2>6. PairHolds' BY <1>t, <2>1, <2>4 DEF ReadingInv, PairHolds, UptimeHolds, TakenBy
  <2> QED BY <2>2, <2>3, <2>5, <2>6 DEF ReadingInv
<1>3. CASE ReadingAbandoned
  <2>1. ReadingTypeOK'
    BY <1>3, NoWalksYet, UntoldIsLeast DEF ReadingAbandoned, ReadingInv, ReadingTypeOK
  <2>2. WalksHold' BY <1>3, NoWalksYet DEF ReadingAbandoned, ReadingInv, WalksHold
  <2>3. UptimeHolds' BY <1>3 DEF ReadingAbandoned, ReadingInv, UptimeHolds
  <2>4. PairHolds' BY <1>3 DEF ReadingAbandoned, ReadingInv, PairHolds
  <2> QED BY <2>1, <2>2, <2>3, <2>4 DEF ReadingInv
<1>4. CASE DeviceRestarts
  <2>0. /\ life' = life + 1 /\ restarted' = (group # "idle")
        /\ UNCHANGED <<board, group, walking, uptime, got, before, latest, readings>>
    BY <1>4 DEF DeviceRestarts
  <2>1. ReadingTypeOK' BY <1>4, <1>t, WalksApart DEF DeviceRestarts, ReadingInv, ReadingTypeOK
  <2>2. WalksHold' BY <2>0 DEF ReadingInv, WalksHold
  <2>a. /\ group = "idle" => uptime = Untold
        /\ uptime # Untold => uptime <= life /\ TakenBy(latest, uptime)
        /\ TakenBy(latest, life)
    BY <1>t DEF ReadingInv, ReadingTypeOK, WalksHold, UptimeHolds
  <2>b. TakenBy(latest, life + 1) BY <1>t, <2>a DEF TakenBy
  <2>c. uptime # Untold => uptime < life + 1 BY <1>t, <2>a
  <2>d. uptime # Untold => restarted' = TRUE BY <2>0, <2>a
  <2>3. UptimeHolds' BY <2>0, <2>a, <2>b, <2>c, <2>d DEF UptimeHolds
  <2>4. PairHolds' BY <2>0 DEF ReadingInv, PairHolds
  <2> QED BY <2>1, <2>2, <2>3, <2>4 DEF ReadingInv
<1>5. ASSUME NEW c \in Columns, Walked(c) PROVE ReadingInv' BY <1>5, WalkHolds
<1>6. CASE UNCHANGED readingVars
  <2>1. ReadingTypeOK' BY <1>6 DEF readingVars, ReadingInv, ReadingTypeOK
  <2>2. WalksHold' BY <1>6 DEF readingVars, ReadingInv, WalksHold
  <2>3. UptimeHolds' BY <1>6 DEF readingVars, ReadingInv, UptimeHolds
  <2>4. PairHolds' BY <1>6 DEF readingVars, ReadingInv, PairHolds
  <2> QED BY <2>1, <2>2, <2>3, <2>4 DEF ReadingInv
<1> QED BY <1>1, <1>2, <1>3, <1>4, <1>5, <1>6 DEF CountersNext

(* It implies what the runs check.                                           *)
LEMMA ReadingInvIsEnough == ReadingInv => SnapshotsCompare
<1> SUFFICES ASSUME ReadingInv PROVE SnapshotsCompare
  OBVIOUS
<1>1. CountersTypeOK
  BY DEF ReadingInv, ReadingTypeOK, PairHolds, SnapshotHolds, CountersTypeOK
<1>2. ASSUME NEW c \in Columns, NEW i \in Subtracted(c)
      PROVE  /\ before.counters[i][c].width = latest.counters[i][c].width
             /\ before.counters[i][c].life = latest.counters[i][c].life \/ latest.torn
  <2>1. /\ i \in before.seen /\ i \in latest.seen
        /\ before.uptime # Untold /\ before.uptime = latest.uptime
        /\ c \in Counted32 => before.hc = latest.hc
        /\ before.counters[i][c] # Absent /\ latest.counters[i][c] # Absent
    BY DEF Subtracted
  <2>2. SnapshotHolds(before) /\ SnapshotHolds(latest) /\ ~before.torn
    BY <2>1 DEF ReadingInv, PairHolds
  <2> QED BY <2>1, <2>2 DEF SnapshotHolds
<1>3. DifferencesHold BY <1>2 DEF DifferencesHold
<1> QED BY <1>1, <1>3 DEF SnapshotsCompare

-----------------------------------------------------------------------------
(* The forwarding table.                                                     *)
RowOf(m, vlan, n, map) == [mac |-> m, vlan |-> vlan, bridgePort |-> n, port |-> PortBy(map, n)]

(* A bridge port is resolved, by the map of the instance it was numbered in, *)
(* to its interface or to none.                                              *)
LEMMA InstanceIsOfAVlan == \A i \in Instances : VlanOf(i) \in SwitchVlans
BY ReportAssumption DEF Instances, VlanOf

LEMMA PortIsItsOwn ==
  ASSUME switch \in Switches, NEW v \in Instances, NEW p \in Ports
  PROVE  PortBy(MapOf(v), switch.numbers[VlanOf(v)][p]) \in {p, NoPort}
<1> DEFINE numbers == switch.numbers[VlanOf(v)]
           n == numbers[p]
           map == MapOf(v)
<1>0. VlanOf(v) \in SwitchVlans BY InstanceIsOfAVlan
<1>1. CASE \E e \in map : e[1] = n
  <2> DEFINE e == CHOOSE e \in map : e[1] = n
  <2>1. PortBy(map, n) = e[2] BY <1>1 DEF PortBy
  <2>2. e \in map /\ e[1] = n BY <1>1
  <2> HIDE DEF e
  <2>3. PICK q \in Ports : e = <<numbers[q], q>> BY <2>2 DEF MapOf
  <2>4. numbers[q] = numbers[p] BY <2>2, <2>3
  <2>5. q = p BY <1>0, <2>4, ReportAssumption
  <2>6. e[2] = p BY <2>3, <2>5
  <2> QED BY <2>1, <2>6
<1>2. CASE ~\E e \in map : e[1] = n BY <1>2 DEF PortBy
<1> QED BY <1>1, <1>2

(* What the switch knows of an address.                                      *)
LEMMA WellFormed ==
  ASSUME switch \in Switches, NEW m \in Macs
  PROVE  /\ switch.at[m].port \in Ports
         /\ switch.at[m].status \in {"learned", "self", "invalid"}
BY ReportAssumption

(* A row of an instance's table, resolved, is of an address the switch       *)
(* learned, as far as the instance's status was read.                        *)
LearnedBy(i, m) == m \in switch.stated[i] => switch.at[m].status = "learned"

LEMMA ResolvedRow ==
  ASSUME switch \in Switches, NEW i, NEW v, NEW vlan, NEW map,
         NEW r \in Resolved(RowsOf(i, v), vlan, map)
  PROVE  \E m \in On(v) : LearnedBy(i, m) /\ r = RowOf(m, vlan, Number(i, m), map)
<1>1. PICK x \in RowsOf(i, v) : Usable(x) /\ r = [mac |-> x.mac, vlan |-> vlan, bridgePort |-> x.port,
                                                  port |-> PortBy(map, x.port)]
  BY DEF Resolved
<1>2. PICK m \in On(v) : x = [mac |-> m, port |-> Number(i, m), status |-> StatusBy(i, m)]
  BY DEF RowsOf
<1>3. m \in Macs BY DEF On
<1>4. x.mac = m /\ x.port = Number(i, m) /\ x.status = StatusBy(i, m) BY <1>2
<1>5. LearnedBy(i, m) BY <1>1, <1>3, <1>4, WellFormed DEF Usable, StatusBy, LearnedBy
<1>6. r = RowOf(m, vlan, Number(i, m), map) BY <1>1, <1>4 DEF RowOf
<1> QED BY <1>5, <1>6

(* What a row of the table says.                                             *)
IsTrueRow(r) ==
  \E m \in Macs : \E vlan, n, p :
    /\ r = [mac |-> m, vlan |-> vlan, bridgePort |-> n, port |-> p]
    /\ p \in {switch.at[m].port, NoPort}
    /\ vlan = switch.at[m].vlan \/ (vlan = Untagged /\ switch.at[m].vlan = DefaultVlan)
    /\ LearnedBy(TableOf(vlan), m)

(* A row resolved through the map its number is of says what is so.          *)
LEMMA RowIsTrue ==
  ASSUME switch \in Switches, NEW i \in Instances, NEW w, NEW m \in On(w), NEW vlan,
         i = TableOf(vlan), LearnedBy(i, m),
         vlan = w \/ (vlan = Untagged /\ w = DefaultVlan)
  PROVE  IsTrueRow(RowOf(m, vlan, Number(i, m), MapOf(i)))
<1>1. m \in Macs /\ switch.at[m].vlan = w BY DEF On
<1>2. PortBy(MapOf(i), Number(i, m)) \in {switch.at[m].port, NoPort}
  BY <1>1, WellFormed, PortIsItsOwn DEF Number
<1> QED BY <1>1, <1>2 DEF IsTrueRow, RowOf

(* The rows of the tables of the VLANs.                                      *)
LEMMA TaggedRows ==
  ASSUME switch \in Switches, NEW r \in Tagged
  PROVE  \E v \in SwitchVlans : \E m \in On(v) :
           LearnedBy(v, m) /\ r = RowOf(m, v, Number(v, m), MapOf(v))
<1>1. PICK v \in SwitchVlans : r \in Resolved(RowsOf(v, v), v, MapOf(v)) BY DEF Tagged, OwnMap
<1> QED BY <1>1, ResolvedRow

(* Every row is true, and no address has two.                                *)
LEMMA RowsTrue ==
  ASSUME switch \in Switches
  PROVE  /\ \A r \in Rows : IsTrueRow(r)
         /\ \A r, s \in Rows : r.mac = s.mac => r = s
<1>i. Untagged \in Instances /\ \A v \in SwitchVlans : v \in Instances BY DEF Instances
<1>m. ASSUME NEW m, NEW vlan, NEW n, NEW map PROVE RowOf(m, vlan, n, map).mac = m BY DEF RowOf
<1>o. ASSUME NEW v, NEW w, NEW m, m \in On(v), m \in On(w) PROVE v = w BY <1>o DEF On
<1>1. CASE switch.qBridge
  <2>0. \A vlan : TableOf(vlan) = Untagged BY <1>1 DEF TableOf
  <2>1. ASSUME NEW r \in Rows
        PROVE  \E v \in SwitchVlans : \E m \in On(v) :
                 /\ LearnedBy(Untagged, m)
                 /\ r = RowOf(m, v, Number(Untagged, m), MapOf(Untagged))
    <3>1. PICK v \in SwitchVlans : r \in Resolved(RowsOf(Untagged, v), v, MapOf(Untagged))
      BY <1>1 DEF Rows, QRows
    <3> QED BY <3>1, ResolvedRow
  <2>2. ASSUME NEW r \in Rows PROVE IsTrueRow(r)
    <3>1. PICK v \in SwitchVlans : \E m \in On(v) :
                 /\ LearnedBy(Untagged, m)
                 /\ r = RowOf(m, v, Number(Untagged, m), MapOf(Untagged)) BY <2>1
    <3> QED BY <1>i, <2>0, <3>1, RowIsTrue
  <2>3. ASSUME NEW r \in Rows, NEW s \in Rows, r.mac = s.mac PROVE r = s
    <3>1. PICK v \in SwitchVlans : \E m \in On(v) :
            r = RowOf(m, v, Number(Untagged, m), MapOf(Untagged)) BY <2>1
    <3>2. PICK m \in On(v) : r = RowOf(m, v, Number(Untagged, m), MapOf(Untagged)) BY <3>1
    <3>3. PICK w \in SwitchVlans : \E k \in On(w) :
            s = RowOf(k, w, Number(Untagged, k), MapOf(Untagged)) BY <2>1
    <3>4. PICK k \in On(w) : s = RowOf(k, w, Number(Untagged, k), MapOf(Untagged)) BY <3>3
    <3>5. m = k BY <3>2, <3>4, <2>3, <1>m
    <3> QED BY <3>2, <3>4, <3>5, <1>o
  <2> QED BY <2>2, <2>3
<1>2. CASE ~switch.qBridge
  <2> DEFINE U == Resolved(RowsOf(Untagged, DefaultVlan), Untagged, MapOf(Untagged))
  <2>0. \A vlan : TableOf(vlan) = vlan BY <1>2 DEF TableOf
  <2>1. Rows = Tagged \cup NewOf(U) BY <1>2 DEF Rows, VlanRows
  <2>2. ASSUME NEW r \in U
        PROVE  \E m \in On(DefaultVlan) :
                 /\ LearnedBy(Untagged, m)
                 /\ r = RowOf(m, Untagged, Number(Untagged, m), MapOf(Untagged))
    BY <2>2, ResolvedRow
  <2> HIDE DEF U
  <2>3. ASSUME NEW r \in Rows PROVE IsTrueRow(r)
    <3>1. CASE r \in Tagged BY <1>i, <2>0, <3>1, TaggedRows, RowIsTrue
    <3>2. CASE r \in NewOf(U)
      <4>1. r \in U BY <3>2 DEF NewOf
      <4> QED BY <1>i, <2>0, <4>1, <2>2, RowIsTrue
    <3> QED BY <2>1, <3>1, <3>2
  <2>4. ASSUME NEW r \in Tagged, NEW s \in Tagged, r.mac = s.mac PROVE r = s
    <3>1. PICK v \in SwitchVlans : \E m \in On(v) : r = RowOf(m, v, Number(v, m), MapOf(v))
      BY TaggedRows
    <3>2. PICK m \in On(v) : r = RowOf(m, v, Number(v, m), MapOf(v)) BY <3>1
    <3>3. PICK w \in SwitchVlans : \E k \in On(w) : s = RowOf(k, w, Number(w, k), MapOf(w))
      BY TaggedRows
    <3>4. PICK k \in On(w) : s = RowOf(k, w, Number(w, k), MapOf(w)) BY <3>3
    <3>5. m = k BY <3>2, <3>4, <2>4, <1>m
    <3> QED BY <3>2, <3>4, <3>5, <1>o
  <2>5. ASSUME NEW r \in U, NEW s \in U, r.mac = s.mac PROVE r = s
    <3>1. PICK m \in On(DefaultVlan) :
            r = RowOf(m, Untagged, Number(Untagged, m), MapOf(Untagged)) BY <2>2
    <3>2. PICK k \in On(DefaultVlan) :
            s = RowOf(k, Untagged, Number(Untagged, k), MapOf(Untagged)) BY <2>2
    <3>3. m = k BY <3>1, <3>2, <2>5, <1>m
    <3> QED BY <3>1, <3>2, <3>3
  <2>6. NewOf(U) = {r \in U : \A t \in Tagged : t.mac # r.mac} BY DEF NewOf
  <2>7. ASSUME NEW r \in Rows, NEW s \in Rows, r.mac = s.mac PROVE r = s
    BY <2>1, <2>4, <2>5, <2>6, <2>7
  <2> QED BY <2>3, <2>7
<1> QED BY <1>1, <1>2

(* There is at most one row for an address.                                  *)
LEMMA RowsAreFinite ==
  ASSUME switch \in Switches
  PROVE  IsFiniteSet(Rows)
<1> DEFINE f == [r \in Rows |-> r.mac]
<1>1. \A r \in Rows : r.mac \in Macs BY RowsTrue DEF IsTrueRow
<1>2. f \in Injection(Rows, Macs) BY <1>1, RowsTrue DEF Injection, IsInjective
<1> HIDE DEF f
<1> QED BY <1>2, ReportAssumption, FS_Injection

(* An order of a finite set names each of it once.                           *)
LEMMA OrderIsWhole ==
  ASSUME NEW S, IsFiniteSet(S), NEW o \in SetToSeqs(S)
  PROVE  /\ Len(o) = Cardinality(S) /\ Len(o) \in Nat /\ DOMAIN o = 1..Len(o)
         /\ \A i \in 1..Len(o) : o[i] \in S
         /\ \A i, j \in 1..Len(o) : o[i] = o[j] => i = j
         /\ \A s \in S : \E i \in 1..Len(o) : o[i] = s
<1> DEFINE n == Cardinality(S)
<1>1. n \in Nat BY FS_CardinalityType
<1>2. o \in [1..n -> S] /\ \A i, j \in 1..n : i # j => o[i] # o[j] BY DEF SetToSeqs
<1>3. IsFiniteSet(1..n) /\ Cardinality(1..n) = n BY <1>1, FS_Interval
<1>4. o \in Injection(1..n, S) BY <1>2 DEF Injection, IsInjective
<1>5. o \in Surjection(1..n, S) BY <1>3, <1>4, FS_Injection
<1>6. \A s \in S : \E i \in 1..n : o[i] = s BY <1>5 DEF Surjection
<1> HIDE DEF n
<1>7. Len(o) = n BY <1>1, <1>2
<1> QED BY <1>1, <1>2, <1>6, <1>7 DEF n

(* The table reported is an order of the rows, cut at the cap.              *)
ReportedSo ==
  \E o \in Orders : fdb = [i \in 1..Min({Len(o), MaxFdb}) |-> RowReported(o[i])]

(* The invariant of the table.                                              *)
BuildInv ==
  /\ switch \in Switches
  /\ ~built => fdb = <<>>
  /\ built => ReportedSo

(* What is reported of true rows in such an order is true, under every cap.  *)
LEMMA SentAsRead ==
  ASSUME switch \in Switches, ReportedSo
  PROVE  TableIsTrue
<1>1. PICK o \in Orders : fdb = [i \in 1..Min({Len(o), MaxFdb}) |-> RowReported(o[i])]
  BY DEF ReportedSo
<1>2. /\ o \in SetToSeqs(Rows) /\ IsFiniteSet(Rows)
      /\ \A i, j \in DOMAIN o : Crowd(o[i]) < Crowd(o[j]) => i < j
  BY RowsAreFinite DEF Orders, Sooner
<1> DEFINE n == Len(o)
           k == Min({n, MaxFdb})
<1>3. /\ n = Cardinality(Rows) /\ n \in Nat /\ DOMAIN o = 1..n
      /\ \A i \in 1..n : o[i] \in Rows
      /\ \A i, j \in 1..n : o[i] = o[j] => i = j
      /\ \A s \in Rows : \E i \in 1..n : o[i] = s
  BY <1>2, OrderIsWhole
<1>4. MaxFdb \in Nat BY ReportAssumption
<1> HIDE DEF n
<1>5. k \in Nat /\ k <= n /\ (k < n => k = MaxFdb) BY <1>3, <1>4, LesserOfTwo
<1>6. k = Min({Cardinality(Rows), MaxFdb}) BY <1>3
<1> HIDE DEF k
<1>7. fdb = [i \in 1..k |-> RowReported(o[i])] BY <1>1 DEF k, n
<1>8. DOMAIN fdb = 1..k /\ \A i \in 1..k : fdb[i] = RowReported(o[i]) BY <1>7
<1>9. Len(fdb) = k BY <1>5, <1>7
<1>10. \A r : /\ RowReported(r).mac = r.mac /\ RowReported(r).vlan = r.vlan
              /\ RowReported(r).port = r.port /\ RowReported(r).crowd = Crowd(r)
              /\ RowReported(r).name = NameOf(r.port)
  BY DEF RowReported
<1>11. ASSUME NEW r \in ReportedRows PROVE \E i \in 1..k : r = RowReported(o[i])
  BY <1>8 DEF ReportedRows, ToSet
<1>12. \A i \in 1..k : i \in 1..n BY <1>3, <1>5
<1>13. ASSUME NEW r \in ReportedRows
       PROVE  /\ r.port \in {switch.at[r.mac].port, NoPort}
              /\ r.vlan = switch.at[r.mac].vlan
                   \/ (r.vlan = Untagged /\ switch.at[r.mac].vlan = DefaultVlan)
              /\ r.mac \in switch.stated[TableOf(r.vlan)] => switch.at[r.mac].status = "learned"
              /\ r.name # "ifIndex"
  <2>1. PICK i \in 1..k : r = RowReported(o[i]) BY <1>11
  <2>2. IsTrueRow(o[i]) BY <1>3, <1>12, RowsTrue
  <2>3. r.mac = o[i].mac /\ r.vlan = o[i].vlan /\ r.port = o[i].port /\ r.name = NameOf(o[i].port)
    BY <2>1, <1>10
  <2>4. r.name # "ifIndex" BY <2>3 DEF NameOf
  <2> QED BY <2>2, <2>3, <2>4 DEF IsTrueRow, LearnedBy
<1>14. ASSUME NEW i \in 1..k, NEW j \in 1..k, fdb[i].mac = fdb[j].mac PROVE i = j
  <2>1. o[i].mac = o[j].mac BY <1>8, <1>10, <1>14
  <2> QED BY <2>1, <1>3, <1>12, RowsTrue
<1>15. RowsAreTrue BY <1>8, <1>13, <1>14 DEF RowsAreTrue
<1>16. ASSUME NEW r \in ReportedRows, NEW s \in Rows, s.mac \notin {t.mac : t \in ReportedRows}
       PROVE  r.crowd <= Crowd(s)
  <2>1. PICK i \in 1..k : r = RowReported(o[i]) BY <1>11
  <2>2. PICK j \in 1..n : o[j] = s BY <1>3
  <2>3. j \notin 1..k
    <3> SUFFICES ASSUME j \in 1..k PROVE FALSE
      OBVIOUS
    <3>1. fdb[j] \in ReportedRows /\ fdb[j].mac = s.mac BY <1>8, <1>10, <2>2 DEF ReportedRows, ToSet
    <3> QED BY <3>1, <1>16
  <2>4. i < j /\ i \in 1..n BY <1>3, <1>5, <2>3
  <2>5. ~(Crowd(o[j]) < Crowd(o[i])) BY <2>4, <1>2, <1>3
  <2>6. ASSUME NEW x PROVE Crowd(x) \in Nat
    <3>1. Crowd(x) = Cardinality({y \in Rows : IF x.port # NoPort THEN y.port = x.port
                            ELSE y.port = NoPort /\ y.bridgePort = x.bridgePort})
      BY DEF Crowd
    <3> QED BY <3>1, <1>2, FS_Subset, FS_CardinalityType
  <2>7. r.crowd = Crowd(o[i]) BY <2>1, <1>10
  <2> QED BY <2>2, <2>5, <2>6, <2>7
<1>17. CrowdedGoFirst BY <1>6, <1>9, <1>16 DEF CrowdedGoFirst
<1> QED BY <1>15, <1>17 DEF TableIsTrue

(* What the switch says does not change.                                     *)
LEMMA SameSwitch ==
  ASSUME switch' = switch
  PROVE  Orders' = Orders /\ \A r : RowReported(r)' = RowReported(r)
<1>1. Orders' = Orders
  BY DEF Orders, Sooner, Crowd, Rows, QRows, VlanRows, Tagged, NewOf, Resolved, RowsOf, On,
         Number, MapOf, OwnMap, PortBy, Usable, StatusBy, VlanOf
<1>2. \A r : RowReported(r)' = RowReported(r)
  BY DEF RowReported, NameOf, Crowd, Rows, QRows, VlanRows, Tagged, NewOf, Resolved, RowsOf, On,
         Number, MapOf, OwnMap, PortBy, Usable, StatusBy, VlanOf
<1> QED BY <1>1, <1>2

(* The table that was built stays.                                           *)
LEMMA TableStep == BuildInv /\ [BuildNext]_buildVars => BuildInv'
<1> SUFFICES ASSUME BuildInv, [BuildNext]_buildVars PROVE BuildInv'
  OBVIOUS
<1>1. CASE BuildsReport
  <2>1. switch' = switch /\ built' = TRUE BY <1>1 DEF BuildsReport
  <2>2. ReportedSo' BY <1>1, <2>1, SameSwitch DEF BuildsReport, ReportedSo
  <2> QED BY <2>1, <2>2 DEF BuildInv
<1>2. CASE UNCHANGED buildVars
  <2>1. UNCHANGED <<switch, fdb, built>> BY <1>2 DEF buildVars
  <2>2. ASSUME ReportedSo PROVE ReportedSo'
    <3>1. PICK o \in Orders : fdb = [i \in 1..Min({Len(o), MaxFdb}) |-> RowReported(o[i])]
      BY <2>2 DEF ReportedSo
    <3>2. o \in Orders' BY <3>1, <2>1, SameSwitch
    <3>3. \A i : RowReported(o[i])' = RowReported(o[i]) BY <2>1, SameSwitch
    <3>4. fdb' = [i \in 1..Min({Len(o), MaxFdb}) |-> RowReported(o[i])'] BY <3>1, <3>3, <2>1
    <3> QED BY <3>2, <3>4 DEF ReportedSo
  <2> QED BY <2>1, <2>2 DEF BuildInv
<1> QED BY <1>1, <1>2 DEF BuildNext

(* A table that was not built says nothing; one that was says what is so.    *)
LEMMA BuildInvIsEnough == BuildInv => TableIsTrue
<1>1. fdb = <<>> /\ ~built => TableIsTrue
  BY DEF TableIsTrue, RowsAreTrue, CrowdedGoFirst, ReportedRows, ToSet
<1> QED BY <1>1, SentAsRead DEF BuildInv

(* What is reported of a switch is so, whichever walks failed or were cut:    *)
(* the rows of its forwarding table, none of them of the switch itself where *)
(* the status was read, and what the cap leaves of them (collectFdb,         *)
(* buildTopology in src/snmpTopology.js), and the differences of its counters                 *)
(* (src/snmp/counters.js), for every set of switches, addresses and columns. *)
THEOREM ReportStaysTrue == BuildSpec /\ CountersSpec => []ReportIsTrue
<1>1. BuildInit => BuildInv BY DEF BuildInit, BuildInv
<1>2. BuildInv /\ [BuildNext]_buildVars => BuildInv' BY TableStep
<1>3. ReadingInv /\ [CountersNext]_readingVars => ReadingInv' BY CountersStep
<1>4. BuildInv /\ ReadingInv => ReportIsTrue
  BY BuildInvIsEnough, ReadingInvIsEnough DEF ReportIsTrue
<1> QED BY <1>1, <1>2, <1>3, <1>4, CountersStart, PTL DEF BuildSpec, CountersSpec

-----------------------------------------------------------------------------
(* The local exporter.                                                       *)
Jobs == [at : Points, for : Wishes \cup {NoWish}, round : Nat]

(* What a reconciliation has behind it, wherever it is.                      *)
JobHolds ==
  /\ job \in Jobs /\ job.round \in 0..InstallRetries \cup 0..2
  /\ ~At("idle") => job.for = wish
  /\ job.at \in Builds \cup {"write", "writing", "check", "enable", "start"} => job.for # NoWish
  /\ job.at \in {"write", "writing", "check", "enable", "start", "observe", "stop"} => installed
  /\ job.at = "stop" => job.for = NoWish
  /\ job.at = "writing" => missed \/ runs = Stopped
  /\ job.at \in {"enable", "start"} => job.round \in {0, 1}
  /\ job.at \in {"check", "enable", "start", "observe"} /\ job.for # NoWish => conf = job.for

(* What the daemon runs is what the file says unless a restart was missed,   *)
(* and something of the agent's making only once the agent had written one.  *)
DaemonHolds ==
  /\ runs # Stopped /\ ~missed => runs = conf
  /\ runs \in Wishes => conf \in Wishes \cup {"torn"}
  /\ runs \in Wishes \/ conf \in Wishes => installed

(* Between two attempts: "active" for a wish means that the file holds that *)
(* wish and, unless the agent was deleted, that the daemon runs.            *)
AnswerHolds ==
  At("idle") /\ reported.state = "active" /\ reported.for # NoWish
    => conf = reported.for /\ (deletion # "over" => runs # Stopped)

(* The invariant of the exporter.                                           *)
ExporterInv ==
  /\ ExporterTypeOK /\ JobHolds /\ DaemonHolds /\ AnswerHolds /\ NothingOrphaned

(* The two ways a reconciliation goes on.                                    *)
LEMMA JobGoesOn ==
  ASSUME job \in Jobs, NEW p \in Points, NEW n \in Nat,
         job' = [job EXCEPT !.at = p, !.round = n]
  PROVE  job'.at = p /\ job'.for = job.for /\ job'.round = n /\ job' \in Jobs
BY DEF Jobs

(* The places of a reconciliation.                                           *)
LEMMA JobEnds ==
  /\ Idle \in Jobs /\ Idle.at = "idle" /\ Idle.for = NoWish /\ Idle.round = 0
  /\ {"idle", "look", "write", "writing", "check", "enable", "start", "observe", "stop",
      "apt", "clone", "make", "installed"} \subseteq Points
BY DEF Idle, Jobs, Points, Builds

(* A wish is no other file, and no state of a daemon.                        *)
LEMMA WishesApart ==
  /\ "torn" \notin Wishes /\ "operator" \notin Wishes /\ "none" \notin Wishes
  /\ Stopped \notin Wishes /\ Unread \notin Wishes
  /\ NoWish \notin Wishes /\ NoWish # Unread
  /\ Foreign = {"none", "operator", "torn"} /\ Stopped \notin Foreign
  /\ InstallRetries \in Nat \ {0}
BY ExporterAssumption DEF Foreign, Stopped, Unread

(* The invariant of the exporter holds at first ...                          *)
LEMMA ExporterStarts == ExporterInit => ExporterInv
<1> SUFFICES ASSUME ExporterInit PROVE ExporterInv
  OBVIOUS
<1>1. job = Idle /\ reported = Unreported /\ wish = Unread BY DEF ExporterInit
<1>2. reported.state = "unknown" /\ reported.for = NoWish BY <1>1 DEF Unreported
<1>a. 0 \in 0..InstallRetries /\ Idle.at \in Points BY JobEnds, WishesApart
<1>3. ExporterTypeOK BY <1>1, <1>2, <1>a, JobEnds, WishesApart DEF ExporterInit, ExporterTypeOK
<1>4. JobHolds BY <1>1, JobEnds, WishesApart DEF JobHolds, At, Builds
<1>5. DaemonHolds BY WishesApart DEF ExporterInit, DaemonHolds
<1>6. AnswerHolds BY <1>2 DEF AnswerHolds
<1>7. NothingOrphaned BY <1>1, WishesApart DEF NothingOrphaned
<1> QED BY <1>3, <1>4, <1>5, <1>6, <1>7 DEF ExporterInv

(* ... and after every step.                                                 *)
LEMMA ExporterStep == ExporterInv /\ [ExporterNext]_exporterVars => ExporterInv'
<1> SUFFICES ASSUME ExporterInv, [ExporterNext]_exporterVars PROVE ExporterInv'
  OBVIOUS
<1> USE DEF At, host, agent, rest
<1>i. Idle \in Jobs /\ Idle.at = "idle" /\ Idle.for = NoWish /\ Idle.round = 0 BY JobEnds
<1>j. job \in Jobs BY DEF ExporterInv, JobHolds
<1>p. 0 \in Nat /\ 1 \in Nat /\ job.round \in Nat /\ job.at \in Points BY <1>j DEF Jobs
<1>r. /\ 0 \in 0..InstallRetries /\ 1 \in 0..2 /\ Idle.round \in 0..2
      /\ job.round \in 0..InstallRetries \cup 0..2
  BY <1>i, WishesApart DEF ExporterInv, JobHolds
<1>k. ExporterTypeOK /\ JobHolds /\ DaemonHolds /\ AnswerHolds /\ NothingOrphaned
  BY DEF ExporterInv
<1>1. ASSUME NEW w \in Wishes \cup {NoWish}, Reconciles(w) PROVE ExporterInv'
  <2>1. /\ \/ job' = Idle /\ w = NoWish /\ ~Managed
           \/ job' = [at |-> "look", for |-> w, round |-> 0]
        /\ At("idle") /\ wish' = w
        /\ UNCHANGED <<agent, host, deletion>>
    BY <1>1 DEF Reconciles
  <2>2. \/ job' = Idle /\ w = NoWish /\ conf \notin Wishes
        \/ job'.at = "look" /\ job'.for = w /\ job'.round = 0 /\ job' \in Jobs
    BY <1>p, JobEnds, <2>1 DEF Managed, IsManaged, Jobs
  <2>t. ExporterTypeOK' BY <1>r, <1>k, <1>i, WishesApart, JobEnds, <2>1, <2>2 DEF ExporterTypeOK, JobHolds
  <2>j. JobHolds' BY <1>r, <1>k, <1>i, WishesApart, JobEnds, <2>1, <2>2 DEF JobHolds, ExporterTypeOK, Builds
  <2>d. DaemonHolds' BY <1>k, <1>i, WishesApart, JobEnds, <2>1, <2>2 DEF DaemonHolds, JobHolds, ExporterTypeOK
  <2>a. AnswerHolds' BY <1>k, <1>i, WishesApart, JobEnds, <2>1, <2>2 DEF AnswerHolds, JobHolds, DaemonHolds
  <2>o. NothingOrphaned' BY <1>k, <1>i, WishesApart, JobEnds, <2>1, <2>2 DEF NothingOrphaned, JobHolds, DaemonHolds, ExporterTypeOK, Builds
  <2> QED BY <2>t, <2>j, <2>d, <2>a, <2>o DEF ExporterInv
<1> DEFINE Ended(state) == /\ job' = Idle /\ reported'.state = state /\ reported'.for = job.for
                           /\ flag' = (job.for # NoWish)
           GoesTo(p, n) == /\ job'.at = p /\ job'.for = job.for /\ job'.round = n /\ job' \in Jobs
                           /\ UNCHANGED agent
<1>e. ASSUME NEW state, Reports(state) PROVE Ended(state)
  BY <1>e DEF Reports
<1>g. ASSUME NEW p \in Points, Goes(p), UNCHANGED agent PROVE GoesTo(p, 0)
  BY <1>g, <1>j, JobGoesOn DEF Goes
<1>h. ASSUME NEW p \in Points, NEW n \in Nat, UNCHANGED agent,
             job' = [job EXCEPT !.at = p, !.round = n]
      PROVE  GoesTo(p, n)
  BY <1>h, <1>j, JobGoesOn
<1>f. ASSUME NEW n \in Nat, UNCHANGED agent, job' = [job EXCEPT !.round = n]
      PROVE  GoesTo(job.at, n)
  BY <1>f, <1>j DEF Jobs
<1>2. CASE Looks
  <2>1. /\ At("look") /\ UNCHANGED <<host, rest>>
        /\ \/ installed /\ job.for = NoWish /\ GoesTo("stop", 0)
           \/ installed /\ job.for # NoWish /\ GoesTo("write", 0)
           \/ ~installed /\ job.for = NoWish /\ Ended("not_installed")
           \/ ~installed /\ job.for # NoWish /\ GoesTo("apt", 0)
    BY <1>2, <1>e, <1>g, JobEnds DEF Looks
  <2>t. ExporterTypeOK' BY <1>r, <1>k, <1>i, WishesApart, JobEnds, <2>1 DEF ExporterTypeOK, JobHolds
  <2>j. JobHolds' BY <1>r, <1>k, <1>i, WishesApart, JobEnds, <2>1 DEF JobHolds, ExporterTypeOK, Builds
  <2>d. DaemonHolds' BY <1>k, <1>i, WishesApart, JobEnds, <2>1 DEF DaemonHolds, JobHolds, ExporterTypeOK
  <2>a. AnswerHolds' BY <1>k, <1>i, WishesApart, JobEnds, <2>1 DEF AnswerHolds, JobHolds, DaemonHolds
  <2>o. NothingOrphaned' BY <1>k, <1>i, WishesApart, JobEnds, <2>1 DEF NothingOrphaned, JobHolds, DaemonHolds, ExporterTypeOK, Builds
  <2> QED BY <2>t, <2>j, <2>d, <2>a, <2>o DEF ExporterInv
<1>3. CASE AptLocked
  <2>1. /\ At("apt") /\ UNCHANGED <<host, rest>> /\ job.round < InstallRetries - 1
        /\ GoesTo("apt", job.round + 1)
    BY <1>3, <1>f, <1>p DEF AptLocked
  <2>2. job'.round \in 0..InstallRetries BY <1>p, <2>1, WishesApart
  <2>t. ExporterTypeOK' BY <1>r, <1>k, WishesApart, JobEnds, <2>1, <2>2 DEF ExporterTypeOK, JobHolds
  <2>j. JobHolds' BY <1>r, <1>k, WishesApart, JobEnds, <2>1, <2>2 DEF JobHolds, ExporterTypeOK, Builds
  <2>d. DaemonHolds' BY <1>k, WishesApart, JobEnds, <2>1, <2>2 DEF DaemonHolds, JobHolds, ExporterTypeOK
  <2>a. AnswerHolds' BY <1>k, WishesApart, JobEnds, <2>1, <2>2 DEF AnswerHolds, JobHolds, DaemonHolds
  <2>o. NothingOrphaned' BY <1>k, WishesApart, JobEnds, <2>1, <2>2 DEF NothingOrphaned, JobHolds, DaemonHolds, ExporterTypeOK, Builds
  <2> QED BY <2>t, <2>j, <2>d, <2>a, <2>o DEF ExporterInv
<1>4. CASE BuildStep
  <2>1. /\ job.at \in {"apt", "clone", "make"}
        /\ UNCHANGED <<conf, enabled, runs, missed, rest>>
        /\ installed => installed'
        /\ installed' \in BOOLEAN
        /\ \/ GoesTo("clone", 0) \/ GoesTo("make", 0) \/ (At("make") /\ job.round < 2 /\ GoesTo("make", job.round + 1))
           \/ GoesTo("installed", 0)
    <3>1. CASE At("apt") BY <1>4, <3>1, <1>k, <1>g, JobEnds DEF BuildStep, ExporterTypeOK
    <3>2. CASE At("clone") BY <1>4, <3>2, <1>k, <1>g, JobEnds DEF BuildStep, ExporterTypeOK
    <3>3. CASE At("make") /\ job.round < 2 /\ job' = [job EXCEPT !.round = @ + 1]
               /\ installed' = (installed \/ job.round = 1)
      <4>1. GoesTo("make", job.round + 1) BY <1>4, <3>3, <1>f, <1>p DEF BuildStep
      <4>2. installed => installed' BY <3>3
      <4>3. installed' \in BOOLEAN BY <3>3
      <4> QED BY <1>4, <3>3, <4>1, <4>2, <4>3 DEF BuildStep
    <3>4. CASE At("make") /\ Goes("installed") /\ UNCHANGED installed
      BY <1>4, <3>4, <1>k, <1>g, JobEnds DEF BuildStep, ExporterTypeOK
    <3> QED BY <1>4, <3>1, <3>2, <3>3, <3>4 DEF BuildStep
  <2>2. job'.round \in 0..2 BY <1>p, <2>1
  <2>t. ExporterTypeOK' BY <1>r, <1>k, WishesApart, JobEnds, <2>1, <2>2 DEF ExporterTypeOK, JobHolds
  <2>j. JobHolds' BY <1>r, <1>k, WishesApart, JobEnds, <2>1, <2>2 DEF JobHolds, ExporterTypeOK, Builds
  <2>d. DaemonHolds' BY <1>k, WishesApart, JobEnds, <2>1, <2>2 DEF DaemonHolds, JobHolds, ExporterTypeOK
  <2>a. AnswerHolds' BY <1>k, WishesApart, JobEnds, <2>1, <2>2 DEF AnswerHolds, JobHolds, DaemonHolds
  <2>o. NothingOrphaned' BY <1>k, WishesApart, JobEnds, <2>1, <2>2 DEF NothingOrphaned, JobHolds, DaemonHolds, ExporterTypeOK, Builds
  <2> QED BY <2>t, <2>j, <2>d, <2>a, <2>o DEF ExporterInv
<1>5. CASE BuildFails
  <2>1. /\ job.at \in {"apt", "clone", "make"} /\ UNCHANGED <<host, rest>>
        /\ Ended("install_failed") \/ Ended("permission_denied")
    BY <1>5, <1>e DEF BuildFails
  <2>t. ExporterTypeOK' BY <1>r, <1>k, <1>i, WishesApart, JobEnds, <2>1 DEF ExporterTypeOK, JobHolds
  <2>j. JobHolds' BY <1>r, <1>k, <1>i, WishesApart, JobEnds, <2>1 DEF JobHolds, ExporterTypeOK, Builds
  <2>d. DaemonHolds' BY <1>k, <1>i, WishesApart, JobEnds, <2>1 DEF DaemonHolds, JobHolds, ExporterTypeOK
  <2>a. AnswerHolds' BY <1>k, <1>i, WishesApart, JobEnds, <2>1 DEF AnswerHolds, JobHolds, DaemonHolds
  <2>o. NothingOrphaned' BY <1>k, <1>i, WishesApart, JobEnds, <2>1 DEF NothingOrphaned, JobHolds, DaemonHolds, ExporterTypeOK, Builds
  <2> QED BY <2>t, <2>j, <2>d, <2>a, <2>o DEF ExporterInv
<1>6. CASE Installed
  <2>1. /\ At("installed") /\ UNCHANGED <<host, rest>>
        /\ (installed /\ GoesTo("write", 0)) \/ Ended("install_failed")
    BY <1>6, <1>e, <1>g, JobEnds DEF Installed
  <2>t. ExporterTypeOK' BY <1>r, <1>k, <1>i, WishesApart, JobEnds, <2>1 DEF ExporterTypeOK, JobHolds
  <2>j. JobHolds' BY <1>r, <1>k, <1>i, WishesApart, JobEnds, <2>1 DEF JobHolds, ExporterTypeOK, Builds
  <2>d. DaemonHolds' BY <1>k, <1>i, WishesApart, JobEnds, <2>1 DEF DaemonHolds, JobHolds, ExporterTypeOK
  <2>a. AnswerHolds' BY <1>k, <1>i, WishesApart, JobEnds, <2>1 DEF AnswerHolds, JobHolds, DaemonHolds
  <2>o. NothingOrphaned' BY <1>k, <1>i, WishesApart, JobEnds, <2>1 DEF NothingOrphaned, JobHolds, DaemonHolds, ExporterTypeOK, Builds
  <2> QED BY <2>t, <2>j, <2>d, <2>a, <2>o DEF ExporterInv
<1>7. CASE Compares
  <2>1. /\ At("write") /\ UNCHANGED <<installed, enabled, runs, rest>>
        /\ \/ conf = job.for /\ GoesTo("check", 0) /\ UNCHANGED <<conf, missed>>
           \/ GoesTo("writing", 0) /\ conf' = "torn" /\ missed' = (runs # Stopped)
    BY <1>7, <1>g, JobEnds DEF Compares
  <2>t. ExporterTypeOK' BY <1>r, <1>k, WishesApart, JobEnds, <2>1 DEF ExporterTypeOK, JobHolds
  <2>j. JobHolds' BY <1>r, <1>k, WishesApart, JobEnds, <2>1 DEF JobHolds, ExporterTypeOK, Builds
  <2>d. DaemonHolds' BY <1>k, WishesApart, JobEnds, <2>1 DEF DaemonHolds, JobHolds, ExporterTypeOK
  <2>a. AnswerHolds' BY <1>k, WishesApart, JobEnds, <2>1 DEF AnswerHolds, JobHolds, DaemonHolds
  <2>o. NothingOrphaned' BY <1>k, WishesApart, JobEnds, <2>1 DEF NothingOrphaned, JobHolds, DaemonHolds, ExporterTypeOK, Builds
  <2> QED BY <2>t, <2>j, <2>d, <2>a, <2>o DEF ExporterInv
<1>8. CASE WriteRefused
  <2>1. /\ At("write") /\ UNCHANGED <<host, rest>>
        /\ Ended("permission_denied") \/ Ended("failed")
    BY <1>8, <1>e DEF WriteRefused
  <2>t. ExporterTypeOK' BY <1>r, <1>k, <1>i, WishesApart, JobEnds, <2>1 DEF ExporterTypeOK, JobHolds
  <2>j. JobHolds' BY <1>r, <1>k, <1>i, WishesApart, JobEnds, <2>1 DEF JobHolds, ExporterTypeOK, Builds
  <2>d. DaemonHolds' BY <1>k, <1>i, WishesApart, JobEnds, <2>1 DEF DaemonHolds, JobHolds, ExporterTypeOK
  <2>a. AnswerHolds' BY <1>k, <1>i, WishesApart, JobEnds, <2>1 DEF AnswerHolds, JobHolds, DaemonHolds
  <2>o. NothingOrphaned' BY <1>k, <1>i, WishesApart, JobEnds, <2>1 DEF NothingOrphaned, JobHolds, DaemonHolds, ExporterTypeOK, Builds
  <2> QED BY <2>t, <2>j, <2>d, <2>a, <2>o DEF ExporterInv
<1>9. CASE Writes
  <2>1. /\ At("writing") /\ conf' = job.for /\ GoesTo("enable", 1)
        /\ UNCHANGED <<installed, enabled, runs, missed, rest>>
    BY <1>9, <1>h, JobEnds DEF Writes
  <2>t. ExporterTypeOK' BY <1>r, <1>k, WishesApart, JobEnds, <2>1 DEF ExporterTypeOK, JobHolds
  <2>j. JobHolds' BY <1>r, <1>k, WishesApart, JobEnds, <2>1 DEF JobHolds, ExporterTypeOK, Builds
  <2>d. DaemonHolds' BY <1>k, WishesApart, JobEnds, <2>1 DEF DaemonHolds, JobHolds, ExporterTypeOK
  <2>a. AnswerHolds' BY <1>k, WishesApart, JobEnds, <2>1 DEF AnswerHolds, JobHolds, DaemonHolds
  <2>o. NothingOrphaned' BY <1>k, WishesApart, JobEnds, <2>1 DEF NothingOrphaned, JobHolds, DaemonHolds, ExporterTypeOK, Builds
  <2> QED BY <2>t, <2>j, <2>d, <2>a, <2>o DEF ExporterInv
<1>10. CASE Checks
  <2>1. /\ At("check") /\ UNCHANGED <<host, rest>>
        /\ (runs # Stopped /\ Ended("active")) \/ GoesTo("enable", 0)
    BY <1>10, <1>e, <1>g, JobEnds DEF Checks
  <2>t. ExporterTypeOK' BY <1>r, <1>k, <1>i, WishesApart, JobEnds, <2>1 DEF ExporterTypeOK, JobHolds
  <2>j. JobHolds' BY <1>r, <1>k, <1>i, WishesApart, JobEnds, <2>1 DEF JobHolds, ExporterTypeOK, Builds
  <2>d. DaemonHolds' BY <1>k, <1>i, WishesApart, JobEnds, <2>1 DEF DaemonHolds, JobHolds, ExporterTypeOK
  <2>a. AnswerHolds' BY <1>k, <1>i, WishesApart, JobEnds, <2>1 DEF AnswerHolds, JobHolds, DaemonHolds
  <2>o. NothingOrphaned' BY <1>k, <1>i, WishesApart, JobEnds, <2>1 DEF NothingOrphaned, JobHolds, DaemonHolds, ExporterTypeOK, Builds
  <2> QED BY <2>t, <2>j, <2>d, <2>a, <2>o DEF ExporterInv
<1>11. CASE Enables
  <2>0. ASSUME job' = [job EXCEPT !.at = "start"], UNCHANGED agent PROVE GoesTo("start", job.round)
    BY <1>j, <2>0, JobEnds DEF Jobs
  <2>1. /\ At("enable") /\ UNCHANGED <<conf, installed, runs, missed, rest>>
        /\ \/ GoesTo("start", job.round) /\ enabled' \in BOOLEAN
           \/ Ended("permission_denied") /\ UNCHANGED enabled
    BY <1>11, <1>e, <1>k, <2>0 DEF Enables, ExporterTypeOK
  <2>t. ExporterTypeOK' BY <1>r, <1>k, <1>i, WishesApart, JobEnds, <2>1 DEF ExporterTypeOK, JobHolds
  <2>j. JobHolds' BY <1>r, <1>k, <1>i, WishesApart, JobEnds, <2>1 DEF JobHolds, ExporterTypeOK, Builds
  <2>d. DaemonHolds' BY <1>k, <1>i, WishesApart, JobEnds, <2>1 DEF DaemonHolds, JobHolds, ExporterTypeOK
  <2>a. AnswerHolds' BY <1>k, <1>i, WishesApart, JobEnds, <2>1 DEF AnswerHolds, JobHolds, DaemonHolds
  <2>o. NothingOrphaned' BY <1>k, <1>i, WishesApart, JobEnds, <2>1 DEF NothingOrphaned, JobHolds, DaemonHolds, ExporterTypeOK, Builds
  <2> QED BY <2>t, <2>j, <2>d, <2>a, <2>o DEF ExporterInv
<1>12. CASE Starts
  <2>1. /\ At("start") /\ UNCHANGED <<conf, installed, enabled, rest>>
        /\ \/ /\ runs' = IF Action = "start" /\ runs # Stopped THEN runs ELSE conf
              /\ missed' = (missed /\ job.round = 0 /\ runs # Stopped)
              /\ GoesTo("observe", 0)
           \/ GoesTo("observe", 0) /\ UNCHANGED <<runs, missed>>
           \/ Ended("permission_denied") /\ UNCHANGED <<runs, missed>>
    BY <1>12, <1>e, <1>g, JobEnds DEF Starts
  <2>2. job.round \in {0, 1} /\ job.for = conf /\ conf \in Wishes /\ installed
    BY <2>1, WishesApart, <1>k DEF JobHolds, ExporterTypeOK
  <2>3. Action = "start" <=> job.round = 0 BY <2>2 DEF Action
  <2>4. \/ /\ runs' = conf \/ (runs' = runs /\ job.round = 0 /\ runs # Stopped)
           /\ missed' = (missed /\ job.round = 0 /\ runs # Stopped)
           /\ GoesTo("observe", 0)
        \/ GoesTo("observe", 0) /\ UNCHANGED <<runs, missed>>
        \/ Ended("permission_denied") /\ UNCHANGED <<runs, missed>>
    BY <2>1, <2>3
  <2>5. At("start") /\ UNCHANGED <<conf, installed, enabled, rest>> BY <2>1
  <2>t. ExporterTypeOK' BY <1>r, <1>k, <1>i, WishesApart, JobEnds, <2>2, <2>4, <2>5 DEF ExporterTypeOK, JobHolds
  <2>j. JobHolds' BY <1>r, <1>k, <1>i, WishesApart, JobEnds, <2>2, <2>4, <2>5 DEF JobHolds, ExporterTypeOK, Builds
  <2>d. DaemonHolds' BY <1>k, <1>i, WishesApart, JobEnds, <2>2, <2>4, <2>5 DEF DaemonHolds, JobHolds, ExporterTypeOK
  <2>a. AnswerHolds' BY <1>k, <1>i, WishesApart, JobEnds, <2>2, <2>4, <2>5 DEF AnswerHolds, JobHolds, DaemonHolds
  <2>o. NothingOrphaned' BY <1>k, <1>i, WishesApart, JobEnds, <2>2, <2>4, <2>5 DEF NothingOrphaned, JobHolds, DaemonHolds, ExporterTypeOK, Builds
  <2> QED BY <2>t, <2>j, <2>d, <2>a, <2>o DEF ExporterInv
<1>13. CASE Stops
  <2>1. /\ At("stop") /\ UNCHANGED <<conf, installed, rest>>
        /\ \/ runs' = Stopped /\ enabled' = FALSE /\ missed' = FALSE /\ GoesTo("observe", 0)
           \/ GoesTo("observe", 0) /\ UNCHANGED <<runs, enabled, missed>>
           \/ Ended("permission_denied") /\ UNCHANGED <<runs, enabled, missed>>
    BY <1>13, <1>e, <1>g, JobEnds DEF Stops, StopsUnit
  <2>t. ExporterTypeOK' BY <1>r, <1>k, <1>i, WishesApart, JobEnds, <2>1 DEF ExporterTypeOK, JobHolds
  <2>j. JobHolds' BY <1>r, <1>k, <1>i, WishesApart, JobEnds, <2>1 DEF JobHolds, ExporterTypeOK, Builds
  <2>d. DaemonHolds' BY <1>k, <1>i, WishesApart, JobEnds, <2>1 DEF DaemonHolds, JobHolds, ExporterTypeOK
  <2>a. AnswerHolds' BY <1>k, <1>i, WishesApart, JobEnds, <2>1 DEF AnswerHolds, JobHolds, DaemonHolds
  <2>o. NothingOrphaned' BY <1>k, <1>i, WishesApart, JobEnds, <2>1 DEF NothingOrphaned, JobHolds, DaemonHolds, ExporterTypeOK, Builds
  <2> QED BY <2>t, <2>j, <2>d, <2>a, <2>o DEF ExporterInv
<1>14. CASE Observes
  <2>1. /\ At("observe") /\ UNCHANGED <<host, rest>>
        /\ (runs = Stopped /\ Ended("inactive")) \/ (runs # Stopped /\ Ended("active"))
    BY <1>14, <1>e DEF Observes
  <2>t. ExporterTypeOK' BY <1>r, <1>k, <1>i, WishesApart, JobEnds, <2>1 DEF ExporterTypeOK, JobHolds
  <2>j. JobHolds' BY <1>r, <1>k, <1>i, WishesApart, JobEnds, <2>1 DEF JobHolds, ExporterTypeOK, Builds
  <2>d. DaemonHolds' BY <1>k, <1>i, WishesApart, JobEnds, <2>1 DEF DaemonHolds, JobHolds, ExporterTypeOK
  <2>a. AnswerHolds' BY <1>k, <1>i, WishesApart, JobEnds, <2>1 DEF AnswerHolds, JobHolds, DaemonHolds
  <2>o. NothingOrphaned' BY <1>k, <1>i, WishesApart, JobEnds, <2>1 DEF NothingOrphaned, JobHolds, DaemonHolds, ExporterTypeOK, Builds
  <2> QED BY <2>t, <2>j, <2>d, <2>a, <2>o DEF ExporterInv
<1>15. CASE DeleteAsked
  <2>1. deletion' = "asked" /\ deletion = "none" /\ UNCHANGED <<wish, host, agent, job>> BY <1>15 DEF DeleteAsked
  <2>t. ExporterTypeOK' BY <1>r, <1>k, <2>1 DEF ExporterTypeOK, JobHolds
  <2>j. JobHolds' BY <1>r, <1>k, <2>1 DEF JobHolds, ExporterTypeOK, Builds
  <2>d. DaemonHolds' BY <1>k, <2>1 DEF DaemonHolds, JobHolds, ExporterTypeOK
  <2>a. AnswerHolds' BY <1>k, <2>1 DEF AnswerHolds, JobHolds, DaemonHolds
  <2>o. NothingOrphaned' BY <1>k, <2>1 DEF NothingOrphaned, JobHolds, DaemonHolds, ExporterTypeOK, Builds
  <2> QED BY <2>t, <2>j, <2>d, <2>a, <2>o DEF ExporterInv
<1>16. CASE DeleteStops
  <2>1. /\ deletion' = "over" /\ flag' \in BOOLEAN
        /\ UNCHANGED <<wish, conf, installed, reported, job>>
        /\ \/ runs' = Stopped /\ enabled' = FALSE /\ missed' = FALSE
           \/ UNCHANGED <<runs, enabled, missed>>
    BY <1>16, <1>k DEF DeleteStops, StopsUnit, ExporterTypeOK
  <2>t. ExporterTypeOK' BY <1>r, <1>k, WishesApart, <2>1 DEF ExporterTypeOK, JobHolds
  <2>j. JobHolds' BY <1>r, <1>k, WishesApart, <2>1 DEF JobHolds, ExporterTypeOK, Builds
  <2>d. DaemonHolds' BY <1>k, WishesApart, <2>1 DEF DaemonHolds, JobHolds, ExporterTypeOK
  <2>a. AnswerHolds' BY <1>k, WishesApart, <2>1 DEF AnswerHolds, JobHolds, DaemonHolds
  <2>o. NothingOrphaned' BY <1>k, WishesApart, <2>1 DEF NothingOrphaned, JobHolds, DaemonHolds, ExporterTypeOK, Builds
  <2> QED BY <2>t, <2>j, <2>d, <2>a, <2>o DEF ExporterInv
<1>17. CASE AgentDies
  <2>1. /\ job' = Idle /\ flag' = FALSE /\ wish' = Unread /\ UNCHANGED <<host, deletion>>
        /\ reported'.state = "unknown" /\ reported'.for = NoWish
    BY <1>17 DEF AgentDies, Unreported
  <2>t. ExporterTypeOK' BY <1>r, <1>k, <1>i, WishesApart, JobEnds, <2>1 DEF ExporterTypeOK, JobHolds
  <2>j. JobHolds' BY <1>r, <1>k, <1>i, WishesApart, JobEnds, <2>1 DEF JobHolds, ExporterTypeOK, Builds
  <2>d. DaemonHolds' BY <1>k, <1>i, WishesApart, JobEnds, <2>1 DEF DaemonHolds, JobHolds, ExporterTypeOK
  <2>a. AnswerHolds' BY <1>k, <1>i, WishesApart, JobEnds, <2>1 DEF AnswerHolds, JobHolds, DaemonHolds
  <2>o. NothingOrphaned' BY <1>k, <1>i, WishesApart, JobEnds, <2>1 DEF NothingOrphaned, JobHolds, DaemonHolds, ExporterTypeOK, Builds
  <2> QED BY <2>t, <2>j, <2>d, <2>a, <2>o DEF ExporterInv
<1>18. CASE HostReboots
  <2>1. /\ job' = Idle /\ flag' = FALSE /\ wish' = Unread /\ missed' = FALSE
        /\ UNCHANGED <<conf, installed, enabled, deletion>>
        /\ reported'.state = "unknown" /\ reported'.for = NoWish
        /\ runs' = conf \/ runs' = Stopped
    BY <1>18 DEF HostReboots, Unreported
  <2>t. ExporterTypeOK' BY <1>r, <1>k, <1>i, WishesApart, JobEnds, <2>1 DEF ExporterTypeOK, JobHolds
  <2>j. JobHolds' BY <1>r, <1>k, <1>i, WishesApart, JobEnds, <2>1 DEF JobHolds, ExporterTypeOK, Builds
  <2>d. DaemonHolds' BY <1>k, <1>i, WishesApart, JobEnds, <2>1 DEF DaemonHolds, JobHolds, ExporterTypeOK
  <2>a. AnswerHolds' BY <1>k, <1>i, WishesApart, JobEnds, <2>1 DEF AnswerHolds, JobHolds, DaemonHolds
  <2>o. NothingOrphaned' BY <1>k, <1>i, WishesApart, JobEnds, <2>1 DEF NothingOrphaned, JobHolds, DaemonHolds, ExporterTypeOK, Builds
  <2> QED BY <2>t, <2>j, <2>d, <2>a, <2>o DEF ExporterInv
<1>19. CASE UNCHANGED exporterVars
  <2>1. UNCHANGED <<wish, deletion, job, host, agent>> BY <1>19 DEF exporterVars
  <2>t. ExporterTypeOK' BY <1>r, <1>k, <2>1 DEF ExporterTypeOK, JobHolds
  <2>j. JobHolds' BY <1>r, <1>k, <2>1 DEF JobHolds, ExporterTypeOK, Builds
  <2>d. DaemonHolds' BY <1>k, <2>1 DEF DaemonHolds, JobHolds, ExporterTypeOK
  <2>a. AnswerHolds' BY <1>k, <2>1 DEF AnswerHolds, JobHolds, DaemonHolds
  <2>o. NothingOrphaned' BY <1>k, <2>1 DEF NothingOrphaned, JobHolds, DaemonHolds, ExporterTypeOK, Builds
  <2> QED BY <2>t, <2>j, <2>d, <2>a, <2>o DEF ExporterInv
<1> QED
  BY <1>1, <1>2, <1>3, <1>4, <1>5, <1>6, <1>7, <1>8, <1>9, <1>10, <1>11, <1>12, <1>13,
     <1>14, <1>15, <1>16, <1>17, <1>18, <1>19
  DEF ExporterNext

(* It implies what the runs check.                                           *)
LEMMA ExporterInvIsEnough == ExporterInv => ExporterKept
BY DEF ExporterInv, DaemonHolds, AnswerHolds, ExporterKept, ExporterAsWished, Stopped, At

(* The daemon on this host runs what was wished for, or nothing of the agent's *)
(* making where nothing was, for every set of wishes and number of retries and *)
(* through denials, failures, deaths and the deletion of the agent           *)
(* (src/sflow/hsflowd.js, reconcileHsflowd in src/runtime.js).               *)
THEOREM ExporterStaysKept == ExporterSpec => []ExporterKept
<1>1. ExporterInv /\ [ExporterNext]_exporterVars => ExporterInv' BY ExporterStep
<1> QED BY <1>1, ExporterStarts, ExporterInvIsEnough, PTL DEF ExporterSpec

-----------------------------------------------------------------------------
(* The probe for DHCP servers.                                               *)
LEMMA OneMoreHeld ==
  ASSUME NEW S, NEW s \in Seq(S), NEW x \in S
  PROVE  ToSet(Append(s, x)) = ToSet(s) \cup {x}
<1>1. /\ Append(s, x) \in Seq(S) /\ Len(Append(s, x)) = Len(s) + 1 /\ Len(s) \in Nat
      /\ \A i \in 1..Len(s) : Append(s, x)[i] = s[i]
      /\ Append(s, x)[Len(s) + 1] = x
  OBVIOUS
<1>2. DOMAIN s = 1..Len(s) /\ DOMAIN Append(s, x) = 1..(Len(s) + 1) BY <1>1
<1>3. \A i \in 1..(Len(s) + 1) : i \in 1..Len(s) \/ i = Len(s) + 1 BY <1>1
<1>4. \A i \in 1..Len(s) : i \in 1..(Len(s) + 1) BY <1>1
<1>5. Len(s) + 1 \in 1..(Len(s) + 1) BY <1>1
<1>6. ToSet(Append(s, x)) \subseteq ToSet(s) \cup {x} BY <1>1, <1>2, <1>3 DEF ToSet
<1>7. ToSet(s) \subseteq ToSet(Append(s, x)) BY <1>1, <1>2, <1>4 DEF ToSet
<1>8. x \in ToSet(Append(s, x)) BY <1>1, <1>2, <1>5 DEF ToSet
<1> QED BY <1>6, <1>7, <1>8

(* The servers of a row of offers.                                          *)
Servers(s) == {o.server : o \in ToSet(s)}

(* What is held is what was heard, until there is no more room.              *)
Held(s, h) ==
  /\ IsFiniteSet(ToSet(s)) /\ Cardinality(ToSet(s)) = Len(s)
  /\ Servers(s) \subseteq h
  /\ h # Servers(s) => Len(s) = MaxOffers

(* The invariant of the DHCP probe.                                         *)
SegmentInv ==
  /\ DhcpTypeOK /\ Held(offers, heard)
  /\ exchange \in {"choosing", "binding", "sharing"} => heard = {}
  /\ exchange # "over" => outcome = "none"
  /\ outcome = "error" => heard = {}

(* Only what is all three things is an answer.                               *)
LEMMA OnlyOneAnswers == \A d \in Datagrams : IsOfferFor(d) <=> d = Answering
<1> SUFFICES ASSUME NEW d \in Datagrams PROVE IsOfferFor(d) <=> d = Answering
  OBVIOUS
<1>1. IsOfferFor(Answering) BY DEF IsOfferFor, Answering
<1>2. ASSUME NEW f \in {"xid", "offer", "mac"}, d = [Answering EXCEPT ![f] = FALSE]
      PROVE  ~IsOfferFor(d) /\ d # Answering
  BY <1>2 DEF IsOfferFor, Answering
<1> QED BY <1>1, <1>2 DEF Datagrams

(* Without an offer nothing was heard.                                       *)
LEMMA NothingOffered == ToSet(<<>>) = {} /\ Held(<<>>, {})
<1>1. ToSet(<<>>) = {} BY DEF ToSet
<1> QED BY <1>1, FS_EmptySet DEF Held, Servers

(* The invariant of the probe holds at first ...                             *)
LEMMA SegmentStarts == DhcpInit => SegmentInv
BY NothingOffered, DhcpAssumption DEF DhcpInit, SegmentInv, DhcpTypeOK

(* ... when an offer comes, whoever it is for ...                            *)
LEMMA OfferHeard ==
  ASSUME SegmentInv, NEW o \in Offers, NEW d \in Datagrams, Hears(o, d)
  PROVE  SegmentInv'
<1>1. /\ exchange = "open" /\ datagrams < MaxHeard /\ datagrams' = datagrams + 1
      /\ heard' = heard \cup (IF d = Answering THEN {o.server} ELSE {})
      /\ offers' = IF IsOfferFor(d) /\ NewOffer(o) THEN Append(offers, o) ELSE offers
      /\ UNCHANGED <<exchange, onAir, outcome>>
  BY DEF Hears
<1>2. DhcpTypeOK /\ Held(offers, heard) BY DEF SegmentInv
<1>3. /\ offers \in Seq(Offers) /\ Len(offers) \in Nat /\ Len(offers) <= MaxOffers
      /\ MaxOffers \in Nat
      /\ heard \subseteq OfferServers \cup {NoServerId}
      /\ o.server \in OfferServers \cup {NoServerId}
  BY <1>2, DhcpAssumption DEF DhcpTypeOK, Offers
<1>4. CASE d = Answering /\ NewOffer(o)
  <2>1. offers' = Append(offers, o) /\ heard' = heard \cup {o.server}
    BY <1>1, <1>4, OnlyOneAnswers
  <2>2. o \notin ToSet(offers) /\ Len(offers) < MaxOffers BY <1>4 DEF NewOffer, OffersHeld
  <2>3. /\ offers' \in Seq(Offers) /\ Len(offers') = Len(offers) + 1 /\ Len(offers') <= MaxOffers
    BY <1>3, <2>1, <2>2
  <2>4. ToSet(offers') = ToSet(offers) \cup {o} BY <1>3, <2>1, OneMoreHeld
  <2>5. IsFiniteSet(ToSet(offers')) /\ Cardinality(ToSet(offers')) = Len(offers')
    BY <1>2, <2>2, <2>3, <2>4, FS_AddElement DEF Held
  <2>6. Servers(offers') = Servers(offers) \cup {o.server} BY <2>4 DEF Servers
  <2>7. Held(offers', heard') BY <1>2, <1>3, <2>1, <2>2, <2>5, <2>6 DEF Held
  <2>8. DhcpTypeOK' BY <1>1, <1>2, <1>3, <2>1, <2>3, DhcpAssumption DEF DhcpTypeOK
  <2> QED BY <1>1, <2>7, <2>8 DEF SegmentInv
<1>5. CASE d = Answering /\ ~NewOffer(o)
  <2>1. offers' = offers /\ heard' = heard \cup {o.server} BY <1>1, <1>5
  <2>2. o \in ToSet(offers) \/ Len(offers) = MaxOffers
    BY <1>3, <1>5 DEF NewOffer, OffersHeld
  <2>3. o \in ToSet(offers) => o.server \in Servers(offers) BY DEF Servers
  <2>4. Held(offers', heard') BY <1>2, <2>1, <2>2, <2>3 DEF Held
  <2>5. DhcpTypeOK' BY <1>1, <1>2, <1>3, <2>1, DhcpAssumption DEF DhcpTypeOK
  <2> QED BY <1>1, <2>4, <2>5 DEF SegmentInv
<1>6. CASE d # Answering
  <2>1. offers' = offers /\ heard' = heard BY <1>1, <1>6, OnlyOneAnswers
  <2>2. DhcpTypeOK' BY <1>1, <1>2, <2>1, DhcpAssumption DEF DhcpTypeOK
  <2> QED BY <1>1, <1>2, <2>1, <2>2 DEF SegmentInv
<1> QED BY <1>4, <1>5, <1>6

(* No offer is held exactly if no server was heard.                          *)
LEMMA NoOfferNoServer ==
  ASSUME SegmentInv
  PROVE  offers # <<>> <=> heard # {}
<1>1. /\ offers \in Seq(Offers) /\ Len(offers) \in Nat /\ MaxOffers \in Nat \ {0}
      /\ Held(offers, heard)
  BY DhcpAssumption DEF SegmentInv, DhcpTypeOK
<1>2. ASSUME offers = <<>> PROVE heard = {}
  <2>1. Servers(offers) = {} /\ Len(offers) = 0 BY <1>2, NothingOffered DEF Servers
  <2> QED BY <1>1, <2>1 DEF Held
<1>3. ASSUME heard = {} PROVE offers = <<>>
  <2>1. Servers(offers) = {} BY <1>1, <1>3 DEF Held
  <2>2. ToSet(offers) = {} BY <2>1 DEF Servers
  <2>3. Len(offers) = 0 BY <1>1, <2>2, FS_EmptySet DEF Held
  <2> QED BY <1>1, <2>3
<1> QED BY <1>2, <1>3

(* ... and after every step.                                                 *)
LEMMA SegmentStep == SegmentInv /\ [DhcpNext]_dhcpVars => SegmentInv'
<1> SUFFICES ASSUME SegmentInv, [DhcpNext]_dhcpVars PROVE SegmentInv'
  OBVIOUS
<1>0. ASSUME UNCHANGED <<offers, heard, datagrams>>,
             exchange' \in {"choosing", "binding", "sharing", "open", "over"},
             onAir' \in {"no", "unsure", "sent", "refused"},
             outcome' \in {"none", "measured", "error"},
             exchange' \in {"choosing", "binding", "sharing"} =>
               exchange \in {"choosing", "binding", "sharing"},
             exchange' # "over" => outcome' = "none",
             outcome' = "error" => heard = {}
      PROVE  SegmentInv'
  <2>1. DhcpTypeOK' BY <1>0 DEF SegmentInv, DhcpTypeOK
  <2> QED BY <1>0, <2>1 DEF SegmentInv
<1> USE DEF SegmentInv, DhcpTypeOK
<1>1. CASE Chooses BY <1>0, <1>1 DEF Chooses, Proceeds, GivesUp
<1>2. CASE Binds BY <1>0, <1>2 DEF Binds, Opens, Proceeds, GivesUp
<1>3. CASE Shares BY <1>0, <1>3 DEF Shares, Opens, GivesUp
<1>4. CASE Sent BY <1>0, <1>4 DEF Sent
<1>5. CASE SendFails BY <1>0, <1>5 DEF SendFails
<1>6. CASE SocketFails BY <1>0, <1>6, NoOfferNoServer DEF SocketFails
<1>7. CASE TimeIsUp BY <1>0, <1>7 DEF TimeIsUp
<1>8. ASSUME NEW o \in Offers, NEW d \in Datagrams, Hears(o, d) PROVE SegmentInv'
  BY <1>8, OfferHeard
<1>9. CASE UNCHANGED dhcpVars BY <1>0, <1>9 DEF dhcpVars
<1> QED BY <1>1, <1>2, <1>3, <1>4, <1>5, <1>6, <1>7, <1>8, <1>9 DEF DhcpNext

(* It implies what the runs check.                                           *)
LEMMA SegmentInvIsEnough == SegmentInv => SegmentVerdicts
<1> SUFFICES ASSUME SegmentInv PROVE SegmentVerdicts
  OBVIOUS
<1>1. ServerCount = Cardinality(Servers(offers)) BY DEF ServerCount, Servers, OffersHeld
<1>2. heard = Servers(offers) \/ Cardinality(OffersHeld) = MaxOffers
  BY DEF SegmentInv, Held, OffersHeld
<1> QED BY <1>1, <1>2, NoOfferNoServer
    DEF SegmentInv, SegmentVerdicts, ServersCounted, DhcpOk

-----------------------------------------------------------------------------
(* The certificate probe.                                                    *)
CertInv ==
  /\ CertTypeOK
  /\ GoodIsRecent /\ RevokedIsReal
  /\ step = "over" /\ block.revoked /\ cert.checkable => RevokedBy(clock)

(* What was not checked says nothing of a revocation.                        *)
LEMMA UncheckedHolds ==
  ASSUME NEW s \in {"off", "unchecked", "error"}
  PROVE  /\ Unchecked(s) \in [checked : BOOLEAN, status : {"off", "unchecked", "error", "good",
                "unverified", "revoked", "unknown"}, revoked : BOOLEAN, sure : BOOLEAN,
                stale : BOOLEAN, dated : BOOLEAN, seen : Nat, told : Nat]
         /\ Unchecked(s).status = s /\ ~Unchecked(s).revoked
BY DEF Unchecked

(* The invariant of the certificate probe holds at first ...                 *)
LEMMA CertStarts == CertInit => CertInv
<1> SUFFICES ASSUME CertInit PROVE CertInv
  OBVIOUS
<1>1. block = Unchecked("unchecked") /\ step = "connecting" BY DEF CertInit
<1>2. CertTypeOK
  BY <1>1, UncheckedHolds, CertificateAssumption DEF CertInit, CertTypeOK, NotRevoked
<1> QED BY <1>1, <1>2 DEF CertInv, GoodIsRecent, RevokedIsReal

(* What a block says that is reached now.                                    *)
SaysNow(b) ==
  /\ b \in [checked : BOOLEAN, status : {"off", "unchecked", "error", "good",
                "unverified", "revoked", "unknown"}, revoked : BOOLEAN, sure : BOOLEAN,
                stale : BOOLEAN, dated : BOOLEAN, seen : Nat, told : Nat]
  /\ b.status = "good" /\ ~b.stale =>
       b.sure /\ (b.dated => revokedAt + Window > b.told)
  /\ b.revoked /\ b.sure => RevokedBy(b.told)
  /\ b.revoked /\ cert.checkable => RevokedBy(clock)

(* A block that says nothing is right at any time.                           *)
LEMMA NothingSaid ==
  ASSUME NEW s \in {"off", "unchecked", "error"}
  PROVE  SaysNow(Unchecked(s))
BY UncheckedHolds DEF SaysNow

(* A response that is believed is right about what the issuer knew.          *)
LEMMA EvaluatedHolds ==
  ASSUME CertTypeOK, NEW r \in Answers, NEW q \in BOOLEAN
  PROVE  SaysNow(Evaluated(r, q))
<1>0. clock \in Nat /\ revokedAt \in Nat /\ Window \in Nat
  BY CertificateAssumption DEF CertTypeOK, NotRevoked
<1>1. CASE ~Believed(r, q) BY <1>1, NothingSaid DEF Evaluated
<1>2. CASE Believed(r, q)
  <2>1. r \in Responses \cup Spoilt /\ Truthful(r) BY DEF Answers
  <2>2. /\ r.at \in 0..clock /\ r.dated \in BOOLEAN /\ r.signed \in BOOLEAN
        /\ r.status \in {"good", "revoked", "unknown"}
    <3>1. CASE r \in Responses BY <3>1 DEF Responses
    <3>2. CASE r \in Spoilt
      <4>1. /\ r.at \in {clock, 0} /\ r.dated = TRUE /\ r.signed \in {TRUE, FALSE}
            /\ r.status \in {"good", "revoked", "unknown"}
        BY <3>2 DEF Spoilt
      <4>2. clock \in 0..clock /\ 0 \in 0..clock BY <1>0
      <4> QED BY <4>1, <4>2
    <3> QED BY <2>1, <3>1, <3>2
  <2>3. r.at \in Nat /\ r.at <= clock BY <1>0, <2>2
  <2>4. cert.checkable \in BOOLEAN BY CertificateAssumption DEF CertTypeOK, CertificateShape
  <2> DEFINE st == IF r.status = "good" /\ ~Sure(r) THEN "unverified" ELSE r.status
             b == [checked |-> TRUE, status |-> st,
                   revoked |-> r.status = "revoked", sure |-> Sure(r),
                   stale |-> Stale(r), dated |-> r.dated, seen |-> r.at, told |-> clock]
  <2>5. Evaluated(r, q) = b BY <1>2 DEF Evaluated
  <2>6. st \in {"good", "unverified", "revoked", "unknown"} BY <2>2
  <2>7. st = "good" <=> r.status = "good" /\ Sure(r) BY <2>2
  <2>8. Sure(r) \in BOOLEAN /\ Stale(r) \in BOOLEAN BY DEF Sure, Stale
  <2> HIDE DEF st
  <2>9. /\ b.status = st /\ b.revoked = (r.status = "revoked") /\ b.sure = Sure(r)
        /\ b.stale = Stale(r) /\ b.dated = r.dated /\ b.told = clock
    OBVIOUS
  <2>10. b \in [checked : BOOLEAN, status : {"off", "unchecked", "error", "good",
                "unverified", "revoked", "unknown"}, revoked : BOOLEAN, sure : BOOLEAN,
                stale : BOOLEAN, dated : BOOLEAN, seen : Nat, told : Nat]
    BY <1>0, <2>2, <2>3, <2>6, <2>8
  <2> HIDE DEF b
  <2>11. ASSUME b.status = "good", ~b.stale
         PROVE  b.sure /\ (b.dated => revokedAt + Window > b.told)
    <3>1. Sure(r) /\ r.status = "good" /\ ~Stale(r) BY <2>7, <2>9, <2>11
    <3>2. ~(revokedAt <= r.at) BY <2>1, <3>1 DEF Sure, Truthful, RevokedBy
    <3>3. r.dated => ~(r.at + Window < clock) BY <3>1 DEF Stale
    <3>4. r.dated => revokedAt + Window > clock BY <1>0, <2>3, <3>2, <3>3
    <3> QED BY <2>9, <3>1, <3>4
  <2>12. ASSUME b.revoked, r.signed PROVE revokedAt <= clock
    <3>1. revokedAt <= r.at BY <2>1, <2>9, <2>12 DEF Truthful, RevokedBy
    <3> QED BY <1>0, <2>3, <3>1
  <2>13. b.revoked /\ b.sure => RevokedBy(b.told) BY <2>9, <2>12 DEF RevokedBy, Sure
  <2>14. b.revoked /\ cert.checkable => RevokedBy(clock)
    BY <1>2, <2>12 DEF RevokedBy, Believed, Wrong
  <2> QED BY <2>5, <2>10, <2>11, <2>13, <2>14 DEF SaysNow
<1> QED BY <1>1, <1>2

(* ... when the verdict is reached ...                                       *)
LEMMA Settled ==
  ASSUME CertInv, NEW b, SaysNow(b), Settles(b), seenAt' \in 0..MaxClock,
         UNCHANGED <<cert, mode, named, clock, revokedAt>>
  PROVE  CertInv'
<1>1. step' = "over" /\ block' = b BY DEF Settles
<1>2. CertTypeOK' BY <1>1 DEF CertInv, CertTypeOK, SaysNow
<1>3. GoodIsRecent' BY <1>1 DEF GoodIsRecent, SaysNow
<1>4. RevokedIsReal' BY <1>1 DEF RevokedIsReal, SaysNow, RevokedBy
<1> QED BY <1>1, <1>2, <1>3, <1>4 DEF CertInv, SaysNow, RevokedBy

(* ... and after every step, the clock and the issuer going on.              *)
LEMMA CertStep == CertInv /\ [CertNext]_certVars => CertInv'
<1> SUFFICES ASSUME CertInv, [CertNext]_certVars PROVE CertInv'
  OBVIOUS
<1>t. CertTypeOK BY DEF CertInv
<1>0. ASSUME CertTypeOK', step' # "over" PROVE CertInv'
  BY <1>0 DEF CertInv, GoodIsRecent, RevokedIsReal
<1>1. CASE HandshakeFails BY <1>0, <1>1, <1>t DEF HandshakeFails, CertTypeOK
<1>2. CASE HandshakeEnds
  <2>1. /\ seenAt' = clock /\ UNCHANGED <<cert, mode, named, clock, revokedAt>>
        /\ \/ \E s \in {"off", "unchecked", "error"} : Settles(Unchecked(s))
           \/ Asks
           \/ \E r \in Answers : Settles(Evaluated(r, FALSE))
    BY <1>2 DEF HandshakeEnds, Without, WithStaple
  <2>2. seenAt' \in 0..MaxClock BY <2>1, <1>t DEF CertTypeOK
  <2>3. CASE Asks BY <1>0, <1>t, <2>1, <2>2, <2>3 DEF Asks, CertTypeOK
  <2> QED BY <1>t, <2>1, <2>2, <2>3, NothingSaid, EvaluatedHolds, Settled
<1>3. CASE ResponderAnswers
  <2>1. PICK r \in Answers : Settles(Evaluated(r, TRUE)) BY <1>3 DEF ResponderAnswers
  <2>2. seenAt' \in 0..MaxClock BY <1>3, <1>t DEF ResponderAnswers, CertTypeOK
  <2> QED BY <1>3, <1>t, <2>1, <2>2, EvaluatedHolds, Settled DEF ResponderAnswers
<1>4. CASE ResponderFails
  <2>1. seenAt' \in 0..MaxClock BY <1>4, <1>t DEF ResponderFails, CertTypeOK
  <2> QED BY <1>4, <2>1, NothingSaid, Settled DEF ResponderFails
<1>5. CASE CertTick
  <2>1. clock' \in 0..MaxClock BY <1>5, <1>t, CertificateAssumption DEF CertTick, CertTypeOK
  <2> QED BY <1>0, <1>5, <1>t, <2>1 DEF CertTick, CertTypeOK
<1>6. CASE IssuerRevokes
  <2>1. revokedAt' \in 0..NotRevoked
    BY <1>6, <1>t, CertificateAssumption DEF IssuerRevokes, CertTypeOK, NotRevoked
  <2> QED BY <1>0, <1>6, <1>t, <2>1 DEF IssuerRevokes, CertTypeOK
<1>7. CASE UNCHANGED certVars
  BY <1>7 DEF certVars, CertInv, CertTypeOK, GoodIsRecent, RevokedIsReal, RevokedBy
<1> QED BY <1>1, <1>2, <1>3, <1>4, <1>5, <1>6, <1>7 DEF CertNext

(* It implies what the runs check.                                           *)
LEMMA CertInvIsEnough == CertInv => CertificateVerdicts
<1> SUFFICES ASSUME CertInv PROVE CertificateVerdicts
  OBVIOUS
<1>1. /\ cert.from \in Nat /\ cert.until \in Nat /\ seenAt \in Nat /\ Grain \in Nat \ {0}
      /\ clock \in Nat
  BY CertificateAssumption DEF CertInv, CertTypeOK, CertificateShape
<1>2. BlamesRightly
  <2> SUFFICES ASSUME step = "over", Sound, ~(block.revoked /\ ~cert.checkable) PROVE Ok
    BY DEF BlamesRightly
  <2>1. ~block.revoked BY DEF CertInv, Sound
  <2>2. ~Expired /\ ~NotYetValid BY <1>1 DEF Sound, Expired, NotYetValid
  <2>3. ChainTrusted /\ ~NameMismatch
    BY DEF Sound, ChainTrusted, Authorized, NameRejected, LibraryName, NameMismatch
  <2> QED BY <2>1, <2>2, <2>3 DEF Ok
<1>3. FaultsShow
  <2> SUFFICES ASSUME Ok
               PROVE  /\ cert.chain /\ cert.from <= seenAt /\ seenAt < cert.until
                      /\ named => cert.name # "other"
    BY DEF FaultsShow
  <2>1. cert.chain BY DEF Ok, ChainTrusted, Authorized, NameRejected
  <2>2. cert.from <= seenAt /\ seenAt < cert.until BY <1>1 DEF Ok, Expired, NotYetValid
  <2>3. named => cert.name # "other" BY DEF Ok, NameMismatch
  <2> QED BY <2>1, <2>2, <2>3
<1> QED BY <1>2, <1>3 DEF CertInv, CertificateVerdicts

-----------------------------------------------------------------------------
(* The path MTU probe.                                                       *)

(* The least of a set of naturals is one of them.                            *)
LEMMA LeastOf ==
  ASSUME NEW S, S \subseteq Nat, S # {}
  PROVE  Min(S) \in S /\ \A y \in S : Min(S) <= y
<1>1. \E x \in S : \A y \in S : ~ (<<y, x>> \in OpToRel(<, Nat))
  BY WFMin, NatLessThanWellFounded
<1>2. \E x \in S : \A y \in S : ~ (y < x) BY <1>1 DEF OpToRel
<1>3. \E x \in S : \A y \in S : x <= y BY <1>2
<1> QED BY <1>3, Zenon DEF Min

(* The greatest of the links up to one is that one.                          *)
LEMMA LastOf ==
  ASSUME NEW n \in Nat, n > 0
  PROVE  Max(1..n) = n
<1>1. n \in 1..n /\ \A y \in 1..n : n >= y OBVIOUS
<1>2. Max(1..n) \in 1..n /\ \A y \in 1..n : Max(1..n) >= y BY <1>1, Zenon DEF Max
<1>3. Max(1..n) >= n BY <1>1, <1>2
<1> QED BY <1>2, <1>3

(* What is assumed of a path and of the sizes.                               *)
LEMMA PathIs ==
  ASSUME path \in Paths
  PROVE  /\ path.mtu \in [1..Links -> Nat] /\ path.names \in BOOLEAN /\ path.listed \in Nat
         /\ Links \in Nat /\ Links > 0 /\ MinSize \in Nat /\ MinSize > 0 /\ MaxSize \in Nat
         /\ MinSize <= MaxSize /\ ProbesPerSize \in Nat /\ ProbesPerSize > 0
BY PathsAssumption, MtuAssumption

(* The links towards a point.                                                *)
LEMMA CrossedIs ==
  ASSUME path \in Paths, NEW p \in Nat
  PROVE  \E n \in 1..Links : /\ CrossedTo(p) = 1..n /\ Max(CrossedTo(p)) = n
                             /\ p \in 1..Links => n = p
                             /\ p \notin 1..Links => n = Links
<1> DEFINE n == IF p = Whole \/ p > Links THEN Links ELSE p
<1>1. n \in 1..Links /\ (p \in 1..Links => n = p) /\ (p \notin 1..Links => n = Links)
  BY PathIs DEF Whole
<1>2. CrossedTo(p) = 1..n BY DEF CrossedTo
<1> HIDE DEF n
<1>3. Max(1..n) = n BY <1>1, LastOf, PathIs
<1> QED BY <1>1, <1>2, <1>3

(* The largest size that the first n links carry.                           *)
Upto(n) == Min({path.mtu[i] : i \in 1..n} \cup {MaxSize})

(* What it is: no more than any of the links, and that of one of them.       *)
LEMMA UptoIs ==
  ASSUME path \in Paths, NEW n \in 0..Links
  PROVE  /\ Upto(n) \in Nat /\ Upto(n) <= MaxSize
         /\ \A i \in 1..n : Upto(n) <= path.mtu[i]
         /\ Upto(n) = MaxSize \/ \E i \in 1..n : Upto(n) = path.mtu[i]
<1> DEFINE S == {path.mtu[i] : i \in 1..n} \cup {MaxSize}
<1>1. S \subseteq Nat /\ MaxSize \in S /\ \A i \in 1..n : path.mtu[i] \in S
  BY PathIs
<1>2. Min(S) \in S /\ \A y \in S : Min(S) <= y
  <2> HIDE DEF S
  <2> QED BY <1>1, LeastOf
<1>3. Upto(n) = Min(S) BY DEF Upto
<1>4. Upto(n) \in S /\ \A y \in S : Upto(n) <= y BY <1>2, <1>3
<1>5. Upto(n) = MaxSize \/ \E i \in 1..n : Upto(n) = path.mtu[i] BY <1>4
<1> HIDE DEF S
<1> QED BY <1>1, <1>4, <1>5

(* The narrowest link towards a point.                                       *)
LEMMA NarrowestIs ==
  ASSUME path \in Paths, NEW p \in Nat
  PROVE  /\ p \in 1..Links => Narrowest(p) = Upto(p)
         /\ p \notin 1..Links => Narrowest(p) = Upto(Links)
         /\ Narrowest(p) \in Nat /\ Narrowest(p) <= MaxSize
<1>1. PICK n \in 1..Links : CrossedTo(p) = 1..n /\ (p \in 1..Links => n = p)
                            /\ (p \notin 1..Links => n = Links)
  BY CrossedIs
<1>2. Narrowest(p) = Upto(n) BY <1>1 DEF Narrowest, Upto
<1>3. n \in 0..Links BY <1>1, PathIs
<1> QED BY <1>1, <1>2, <1>3, UptoIs

(* A size gets through to a point if it is no more than the narrowest link.  *)
LEMMA FitsIf ==
  ASSUME path \in Paths, NEW p \in Nat, NEW s \in Sizes
  PROVE  TooNarrow(p, s) = {} <=> s <= Narrowest(p)
<1>1. PICK n \in 1..Links : CrossedTo(p) = 1..n /\ (p \in 1..Links => n = p)
                            /\ (p \notin 1..Links => n = Links)
  BY CrossedIs
<1>2. Narrowest(p) = Upto(n) BY <1>1 DEF Narrowest, Upto
<1>3. n \in 0..Links /\ 1..n \subseteq 1..Links BY <1>1, PathIs
<1>4. TooNarrow(p, s) = {i \in 1..n : path.mtu[i] < s} BY <1>1 DEF TooNarrow
<1>5. s \in Nat /\ s <= MaxSize BY PathIs DEF Sizes
<1>6. \A i \in 1..n : path.mtu[i] \in Nat BY <1>3, PathIs
<1>7. /\ Upto(n) \in Nat /\ Upto(n) <= MaxSize
      /\ \A i \in 1..n : Upto(n) <= path.mtu[i]
      /\ Upto(n) = MaxSize \/ \E i \in 1..n : Upto(n) = path.mtu[i]
  BY <1>3, UptoIs
<1>8. ASSUME s <= Upto(n) PROVE TooNarrow(p, s) = {}
  BY <1>4, <1>5, <1>6, <1>7, <1>8
<1>9. ASSUME TooNarrow(p, s) = {} PROVE s <= Upto(n)
  <2>1. CASE Upto(n) = MaxSize BY <2>1, <1>5
  <2>2. CASE \E i \in 1..n : Upto(n) = path.mtu[i]
    <3>1. PICK i \in 1..n : Upto(n) = path.mtu[i] BY <2>2
    <3>2. ~(path.mtu[i] < s) BY <1>4, <1>9
    <3> QED BY <3>1, <3>2, <1>5, <1>7
  <2> QED BY <2>1, <2>2, <1>7
<1> QED BY <1>2, <1>8, <1>9

(* A link at which the path narrows.                                         *)
LEMMA NarrowsIf ==
  ASSUME path \in Paths, NEW i \in 1..Links, path.mtu[i] < MaxSize,
         \A j \in 1..(i - 1) : path.mtu[i] < path.mtu[j]
  PROVE  i \in Narrows
<1> DEFINE S == {path.mtu[j] : j \in 1..(i - 1)} \cup {MaxSize}
<1>0. i - 1 \in 0..Links /\ 1..(i - 1) \subseteq 1..Links BY PathIs
<1>1. S \subseteq Nat /\ MaxSize \in S /\ \A y \in S : path.mtu[i] < y
  BY PathIs, <1>0
<1>2. Min(S) \in S
  <2> HIDE DEF S
  <2> QED BY <1>1, LeastOf
<1>3. path.mtu[i] < Min(S) BY <1>1, <1>2
<1> QED BY <1>3 DEF Narrows

(* Where it narrows, every link before is wider.                             *)
LEMMA NarrowsThen ==
  ASSUME path \in Paths, NEW i \in Narrows
  PROVE  /\ i \in 1..Links /\ path.mtu[i] < MaxSize /\ path.mtu[i] < Upto(i - 1)
         /\ \A j \in 1..(i - 1) : path.mtu[i] < path.mtu[j]
<1>1. i \in 1..Links /\ path.mtu[i] < Upto(i - 1) BY DEF Narrows, Upto
<1>2. i - 1 \in 0..Links /\ i \in Nat /\ 1..(i - 1) \subseteq 1..Links BY <1>1, PathIs
<1>3. /\ Upto(i - 1) \in Nat /\ Upto(i - 1) <= MaxSize
      /\ \A j \in 1..(i - 1) : Upto(i - 1) <= path.mtu[j]
  BY <1>2, UptoIs
<1>4. path.mtu[i] \in Nat /\ MaxSize \in Nat /\ \A j \in 1..(i - 1) : path.mtu[j] \in Nat
  BY <1>1, <1>2, PathIs
<1> QED BY <1>1, <1>3, <1>4

(* The link a packet is too large for first.                                 *)
LEMMA FirstNarrow ==
  ASSUME path \in Paths, NEW p \in Nat, NEW s \in Sizes, TooNarrow(p, s) # {},
         NEW i, i = Min(TooNarrow(p, s))
  PROVE  /\ i \in 1..Links /\ i \in TooNarrow(p, s) /\ path.mtu[i] < s
         /\ i \in Narrows
         /\ i # 1 /\ i \notin path.tells => Silent # {}
         /\ Cardinality(Narrows) <= 1 => path.mtu[i] = Narrowest(p)
         /\ p \in 1..Links /\ s <= Upto(p - 1) => i = p
<1>1. PICK n \in 1..Links : CrossedTo(p) = 1..n /\ (p \in 1..Links => n = p)
                            /\ (p \notin 1..Links => n = Links)
  BY CrossedIs
<1>2. Narrowest(p) = Upto(n) BY <1>1 DEF Narrowest, Upto
<1>3. n \in 0..Links /\ 1..n \subseteq 1..Links BY <1>1, PathIs
<1>4. TooNarrow(p, s) = {k \in 1..n : path.mtu[k] < s} BY <1>1 DEF TooNarrow
<1>5. s \in Nat /\ s <= MaxSize BY PathIs DEF Sizes
<1>6. \A k \in 1..n : path.mtu[k] \in Nat /\ k \in Nat BY <1>3, PathIs
<1>7. i \in TooNarrow(p, s) /\ \A k \in TooNarrow(p, s) : i <= k
  <2>1. TooNarrow(p, s) \subseteq Nat BY <1>4, <1>6
  <2> QED BY <2>1, LeastOf
<1>8. i \in 1..n /\ i \in 1..Links /\ path.mtu[i] < s BY <1>4, <1>7, <1>3
<1>9. \A k \in 1..(i - 1) : k \in 1..n /\ k < i BY <1>8, <1>3
<1>10. \A k \in 1..(i - 1) : ~(path.mtu[k] < s) BY <1>4, <1>7, <1>8, <1>9, <1>6
<1>11. path.mtu[i] < MaxSize /\ \A k \in 1..(i - 1) : path.mtu[i] < path.mtu[k]
  BY <1>5, <1>6, <1>8, <1>9, <1>10, PathIs
<1>12. i \in Narrows BY <1>8, <1>11, NarrowsIf
<1>13. i # 1 /\ i \notin path.tells => Silent # {} BY <1>12 DEF Silent
<1>14. ASSUME Cardinality(Narrows) <= 1 PROVE path.mtu[i] = Narrowest(p)
  <2> DEFINE T == {k \in 1..n : path.mtu[k] < path.mtu[i]}
  <2>1. SUFFICES ASSUME T # {} PROVE FALSE
    <3>1. /\ Upto(n) \in Nat /\ \A k \in 1..n : Upto(n) <= path.mtu[k]
          /\ Upto(n) = MaxSize \/ \E k \in 1..n : Upto(n) = path.mtu[k]
      BY <1>3, UptoIs
    <3>2. \A k \in 1..n : ~(path.mtu[k] < path.mtu[i]) BY <2>1
    <3> QED BY <3>1, <3>2, <1>2, <1>6, <1>8, <1>11
  <2>2. T \subseteq Nat BY <1>6
  <2> DEFINE k == Min(T)
  <2>3. k \in T /\ \A y \in T : k <= y BY <2>1, <2>2, LeastOf
  <2>4. k \in 1..n /\ path.mtu[k] < path.mtu[i] BY <2>3
  <2>5. \A j \in 1..(k - 1) : j \in 1..n /\ ~(path.mtu[j] < path.mtu[i])
    <3> TAKE j \in 1..(k - 1)
    <3>1. j \in 1..n /\ j < k BY <2>4, <1>3
    <3>2. j \notin T BY <2>3, <3>1, <1>6
    <3> QED BY <3>1, <3>2
  <2> HIDE DEF k, T
  <2>6. path.mtu[k] < MaxSize /\ \A j \in 1..(k - 1) : path.mtu[k] < path.mtu[j]
    BY <2>4, <2>5, <1>6, <1>8, <1>11, PathIs
  <2>7. k \in Narrows BY <2>4, <2>6, <1>3, NarrowsIf
  <2>8. k # i BY <2>4, <1>6, <1>8
  <2>9. IsFiniteSet(Narrows)
    <3>1. Narrows \subseteq 1..Links BY DEF Narrows
    <3>2. 1 \in Int /\ Links \in Int BY PathIs
    <3>3. IsFiniteSet(1..Links) BY <3>2, FS_Interval
    <3> QED BY <3>1, <3>3, FS_Subset
  <2>10. Cardinality({i, k}) = 2 /\ {i, k} \subseteq Narrows
    <3>1. IsFiniteSet({i}) /\ Cardinality({i}) = 1 BY FS_Singleton
    <3>2. Cardinality({i} \cup {k}) = Cardinality({i}) + 1 BY <3>1, <2>8, FS_AddElement
    <3>3. {i} \cup {k} = {i, k} OBVIOUS
    <3> QED BY <3>1, <3>2, <3>3, <2>7, <1>12
  <2>11. Cardinality({i, k}) <= Cardinality(Narrows) BY <2>9, <2>10, FS_Subset
  <2>12. Cardinality(Narrows) \in Nat BY <2>9, FS_CardinalityType
  <2> QED BY <1>14, <2>10, <2>11, <2>12
<1>15. ASSUME p \in 1..Links, s <= Upto(p - 1) PROVE i = p
  <2>1. n = p BY <1>1, <1>15
  <2>2. p - 1 \in 0..Links BY <1>15, PathIs
  <2>3. \A k \in 1..(p - 1) : Upto(p - 1) <= path.mtu[k] BY <2>2, UptoIs
  <2>4. Upto(p - 1) \in Nat BY <2>2, UptoIs
  <2>5. i \notin 1..(p - 1)
    <3>1. i \in 1..(p - 1) => Upto(p - 1) <= path.mtu[i] BY <2>3
    <3> QED BY <3>1, <2>4, <1>15, <1>5, <1>6, <1>8
  <2> QED BY <2>1, <2>5, <1>8, <1>15, PathIs
<1> QED BY <1>7, <1>8, <1>12, <1>13, <1>14, <1>15

(* What a ping may answer.                                                   *)
Outcomes == {"local_error", "frag_needed", "timeout", "reply", "ttl_exceeded"}
Replies == [outcome : Outcomes, mtu : Nat]

(* The last link towards a point ends at one that answers.                   *)
EndAnswers(p) == Max(CrossedTo(p)) \in path.answers

(* What an answer that was not lost says.                                    *)
LEMMA AnswerIs ==
  ASSUME path \in Paths, NEW p \in Nat, NEW s \in Sizes, NEW a, a = Answer(p, s)
  PROVE  /\ a \in Replies
         /\ Passes(a.outcome) => EndAnswers(p) /\ s <= Narrowest(p)
         /\ ~Passes(a.outcome) /\ EndAnswers(p) => Narrowest(p) < s
         /\ a.outcome = "timeout" /\ EndAnswers(p) => Silent # {}
         /\ a.mtu # Unnamed => Narrowest(p) < s /\ path.names
         /\ a.mtu # Unnamed /\ Cardinality(Narrows) <= 1 => a.mtu = Narrowest(p)
         /\ p \in 1..Links /\ s <= Upto(p - 1) =>
              /\ a.mtu # Unnamed => a.mtu = path.mtu[p]
              /\ p \in Silent => a.outcome # "frag_needed" /\ a.mtu = Unnamed
              /\ p \in Silent /\ Narrowest(p) < s => a.outcome = "timeout"
<1>1. TooNarrow(p, s) = {} <=> s <= Narrowest(p) BY FitsIf
<1>2. Narrowest(p) \in Nat BY NarrowestIs
<1>3. s \in Nat BY PathIs DEF Sizes
<1>4. CASE TooNarrow(p, s) = {}
  <2>1. a = IF ~EndAnswers(p) THEN Silence
            ELSE Reply(IF Max(CrossedTo(p)) = Links THEN "reply" ELSE "ttl_exceeded", Unnamed)
    BY <1>4 DEF Answer, EndAnswers
  <2>2. a.mtu = Unnamed /\ a.outcome \in {"timeout", "reply", "ttl_exceeded"}
        /\ (a.outcome = "timeout" <=> ~EndAnswers(p)) /\ a \in Replies
    BY <2>1 DEF Reply, Silence, Replies, Outcomes, Unnamed
  <2> QED BY <1>1, <1>2, <1>3, <1>4, <2>2 DEF Passes
<1>5. CASE TooNarrow(p, s) # {}
  <2> DEFINE i == Min(TooNarrow(p, s))
             told == IF path.names THEN path.mtu[i] ELSE Unnamed
  <2>1. /\ i \in 1..Links /\ i \in TooNarrow(p, s) /\ path.mtu[i] < s /\ i \in Narrows
        /\ i # 1 /\ i \notin path.tells => Silent # {}
        /\ Cardinality(Narrows) <= 1 => path.mtu[i] = Narrowest(p)
        /\ p \in 1..Links /\ s <= Upto(p - 1) => i = p
    BY <1>5, FirstNarrow
  <2>2. a = IF i = 1 THEN Reply("local_error", told)
            ELSE IF i \in path.tells THEN Reply("frag_needed", told) ELSE Silence
    BY <1>5 DEF Answer
  <2> HIDE DEF i
  <2>3. told \in Nat /\ path.mtu[i] \in Nat BY <2>1, PathIs DEF Unnamed
  <2>4. /\ a.outcome = IF i = 1 THEN "local_error"
                       ELSE IF i \in path.tells THEN "frag_needed" ELSE "timeout"
        /\ a.mtu = IF i = 1 \/ i \in path.tells THEN told ELSE Unnamed
        /\ a \in Replies
    BY <2>2, <2>3 DEF Reply, Silence, Replies, Outcomes, Unnamed
  <2>5. ~Passes(a.outcome) BY <2>4 DEF Passes
  <2>6. Narrowest(p) < s BY <1>1, <1>2, <1>3, <1>5
  <2>7. a.outcome = "timeout" => Silent # {} BY <2>1, <2>4
  <2>8. a.mtu # Unnamed => path.names /\ a.mtu = path.mtu[i] BY <2>4
  <2>9. p \in Silent => p # 1 /\ p \notin path.tells BY DEF Silent
  <2>10. ASSUME p \in 1..Links, s <= Upto(p - 1), p \in Silent
         PROVE  a.outcome = "timeout" /\ a.mtu = Unnamed
    BY <2>1, <2>4, <2>9, <2>10
  <2> QED BY <2>1, <2>4, <2>5, <2>6, <2>7, <2>8, <2>10
<1> QED BY <1>4, <1>5

-----------------------------------------------------------------------------
(* The invariant: types, where the search is, and what is true of it.        *)
Verdicts == {"ok", "reduced", "blackhole", "no_response", "skipped"}
Measures == [silent : BOOLEAN, mtu : 0..MaxSize, frag : BOOLEAN, drop : BOOLEAN,
             local : BOOLEAN, reached : BOOLEAN]
HopRows == [hop : Nat, mtu : {Unknown} \cup Sizes, status : Verdicts]
Seens == [frag : BOOLEAN, drop : BOOLEAN, local : BOOLEAN, reached : BOOLEAN]
Searching == stage \in {"control", "top", "bisect"}

MtuTyped ==
  /\ path \in Paths /\ point \in 0..path.listed
  /\ stage \in {"control", "top", "bisect", "over", "failed"}
  /\ size \in Sizes /\ good \in Sizes /\ bad \in Sizes /\ tries \in 0..ProbesPerSize
  /\ seen \in Seens /\ ceiling \in Sizes /\ inherited \in {"ok", "reduced", "blackhole"}
  /\ whole \in Measures /\ hops \in Seq(HopRows) /\ lost \in 0..MaxLosses

(* Where the search is, whatever was lost.                                   *)
SearchHolds ==
  /\ stage = "control" => size = MinSize /\ seen = NothingSeen
  /\ stage = "top" => size = ceiling /\ MinSize < ceiling
  /\ stage = "bisect" => good < size /\ size < bad /\ bad <= ceiling

(* Which points have been measured.                                          *)
PlaceHolds ==
  /\ Searching /\ point = Whole => whole = NotMeasured /\ ceiling = MaxSize /\ hops = <<>>
  /\ Searching /\ point # Whole => /\ ceiling <= EffectiveMax
                                 /\ \A h \in ToSet(hops) : h.hop < point
  /\ whole.local => whole.mtu \in Sizes

ShapeHolds == MtuTyped /\ SearchHolds /\ PlaceHolds

(* A size that would be answered was tried in vain only as often as an       *)
(* answer was lost.                                                          *)
TriesHold == Searching /\ Answer(point, size).outcome # "timeout" => tries <= lost

(* As long as fewer answers were lost than a size is tried ...               *)
Dependable == lost < ProbesPerSize
Believable == path.names => Cardinality(Narrows) <= 1
Unbroken(n) == ~whole.local /\ \A k \in 1..n : \E h \in Carried : h.hop = k
NewHere == point \in 1..Links /\ ceiling = Upto(point - 1)

(* ... a size that passed does pass and one that did not does not, and where *)
(* every size is dropped in silence that is what has been seen;              *)
SearchIsTrue ==
  /\ stage \in {"top", "bisect"} => EndAnswers(point) /\ MinSize <= Narrowest(point)
  /\ stage = "bisect" => good <= Narrowest(point) /\ Narrowest(point) < bad
  /\ Searching /\ seen.drop => Silent # {}
  /\ stage \in {"top", "bisect"} /\ NewHere /\ point \in Silent =>
       ~seen.frag /\ (stage = "bisect" => seen.drop)

(* ... silence is blamed on a link that drops in silence;                    *)
BlameIsTrue ==
  /\ inherited = "blackhole" => Silent # {}
  /\ whole.drop => Silent # {}
  /\ \A h \in ToSet(hops) : h.status = "blackhole" => Silent # {}

(* ... and a hop carries what the links up to it carry.                      *)
HopsAreTrue ==
  /\ Believable =>
       /\ Searching /\ point # Whole => Min({Narrowest(point), EffectiveMax}) <= ceiling
       /\ \A h \in Carried : h.mtu = Min({Narrowest(h.hop), EffectiveMax})
  /\ Searching /\ point \in 1..Links /\ Unbroken(point - 1) => NewHere
  /\ \A k \in Silent : Unbroken(k) => \E h \in Carried : h.hop = k /\ h.status = "blackhole"

MtuTrue == SearchIsTrue /\ BlameIsTrue /\ HopsAreTrue
MtuInv == ShapeHolds /\ TriesHold /\ (Dependable => MtuTrue)

(* A path that has narrowed up to a link does so at one of the links.        *)
LEMMA FirstDrop ==
  ASSUME path \in Paths, NEW n \in 1..Links, Upto(n) < MaxSize
  PROVE  \E i \in Narrows : i <= n
<1> DEFINE T == {k \in 1..n : path.mtu[k] < MaxSize}
           i == Min(T)
<1>1. n \in 0..Links /\ 1..n \subseteq 1..Links BY PathIs
<1>2. \A k \in 1..n : path.mtu[k] \in Nat /\ k \in Nat BY <1>1, PathIs
<1>3. T # {} /\ T \subseteq Nat
  <2>1. Upto(n) = MaxSize \/ \E k \in 1..n : Upto(n) = path.mtu[k] BY <1>1, UptoIs
  <2>2. \E k \in 1..n : path.mtu[k] < MaxSize BY <2>1, PathIs
  <2> QED BY <2>2, <1>2
<1>4. i \in T /\ \A y \in T : i <= y BY <1>3, LeastOf
<1>5. i \in 1..n /\ i \in 1..Links /\ path.mtu[i] < MaxSize BY <1>4, <1>1
<1>6. \A j \in 1..(i - 1) : path.mtu[i] < path.mtu[j]
  <2> TAKE j \in 1..(i - 1)
  <2>1. j \in 1..n /\ j < i BY <1>5, <1>1, PathIs
  <2>2. j \notin T BY <2>1, <1>4, <1>2
  <2>3. ~(path.mtu[j] < MaxSize) BY <2>1, <2>2
  <2> HIDE DEF i, T
  <2> QED BY <2>1, <2>3, <1>2, <1>5, PathIs
<1> HIDE DEF i, T
<1>7. i \in Narrows BY <1>5, <1>6, NarrowsIf
<1> QED BY <1>5, <1>7

(* At the start.                                                             *)
LEMMA MtuStarts == MtuInit => MtuInv
<1> SUFFICES ASSUME MtuInit PROVE MtuInv
  OBVIOUS
<1>1. /\ path \in Paths /\ point = Whole /\ stage = "control" /\ size = MinSize /\ tries = 0
      /\ good = MinSize /\ bad = MaxSize /\ seen = NothingSeen /\ ceiling = MaxSize
      /\ inherited = "ok" /\ whole = NotMeasured /\ hops = <<>> /\ lost = 0
  BY DEF MtuInit
<1>2. /\ MinSize \in Sizes /\ MaxSize \in Sizes /\ 0 \in 0..path.listed
      /\ 0 \in 0..ProbesPerSize /\ 0 \in 0..MaxLosses /\ MaxSize \in Nat
  BY <1>1, PathIs, MtuAssumption DEF Sizes
<1>3. NothingSeen \in Seens /\ NotMeasured \in Measures /\ <<>> \in Seq(HopRows)
  BY <1>2 DEF NothingSeen, Seens, NotMeasured, Measures, Unknown
<1>4. ~NotMeasured.local /\ ~NotMeasured.drop /\ ~NothingSeen.drop /\ ToSet(hops) = {}
  BY <1>1 DEF NotMeasured, NothingSeen, ToSet
<1>5. MtuTyped BY <1>1, <1>2, <1>3 DEF MtuTyped, Whole
<1>6. SearchHolds /\ PlaceHolds /\ TriesHold
  BY <1>1, <1>4 DEF SearchHolds, PlaceHolds, TriesHold, Searching
<1>7. Carried = {} BY <1>4 DEF Carried
<1>8. SearchIsTrue /\ BlameIsTrue BY <1>1, <1>4 DEF SearchIsTrue, BlameIsTrue
<1>9. \A k \in Silent : ~Unbroken(k)
  <2> TAKE k \in Silent
  <2>1. k \in Nat /\ k \in 1..k BY PathIs, <1>1 DEF Silent, Narrows
  <2> QED BY <2>1, <1>7 DEF Unbroken
<1>10. HopsAreTrue BY <1>1, <1>7, <1>9 DEF HopsAreTrue, Whole
<1> QED BY <1>5, <1>6, <1>8, <1>10 DEF MtuInv, ShapeHolds, MtuTrue

(* It implies what the runs check.                                           *)
LEMMA MtuInvIsEnough == MtuInv => PathVerdicts
<1> SUFFICES ASSUME MtuInv PROVE PathVerdicts
  OBVIOUS
<1>0. path \in Paths BY DEF MtuInv, ShapeHolds, MtuTyped
<1>1. MtuTypeOK BY DEF MtuInv, ShapeHolds, MtuTyped, MtuTypeOK
<1>2. EffectiveMax \in Sizes
  BY PathIs, <1>0 DEF MtuInv, ShapeHolds, PlaceHolds, EffectiveMax, Sizes
<1>3. Steady => MtuTrue BY DEF Steady, MtuInv, Dependable
<1>4. ASSUME Steady, Believable, ~whole.local, {h.hop : h \in Carried} = 1..Links
      PROVE  {h.hop : h \in DropAt} = (IF Narrows = {} THEN {} ELSE {Min(Narrows)})
  <2>1. EffectiveMax = MaxSize BY <1>4 DEF EffectiveMax
  <2>2. \A h \in Carried : h.hop \in 1..Links /\ h.mtu = Upto(h.hop)
    <3> TAKE h \in Carried
    <3>1. h.hop \in 1..Links BY <1>4
    <3>2. h.mtu = Min({Narrowest(h.hop), MaxSize}) BY <1>3, <1>4, <2>1 DEF MtuTrue, HopsAreTrue
    <3>3. h.hop \in Nat BY <3>1, PathIs, <1>0
    <3>4. Narrowest(h.hop) = Upto(h.hop) /\ Narrowest(h.hop) \in Nat /\ Narrowest(h.hop) <= MaxSize
      BY <3>1, <3>3, <1>0, NarrowestIs
    <3>5. MaxSize \in Nat BY PathIs, <1>0
    <3> QED BY <3>1, <3>2, <3>4, <3>5, LesserOfTwo
  <2>3. \A n \in 1..Links : Upto(n) \in Nat /\ Upto(n) <= MaxSize
    <3> TAKE n \in 1..Links
    <3>1. n \in 0..Links BY PathIs, <1>0
    <3> QED BY <3>1, <1>0, UptoIs
  <2>4. MaxSize \in Nat /\ Links \in Nat BY PathIs, <1>0
  <2>5. \A h \in DropAt : /\ h \in Carried /\ Upto(h.hop) < MaxSize
                          /\ \A g \in Carried : g.hop < h.hop => Upto(g.hop) >= MaxSize
    <3> TAKE h \in DropAt
    <3>1. /\ h \in Carried /\ h.mtu < Min({MaxSize} \cup {g.mtu : g \in Before(h)})
          /\ \A g \in Before(h) : g.mtu >= MaxSize
      BY <2>1 DEF DropAt
    <3>2. \A g \in Before(h) : g \in Carried /\ g.hop < h.hop BY DEF Before
    <3> DEFINE S == {MaxSize} \cup {g.mtu : g \in Before(h)}
    <3>3. S \subseteq Int /\ MaxSize \in S /\ \A y \in S : MaxSize <= y
      BY <3>1, <3>2, <2>2, <2>3, <2>4
    <3>4. Min(S) = MaxSize
      <4> HIDE DEF S
      <4> QED BY <3>3, MinIs
    <3>5. \A g \in Carried : g.hop < h.hop => g \in Before(h) BY DEF Before
    <3> QED BY <3>1, <3>4, <3>5, <2>2
  <2>6. ASSUME NEW h \in Carried, Upto(h.hop) < MaxSize,
               \A g \in Carried : g.hop < h.hop => Upto(g.hop) >= MaxSize
        PROVE  h \in DropAt
    <3> DEFINE S == {MaxSize} \cup {g.mtu : g \in Before(h)}
    <3>1. \A g \in Before(h) : g \in Carried /\ g.mtu >= MaxSize
      BY <2>6, <2>2 DEF Before
    <3>2. S \subseteq Int /\ MaxSize \in S /\ \A y \in S : MaxSize <= y
      BY <3>1, <2>2, <2>3, <2>4
    <3>3. Min(S) = MaxSize
      <4> HIDE DEF S
      <4> QED BY <3>2, MinIs
    <3> QED BY <2>1, <2>2, <2>6, <3>1, <3>3 DEF DropAt
  <2>7. \A n \in 1..Links : Upto(n) < MaxSize => \E i \in Narrows : i <= n
    BY <1>0, FirstDrop
  <2>8. CASE Narrows = {}
    <3>1. DropAt = {} BY <2>2, <2>5, <2>7, <2>8
    <3> QED BY <3>1, <2>8
  <2>9. CASE Narrows # {}
    <3> DEFINE m == Min(Narrows)
    <3>1. Narrows \subseteq Nat BY <2>4 DEF Narrows
    <3>2. m \in Narrows /\ \A i \in Narrows : m <= i BY <2>9, <3>1, LeastOf
    <3> HIDE DEF m
    <3>3. m \in 1..Links /\ path.mtu[m] < MaxSize BY <1>0, <3>2, NarrowsThen
    <3>4. Upto(m) < MaxSize
      <4>1. m \in 0..Links /\ m \in 1..m BY <3>3, <2>4
      <4>2. Upto(m) <= path.mtu[m] /\ Upto(m) \in Nat /\ path.mtu[m] \in Nat
        BY <4>1, <1>0, <3>3, UptoIs, PathIs
      <4> QED BY <4>2, <3>3, <2>4
    <3>5. \A n \in 1..Links : n < m => Upto(n) >= MaxSize
      <4> TAKE n \in 1..Links
      <4> QED BY <2>7, <2>3, <2>4, <3>1, <3>2
    <3>6. PICK h \in Carried : h.hop = m BY <1>4, <3>3
    <3>7. h \in DropAt BY <3>6, <3>4, <3>5, <2>2, <2>6
    <3>8. \A x \in DropAt : x.hop = m
      <4> TAKE x \in DropAt
      <4>1. x \in Carried /\ x.hop \in 1..Links BY <2>5, <2>2
      <4>2. ~(x.hop < m) BY <3>5, <2>5, <4>1, <2>3, <2>4
      <4>3. ~(h.hop < x.hop) BY <2>5, <3>6, <3>4, <2>3, <3>3, <2>4
      <4> QED BY <4>1, <4>2, <4>3, <3>6, <3>3, <2>4
    <3>9. {x.hop : x \in DropAt} = {m} BY <3>6, <3>7, <3>8
    <3> QED BY <2>9, <3>9 DEF m
  <2> QED BY <2>8, <2>9
<1>5. HopsAreRight BY <1>3, <1>4 DEF HopsAreRight, MtuTrue, HopsAreTrue, Believable
<1>6. Steady /\ ReportedBlackhole => Silent # {}
  <2> SUFFICES ASSUME Steady, ReportedBlackhole PROVE Silent # {}
    OBVIOUS
  <2>1. BlameIsTrue BY <1>3 DEF MtuTrue
  <2> QED BY <2>1 DEF BlameIsTrue, ReportedBlackhole, Carried
<1>7. ASSUME Steady, Silent # {}, ~whole.local, {h.hop : h \in Carried} = 1..Links
      PROVE  ReportedBlackhole
  <2>1. PICK k \in Silent : TRUE BY <1>7
  <2>2. k \in 1..Links BY DEF Silent, Narrows
  <2>3. \A j \in 1..k : \E h \in Carried : h.hop = j
    <3> TAKE j \in 1..k
    <3>1. j \in 1..Links BY <2>2, PathIs, <1>0
    <3> QED BY <3>1, <1>7
  <2>5. Unbroken(k) BY <1>7, <2>3 DEF Unbroken
  <2>4. \E h \in Carried : h.status = "blackhole" BY <1>3, <1>7, <2>5 DEF MtuTrue, HopsAreTrue
  <2> QED BY <2>4 DEF ReportedBlackhole
<1> QED BY <1>1, <1>5, <1>6, <1>7 DEF PathVerdicts, BlackholeIsReal

-----------------------------------------------------------------------------
(* The greater of two numbers.                                               *)
LEMMA GreaterOfTwo ==
  ASSUME NEW a \in Int, NEW b \in Int
  PROVE  Max({a, b}) = IF a >= b THEN a ELSE b
<1>1. \E m \in {a, b} : \A y \in {a, b} : m >= y OBVIOUS
<1>2. Max({a, b}) \in {a, b} /\ \A y \in {a, b} : Max({a, b}) >= y BY <1>1, Zenon DEF Max
<1> QED BY <1>2

(* The window searched reaches up to the ceiling.                            *)
LEMMA HighestIs ==
  ASSUME path \in Paths, ceiling \in Sizes
  PROVE  Highest = ceiling
<1>1. /\ ceiling \in Int /\ MaxSize \in Int /\ MinSize \in Int
      /\ ceiling <= MaxSize /\ MinSize <= ceiling
  BY PathIs DEF Sizes
<1>2. Min({ceiling, MaxSize}) = ceiling BY <1>1, LesserOfTwo
<1>3. Max({MinSize, ceiling}) = ceiling BY <1>1, GreaterOfTwo
<1> QED BY <1>2, <1>3 DEF Highest

(* Before the first link nothing limits the size.                            *)
LEMMA UptoNone ==
  ASSUME path \in Paths
  PROVE  Upto(0) = MaxSize
<1>1. 0 \in 0..Links /\ 1..0 = {} BY PathIs
<1> QED BY <1>1, UptoIs

(* With one more link the narrowest is that one, or the one there was.       *)
LEMMA UptoStep ==
  ASSUME path \in Paths, NEW n \in 1..Links
  PROVE  /\ Upto(n) <= path.mtu[n] /\ Upto(n) <= Upto(n - 1)
         /\ Upto(n) = path.mtu[n] \/ Upto(n) = Upto(n - 1)
<1>1. n \in 0..Links /\ n - 1 \in 0..Links /\ n \in 1..n BY PathIs
<1>2. \A i \in 1..n : i = n \/ i \in 1..(n - 1) BY PathIs
<1>3. \A i \in 1..(n - 1) : i \in 1..n BY PathIs
<1>4. \A i \in 1..n : path.mtu[i] \in Nat BY PathIs
<1>5. /\ Upto(n) \in Nat /\ Upto(n) <= MaxSize /\ \A i \in 1..n : Upto(n) <= path.mtu[i]
      /\ Upto(n) = MaxSize \/ \E i \in 1..n : Upto(n) = path.mtu[i]
  BY <1>1, UptoIs
<1>6. /\ Upto(n - 1) \in Nat /\ Upto(n - 1) <= MaxSize
      /\ \A i \in 1..(n - 1) : Upto(n - 1) <= path.mtu[i]
      /\ Upto(n - 1) = MaxSize \/ \E i \in 1..(n - 1) : Upto(n - 1) = path.mtu[i]
  BY <1>1, UptoIs
<1>7. MaxSize \in Nat BY PathIs
<1>8. Upto(n) <= Upto(n - 1) BY <1>3, <1>5, <1>6, <1>7
<1>9. Upto(n) = path.mtu[n] \/ Upto(n - 1) <= Upto(n)
  <2>1. CASE Upto(n) = MaxSize BY <2>1, <1>6
  <2>2. CASE \E i \in 1..n : Upto(n) = path.mtu[i] BY <2>2, <1>2, <1>6
  <2> QED BY <2>1, <2>2, <1>5
<1> QED BY <1>1, <1>4, <1>5, <1>6, <1>8, <1>9

(* Farther away no larger size gets through.                                 *)
LEMMA NarrowestFalls ==
  ASSUME path \in Paths, NEW p \in Nat, p > 0
  PROVE  Narrowest(p + 1) <= Narrowest(p)
<1>1. Links \in Nat /\ Links > 0 BY PathIs
<1>2. /\ p \in 1..Links => Narrowest(p) = Upto(p)
      /\ p \notin 1..Links => Narrowest(p) = Upto(Links)
      /\ p + 1 \in 1..Links => Narrowest(p + 1) = Upto(p + 1)
      /\ p + 1 \notin 1..Links => Narrowest(p + 1) = Upto(Links)
      /\ Narrowest(p) \in Nat /\ Narrowest(p + 1) \in Nat
  BY NarrowestIs
<1>3. CASE p + 1 \in 1..Links
  <2>1. (p + 1) - 1 = p /\ p \in 1..Links BY <1>1, <1>3
  <2>2. Upto(p + 1) <= Upto((p + 1) - 1) BY <1>3, UptoStep
  <2>3. Upto(p + 1) <= Upto(p) BY <2>1, <2>2
  <2> QED BY <1>2, <1>3, <2>1, <2>3
<1>4. CASE p + 1 \notin 1..Links
  <2>1. p \in 1..Links => p = Links BY <1>1, <1>4
  <2> QED BY <1>2, <1>4, <2>1
<1> QED BY <1>3, <1>4

-----------------------------------------------------------------------------
(* The rows of a report with one more, and of two parts of it.               *)
LEMMA RowAdded ==
  ASSUME NEW s \in Seq(HopRows), NEW x \in HopRows
  PROVE  Append(s, x) \in Seq(HopRows) /\ ToSet(Append(s, x)) = ToSet(s) \cup {x}
<1>1. /\ Len(s) \in Nat /\ DOMAIN s = 1..Len(s)
      /\ Append(s, x) \in Seq(HopRows) /\ Len(Append(s, x)) = Len(s) + 1
      /\ DOMAIN Append(s, x) = 1..(Len(s) + 1)
      /\ Append(s, x)[Len(s) + 1] = x /\ \A i \in 1..Len(s) : Append(s, x)[i] = s[i]
  OBVIOUS
<1>2. \A i \in 1..(Len(s) + 1) : i = Len(s) + 1 \/ i \in 1..Len(s) BY <1>1
<1>3. \A i \in 1..Len(s) : i \in 1..(Len(s) + 1) BY <1>1
<1>4. Len(s) + 1 \in 1..(Len(s) + 1) BY <1>1
<1> QED BY <1>1, <1>2, <1>3, <1>4 DEF ToSet

LEMMA RowsJoined ==
  ASSUME NEW s \in Seq(HopRows), NEW t \in Seq(HopRows)
  PROVE  s \o t \in Seq(HopRows) /\ ToSet(s \o t) = ToSet(s) \cup ToSet(t)
<1>1. /\ Len(s) \in Nat /\ DOMAIN s = 1..Len(s) /\ Len(t) \in Nat /\ DOMAIN t = 1..Len(t)
      /\ s \o t \in Seq(HopRows) /\ Len(s \o t) = Len(s) + Len(t)
      /\ DOMAIN (s \o t) = 1..(Len(s) + Len(t))
      /\ \A i \in 1..(Len(s) + Len(t)) :
           (s \o t)[i] = IF i <= Len(s) THEN s[i] ELSE t[i - Len(s)]
  OBVIOUS
<1>2. \A i \in 1..(Len(s) + Len(t)) : IF i <= Len(s) THEN i \in 1..Len(s)
                                      ELSE i - Len(s) \in 1..Len(t)
  BY <1>1
<1>3. \A i \in 1..Len(s) : i \in 1..(Len(s) + Len(t)) /\ i <= Len(s) BY <1>1
<1>4. \A i \in 1..Len(t) : /\ Len(s) + i \in 1..(Len(s) + Len(t)) /\ ~(Len(s) + i <= Len(s))
                          /\ (Len(s) + i) - Len(s) = i
  BY <1>1
<1>5. ToSet(s \o t) \subseteq ToSet(s) \cup ToSet(t)
  BY <1>1, <1>2 DEF ToSet
<1>6. ToSet(s) \subseteq ToSet(s \o t) BY <1>1, <1>3 DEF ToSet
<1>7. ToSet(t) \subseteq ToSet(s \o t) BY <1>1, <1>4 DEF ToSet
<1> QED BY <1>1, <1>5, <1>6, <1>7

(* A hop that was not measured any more.                                     *)
LeftOut == [hop : Nat, mtu : {Unknown}, status : {"skipped"}]

(* Hops that are skipped.                                                    *)
LEMMA SkippedIs ==
  ASSUME path \in Paths, NEW p \in Nat, p > 0, p <= path.listed
  PROVE  Skipped(p) \in Seq(HopRows) /\ ToSet(Skipped(p)) \subseteq LeftOut
<1> DEFINE n == path.listed - p + 1
<1>1. n \in Nat BY PathIs
<1>2. Skipped(p) = [i \in 1..n |-> [hop |-> p + i - 1, mtu |-> Unknown, status |-> "skipped"]]
  BY DEF Skipped
<1> HIDE DEF n
<1>3. \A i \in 1..n : p + i - 1 \in Nat BY <1>1
<1>4. DOMAIN Skipped(p) = 1..n /\ \A i \in 1..n : Skipped(p)[i] \in LeftOut
  BY <1>2, <1>3 DEF LeftOut
<1>5. LeftOut \subseteq HopRows BY DEF LeftOut, HopRows, Verdicts
<1>6. Skipped(p) \in [1..n -> HopRows] BY <1>2, <1>4, <1>5
<1> QED BY <1>1, <1>4, <1>6 DEF ToSet

(* Hops left out carry nothing.                                              *)
LEMMA CarriedOf ==
  ASSUME NEW A, NEW B \in SUBSET LeftOut, ToSet(hops') = A \cup B
  PROVE  Carried' = {h \in A : h.mtu # Unknown}
BY DEF Carried, LeftOut

(* What a measurement may be, and what it does.                              *)
Possible(m) ==
  /\ m \in Measures
  /\ m.silent => ~m.local /\ ~m.drop
  /\ ~m.silent => m.mtu \in Sizes /\ m.mtu <= ceiling

(* The row of a hop says what was measured.                                  *)
LEMMA HopOfIs ==
  ASSUME ShapeHolds, NEW m, Possible(m)
  PROVE  /\ HopOf(m) \in HopRows /\ HopOf(m).hop = point
         /\ HopOf(m).mtu # Unknown <=> ~m.silent
         /\ ~m.silent => HopOf(m).mtu = m.mtu /\ HopOf(m).status = Status(m)
         /\ HopOf(m).status = "blackhole" => m.drop \/ inherited = "blackhole"
         /\ Status(m) \in {"ok", "reduced", "blackhole"}
         /\ Status(m) = "blackhole" => m.drop \/ inherited = "blackhole"
<1>1. point \in Nat /\ inherited \in {"ok", "reduced", "blackhole"}
  BY PathIs DEF ShapeHolds, MtuTyped
<1>2. Status(m) \in {"ok", "reduced", "blackhole"}
      /\ (Status(m) = "blackhole" => m.drop \/ inherited = "blackhole")
  BY <1>1 DEF Status
<1>3. m.silent \in BOOLEAN BY DEF Possible, Measures
<1>4. \A s \in Sizes : s # Unknown BY PathIs DEF ShapeHolds, MtuTyped, Sizes, Unknown
<1>5. CASE m.silent
  <2>1. HopOf(m) = [hop |-> point, mtu |-> Unknown, status |-> "no_response"]
    BY <1>5 DEF HopOf
  <2> QED BY <2>1, <1>1, <1>2, <1>5 DEF HopRows, Verdicts
<1>6. CASE ~m.silent
  <2>1. HopOf(m) = [hop |-> point, mtu |-> m.mtu, status |-> Status(m)]
    BY <1>6 DEF HopOf
  <2>2. m.mtu \in Sizes BY <1>6 DEF Possible
  <2> QED BY <2>1, <2>2, <1>1, <1>2, <1>4, <1>6 DEF HopRows, Verdicts
<1> QED BY <1>3, <1>5, <1>6

(* The rows there were before this point, those with its own, and those that *)
(* are left out.                                                             *)
RowsWith(m) == IF point = Whole THEN {} ELSE ToSet(hops) \cup {HopOf(m)}

(* What a measurement changes.                                               *)
LEMMA MeasuredIs ==
  ASSUME ShapeHolds, NEW m, Possible(m), Measured(m), path' = path
  PROVE  /\ size' = MinSize /\ tries' = 0 /\ seen' = NothingSeen
         /\ good' = MinSize /\ bad' = MaxSize
         /\ \/ stage' = "control" /\ point' = point + 1 /\ point' <= path.listed
               /\ ToSet(hops') = RowsWith(m)
            \/ stage' = "over" /\ point' = point
         /\ hops' \in Seq(HopRows)
         /\ \E others \in SUBSET LeftOut : ToSet(hops') = RowsWith(m) \cup others
         /\ Carried' = IF point = Whole THEN {}
                       ELSE Carried \cup (IF m.silent THEN {} ELSE {HopOf(m)})
         /\ point = Whole =>
              /\ whole' = m /\ inherited' = inherited
              /\ ceiling' = (IF m.local /\ ~m.silent THEN m.mtu ELSE MaxSize)
         /\ point # Whole =>
              /\ whole' = whole
              /\ m.silent => ceiling' = ceiling /\ inherited' = inherited
              /\ ~m.silent => ceiling' = m.mtu /\ inherited' = Status(m)
<1>0. path \in Paths /\ point \in Nat /\ point <= path.listed /\ hops \in Seq(HopRows)
  BY PathIs DEF ShapeHolds, MtuTyped
<1>1. path.listed \in Nat BY <1>0, PathIs
<1> DEFINE done == IF point = Whole THEN <<>> ELSE Append(hops, HopOf(m))
<1>2. done \in Seq(HopRows) /\ ToSet(done) = RowsWith(m)
  <2>1. CASE point = Whole
    <3>1. <<>> \in Seq(HopRows) /\ ToSet(<<>>) = {} BY DEF ToSet
    <3> QED BY <2>1, <3>1 DEF RowsWith
  <2>2. CASE point # Whole BY <2>2, <1>0, HopOfIs, RowAdded DEF RowsWith
  <2> QED BY <2>1, <2>2
<1>3. \/ point + 1 <= path.listed /\ ToStage(point + 1, "control") /\ hops' = done
      \/ /\ ToStage(point, "over")
         /\ \/ hops' = done
            \/ hops' = done \o (IF point + 1 <= path.listed THEN Skipped(point + 1) ELSE <<>>)
  <2>1. CASE point = Whole
    <3>1. GoesOn(1, <<>>) BY <2>1 DEF Measured
    <3>2. point + 1 = 1 BY <2>1 DEF Whole
    <3> QED BY <2>1, <3>1, <3>2 DEF GoesOn
  <2>2. CASE point # Whole
    <3>1. IF m.reached THEN ToStage(point, "over") /\ hops' = Append(hops, HopOf(m))
                       ELSE GoesOn(point + 1, Append(hops, HopOf(m)))
      BY <2>2 DEF Measured
    <3> QED BY <2>2, <3>1 DEF GoesOn
  <2> QED BY <2>1, <2>2
<1> HIDE DEF done
<1>4. \E others \in SUBSET LeftOut : ToSet(hops') = RowsWith(m) \cup others
  <2>1. CASE hops' = done
    <3>1. ToSet(hops') = RowsWith(m) \cup {} BY <2>1, <1>2
    <3> QED BY <3>1
  <2>2. CASE hops' = done \o (IF point + 1 <= path.listed THEN Skipped(point + 1) ELSE <<>>)
    <3> DEFINE more == IF point + 1 <= path.listed THEN Skipped(point + 1) ELSE <<>>
    <3>1. more \in Seq(HopRows) /\ ToSet(more) \subseteq LeftOut
      <4>1. CASE point + 1 <= path.listed
        <5>1. point + 1 \in Nat /\ point + 1 > 0 BY <1>0
        <5> QED BY <5>1, <4>1, <1>0, SkippedIs
      <4>2. <<>> \in Seq(HopRows) /\ ToSet(<<>>) = {} BY DEF ToSet
      <4> QED BY <4>1, <4>2
    <3> HIDE DEF more
    <3>2. hops' = done \o more BY <2>2 DEF more
    <3>3. ToSet(done \o more) = ToSet(done) \cup ToSet(more) BY <3>1, <1>2, RowsJoined
    <3>4. ToSet(hops') = RowsWith(m) \cup ToSet(more) BY <3>2, <3>3, <1>2
    <3> QED BY <3>1, <3>4
  <2> QED BY <1>3, <2>1, <2>2
<1>5. hops' \in Seq(HopRows)
  <2>1. CASE hops' = done BY <2>1, <1>2
  <2>2. CASE hops' = done \o (IF point + 1 <= path.listed THEN Skipped(point + 1) ELSE <<>>)
    <3>1. CASE point + 1 <= path.listed
      <4>1. point + 1 \in Nat /\ point + 1 > 0 BY <1>0
      <4>2. Skipped(point + 1) \in Seq(HopRows) BY <4>1, <3>1, <1>0, SkippedIs
      <4> QED BY <2>2, <3>1, <4>2, <1>2, RowsJoined
    <3>2. CASE ~(point + 1 <= path.listed)
      <4>1. <<>> \in Seq(HopRows) OBVIOUS
      <4> QED BY <2>2, <3>2, <4>1, <1>2, RowsJoined
    <3> QED BY <3>1, <3>2
  <2> QED BY <1>3, <2>1, <2>2
<1>6. Carried' = {h \in RowsWith(m) : h.mtu # Unknown}
  <2>1. PICK others \in SUBSET LeftOut : ToSet(hops') = RowsWith(m) \cup others BY <1>4
  <2> DEFINE A == RowsWith(m)
  <2>2. ToSet(hops') = A \cup others BY <2>1
  <2> HIDE DEF A
  <2>3. Carried' = {h \in A : h.mtu # Unknown} BY <2>2, CarriedOf
  <2> QED BY <2>3 DEF A
<1>7. Carried' = IF point = Whole THEN {}
                 ELSE Carried \cup (IF m.silent THEN {} ELSE {HopOf(m)})
  <2>1. CASE point = Whole BY <1>6, <2>1 DEF RowsWith
  <2>2. CASE point # Whole
    <3>1. Carried' = Carried \cup {h \in {HopOf(m)} : h.mtu # Unknown}
      BY <1>6, <2>2 DEF RowsWith, Carried
    <3>2. HopOf(m).mtu # Unknown <=> ~m.silent BY HopOfIs
    <3>3. m.silent \in BOOLEAN BY DEF Possible, Measures
    <3> QED BY <2>2, <3>1, <3>2, <3>3
  <2> QED BY <2>1, <2>2
<1>8. /\ point = Whole =>
           /\ whole' = m /\ inherited' = inherited
           /\ ceiling' = (IF m.local /\ ~m.silent THEN m.mtu ELSE MaxSize)
      /\ point # Whole =>
           /\ whole' = whole
           /\ m.silent => ceiling' = ceiling /\ inherited' = inherited
           /\ ~m.silent => ceiling' = m.mtu /\ inherited' = Status(m)
  BY DEF Measured
<1>9. /\ size' = MinSize /\ tries' = 0 /\ seen' = NothingSeen
      /\ good' = MinSize /\ bad' = MaxSize
  BY <1>3 DEF ToStage
<1>10. \/ stage' = "control" /\ point' = point + 1 /\ point' <= path.listed
          /\ ToSet(hops') = RowsWith(m)
       \/ stage' = "over" /\ point' = point
  BY <1>2, <1>3 DEF ToStage
<1> QED BY <1>4, <1>5, <1>7, <1>8, <1>9, <1>10

(* The largest size this host sends.                                         *)
LEMMA EffectiveIs ==
  ASSUME ShapeHolds
  PROVE  EffectiveMax \in Sizes
BY PathIs DEF ShapeHolds, MtuTyped, PlaceHolds, EffectiveMax, Sizes

(* A measurement keeps the shape of the search.                              *)
LEMMA MeasuredShape ==
  ASSUME ShapeHolds, Searching, NEW m, Possible(m), Measured(m), path' = path,
         lost' \in 0..MaxLosses
  PROVE  ShapeHolds'
<1>0. /\ path \in Paths /\ point \in 0..path.listed /\ point \in Nat /\ path.listed \in Nat
      /\ ceiling \in Sizes /\ inherited \in {"ok", "reduced", "blackhole"} /\ whole \in Measures
  BY PathIs DEF ShapeHolds, MtuTyped
<1>1. /\ MinSize \in Sizes /\ MaxSize \in Sizes /\ \A s \in Sizes : s # Unknown /\ s \in Nat /\ s <= MaxSize
  BY <1>0, PathIs DEF Sizes, Unknown
<1>2. /\ m \in Measures /\ m.silent \in BOOLEAN /\ m.local \in BOOLEAN
      /\ m.silent => ~m.local
      /\ ~m.silent => m.mtu \in Sizes /\ m.mtu <= ceiling
  BY DEF Possible, Measures
<1>3. /\ Status(m) \in {"ok", "reduced", "blackhole"} /\ HopOf(m).hop = point
  BY HopOfIs
<1>4. /\ size' = MinSize /\ tries' = 0 /\ seen' = NothingSeen
      /\ good' = MinSize /\ bad' = MaxSize
      /\ \/ stage' = "control" /\ point' = point + 1 /\ point' <= path.listed
            /\ ToSet(hops') = RowsWith(m)
         \/ stage' = "over" /\ point' = point
      /\ hops' \in Seq(HopRows)
      /\ point = Whole =>
           /\ whole' = m /\ inherited' = inherited
           /\ ceiling' = (IF m.local /\ ~m.silent THEN m.mtu ELSE MaxSize)
      /\ point # Whole =>
           /\ whole' = whole
           /\ m.silent => ceiling' = ceiling /\ inherited' = inherited
           /\ ~m.silent => ceiling' = m.mtu /\ inherited' = Status(m)
  BY MeasuredIs
<1>5. ceiling' \in Sizes /\ inherited' \in {"ok", "reduced", "blackhole"} /\ whole' \in Measures
  BY <1>0, <1>1, <1>2, <1>3, <1>4
<1>6. point' \in 0..path'.listed /\ stage' \in {"control", "top", "bisect", "over", "failed"}
  BY <1>0, <1>4
<1>7. 0 \in 0..ProbesPerSize /\ NothingSeen \in Seens
  BY <1>0, PathIs DEF NothingSeen, Seens
<1>8. MtuTyped' BY <1>0, <1>1, <1>4, <1>5, <1>6, <1>7 DEF MtuTyped
<1>9. SearchHolds' BY <1>4 DEF SearchHolds
<1>10. (whole.local => whole.mtu \in Sizes)' BY <1>2, <1>4 DEF ShapeHolds, PlaceHolds
<1>11. ASSUME Searching' PROVE /\ point' # Whole /\ (ceiling <= EffectiveMax)'
                             /\ \A h \in ToSet(hops') : h.hop < point'
  <2>1. stage' = "control" /\ point' = point + 1 /\ ToSet(hops') = RowsWith(m)
    BY <1>4, <1>11 DEF Searching
  <2>2. point' # Whole BY <1>0, <2>1 DEF Whole
  <2>3. CASE point = Whole
    <3>1. ceiling' = EffectiveMax' BY <2>3, <1>1, <1>2, <1>4 DEF EffectiveMax
    <3> QED BY <2>1, <2>2, <2>3, <3>1, <1>1, <1>5 DEF RowsWith
  <2>4. CASE point # Whole
    <3>1. ceiling <= EffectiveMax /\ \A h \in ToSet(hops) : h.hop < point
      BY <2>4 DEF ShapeHolds, PlaceHolds
    <3>2. EffectiveMax' = EffectiveMax BY <2>4, <1>4 DEF EffectiveMax
    <3>3. ceiling' <= ceiling BY <2>4, <1>0, <1>1, <1>2, <1>4
    <3>4. EffectiveMax \in Nat BY <1>1, EffectiveIs
    <3>5. ceiling' <= EffectiveMax' BY <3>1, <3>2, <3>3, <3>4, <1>0, <1>1, <1>5
    <3>6. hops \in Seq(HopRows) BY DEF ShapeHolds, MtuTyped
    <3>7. \A h \in ToSet(hops) : h.hop \in Nat
      <4>1. \A i \in DOMAIN hops : hops[i] \in HopRows BY <3>6
      <4> QED BY <4>1 DEF ToSet, HopRows
    <3>8. \A h \in RowsWith(m) : h.hop < point + 1
      BY <2>4, <3>1, <3>7, <1>0, <1>3 DEF RowsWith
    <3> QED BY <2>1, <2>2, <3>5, <3>8
  <2> QED BY <2>3, <2>4
<1>12. PlaceHolds' BY <1>10, <1>11 DEF PlaceHolds
<1> QED BY <1>8, <1>9, <1>12 DEF ShapeHolds

(* So does a search that is narrowed down ...                                *)
LEMMA BisectsShape ==
  ASSUME ShapeHolds, Searching, NEW lo \in Sizes, NEW hi \in Sizes, lo < hi, hi <= ceiling,
         NEW s \in Seens, Bisects(lo, hi, s), path' = path, lost' \in 0..MaxLosses
  PROVE  ShapeHolds'
<1>0. /\ MinSize \in Nat /\ MaxSize \in Nat /\ ceiling \in Sizes /\ 0 \in 0..ProbesPerSize
  BY PathIs DEF ShapeHolds, MtuTyped
<1>1. lo \in Nat /\ hi \in Nat /\ ceiling \in Nat /\ lo <= MaxSize BY <1>0 DEF Sizes
<1>2. CASE hi - lo <= 1
  <2>1. Possible(Found(lo, s))
    BY <1>0, <1>1 DEF Possible, Found, Measures, Seens
  <2>2. Measured(Found(lo, s)) BY <1>2 DEF Bisects
  <2> QED BY <2>1, <2>2, MeasuredShape
<1>3. CASE ~(hi - lo <= 1)
  <2> DEFINE n == (lo + hi) \div 2
  <2>1. n \in Nat /\ lo < n /\ n < hi BY <1>1, <1>3
  <2>2. n \in Sizes BY <2>1, <1>0, <1>1 DEF Sizes
  <2>3. Tries("bisect", lo, hi, n, s) BY <1>3 DEF Bisects
  <2> HIDE DEF n
  <2>4. /\ stage' = "bisect" /\ size' = n /\ tries' = 0 /\ good' = lo /\ bad' = hi /\ seen' = s
        /\ UNCHANGED <<point, ceiling, inherited, whole, hops>>
    BY <2>3 DEF Tries, hopVars
  <2>5. MtuTyped' BY <2>2, <2>4, <1>0 DEF ShapeHolds, MtuTyped
  <2>6. SearchHolds' BY <2>1, <2>4 DEF SearchHolds
  <2>7. PlaceHolds' BY <2>4 DEF ShapeHolds, PlaceHolds, Searching, EffectiveMax
  <2> QED BY <2>5, <2>6, <2>7 DEF ShapeHolds
<1> QED BY <1>2, <1>3

(* A search that has an answer.                                              *)
Concluded(a) == ControlDone(a, SeenWith(a)) \/ TopDone(a, SeenWith(a)) \/ BisectDone(a, SeenWith(a))

(* What is seen with one more answer.                                        *)
LEMMA SeenIs ==
  ASSUME ShapeHolds, NEW a \in Replies
  PROVE  /\ SeenWith(a) \in Seens
         /\ SeenWith(a).frag = (seen.frag \/ a.outcome = "frag_needed")
         /\ SeenWith(a).drop = (seen.drop \/ (stage # "control" /\ a.outcome = "timeout"))
         /\ [SeenWith(a) EXCEPT !.reached = (a.outcome = "reply")] \in Seens
BY DEF ShapeHolds, MtuTyped, SeenWith, Seens, Replies

(* ... and any answer, a lost one included.                                  *)
LEMMA ConcludedShape ==
  ASSUME ShapeHolds, Searching, NEW a \in Replies, Concluded(a), path' = path,
         lost' \in 0..MaxLosses
  PROVE  ShapeHolds'
<1>0. /\ MinSize \in Nat /\ MaxSize \in Nat /\ MinSize <= MaxSize
      /\ ceiling \in Sizes /\ size \in Sizes /\ good \in Sizes /\ bad \in Sizes
      /\ 0 \in 0..ProbesPerSize /\ a.mtu \in Nat /\ path \in Paths
  BY PathIs DEF ShapeHolds, MtuTyped, Replies
<1>1. /\ MinSize \in Sizes /\ ceiling \in Nat /\ size \in Nat /\ good \in Nat /\ bad \in Nat
      /\ MinSize <= ceiling /\ ceiling <= MaxSize /\ size <= MaxSize
  BY <1>0 DEF Sizes
<1> DEFINE s == SeenWith(a)
<1>2. s \in Seens /\ [s EXCEPT !.reached = (a.outcome = "reply")] \in Seens BY SeenIs
<1> HIDE DEF s
<1>3. \A n \in Sizes : \A x \in Seens : n <= ceiling => Possible(Found(n, x))
  BY <1>0 DEF Possible, Found, Measures, Seens, Sizes
<1>4. CASE ControlDone(a, s)
  <2>1. CASE ~Passes(a.outcome)
    <3> DEFINE m == [NotMeasured EXCEPT !.frag = s.frag]
    <3>0. s.frag \in BOOLEAN BY <1>2 DEF Seens
    <3>1. NotMeasured \in Measures /\ NotMeasured.silent /\ ~NotMeasured.local /\ ~NotMeasured.drop
      BY <1>0 DEF NotMeasured, Measures, Unknown
    <3>2. Possible(m) BY <3>0, <3>1 DEF Possible, Measures
    <3>3. Measured(m) BY <1>4, <2>1 DEF ControlDone
    <3> QED BY <3>2, <3>3, MeasuredShape
  <2>2. CASE Passes(a.outcome)
    <3> DEFINE t == [s EXCEPT !.reached = (a.outcome = "reply")]
    <3>1. t \in Seens /\ Highest = ceiling BY <1>0, <1>2, HighestIs
    <3>2. IF Highest = MinSize THEN Measured(Found(MinSize, t))
          ELSE Tries("top", MinSize, Highest, Highest, t)
      BY <1>4, <2>2 DEF ControlDone
    <3> HIDE DEF t
    <3>3. CASE Highest = MinSize
      <4>1. Possible(Found(MinSize, t)) BY <1>1, <1>3, <3>1
      <4> QED BY <3>2, <3>3, <4>1, MeasuredShape
    <3>4. CASE Highest # MinSize
      <4>1. /\ stage' = "top" /\ size' = ceiling /\ tries' = 0 /\ good' = MinSize
            /\ bad' = ceiling /\ seen' = t
            /\ UNCHANGED <<point, ceiling, inherited, whole, hops>>
        BY <3>1, <3>2, <3>4 DEF Tries, hopVars
      <4>2. MtuTyped' BY <4>1, <3>1, <1>0, <1>1 DEF ShapeHolds, MtuTyped
      <4>3. SearchHolds' BY <4>1, <3>1, <3>4, <1>0, <1>1 DEF SearchHolds
      <4>4. PlaceHolds' BY <4>1 DEF ShapeHolds, PlaceHolds, Searching, EffectiveMax
      <4> QED BY <4>2, <4>3, <4>4 DEF ShapeHolds
    <3> QED BY <3>3, <3>4
  <2> QED BY <2>1, <2>2
<1>5. CASE TopDone(a, s)
  <2>1. stage = "top" /\ size = ceiling /\ MinSize < ceiling
    BY <1>5 DEF TopDone, ShapeHolds, SearchHolds
  <2>2. CASE Passes(a.outcome)
    <3>1. Measured(Found(size, s)) BY <1>5, <2>2 DEF TopDone
    <3>2. Possible(Found(size, s)) BY <2>1, <1>0, <1>1, <1>2, <1>3
    <3> QED BY <3>1, <3>2, MeasuredShape
  <2>3. CASE ~Passes(a.outcome) /\ MinSize < a.mtu /\ a.mtu < size
    <3>1. Measured(Found(a.mtu, s)) BY <1>5, <2>3 DEF TopDone
    <3>2. a.mtu \in Sizes /\ a.mtu <= ceiling BY <1>0, <1>1, <2>1, <2>3 DEF Sizes
    <3>3. Possible(Found(a.mtu, s)) BY <3>2, <1>2, <1>3
    <3> QED BY <3>1, <3>3, MeasuredShape
  <2>4. CASE ~Passes(a.outcome) /\ ~(MinSize < a.mtu /\ a.mtu < size)
    <3>1. Bisects(MinSize, size, s) BY <1>5, <2>4 DEF TopDone
    <3>2. MinSize < size /\ size <= ceiling BY <2>1, <1>1
    <3> QED BY <3>1, <3>2, <1>0, <1>1, <1>2, BisectsShape
  <2> QED BY <2>2, <2>3, <2>4
<1>6. CASE BisectDone(a, s)
  <2>1. good < size /\ size < bad /\ bad <= ceiling
    BY <1>6 DEF BisectDone, ShapeHolds, SearchHolds
  <2>2. size <= ceiling BY <2>1, <1>1
  <2>3. Bisects(size, bad, s) \/ Bisects(good, size, s) BY <1>6 DEF BisectDone
  <2>4. CASE Bisects(size, bad, s) BY <2>1, <2>4, <1>0, <1>2, BisectsShape
  <2>5. CASE Bisects(good, size, s) BY <2>1, <2>2, <2>5, <1>0, <1>2, BisectsShape
  <2> QED BY <2>3, <2>4, <2>5
<1> QED BY <1>4, <1>5, <1>6 DEF Concluded, s

(* What a measurement says is true of the path.                              *)
Right(m) ==
  /\ m.drop => Silent # {}
  /\ ~m.silent /\ (Believable \/ NewHere) => m.mtu = Min({ceiling, Narrowest(point)})
  /\ ~m.silent /\ NewHere /\ point \in Silent => m.mtu < ceiling /\ m.drop /\ ~m.frag

(* All hops up to one are measured in the next state.                        *)
StillUnbroken(n) == ~whole'.local /\ \A k \in 1..n : \E h \in Carried' : h.hop = k

(* If it is right, the report stays true.                                    *)
LEMMA MeasuredTrue ==
  ASSUME ShapeHolds, MtuTrue, Searching, NEW m, Possible(m), Right(m), Measured(m), path' = path
  PROVE  MtuTrue'
<1>0. /\ path \in Paths /\ path' = path /\ point \in 0..path.listed /\ point \in Nat
      /\ path.listed \in Nat /\ ceiling \in Sizes /\ hops \in Seq(HopRows)
      /\ Links \in Nat /\ Links > 0
  BY PathIs DEF ShapeHolds, MtuTyped
<1>1. /\ MaxSize \in Nat /\ \A s \in Sizes : s # Unknown /\ s \in Nat /\ s <= MaxSize
  BY <1>0, PathIs DEF Sizes, Unknown
<1>2. /\ m.silent \in BOOLEAN /\ m.local \in BOOLEAN
      /\ m.silent => ~m.local
      /\ ~m.silent => m.mtu \in Sizes /\ m.mtu <= ceiling
  BY DEF Possible, Measures
<1>3. /\ HopOf(m).hop = point
      /\ HopOf(m).mtu # Unknown <=> ~m.silent
      /\ ~m.silent => HopOf(m).mtu = m.mtu /\ HopOf(m).status = Status(m)
      /\ HopOf(m).status = "blackhole" => m.drop \/ inherited = "blackhole"
      /\ Status(m) = "blackhole" => m.drop \/ inherited = "blackhole"
  BY HopOfIs
<1>4. /\ seen' = NothingSeen
      /\ \/ stage' = "control" /\ point' = point + 1 /\ point' <= path.listed
         \/ stage' = "over" /\ point' = point
      /\ Carried' = IF point = Whole THEN {}
                    ELSE Carried \cup (IF m.silent THEN {} ELSE {HopOf(m)})
      /\ point = Whole =>
           /\ whole' = m /\ inherited' = inherited
           /\ ceiling' = (IF m.local /\ ~m.silent THEN m.mtu ELSE MaxSize)
      /\ point # Whole =>
           /\ whole' = whole
           /\ m.silent => ceiling' = ceiling /\ inherited' = inherited
           /\ ~m.silent => ceiling' = m.mtu /\ inherited' = Status(m)
  BY MeasuredIs
<1>5. PICK others \in SUBSET LeftOut : ToSet(hops') = RowsWith(m) \cup others BY MeasuredIs
<1>6. Silent' = Silent /\ Narrows' = Narrows /\ Believable' = Believable
  BY <1>0 DEF Silent, Narrows, Believable
<1>7. \A p \in Nat : Narrowest(p)' = Narrowest(p) /\ Upto(p)' = Upto(p)
  BY <1>0 DEF Narrowest, Upto, CrossedTo
<1>8. MtuTrue /\ Right(m) OBVIOUS
<1>9. SearchIsTrue' BY <1>4 DEF SearchIsTrue, NothingSeen
<1>10. BlameIsTrue'
  <2>1. (inherited = "blackhole" => Silent # {})'
    BY <1>3, <1>4, <1>6, <1>8 DEF MtuTrue, BlameIsTrue, Right
  <2>2. (whole.drop => Silent # {})' BY <1>4, <1>6, <1>8 DEF MtuTrue, BlameIsTrue, Right
  <2>3. \A h \in others : h.status # "blackhole" BY DEF LeftOut
  <2>4. \A h \in RowsWith(m) : h.status = "blackhole" => Silent # {}
    BY <1>3, <1>8 DEF RowsWith, MtuTrue, BlameIsTrue, Right
  <2>5. (\A h \in ToSet(hops) : h.status = "blackhole" => Silent # {})'
    BY <1>5, <1>6, <2>3, <2>4
  <2> QED BY <2>1, <2>2, <2>5 DEF BlameIsTrue
<1>11. \A k \in Silent : k \in 1..Links /\ k \in Nat BY <1>0 DEF Silent, Narrows
<1>12. ASSUME point = Whole PROVE HopsAreTrue'
  <2>1. Carried' = {} /\ point' \in 0..1 /\ (Searching' => point' = 1)
    BY <1>4, <1>12 DEF Searching, Whole
  <2>2. ceiling' = EffectiveMax' /\ EffectiveMax' \in Nat
    BY <1>12, <1>1, <1>2, <1>4 DEF EffectiveMax
  <2>3. Searching' => (Min({Narrowest(point), EffectiveMax}) <= ceiling)'
    <3>1. Narrowest(1) \in Nat /\ Narrowest(1)' = Narrowest(1) BY <1>0, <1>7, NarrowestIs
    <3>2. Min({Narrowest(1), ceiling'}) <= ceiling' BY <3>1, <2>2, LesserOfTwo
    <3> QED BY <2>1, <2>2, <3>1, <3>2
  <2>4. \A k \in Silent : ~Unbroken(k)'
    <3> TAKE k \in Silent
    <3>1. k \in 1..k BY <1>0, <1>11
    <3> QED BY <3>1, <2>1 DEF Unbroken
  <2>5. (Searching /\ point \in 1..Links /\ Unbroken(point - 1))' => NewHere'
    <3> SUFFICES ASSUME Searching', point' \in 1..Links, Unbroken(point - 1)' PROVE NewHere'
      OBVIOUS
    <3>1. ceiling' = MaxSize BY <1>4, <1>12 DEF Unbroken
    <3>2. 0 \in Nat /\ Upto(0) = MaxSize BY <1>0, UptoNone
    <3>3. point' = 1 /\ point' - 1 = 0 BY <2>1
    <3>4. Upto(0)' = MaxSize BY <1>7, <3>2
    <3>5. Upto(point - 1)' = MaxSize BY <3>3, <3>4
    <3> QED BY <3>1, <3>5 DEF NewHere
  <2> QED BY <2>1, <2>3, <2>4, <2>5, <1>6 DEF HopsAreTrue
<1>13. ASSUME point # Whole PROVE HopsAreTrue'
  <2>1. /\ point > 0 /\ ceiling <= EffectiveMax /\ ceiling \in Nat
        /\ \A h \in ToSet(hops) : h.hop < point
    BY <1>0, <1>1, <1>13 DEF Whole, ShapeHolds, PlaceHolds
  <2>2. EffectiveMax' = EffectiveMax /\ EffectiveMax \in Nat
    BY <1>13, <1>1, <1>4, EffectiveIs DEF EffectiveMax
  <2>3. /\ Narrowest(point) \in Nat /\ Narrowest(point + 1) \in Nat
        /\ Narrowest(point + 1) <= Narrowest(point)
    <3>1. point + 1 \in Nat BY <1>0
    <3> QED BY <1>0, <2>1, <3>1, NarrowestIs, NarrowestFalls
  <2>4. \A h \in Carried : /\ h.hop < point /\ h \in ToSet(hops)
                           /\ h.hop \in Nat
    <3>1. \A i \in DOMAIN hops : hops[i] \in HopRows BY <1>0
    <3> QED BY <2>1, <3>1 DEF Carried, ToSet, HopRows
  <2>5. HopsAreTrue BY <1>8 DEF MtuTrue
  <2>6. ASSUME ~m.silent, Believable \/ NewHere
        PROVE  /\ m.mtu \in Nat
               /\ m.mtu = IF ceiling <= Narrowest(point) THEN ceiling ELSE Narrowest(point)
    BY <2>6, <1>8, <2>1, <2>3, LesserOfTwo DEF Right
  <2>7. ASSUME Believable
        PROVE  /\ (IF Narrowest(point) <= EffectiveMax THEN Narrowest(point) ELSE EffectiveMax) <= ceiling
    BY <2>7, <2>2, <2>3, <2>5, <1>13, LesserOfTwo DEF HopsAreTrue
  <2>8. ASSUME Believable', Searching', point' # Whole
        PROVE  (Min({Narrowest(point), EffectiveMax}) <= ceiling)'
    <3>1. stage' = "control" /\ point' = point + 1 BY <1>4, <2>8 DEF Searching
    <3>2. point + 1 \in Nat BY <1>0
    <3>3. Narrowest(point)' = Narrowest(point + 1) BY <1>0, <1>7, <3>1, <3>2
    <3>4. ceiling' = IF m.silent THEN ceiling ELSE m.mtu BY <1>2, <1>4, <1>13
    <3>5. (IF Narrowest(point + 1) <= EffectiveMax THEN Narrowest(point + 1) ELSE EffectiveMax) <= ceiling'
      BY <2>1, <2>2, <2>3, <2>6, <2>7, <2>8, <1>2, <1>6, <3>4
    <3>6. Min({Narrowest(point + 1), EffectiveMax}) <= ceiling' BY <2>2, <2>3, <3>5, LesserOfTwo
    <3> QED BY <2>2, <3>3, <3>6
  <2>9. ASSUME Believable', NEW h \in Carried'
        PROVE  h.mtu = Min({Narrowest(h.hop)', EffectiveMax'})
    <3>1. h \in Carried \/ (~m.silent /\ h = HopOf(m)) BY <1>2, <1>4, <1>13
    <3>2. CASE h \in Carried
      <4>1. Narrowest(h.hop)' = Narrowest(h.hop) BY <1>7, <2>4, <3>2
      <4> QED BY <2>2, <2>5, <2>9, <1>6, <3>2, <4>1 DEF HopsAreTrue
    <3>3. CASE ~m.silent /\ h = HopOf(m)
      <4>1. h.hop = point /\ h.mtu = m.mtu BY <1>3, <3>3
      <4>2. h.mtu = IF Narrowest(point) <= EffectiveMax THEN Narrowest(point) ELSE EffectiveMax
        BY <2>1, <2>2, <2>3, <2>6, <2>7, <2>9, <1>6, <3>3, <4>1
      <4>3. h.mtu = Min({Narrowest(point), EffectiveMax}) BY <2>2, <2>3, <4>2, LesserOfTwo
      <4> QED BY <1>0, <1>7, <2>2, <4>1, <4>3
    <3> QED BY <3>1, <3>2, <3>3
  <2>10. ASSUME NEW k \in Nat, k < point, StillUnbroken(k)
         PROVE  Unbroken(k)
    <3>1. ~whole.local /\ \A j \in 1..k : \E h \in Carried' : h.hop = j
      BY <2>10, <1>4, <1>13 DEF StillUnbroken
    <3>2. ASSUME NEW j \in 1..k PROVE \E h \in Carried : h.hop = j
      <4>1. PICK h \in Carried' : h.hop = j BY <3>1
      <4>2. j # point BY <1>0, <2>10
      <4>3. h # HopOf(m) BY <1>3, <4>1, <4>2
      <4>4. h \in Carried BY <1>4, <1>13, <4>1, <4>3
      <4> QED BY <4>1, <4>4
    <3> QED BY <3>1, <3>2 DEF Unbroken
  <2>11. ASSUME StillUnbroken(point), point \in 1..Links
         PROVE  ~m.silent /\ NewHere /\ HopOf(m) \in Carried'
    <3>1. point \in 1..point /\ point - 1 \in Nat /\ point - 1 < point
          /\ \A j \in 1..(point - 1) : j \in 1..point
      BY <1>0, <2>11
    <3>2. PICK h \in Carried' : h.hop = point BY <2>11, <3>1 DEF StillUnbroken
    <3>3. h \notin Carried BY <2>4, <3>2, <1>0
    <3>4. ~m.silent /\ HopOf(m) \in Carried' BY <1>4, <1>13, <3>2, <3>3
    <3>5. StillUnbroken(point - 1) BY <2>11, <3>1 DEF StillUnbroken
    <3>6. Unbroken(point - 1) BY <2>10, <3>1, <3>5
    <3> QED BY <2>5, <2>11, <3>4, <3>6 DEF HopsAreTrue
  <2>12. ASSUME Searching', point' \in 1..Links, Unbroken(point - 1)'
         PROVE  NewHere'
    <3>1. stage' = "control" /\ point' = point + 1 BY <1>4, <2>12 DEF Searching
    <3>2. point' - 1 = point /\ point \in 1..Links BY <1>0, <2>1, <2>12, <3>1
    <3>3. StillUnbroken(point) BY <2>12, <3>2 DEF Unbroken, StillUnbroken
    <3>4. ~m.silent /\ NewHere BY <2>11, <3>2, <3>3
    <3>5. ceiling' = m.mtu BY <1>4, <1>13, <3>4
    <3>6. ceiling = Upto(point - 1) BY <3>4 DEF NewHere
    <3>7. Upto(point) <= Upto(point - 1) /\ Narrowest(point) = Upto(point)
      BY <1>0, <3>2, UptoStep, NarrowestIs
    <3>8. ceiling' = Upto(point) BY <2>1, <2>3, <2>6, <3>4, <3>5, <3>6, <3>7
    <3> QED BY <1>0, <1>7, <2>12, <3>2, <3>8 DEF NewHere
  <2>13. ASSUME NEW k \in Silent, Unbroken(k)'
         PROVE  \E h \in Carried' : h.hop = k /\ h.status = "blackhole"
    <3>0. StillUnbroken(k) BY <2>13 DEF Unbroken, StillUnbroken
    <3>1. k \in 1..Links /\ k \in Nat /\ k \in 1..k BY <1>0, <1>11
    <3>2. CASE k < point
      <4>1. Unbroken(k) BY <2>10, <3>0, <3>1, <3>2
      <4>2. PICK h \in Carried : h.hop = k /\ h.status = "blackhole"
        BY <2>5, <4>1 DEF HopsAreTrue
      <4> QED BY <4>2, <1>4, <1>13
    <3>3. CASE k = point
      <4>1. ~m.silent /\ NewHere /\ HopOf(m) \in Carried' BY <2>11, <3>0, <3>1, <3>3
      <4>2. m.mtu < ceiling /\ m.drop /\ ~m.frag BY <1>8, <4>1, <3>3 DEF Right
      <4>3. HopOf(m).status = "blackhole" BY <1>3, <4>1, <4>2 DEF Status
      <4> QED BY <4>1, <4>3, <1>3, <3>3
    <3>4. CASE k > point
      <4>1. PICK h \in Carried' : h.hop = k BY <3>0, <3>1 DEF StillUnbroken
      <4>2. h \in Carried \/ h = HopOf(m) BY <4>1, <1>4, <1>13
      <4> QED BY <4>1, <4>2, <2>4, <1>3, <1>0, <3>1, <3>4
    <3> QED BY <3>1, <3>2, <3>3, <3>4, <1>0
  <2> QED BY <2>8, <2>9, <2>12, <2>13, <1>6 DEF HopsAreTrue
<1>14. HopsAreTrue' BY <1>12, <1>13
<1> QED BY <1>9, <1>10, <1>14 DEF MtuTrue

(* A step of a search leaves the report alone.                               *)
LEMMA ReportStays ==
  ASSUME MtuTrue, Searching, UNCHANGED <<path, hopVars>>
  PROVE  /\ Silent' = Silent /\ EndAnswers(point)' = EndAnswers(point) /\ NewHere' = NewHere
         /\ Narrowest(point)' = Narrowest(point)
         /\ BlameIsTrue' /\ HopsAreTrue'
<1>1. UNCHANGED <<path, point, ceiling, inherited, whole, hops>> BY DEF hopVars
<1>2. Silent' = Silent /\ Narrows' = Narrows /\ Believable' = Believable /\ Carried' = Carried
      /\ EffectiveMax' = EffectiveMax
  BY <1>1 DEF Silent, Narrows, Believable, Carried, EffectiveMax
<1>3. \A p : Narrowest(p)' = Narrowest(p) /\ Upto(p)' = Upto(p) /\ Unbroken(p)' = Unbroken(p)
             /\ EndAnswers(p)' = EndAnswers(p)
  BY <1>1, <1>2 DEF Narrowest, Upto, CrossedTo, Unbroken, EndAnswers
<1>4. Narrowest(point)' = Narrowest(point) /\ Upto(point - 1)' = Upto(point - 1)
      /\ Unbroken(point - 1)' = Unbroken(point - 1) /\ EndAnswers(point)' = EndAnswers(point)
  BY <1>1, <1>2 DEF Narrowest, Upto, CrossedTo, Unbroken, EndAnswers
<1>5. NewHere' = NewHere BY <1>1, <1>4 DEF NewHere
<1>6. BlameIsTrue' BY <1>1, <1>2 DEF MtuTrue, BlameIsTrue
<1>7. HopsAreTrue BY DEF MtuTrue
<1>8. (\A h \in Carried : h.mtu = Min({Narrowest(h.hop), EffectiveMax}))' <=>
       \A h \in Carried : h.mtu = Min({Narrowest(h.hop), EffectiveMax})
  BY <1>2, <1>3
<1>9. HopsAreTrue' BY <1>1, <1>2, <1>3, <1>4, <1>5, <1>7, <1>8 DEF HopsAreTrue
<1> QED BY <1>2, <1>4, <1>5, <1>6, <1>9

(* Halving the interval keeps what is known of it.                           *)
LEMMA BisectsTrue ==
  ASSUME ShapeHolds, MtuTrue, Searching, NEW lo \in Sizes, NEW hi \in Sizes, hi <= ceiling,
         lo <= Narrowest(point), Narrowest(point) < hi, EndAnswers(point),
         NEW s \in Seens, s.drop => Silent # {},
         NewHere /\ point \in Silent => s.drop /\ ~s.frag,
         Bisects(lo, hi, s), path' = path
  PROVE  MtuTrue'
<1>0. /\ MinSize \in Nat /\ MaxSize \in Nat /\ ceiling \in Sizes /\ path \in Paths /\ point \in Nat
  BY PathIs DEF ShapeHolds, MtuTyped
<1>1. lo \in Nat /\ hi \in Nat /\ ceiling \in Nat /\ lo <= MaxSize /\ MinSize <= lo BY <1>0 DEF Sizes
<1>2. Narrowest(point) \in Nat BY <1>0, NarrowestIs
<1>3. CASE hi - lo <= 1
  <2>1. Possible(Found(lo, s)) BY <1>0, <1>1, <1>2 DEF Possible, Found, Measures, Seens
  <2>2. Measured(Found(lo, s)) BY <1>3 DEF Bisects
  <2>3. lo = Narrowest(point) /\ lo < ceiling BY <1>1, <1>2, <1>3
  <2>4. Min({ceiling, Narrowest(point)}) = lo BY <1>1, <1>2, <2>3, LesserOfTwo
  <2>5. Right(Found(lo, s)) BY <2>3, <2>4 DEF Right, Found
  <2> QED BY <2>1, <2>2, <2>5, MeasuredTrue
<1>4. CASE ~(hi - lo <= 1)
  <2>1. Tries("bisect", lo, hi, (lo + hi) \div 2, s) BY <1>4 DEF Bisects
  <2>2. /\ stage' = "bisect" /\ good' = lo /\ bad' = hi /\ seen' = s /\ UNCHANGED hopVars
    BY <2>1 DEF Tries
  <2>3. /\ Silent' = Silent /\ EndAnswers(point)' = EndAnswers(point) /\ NewHere' = NewHere
        /\ Narrowest(point)' = Narrowest(point) /\ BlameIsTrue' /\ HopsAreTrue'
    BY <2>2, ReportStays
  <2>4. point' = point BY <2>2 DEF hopVars
  <2>5. MinSize <= Narrowest(point) BY <1>0, <1>1, <1>2
  <2>6. SearchIsTrue' BY <2>2, <2>3, <2>4, <2>5 DEF SearchIsTrue
  <2> QED BY <2>3, <2>6 DEF MtuTrue
<1> QED BY <1>3, <1>4

(* A link that drops in silence takes less than those before it.             *)
LEMMA SilentIs ==
  ASSUME path \in Paths, point \in Silent, NewHere, ceiling \in Nat
  PROVE  Narrowest(point) < ceiling
<1>1. point \in Narrows /\ ceiling = Upto(point - 1) BY DEF Silent, NewHere
<1>2. point \in 1..Links /\ path.mtu[point] < ceiling BY <1>1, NarrowsThen
<1>3. point \in Nat BY <1>2, PathIs
<1>4. Narrowest(point) = Upto(point) /\ Upto(point) <= path.mtu[point] /\ Narrowest(point) \in Nat
  BY <1>2, <1>3, NarrowestIs, UptoStep
<1> QED BY <1>2, <1>4, PathIs

(* An answer that was not lost keeps the report true.                        *)
LEMMA ConcludedTrue ==
  ASSUME ShapeHolds, MtuTrue, Searching, NEW a, a = Answer(point, size), Concluded(a), path' = path
  PROVE  MtuTrue'
<1>0. /\ MinSize \in Nat /\ MaxSize \in Nat /\ MinSize <= MaxSize
      /\ ceiling \in Sizes /\ size \in Sizes /\ good \in Sizes /\ bad \in Sizes
      /\ path \in Paths /\ point \in Nat /\ Links \in Nat
  BY PathIs DEF ShapeHolds, MtuTyped
<1>1. /\ MinSize \in Sizes /\ ceiling \in Nat /\ size \in Nat /\ good \in Nat /\ bad \in Nat
      /\ MinSize <= ceiling /\ ceiling <= MaxSize /\ size <= MaxSize
  BY <1>0 DEF Sizes
<1>2. /\ a \in Replies
      /\ Passes(a.outcome) => EndAnswers(point) /\ size <= Narrowest(point)
      /\ ~Passes(a.outcome) /\ EndAnswers(point) => Narrowest(point) < size
      /\ a.outcome = "timeout" /\ EndAnswers(point) => Silent # {}
      /\ a.mtu # Unnamed => Narrowest(point) < size /\ path.names
      /\ a.mtu # Unnamed /\ Cardinality(Narrows) <= 1 => a.mtu = Narrowest(point)
      /\ point \in 1..Links /\ size <= Upto(point - 1) =>
           /\ a.mtu # Unnamed => a.mtu = path.mtu[point]
           /\ point \in Silent => a.outcome # "frag_needed" /\ a.mtu = Unnamed
           /\ point \in Silent /\ Narrowest(point) < size => a.outcome = "timeout"
  BY <1>0, AnswerIs
<1>3. a.mtu \in Nat /\ Narrowest(point) \in Nat BY <1>0, <1>2, NarrowestIs DEF Replies
<1>4. SearchIsTrue BY DEF MtuTrue
<1> DEFINE s == SeenWith(a)
<1>5. /\ s \in Seens /\ [s EXCEPT !.reached = (a.outcome = "reply")] \in Seens
      /\ s.frag = (seen.frag \/ a.outcome = "frag_needed")
      /\ s.drop = (seen.drop \/ (stage # "control" /\ a.outcome = "timeout"))
  BY <1>2, SeenIs
<1> HIDE DEF s
<1>6. s.drop => Silent # {} BY <1>2, <1>4, <1>5 DEF SearchIsTrue, Searching
<1>7. \A n \in Sizes : \A x \in Seens : n <= ceiling => Possible(Found(n, x))
  BY <1>0 DEF Possible, Found, Measures, Seens, Sizes
<1>8. NewHere => point \in 1..Links /\ ceiling = Upto(point - 1) BY DEF NewHere
<1>9. NewHere /\ point \in Silent => Narrowest(point) < ceiling BY <1>0, <1>1, SilentIs
<1>10. CASE ControlDone(a, s)
  <2>0. stage = "control" /\ size = MinSize /\ ~seen.frag
    BY <1>10 DEF ControlDone, ShapeHolds, SearchHolds, NothingSeen
  <2>1. CASE ~Passes(a.outcome)
    <3> DEFINE m == [NotMeasured EXCEPT !.frag = s.frag]
    <3>0. s.frag \in BOOLEAN BY <1>5 DEF Seens
    <3>1. NotMeasured \in Measures /\ NotMeasured.silent /\ ~NotMeasured.local /\ ~NotMeasured.drop
      BY <1>0 DEF NotMeasured, Measures, Unknown
    <3>2. Possible(m) BY <3>0, <3>1 DEF Possible, Measures
    <3>3. Right(m) BY <3>0, <3>1 DEF Right, Measures
    <3>4. Measured(m) BY <1>10, <2>1 DEF ControlDone
    <3> QED BY <3>2, <3>3, <3>4, MeasuredTrue
  <2>2. CASE Passes(a.outcome)
    <3> DEFINE t == [s EXCEPT !.reached = (a.outcome = "reply")]
    <3>1. t \in Seens /\ Highest = ceiling /\ t.drop = s.drop /\ t.frag = s.frag
      BY <1>0, <1>5, HighestIs DEF Seens
    <3>2. IF Highest = MinSize THEN Measured(Found(MinSize, t))
          ELSE Tries("top", MinSize, Highest, Highest, t)
      BY <1>10, <2>2 DEF ControlDone
    <3> HIDE DEF t
    <3>3. CASE Highest = MinSize
      <4>1. Possible(Found(MinSize, t)) BY <1>1, <1>7, <3>1
      <4>2. Min({ceiling, Narrowest(point)}) = MinSize
        BY <1>0, <1>1, <1>2, <1>3, <2>0, <2>2, <3>1, <3>3, LesserOfTwo
      <4>3. ~(NewHere /\ point \in Silent)
        BY <1>0, <1>1, <1>2, <1>3, <1>9, <2>0, <2>2, <3>1, <3>3
      <4>4. Right(Found(MinSize, t)) BY <1>6, <3>1, <4>2, <4>3 DEF Right, Found
      <4> QED BY <3>2, <3>3, <4>1, <4>4, MeasuredTrue
    <3>4. CASE Highest # MinSize
      <4>1. stage' = "top" /\ seen' = t /\ UNCHANGED hopVars BY <3>2, <3>4 DEF Tries
      <4>2. /\ Silent' = Silent /\ EndAnswers(point)' = EndAnswers(point) /\ NewHere' = NewHere
            /\ Narrowest(point)' = Narrowest(point) /\ BlameIsTrue' /\ HopsAreTrue'
        BY <4>1, ReportStays
      <4>3. a.outcome # "frag_needed" BY <2>2 DEF Passes
      <4>4. SearchIsTrue' BY <1>2, <1>5, <1>6, <2>0, <2>2, <3>1, <4>1, <4>2, <4>3 DEF SearchIsTrue
      <4> QED BY <4>2, <4>4 DEF MtuTrue
    <3> QED BY <3>3, <3>4
  <2> QED BY <2>1, <2>2
<1>11. CASE TopDone(a, s)
  <2>1. stage = "top" /\ size = ceiling /\ MinSize < ceiling
    BY <1>11 DEF TopDone, ShapeHolds, SearchHolds
  <2>2. EndAnswers(point) /\ MinSize <= Narrowest(point)
        /\ (NewHere /\ point \in Silent => ~seen.frag)
    BY <1>4, <2>1 DEF SearchIsTrue
  <2>3. NewHere => size <= Upto(point - 1) BY <1>1, <1>8, <2>1
  <2>4. CASE Passes(a.outcome)
    <3>1. Measured(Found(size, s)) BY <1>11, <2>4 DEF TopDone
    <3>2. Possible(Found(size, s)) BY <2>1, <1>0, <1>1, <1>5, <1>7
    <3>3. Min({ceiling, Narrowest(point)}) = size
      BY <1>0, <1>1, <1>2, <1>3, <2>1, <2>4, LesserOfTwo
    <3>4. ~(NewHere /\ point \in Silent) BY <1>1, <1>2, <1>3, <1>9, <2>1, <2>4
    <3>5. Right(Found(size, s)) BY <1>6, <3>3, <3>4 DEF Right, Found
    <3> QED BY <3>1, <3>2, <3>5, MeasuredTrue
  <2>5. CASE ~Passes(a.outcome) /\ MinSize < a.mtu /\ a.mtu < size
    <3>1. Measured(Found(a.mtu, s)) BY <1>11, <2>5 DEF TopDone
    <3>2. a.mtu \in Sizes /\ a.mtu <= ceiling BY <1>0, <1>1, <1>3, <2>1, <2>5 DEF Sizes
    <3>3. Possible(Found(a.mtu, s)) BY <3>2, <1>5, <1>7
    <3>4. a.mtu # Unnamed /\ Narrowest(point) < ceiling /\ path.names
      BY <1>0, <1>2, <1>3, <2>1, <2>5 DEF Unnamed
    <3>5. ASSUME NewHere PROVE a.mtu = Narrowest(point)
      <4>1. a.mtu = path.mtu[point] BY <1>2, <1>8, <2>3, <3>4, <3>5
      <4>2. Upto(point) = path.mtu[point] \/ Upto(point) = ceiling BY <1>0, <1>8, <3>5, UptoStep
      <4>3. Narrowest(point) = Upto(point) BY <1>0, <1>8, <3>5, NarrowestIs
      <4> QED BY <1>1, <1>3, <3>4, <4>1, <4>2, <4>3
    <3>6. Believable => a.mtu = Narrowest(point) BY <1>2, <3>4 DEF Believable
    <3>7. Min({ceiling, Narrowest(point)}) = Narrowest(point) BY <1>1, <1>3, <3>4, LesserOfTwo
    <3>8. ~(NewHere /\ point \in Silent) BY <1>2, <1>8, <2>3, <3>4
    <3>9. Right(Found(a.mtu, s)) BY <1>6, <3>5, <3>6, <3>7, <3>8 DEF Right, Found
    <3> QED BY <3>1, <3>3, <3>9, MeasuredTrue
  <2>6. CASE ~Passes(a.outcome) /\ ~(MinSize < a.mtu /\ a.mtu < size)
    <3>1. Bisects(MinSize, size, s) BY <1>11, <2>6 DEF TopDone
    <3>2. Narrowest(point) < size /\ size <= ceiling BY <1>1, <1>2, <2>1, <2>2, <2>6
    <3>3. NewHere /\ point \in Silent => s.drop /\ ~s.frag
      BY <1>2, <1>5, <1>8, <2>1, <2>2, <2>3, <3>2
    <3> QED BY <3>1, <3>2, <3>3, <2>2, <1>0, <1>1, <1>5, <1>6, BisectsTrue
  <2> QED BY <2>4, <2>5, <2>6
<1>12. CASE BisectDone(a, s)
  <2>1. stage = "bisect" /\ good < size /\ size < bad /\ bad <= ceiling
    BY <1>12 DEF BisectDone, ShapeHolds, SearchHolds
  <2>2. EndAnswers(point) /\ good <= Narrowest(point) /\ Narrowest(point) < bad
        /\ (NewHere /\ point \in Silent => ~seen.frag /\ seen.drop)
    BY <1>4, <2>1 DEF SearchIsTrue
  <2>3. size <= ceiling BY <2>1, <1>1
  <2>4. NewHere => size <= Upto(point - 1) BY <1>8, <2>3
  <2>5. NewHere /\ point \in Silent => s.drop /\ ~s.frag BY <1>2, <1>5, <1>8, <2>2, <2>4
  <2>6. CASE Passes(a.outcome)
    <3>1. Bisects(size, bad, s) BY <1>12, <2>6 DEF BisectDone
    <3>2. size <= Narrowest(point) BY <1>2, <2>6
    <3> QED BY <3>1, <3>2, <2>1, <2>2, <2>5, <1>0, <1>5, <1>6, BisectsTrue
  <2>7. CASE ~Passes(a.outcome)
    <3>1. Bisects(good, size, s) BY <1>12, <2>7 DEF BisectDone
    <3>2. Narrowest(point) < size BY <1>2, <2>2, <2>7
    <3> QED BY <3>1, <3>2, <2>3, <2>2, <2>5, <1>0, <1>5, <1>6, BisectsTrue
  <2> QED BY <2>6, <2>7
<1> QED BY <1>10, <1>11, <1>12 DEF Concluded, s

(* One ping: silence is tried again, or there is an answer.                  *)
LEMMA PingedIs ==
  ASSUME NEW a, Pinged(a), Searching
  PROVE  \/ /\ a.outcome = "timeout" /\ tries + 1 < ProbesPerSize /\ tries' = tries + 1
            /\ UNCHANGED <<stage, size, good, bad, seen, hopVars>>
         \/ Concluded(a) /\ (a.outcome = "timeout" => ~(tries + 1 < ProbesPerSize))
BY DEF Pinged, Concluded, Tried

(* A size that is tried again.                                               *)
LEMMA TriedAgain ==
  ASSUME ShapeHolds, Searching, tries + 1 < ProbesPerSize, tries' = tries + 1, path' = path,
         UNCHANGED <<stage, size, good, bad, seen, hopVars>>, lost' \in 0..MaxLosses
  PROVE  ShapeHolds' /\ (MtuTrue => MtuTrue')
<1>0. path \in Paths /\ ProbesPerSize \in Nat /\ tries \in 0..ProbesPerSize
  BY PathIs DEF ShapeHolds, MtuTyped
<1>1. /\ UNCHANGED <<path, stage, size, good, bad, seen, point, ceiling, inherited, whole, hops>>
      /\ UNCHANGED <<path, hopVars>>
  BY DEF hopVars
<1>2. tries' \in 0..ProbesPerSize BY <1>0
<1>3. MtuTyped' BY <1>1, <1>2 DEF ShapeHolds, MtuTyped
<1>4. SearchHolds' BY <1>1 DEF ShapeHolds, SearchHolds
<1>5. PlaceHolds' BY <1>1 DEF ShapeHolds, PlaceHolds, Searching, EffectiveMax
<1>6. ASSUME MtuTrue PROVE MtuTrue'
  <2>1. /\ Silent' = Silent /\ EndAnswers(point)' = EndAnswers(point) /\ NewHere' = NewHere
        /\ Narrowest(point)' = Narrowest(point) /\ BlameIsTrue' /\ HopsAreTrue'
    BY <1>1, <1>6, ReportStays
  <2>2. SearchIsTrue' BY <1>1, <1>6, <2>1 DEF MtuTrue, SearchIsTrue, Searching
  <2> QED BY <2>1, <2>2 DEF MtuTrue
<1> QED BY <1>3, <1>4, <1>5, <1>6 DEF ShapeHolds

(* A new size begins with no tries.                                          *)
LEMMA ConcludedIs ==
  ASSUME ShapeHolds, Searching, NEW a \in Replies, Concluded(a), path' = path,
         lost' \in 0..MaxLosses
  PROVE  tries' = 0
<1>1. ASSUME NEW m, Measured(m) PROVE tries' = 0
  BY <1>1 DEF Measured, GoesOn, ToStage
<1>2. ASSUME NEW lo, NEW hi, NEW s, Bisects(lo, hi, s) PROVE tries' = 0
  BY <1>1, <1>2 DEF Bisects, Tries
<1>3. ASSUME NEW s, ControlDone(a, s) PROVE tries' = 0 BY <1>1, <1>3 DEF ControlDone, Tries
<1>4. ASSUME NEW s, TopDone(a, s) PROVE tries' = 0
  <2>1. \/ Measured(Found(size, s)) \/ Measured(Found(a.mtu, s)) \/ Bisects(MinSize, size, s)
    BY <1>4 DEF TopDone
  <2> QED BY <2>1, <1>1, <1>2
<1>5. ASSUME NEW s, BisectDone(a, s) PROVE tries' = 0 BY <1>2, <1>5 DEF BisectDone
<1> QED BY <1>3, <1>4, <1>5 DEF Concluded

(* A step.  A search that concludes from silence alone has lost as many answers *)
(* as it tries a size, or the path is silent.                                *)
LEMMA MtuStep == MtuInv /\ [MtuNext]_mtuVars => MtuInv'
<1> SUFFICES ASSUME MtuInv, [MtuNext]_mtuVars PROVE MtuInv'
  OBVIOUS
<1>0. /\ ShapeHolds /\ TriesHold /\ (Dependable => MtuTrue)
      /\ path \in Paths /\ point \in Nat /\ size \in Sizes /\ tries \in Nat
      /\ lost \in Nat /\ lost \in 0..MaxLosses /\ ProbesPerSize \in Nat /\ MaxLosses \in Nat
  BY PathIs, MtuAssumption DEF MtuInv, ShapeHolds, MtuTyped
<1> DEFINE a == Answer(point, size)
<1>1. a \in Replies BY <1>0, AnswerIs
<1> HIDE DEF a
<1>2. CASE Pings
  <2>1. Searching /\ Pinged(a) /\ path' = path /\ lost' = lost BY <1>2 DEF Pings, Searching, a
  <2>2. CASE /\ a.outcome = "timeout" /\ tries + 1 < ProbesPerSize /\ tries' = tries + 1
             /\ UNCHANGED <<stage, size, good, bad, seen, hopVars>>
    <3>1. ShapeHolds' /\ (MtuTrue => MtuTrue') BY <1>0, <2>1, <2>2, TriedAgain
    <3>2. UNCHANGED <<point, size, path>> BY <2>1, <2>2 DEF hopVars
    <3>3. Answer(point, size)' = a
      BY <3>2 DEF a, Answer, TooNarrow, CrossedTo
    <3>4. TriesHold' BY <2>2, <3>3 DEF TriesHold
    <3> QED BY <1>0, <2>1, <3>1, <3>4 DEF MtuInv, Dependable
  <2>3. CASE Concluded(a)
    <3>1. ShapeHolds' /\ tries' = 0 BY <1>0, <1>1, <2>1, <2>3, ConcludedShape, ConcludedIs
    <3>2. TriesHold' BY <1>0, <2>1, <3>1 DEF TriesHold
    <3>3. MtuTrue => MtuTrue' BY <1>0, <2>1, <2>3, ConcludedTrue DEF a
    <3> QED BY <1>0, <2>1, <3>1, <3>2, <3>3 DEF MtuInv, Dependable
  <2> QED BY <2>1, <2>2, <2>3, PingedIs
<1>3. CASE AnswerLost
  <2>1. /\ Searching /\ Pinged(Silence) /\ path' = path /\ lost' = lost + 1 /\ lost < MaxLosses
        /\ a.outcome # "timeout"
    BY <1>3 DEF AnswerLost, Searching, a
  <2>2. Silence \in Replies /\ Silence.outcome = "timeout"
    BY DEF Silence, Reply, Replies, Outcomes, Unnamed
  <2>3. tries <= lost BY <1>0, <2>1 DEF TriesHold, a
  <2>4. lost' \in 0..MaxLosses BY <1>0, <2>1
  <2>5. CASE /\ tries + 1 < ProbesPerSize /\ tries' = tries + 1
             /\ UNCHANGED <<stage, size, good, bad, seen, hopVars>>
    <3>1. ShapeHolds' /\ (MtuTrue => MtuTrue') BY <1>0, <2>1, <2>4, <2>5, TriedAgain
    <3>2. TriesHold' BY <1>0, <2>1, <2>3, <2>5 DEF TriesHold
    <3>3. Dependable' => Dependable BY <1>0, <2>1 DEF Dependable
    <3> QED BY <1>0, <3>1, <3>2, <3>3 DEF MtuInv
  <2>6. CASE Concluded(Silence) /\ ~(tries + 1 < ProbesPerSize)
    <3>1. ShapeHolds' /\ tries' = 0 BY <1>0, <2>1, <2>2, <2>4, <2>6, ConcludedShape, ConcludedIs
    <3>2. TriesHold' BY <1>0, <2>1, <3>1 DEF TriesHold
    <3>3. ~Dependable' BY <1>0, <2>1, <2>3, <2>6 DEF Dependable
    <3> QED BY <3>1, <3>2, <3>3 DEF MtuInv
  <2> QED BY <2>1, <2>2, <2>5, <2>6, PingedIs
<1>4. CASE ToolRefuses
  <2>1. /\ stage' = "failed" /\ point' = point /\ size' = MinSize /\ tries' = 0
        /\ seen' = NothingSeen /\ good' = MinSize /\ bad' = MaxSize
        /\ UNCHANGED <<path, ceiling, inherited, whole, hops, lost>>
    BY <1>4 DEF ToolRefuses, ToStage
  <2>2. MinSize \in Sizes /\ MaxSize \in Sizes BY <1>0, PathIs DEF Sizes
  <2>3. NothingSeen \in Seens /\ 0 \in 0..ProbesPerSize /\ ~NothingSeen.drop
    BY <1>0 DEF NothingSeen, Seens
  <2>4. MtuTyped' BY <1>0, <2>1, <2>2, <2>3 DEF ShapeHolds, MtuTyped
  <2>5. SearchHolds' /\ PlaceHolds' /\ TriesHold' /\ ~Searching'
    BY <1>0, <2>1 DEF ShapeHolds, SearchHolds, PlaceHolds, TriesHold, Searching
  <2>6. ASSUME MtuTrue PROVE MtuTrue'
    <3>1. Silent' = Silent /\ Narrows' = Narrows /\ Believable' = Believable /\ Carried' = Carried
          /\ EffectiveMax' = EffectiveMax
      BY <2>1 DEF Silent, Narrows, Believable, Carried, EffectiveMax
    <3>2. \A p : Narrowest(p)' = Narrowest(p) /\ Unbroken(p)' = Unbroken(p)
      BY <2>1, <3>1 DEF Narrowest, CrossedTo, Unbroken
    <3>3. SearchIsTrue' BY <2>1, <2>5 DEF SearchIsTrue
    <3>4. BlameIsTrue' BY <2>1, <2>6, <3>1 DEF MtuTrue, BlameIsTrue
    <3>5. HopsAreTrue' BY <2>5, <2>6, <3>1, <3>2 DEF MtuTrue, HopsAreTrue
    <3> QED BY <3>3, <3>4, <3>5 DEF MtuTrue
  <2> QED BY <1>0, <2>1, <2>4, <2>5, <2>6 DEF MtuInv, ShapeHolds, Dependable
<1>5. CASE UNCHANGED mtuVars
  <2>1. UNCHANGED <<path, stage, size, tries, good, bad, seen, point, ceiling, inherited, whole, hops, lost>>
    BY <1>5 DEF mtuVars, searchVars, hopVars
  <2>2. MtuTyped' BY <1>0, <2>1 DEF ShapeHolds, MtuTyped
  <2>3. SearchHolds' /\ PlaceHolds' /\ Searching' = Searching
    BY <1>0, <2>1 DEF ShapeHolds, SearchHolds, PlaceHolds, Searching, EffectiveMax
  <2>4. Answer(point, size)' = Answer(point, size)
    BY <2>1 DEF Answer, TooNarrow, CrossedTo
  <2>5. TriesHold' BY <1>0, <2>1, <2>3, <2>4 DEF TriesHold
  <2>6. ASSUME MtuTrue PROVE MtuTrue'
    <3>1. Silent' = Silent /\ Narrows' = Narrows /\ Believable' = Believable /\ Carried' = Carried
          /\ EffectiveMax' = EffectiveMax
      BY <2>1 DEF Silent, Narrows, Believable, Carried, EffectiveMax
    <3>2. \A p : Narrowest(p)' = Narrowest(p) /\ Unbroken(p)' = Unbroken(p)
      BY <2>1, <3>1 DEF Narrowest, CrossedTo, Unbroken
    <3>3. EndAnswers(point)' = EndAnswers(point) /\ Narrowest(point)' = Narrowest(point)
          /\ Unbroken(point - 1)' = Unbroken(point - 1) /\ NewHere' = NewHere
      BY <2>1, <3>1 DEF EndAnswers, CrossedTo, NewHere, Narrowest, Unbroken, Upto
    <3>4. SearchIsTrue' BY <2>1, <2>3, <2>6, <3>1, <3>3 DEF MtuTrue, SearchIsTrue
    <3>5. BlameIsTrue' BY <2>1, <2>6, <3>1 DEF MtuTrue, BlameIsTrue
    <3>6. HopsAreTrue' BY <2>1, <2>3, <2>6, <3>1, <3>2, <3>3 DEF MtuTrue, HopsAreTrue
    <3> QED BY <3>4, <3>5, <3>6 DEF MtuTrue
  <2> QED BY <1>0, <2>1, <2>2, <2>3, <2>5, <2>6 DEF MtuInv, ShapeHolds, Dependable
<1> QED BY <1>2, <1>3, <1>4, <1>5 DEF MtuNext

-----------------------------------------------------------------------------
(* What the probes say holds: of a path's MTU, for every path and however many *)
(* answers are lost as long as they are fewer than the tries of one size; of a *)
(* certificate, whatever the responder answers and the issuer does meanwhile;  *)
(* and of a segment, whatever comes to the port of the DHCP probe              *)
(* (src/probes/pathmtu.js, src/probes/tls.js, src/probes/ocsp.js,              *)
(* src/probes/dhcp.js).                                                        *)
THEOREM VerdictsAreRight == MtuSpec /\ CertSpec /\ DhcpSpec => []VerdictsHold
<1>1. MtuInv /\ [MtuNext]_mtuVars => MtuInv' BY MtuStep
<1>2. CertInv /\ [CertNext]_certVars => CertInv' BY CertStep
<1>3. SegmentInv /\ [DhcpNext]_dhcpVars => SegmentInv' BY SegmentStep
<1>4. PathVerdicts /\ CertificateVerdicts /\ SegmentVerdicts => VerdictsHold BY DEF VerdictsHold
<1> QED
  BY <1>1, <1>2, <1>3, <1>4, MtuStarts, MtuInvIsEnough, CertStarts, CertInvIsEnough,
     SegmentStarts, SegmentInvIsEnough, PTL
  DEF MtuSpec, CertSpec, DhcpSpec

-----------------------------------------------------------------------------
(* The Go rewrite: its collectors.                                           *)
Definitions == Ids \X (1..MaxVersion)
(* The states of a goroutine, and the goroutines.                           *)
LoopStates == {"begins", "waits", "executes", "reads"}
Goroutines == [id : Ids, version : 1..MaxVersion, live : BOOLEAN, at : LoopStates,
               value : 0..NoReading]
(* The states of a reload.                                                  *)
Reloads == [at : {"idle", "due", "listed"}, want : SUBSET ForHere]

(* The types of the collectors.                                             *)
CollectorsTyped ==
  /\ up \in BOOLEAN
  /\ defs \in [Ids -> Versions] /\ cache \in [Ids -> Versions]
  /\ frame \in [todo : Seq(Definitions), stored : BOOLEAN, changed : BOOLEAN]
  /\ frame.stored => frame.todo # <<>>
  /\ reload \in [Callers -> Reloads]
  /\ loops \subseteq Goroutines
  /\ raw \in [Ids -> 0..MaxCount] /\ grown \in [Ids -> 0..MaxCount]
  /\ \A i \in Ids : raw[i] <= grown[i]
  /\ prev \in [Ids -> 0..NoReading] /\ overlap \subseteq Ids
  /\ sent \in [Ids -> Nat]

(* A list of definitions has one version of each, and a collector has one    *)
(* loop unless two of it were recorded.                                      *)
OneVersion ==
  \A c \in Callers : \A d, e \in reload[c].want : d[1] = e[1] => d = e
(* A collector has one loop, unless it was started twice.                   *)
OneLoop(loopset, twice) == \A l, m \in loopset : l.id = m.id /\ l.id \notin twice => l = m

(* What the server was told is covered by what was counted, both at the last *)
(* reading and at one that is on its way: the counter was started over since *)
(* as often or more often.                                                   *)
Covered(i) ==
  /\ sent[i] <= grown[i]
  /\ prev[i] # NoReading => sent[i] + raw[i] <= grown[i] + prev[i]
(* The same of a reading v that is on its way.                              *)
CoveredBy(i, v) ==
  /\ v # NoReading
  /\ sent[i] + raw[i] <= grown[i] + v
  /\ prev[i] # NoReading => sent[i] + v <= grown[i] + prev[i]

(* The invariant of the collectors.                                         *)
CollectorsInv ==
  /\ CollectorsTyped /\ OneVersion /\ OneLoop(loops, overlap)
  /\ \A i \in Ids \ overlap : Covered(i)
  /\ \A l \in loops : l.at = "reads" /\ l.id \notin overlap => CoveredBy(l.id, l.value)

-----------------------------------------------------------------------------
(* The Go rewrite: its interpreter.                                          *)
OutLines == [of : Tokens, end : BOOLEAN]
(* The states of the interpreter.                                           *)
Sessions == [on : BOOLEAN, alive : BOOLEAN, asked : Seq(Tokens), out : Seq(OutLines),
             left : BOOLEAN]
(* The states of a run of it.                                               *)
RunsOfIt == [token : 0..MaxRuns, got : Seq(OutLines)]

(* The types of the interpreter.                                            *)
StreamTyped ==
  /\ sess \in Sessions /\ running \in RunsOfIt /\ seq \in 0..MaxRuns
  /\ running.token = 0 => running = NoRun
  /\ sess.on \/ (sess = NoSession /\ running = NoRun)

(* How far a body is: asked for, its line and its marker on their way, its   *)
(* line read; or the interpreter died before its line was read, or after.    *)
Shape(s, r, asked, out, read) == s.asked = asked /\ s.out = out /\ r.got = read
(* What is in the pipe is what the run in progress is waiting for.          *)
Expected(s, r) ==
  IF r = NoRun THEN s.asked = <<>> /\ s.out = <<>>
  ELSE \/ Shape(s, r, <<r.token>>, <<>>, <<>>)
       \/ Shape(s, r, <<>>, <<Line(r.token), End(r.token)>>, <<>>)
       \/ Shape(s, r, <<>>, <<End(r.token)>>, <<Line(r.token)>>)
       \/ ~s.alive /\ Shape(s, r, <<r.token>>, <<Line(r.token)>>, <<>>)
       \/ ~s.alive /\ Shape(s, r, <<r.token>>, <<>>, <<Line(r.token)>>)

(* The invariant of the interpreter.                                        *)
StreamInv == StreamTyped /\ (sess.left \/ Expected(sess, running)) /\ OwnOutput

-----------------------------------------------------------------------------
(* The Go rewrite: its self-update.                                          *)
UpgradeInv ==
  /\ UpgradeTypeOK /\ goos \in {"unix", "windows"}
  /\ image = "nowhere" => phase = "idle"
  /\ IF goos = "unix"
     THEN /\ exe \in Releases /\ image # "old"
          /\ phase \in {"idle", "downloads", "writes", "renames", "removes", "restarts"}
          /\ phase = "renames" => temp = data
     ELSE /\ exe \in Releases \/ old \in Releases
          /\ image # "unlinked"
          /\ image = "exe" => exe \in Releases
          /\ image = "old" => old \in Releases
          /\ phase \in {"idle", "downloads", "clears", "asides", "fills", "restarts"}
          /\ phase = "fills" => image = "old"
  /\ phase = "restarts" => audit = "completed" /\ exe = data

(* The invariant of the self-update holds at first ...                       *)
LEMMA UpgradeStarts == UpgradeInit => UpgradeInv
<1>1. 1 \in Releases /\ Releases \subseteq OnDisk /\ Missing \in OnDisk
  BY UpgradeAssumption DEF Releases, OnDisk, Missing
<1> QED BY <1>1 DEF UpgradeInit, UpgradeInv, UpgradeTypeOK, disk

(* ... and after every step.                                                 *)
LEMMA UpgradeStep == UpgradeInv /\ [UpgradeNext]_upgradeVars => UpgradeInv'
<1> SUFFICES ASSUME UpgradeInv, [UpgradeNext]_upgradeVars PROVE UpgradeInv'
  OBVIOUS
<1> USE DEF UpgradeInv, UpgradeTypeOK, disk, Ends
<1>0. Releases \subseteq OnDisk /\ Torn \in OnDisk /\ Missing \in OnDisk /\ MaxRelease \in Nat
      /\ Torn \notin Releases /\ Missing \notin Releases /\ Torn # Missing
  BY UpgradeAssumption DEF Releases, OnDisk, Torn, Missing
<1>1. CASE ServiceStarts BY <1>0, <1>1 DEF ServiceStarts
<1>2. CASE Commanded BY <1>0, <1>2 DEF Commanded
<1>3. CASE Refused BY <1>0, <1>3 DEF Refused
<1>4. CASE Restarts BY <1>0, <1>4 DEF Restarts
<1>5. CASE ProcessEnds BY <1>0, <1>5 DEF ProcessEnds
<1>6. ASSUME NEW v \in Releases, Verified(v) PROVE UpgradeInv'
  BY <1>0, <1>6 DEF Verified
<1>7. CASE WritesTemp BY <1>0, <1>7 DEF WritesTemp, Written
<1>8. CASE RemovesTemp BY <1>0, <1>8 DEF RemovesTemp
<1>9. CASE RenamesTemp BY <1>0, <1>9 DEF RenamesTemp
<1>10. CASE ClearsOld BY <1>0, <1>10 DEF ClearsOld
<1>11. CASE PutsAside BY <1>0, <1>11 DEF PutsAside
<1>12. CASE FillsTarget BY <1>0, <1>12 DEF FillsTarget, Written
<1>13. CASE UNCHANGED upgradeVars BY <1>13 DEF upgradeVars
<1> QED
  BY <1>1, <1>2, <1>3, <1>4, <1>5, <1>6, <1>7, <1>8, <1>9, <1>10, <1>11, <1>12, <1>13
  DEF UpgradeNext, UnixSwaps, WindowsSwaps

-----------------------------------------------------------------------------
(* The invariant of the interpreter holds at first ...                       *)
LEMMA StreamStarts == StreamInit => StreamInv
BY StreamAssumption
DEF StreamInit, StreamInv, StreamTyped, Sessions, RunsOfIt, NoSession, NoRun, Nothing, OwnOutput,
    Expected

(* ... of its types every step keeps ...                                     *)
LEMMA StreamTypeStep == StreamTyped /\ [StreamNext]_streamVars => StreamTyped'
<1> SUFFICES ASSUME StreamTyped, [StreamNext]_streamVars PROVE StreamTyped'
  OBVIOUS
<1>0. NoSession \in Sessions /\ StreamFresh \in Sessions /\ NoRun \in RunsOfIt /\ NoRun.token = 0
  <2>1. NoSession \in Sessions BY DEF NoSession, Sessions
  <2>2. StreamFresh \in Sessions BY <2>1 DEF StreamFresh, Sessions
  <2> QED BY <2>1, <2>2, StreamAssumption DEF NoRun, RunsOfIt
<1>t. StreamFresh.on /\ ~NoSession.on BY DEF NoSession, StreamFresh
<1>l. \A t \in Tokens : Line(t) \in OutLines /\ End(t) \in OutLines BY DEF Line, End, OutLines
<1>1. CASE Runs
  <2>1. CASE sess' = NoSession /\ seq' = seq + 1 /\ seq < MaxRuns /\ UNCHANGED running
    BY <1>0, <1>1, <2>1, StreamAssumption DEF StreamTyped, Runs
  <2>2. CASE ~(sess' = NoSession /\ seq' = seq + 1 /\ seq < MaxRuns /\ UNCHANGED running)
    <3> DEFINE s == IF sess.on THEN sess ELSE StreamFresh
    <3>1. s \in Sessions /\ s.on BY <1>0, <1>t DEF StreamTyped
    <3>2. /\ sess' = [s EXCEPT !.asked = Append(@, seq + 1)] /\ seq' = seq + 1 /\ seq < MaxRuns
          /\ running' = [token |-> seq + 1, got |-> <<>>]
      BY <1>1, <2>2 DEF Runs
    <3>3. seq + 1 \in Tokens /\ seq' \in 0..MaxRuns /\ seq + 1 # 0
      BY <3>2, StreamAssumption DEF StreamTyped, Tokens
    <3> HIDE DEF s
    <3>4. Append(s.asked, seq + 1) \in Seq(Tokens) BY <3>1, <3>3 DEF Sessions
    <3>5. sess' \in Sessions /\ sess'.on BY <3>1, <3>2, <3>4 DEF Sessions
    <3>6. running' \in RunsOfIt /\ running'.token # 0 BY <3>2, <3>3 DEF RunsOfIt
    <3> QED BY <3>3, <3>5, <3>6 DEF StreamTyped
  <2> QED BY <2>1, <2>2
<1>2. CASE Evaluates
  <2> DEFINE t == Head(sess.asked)
  <2>1. t \in Tokens /\ Tail(sess.asked) \in Seq(Tokens) /\ sess.out \in Seq(OutLines)
        /\ sess \in Sessions /\ sess.on
    BY <1>2, <1>t DEF Evaluates, StreamTyped, Sessions, NoSession
  <2> HIDE DEF t
  <2>2. Append(sess.out, Line(t)) \in Seq(OutLines) BY <2>1, <1>l
  <2>3. sess.out \o <<Line(t), End(t)>> \in Seq(OutLines)
    <3>1. <<Line(t), End(t)>> \in Seq(OutLines) BY <2>1, <1>l
    <3> DEFINE two == <<Line(t), End(t)>>
    <3> HIDE DEF two
    <3> QED BY <2>1, <3>1, ConcatProperties DEF two
  <2>4. \/ sess' = [sess EXCEPT !.out = sess.out \o <<Line(t), End(t)>>, !.asked = Tail(sess.asked)]
        \/ sess' = [sess EXCEPT !.alive = FALSE, !.out = Append(sess.out, Line(t))]
    BY <1>2 DEF Evaluates, t
  <2> DEFINE longer == sess.out \o <<Line(t), End(t)>>
             tail == Tail(sess.asked)
             more == Append(sess.out, Line(t))
  <2>5. longer \in Seq(OutLines) /\ tail \in Seq(Tokens) /\ more \in Seq(OutLines)
        /\ (\/ sess' = [sess EXCEPT !.out = longer, !.asked = tail]
            \/ sess' = [sess EXCEPT !.alive = FALSE, !.out = more])
    BY <2>1, <2>2, <2>3, <2>4
  <2> HIDE DEF longer, tail, more
  <2>6. sess' \in Sessions /\ sess'.on BY <2>1, <2>5 DEF Sessions
  <2> QED BY <1>2, <2>6 DEF Evaluates, StreamTyped
<1>3. CASE SessionDies
  <2>1. sess \in Sessions /\ sess.on /\ sess' = [sess EXCEPT !.alive = FALSE]
    BY <1>3 DEF SessionDies, StreamTyped, NoSession
  <2>2. sess' \in Sessions /\ sess'.on BY <2>1 DEF Sessions
  <2> QED BY <1>3, <2>2 DEF SessionDies, StreamTyped
<1>4. CASE Reads
  <2> DEFINE l == Head(sess.out)
  <2>1. l \in OutLines /\ Tail(sess.out) \in Seq(OutLines) /\ sess.on
    BY <1>4 DEF Reads, StreamTyped, Sessions, NoSession
  <2>2. sess' = [sess EXCEPT !.out = Tail(sess.out)] /\ seq' = seq BY <1>4 DEF Reads
  <2>3. sess' \in Sessions /\ sess'.on BY <2>1, <2>2 DEF StreamTyped, Sessions
  <2>4. running' = NoRun \/ running' = [running EXCEPT !.got = Append(@, l)]
    BY <1>4 DEF Reads
  <2>5. running # NoRun BY <1>4 DEF Reads, Waiting
  <2> HIDE DEF l
  <2> DEFINE more == Append(running.got, l)
  <2>a. more \in Seq(OutLines) BY <2>1 DEF StreamTyped, RunsOfIt
  <2>b. running' = NoRun \/ running' = [running EXCEPT !.got = more] BY <2>4
  <2>c. running \in RunsOfIt /\ running.token # 0 BY <2>5 DEF StreamTyped
  <2> HIDE DEF more
  <2>6. running' \in RunsOfIt /\ (running'.token = 0 => running' = NoRun)
    BY <1>0, <2>a, <2>b, <2>c DEF RunsOfIt
  <2> QED BY <2>2, <2>3, <2>6 DEF StreamTyped
<1>5. CASE TimesOut BY <1>0, <1>5 DEF TimesOut, Killed, StreamTyped
<1>6. CASE SeesDeath BY <1>0, <1>6 DEF SeesDeath, StreamTyped
<1>7. CASE Cancelled
  <2>1. running' = NoRun /\ seq' = seq /\ sess' = [sess EXCEPT !.left = TRUE] /\ running # NoRun
    BY <1>7 DEF Cancelled, Waiting
  <2>2. sess \in Sessions /\ sess.on BY <2>1 DEF StreamTyped
  <2>3. sess' \in Sessions /\ sess'.on BY <2>1, <2>2 DEF Sessions
  <2> QED BY <1>0, <2>1, <2>3 DEF StreamTyped
<1>8. CASE Closes BY <1>0, <1>8 DEF Closes, Waiting, StreamTyped
<1>9. CASE UNCHANGED streamVars BY <1>9 DEF streamVars, StreamTyped
<1> QED
  BY <1>1, <1>2, <1>3, <1>4, <1>5, <1>6, <1>7, <1>8, <1>9 DEF StreamNext

(* ... and of the order of what is asked and read.                           *)
LEMMA StreamStep == StreamInv /\ [StreamNext]_streamVars => StreamInv'
<1> SUFFICES ASSUME StreamInv, [StreamNext]_streamVars PROVE StreamInv'
  OBVIOUS
<1>0. StreamTyped /\ StreamTyped' /\ OwnOutput BY StreamTypeStep DEF StreamInv
<1> DEFINE Good == sess.left \/ Expected(sess, running)
           t == running.token
<1>g. Good BY DEF StreamInv
<1>t. sess \in Sessions /\ running \in RunsOfIt /\ (running # NoRun => sess.on /\ t \in Tokens)
  BY <1>0 DEF StreamTyped, RunsOfIt, Tokens
<1>n. NoSession.out = <<>> /\ NoSession.asked = <<>> BY DEF NoSession
<1>r. result' = result => OwnOutput' BY <1>0 DEF OwnOutput
<1>1. CASE Runs
  <2>r. result' = result BY <1>1 DEF Runs
  <2>1. CASE sess' = NoSession /\ UNCHANGED running
    <3>1. running' = NoRun BY <1>1, <2>1 DEF Runs
    <3> QED BY <1>0, <1>n, <1>r, <2>1, <2>r, <3>1 DEF StreamInv, Expected
  <2>2. CASE ~(sess' = NoSession /\ UNCHANGED running)
    <3> DEFINE s == IF sess.on THEN sess ELSE StreamFresh
               k == seq + 1
               asked == Append(s.asked, k)
    <3>1. /\ sess' = [s EXCEPT !.asked = asked] /\ running' = [token |-> k, got |-> <<>>]
          /\ running = NoRun
      BY <1>1, <2>2 DEF Runs
    <3>2. s.left \/ (s.asked = <<>> /\ s.out = <<>>)
      BY <1>g, <3>1 DEF Expected, StreamFresh, NoSession
    <3>3. s \in Sessions /\ k # 0
      <4>1. NoSession \in Sessions BY DEF NoSession, Sessions
      <4>2. StreamFresh \in Sessions BY <4>1 DEF StreamFresh, Sessions
      <4>3. seq + 1 # 0 BY <1>0, StreamAssumption DEF StreamTyped
      <4> QED BY <1>t, <4>2, <4>3
    <3>4. s.asked = <<>> => asked = <<k>>
      <4> HIDE DEF s
      <4> QED OBVIOUS
    <3> HIDE DEF s, k, asked
    <3>5. /\ sess'.asked = asked /\ sess'.out = s.out /\ sess'.left = s.left
          /\ running'.token = k /\ running'.got = <<>> /\ running' # NoRun
      BY <3>1, <3>3 DEF Sessions, NoRun
    <3>6. Good' BY <3>2, <3>4, <3>5 DEF Expected, Shape
    <3> QED BY <1>0, <1>r, <2>r, <3>6 DEF StreamInv
  <2> QED BY <2>1, <2>2
<1>2. CASE Evaluates
  <2>r. result' = result /\ running' = running BY <1>2 DEF Evaluates
  <2>1. CASE sess.left
    <3>1. sess'.left BY <1>2, <1>t, <2>1 DEF Evaluates, Sessions
    <3> QED BY <1>0, <1>r, <2>r, <3>1 DEF StreamInv
  <2>2. CASE ~sess.left
    <3>1. /\ sess.alive /\ sess.asked # <<>> /\ Expected(sess, running)
      BY <1>2, <1>g, <2>2 DEF Evaluates
    <3>2. running # NoRun /\ Shape(sess, running, <<t>>, <<>>, <<>>)
      BY <3>1 DEF Expected, Shape
    <3>3. Head(sess.asked) = t /\ Tail(sess.asked) = <<>> BY <3>2 DEF Shape
    <3>4. \/ sess' = [sess EXCEPT !.out = sess.out \o <<Line(t), End(t)>>, !.asked = <<>>]
          \/ sess' = [sess EXCEPT !.alive = FALSE, !.out = Append(sess.out, Line(t))]
      BY <1>2, <3>3 DEF Evaluates
    <3>5. sess.out \o <<Line(t), End(t)>> = <<Line(t), End(t)>> /\ Append(sess.out, Line(t)) = <<Line(t)>>
      BY <3>2 DEF Shape
    <3>6. \/ sess'.out = <<Line(t), End(t)>> /\ sess'.asked = <<>>
          \/ sess'.out = <<Line(t)>> /\ sess'.asked = <<t>> /\ ~sess'.alive
      BY <1>t, <3>2, <3>4, <3>5 DEF Sessions, Shape
    <3>7. running.got = <<>> BY <3>2 DEF Shape
    <3>8. Good' BY <2>r, <3>2, <3>6, <3>7 DEF Expected, Shape
    <3> QED BY <1>0, <1>r, <2>r, <3>8 DEF StreamInv
  <2> QED BY <2>1, <2>2
<1>3. CASE SessionDies
  <2>1. /\ sess' = [sess EXCEPT !.alive = FALSE] /\ running' = running /\ result' = result
        /\ sess.alive
    BY <1>3 DEF SessionDies
  <2>2. /\ sess'.left = sess.left /\ sess'.asked = sess.asked /\ sess'.out = sess.out
    BY <1>t, <2>1 DEF Sessions
  <2>3. Good' BY <1>g, <2>1, <2>2 DEF Expected, Shape
  <2> QED BY <1>0, <1>r, <2>1, <2>3 DEF StreamInv
<1>4. CASE Reads
  <2> DEFINE l == Head(sess.out)
             more == Append(running.got, l)
  <2>1. /\ running # NoRun /\ sess.out # <<>>
        /\ sess' = [sess EXCEPT !.out = Tail(sess.out)]
        /\ IF l = End(t)
           THEN result' = [token |-> t, got |-> running.got, left |-> sess.left] /\ running' = NoRun
           ELSE running' = [running EXCEPT !.got = more] /\ UNCHANGED result
    BY <1>4 DEF Reads, Waiting
  <2>2. /\ sess'.left = sess.left /\ sess'.asked = sess.asked /\ sess'.out = Tail(sess.out)
        /\ sess'.alive = sess.alive
    BY <1>t, <2>1 DEF Sessions
  <2>3. CASE sess.left
    <3>1. Good' BY <2>2, <2>3
    <3>2. OwnOutput' BY <1>r, <2>1, <2>3 DEF OwnOutput
    <3> QED BY <1>0, <3>1, <3>2 DEF StreamInv
  <2>4. CASE ~sess.left
    <3>0. Line(t) # End(t) BY DEF Line, End
    <3>1. \/ Shape(sess, running, <<>>, <<Line(t), End(t)>>, <<>>)
          \/ Shape(sess, running, <<>>, <<End(t)>>, <<Line(t)>>)
          \/ ~sess.alive /\ Shape(sess, running, <<t>>, <<Line(t)>>, <<>>)
      BY <1>g, <2>1, <2>4 DEF Expected, Shape
    <3>2. CASE Shape(sess, running, <<>>, <<End(t)>>, <<Line(t)>>)
      <4>1. l = End(t) /\ Tail(sess.out) = <<>> BY <3>2 DEF Shape
      <4>2. running' = NoRun /\ result' = [token |-> t, got |-> <<Line(t)>>, left |-> sess.left]
        BY <2>1, <3>2, <4>1 DEF Shape
      <4>3. Good' BY <2>2, <3>2, <4>1, <4>2 DEF Expected, Shape
      <4>4. OwnOutput' BY <4>2 DEF OwnOutput
      <4> QED BY <1>0, <4>3, <4>4 DEF StreamInv
    <3>3. CASE Shape(sess, running, <<>>, <<Line(t), End(t)>>, <<>>)
      <4>1. l = Line(t) /\ Tail(sess.out) = <<End(t)>> /\ more = <<Line(t)>> BY <3>3 DEF Shape
      <4>2. running' = [running EXCEPT !.got = <<Line(t)>>] /\ result' = result
        BY <2>1, <3>0, <4>1
      <4>3. running'.token = t /\ running'.got = <<Line(t)>> /\ running' # NoRun
        BY <1>t, <2>1, <4>2 DEF RunsOfIt, NoRun
      <4>4. Good' BY <2>2, <3>3, <4>1, <4>3 DEF Expected, Shape
      <4> QED BY <1>0, <1>r, <4>2, <4>4 DEF StreamInv
    <3>4. CASE ~sess.alive /\ Shape(sess, running, <<t>>, <<Line(t)>>, <<>>)
      <4>1. l = Line(t) /\ Tail(sess.out) = <<>> /\ more = <<Line(t)>> BY <3>4 DEF Shape
      <4>2. running' = [running EXCEPT !.got = <<Line(t)>>] /\ result' = result
        BY <2>1, <3>0, <4>1
      <4>3. running'.token = t /\ running'.got = <<Line(t)>> /\ running' # NoRun
        BY <1>t, <2>1, <4>2 DEF RunsOfIt, NoRun
      <4>4. Good' BY <2>2, <3>4, <4>1, <4>3 DEF Expected, Shape
      <4> QED BY <1>0, <1>r, <4>2, <4>4 DEF StreamInv
    <3> QED BY <3>1, <3>2, <3>3, <3>4
  <2> QED BY <2>3, <2>4
<1>5. CASE TimesOut \/ SeesDeath \/ Closes
  <2>1. sess' = NoSession /\ running' = NoRun /\ result' = result
    BY <1>5 DEF TimesOut, SeesDeath, Closes, Killed, Waiting
  <2> QED BY <1>0, <1>n, <1>r, <2>1 DEF StreamInv, Expected
<1>6. CASE Cancelled
  <2>1. sess'.left /\ result' = result BY <1>6, <1>t DEF Cancelled, Sessions
  <2> QED BY <1>0, <1>r, <2>1 DEF StreamInv
<1>7. CASE UNCHANGED streamVars BY <1>0, <1>7, <1>g, <1>r DEF streamVars, StreamInv
<1> QED BY <1>1, <1>2, <1>3, <1>4, <1>5, <1>6, <1>7 DEF StreamNext

-----------------------------------------------------------------------------
(* The invariant of the collectors holds at first ...                        *)
LEMMA CollectorsStart == GoInit => CollectorsInv
<1> SUFFICES ASSUME GoInit PROVE CollectorsInv
  OBVIOUS
<1>1. MaxCount \in Nat /\ NoReading \in Nat BY CollectorsAssumption DEF NoReading
<1>2. 0 \in Versions /\ 0 \in 0..MaxCount /\ NoReading \in 0..NoReading
  BY <1>1, CollectorsAssumption DEF Versions
<1>3. frame \in [todo : Seq(Definitions), stored : BOOLEAN, changed : BOOLEAN] /\ ~frame.stored
  BY DEF GoInit, NoFrame
<1>4. reload \in [Callers -> Reloads] /\ \A c \in Callers : reload[c].want = {}
  BY DEF GoInit, Quiet, Reloads
<1>5. CollectorsTyped
  <2>1. defs \in [Ids -> Versions] /\ cache \in [Ids -> Versions] BY <1>2 DEF GoInit
  <2>2. /\ raw \in [Ids -> 0..MaxCount] /\ grown \in [Ids -> 0..MaxCount]
        /\ \A i \in Ids : raw[i] <= grown[i]
    BY <1>2 DEF GoInit
  <2>3. prev \in [Ids -> 0..NoReading] /\ sent \in [Ids -> Nat] BY <1>2 DEF GoInit
  <2>4. up \in BOOLEAN /\ loops = {} /\ overlap = {} BY DEF GoInit
  <2> QED BY <1>3, <1>4, <2>1, <2>2, <2>3, <2>4 DEF CollectorsTyped
<1>6. OneVersion /\ OneLoop(loops, overlap) BY <1>4 DEF GoInit, OneVersion, OneLoop
<1>7. \A i \in Ids : Covered(i) BY DEF GoInit, Covered
<1> QED BY <1>5, <1>6, <1>7 DEF GoInit, CollectorsInv

(* ... of its types every step keeps ...                                     *)
LEMMA CollectorsTypeStep ==
  ASSUME CollectorsTyped, OneVersion, [CollectorsNext]_collectorVars
  PROVE  CollectorsTyped' /\ OneVersion'
<1> USE DEF storeVars, engineVars, countVars, reportVars
<1>0. /\ MaxCount \in Nat /\ NoReading \in Nat /\ NoReading = MaxCount + 1 /\ MaxVersion \in Nat
      /\ Bundled \in [Ids -> Versions] /\ ForHere \subseteq Definitions
      /\ Versions \subseteq Nat /\ 1..MaxVersion \subseteq Versions
  BY CollectorsAssumption DEF NoReading, Versions, Definitions
<1>q. Quiet \in Reloads /\ Quiet.want = {} BY DEF Quiet, Reloads
<1>f. NoFrame \in [todo : Seq(Definitions), stored : BOOLEAN, changed : BOOLEAN] /\ ~NoFrame.stored
  BY DEF NoFrame
<1>1. CASE GoStarts
  <2>1. defs' \in [Ids -> Versions]
    BY <1>0, <1>1 DEF GoStarts, CollectorsTyped, Newer
  <2>2. reload' = [reload EXCEPT !["engine"].at = "due"] BY <1>1 DEF GoStarts
  <2>3. reload' \in [Callers -> Reloads] /\ \A c \in Callers : reload'[c].want = reload[c].want
    BY <2>2 DEF CollectorsTyped, Reloads, Callers
  <2> QED BY <1>1, <2>1, <2>3 DEF GoStarts, CollectorsTyped, OneVersion
<1>2. CASE GoDies
  <2>1. /\ up' = FALSE /\ frame' = NoFrame /\ loops' = {}
        /\ UNCHANGED <<defs, cache, overlap, raw, grown, sent>>
    BY <1>2 DEF GoDies
  <2>2. reload' \in [Callers -> Reloads] /\ \A c \in Callers : reload'[c].want = {}
    BY <1>2, <1>q DEF GoDies
  <2>3. NoReading \in 0..NoReading BY <1>0
  <2>4. prev' \in [Ids -> 0..NoReading] BY <1>2, <2>3 DEF GoDies
  <2>5. OneVersion' BY <2>2 DEF OneVersion
  <2> QED BY <1>f, <2>1, <2>2, <2>4, <2>5 DEF CollectorsTyped
<1>3. ASSUME NEW todo \in Frames, FrameArrives(todo)
      PROVE  CollectorsTyped' /\ OneVersion'
  <2>0. PICK d \in Definitions : todo = <<d>> BY DEF Frames, Definitions
  <2>1. todo \in Seq(Definitions) BY <2>0
  <2>2. frame' \in [todo : Seq(Definitions), stored : BOOLEAN, changed : BOOLEAN] /\ ~frame'.stored
    BY <1>3, <2>1 DEF FrameArrives, NoFrame
  <2> QED BY <1>3, <2>2 DEF FrameArrives, CollectorsTyped, OneVersion
<1>4. CASE Installs
  <2> DEFINE d == Head(frame.todo)
             tail == Tail(frame.todo)
  <2>1. d \in Definitions /\ tail \in Seq(Definitions) /\ frame.todo # <<>>
    BY <1>4 DEF Installs, CollectorsTyped
  <2>2. \/ /\ defs' = [defs EXCEPT ![d[1]] = d[2]]
           /\ frame' = [frame EXCEPT !.stored = TRUE, !.changed = TRUE]
        \/ frame' = [frame EXCEPT !.todo = tail] /\ defs' = defs /\ ~frame.stored
    BY <1>4 DEF Installs
  <2>3. UNCHANGED <<up, cache, engineVars, countVars, reportVars>> BY <1>4 DEF Installs
  <2> HIDE DEF d, tail
  <2>4. defs' \in [Ids -> Versions] BY <1>0, <2>1, <2>2 DEF CollectorsTyped, Definitions
  <2>5. /\ frame' \in [todo : Seq(Definitions), stored : BOOLEAN, changed : BOOLEAN]
        /\ frame'.stored => frame'.todo # <<>>
    BY <2>1, <2>2 DEF CollectorsTyped
  <2> QED BY <2>3, <2>4, <2>5 DEF CollectorsTyped, OneVersion
<1>5. CASE Persists
  <2> DEFINE d == Head(frame.todo)
             tail == Tail(frame.todo)
  <2>1. d \in Definitions /\ tail \in Seq(Definitions)
    BY <1>5 DEF Persists, CollectorsTyped
  <2>2. /\ cache' \in {cache, [cache EXCEPT ![d[1]] = d[2]]}
        /\ frame' = [frame EXCEPT !.todo = tail, !.stored = FALSE]
        /\ UNCHANGED <<up, defs, engineVars, countVars, reportVars>>
    BY <1>5 DEF Persists
  <2> HIDE DEF d, tail
  <2>4. cache' \in [Ids -> Versions] BY <1>0, <2>1, <2>2 DEF CollectorsTyped, Definitions
  <2>5. /\ frame' \in [todo : Seq(Definitions), stored : BOOLEAN, changed : BOOLEAN]
        /\ ~frame'.stored
    BY <2>1, <2>2 DEF CollectorsTyped
  <2> QED BY <2>2, <2>4, <2>5 DEF CollectorsTyped, OneVersion
<1>6. CASE FrameDone
  <2>1. reload' = [reload EXCEPT !["reader"].at = "due"] \/ reload' = reload
    BY <1>6 DEF FrameDone
  <2>a. CASE reload' = reload BY <1>6, <1>f, <2>a DEF FrameDone, CollectorsTyped, OneVersion
  <2>b. CASE reload' = [reload EXCEPT !["reader"].at = "due"]
    <3>1. reload' \in [Callers -> Reloads] /\ \A c \in Callers : reload'[c].want = reload[c].want
      BY <2>b DEF CollectorsTyped, Reloads, Callers
    <3> QED BY <1>6, <1>f, <3>1 DEF FrameDone, CollectorsTyped, OneVersion
  <2> QED BY <2>1, <2>a, <2>b
<1>7. ASSUME NEW c \in Callers, Lists(c)
      PROVE  CollectorsTyped' /\ OneVersion'
  <2> DEFINE want == {d \in ForHere : defs[d[1]] = d[2]}
  <2>1. /\ reload' = [reload EXCEPT ![c] = [at |-> "listed", want |-> want]]
        /\ UNCHANGED <<up, storeVars, loops, overlap, countVars, reportVars>>
    BY <1>7 DEF Lists
  <2>2. want \in SUBSET ForHere /\ \A d, e \in want : d[1] = e[1] => d = e
    BY <1>0 DEF Definitions
  <2> HIDE DEF want
  <2>3. reload' \in [Callers -> Reloads] BY <2>1, <2>2 DEF CollectorsTyped, Reloads
  <2>4. OneVersion' BY <2>1, <2>2 DEF CollectorsTyped, OneVersion
  <2> QED BY <2>1, <2>3, <2>4 DEF CollectorsTyped
<1>8. ASSUME NEW c \in Callers, Syncs(c)
      PROVE  CollectorsTyped' /\ OneVersion'
  <2>1. /\ reload' = [reload EXCEPT ![c] = Quiet]
        /\ UNCHANGED <<up, storeVars, countVars, reportVars>>
    BY <1>8 DEF Syncs
  <2>2. reload' \in [Callers -> Reloads] /\ OneVersion'
    BY <1>q, <2>1 DEF CollectorsTyped, OneVersion
  <2>3. loops' \subseteq Goroutines /\ overlap' \subseteq Ids
    <3> DEFINE kept == {IF l.live /\ l.id \notin Wanted(c) THEN [l EXCEPT !.live = FALSE] ELSE l :
                          l \in loops}
               new == {d \in reload[c].want : LoopOf(d[1]) = {}}
               Begun(d) == [id |-> d[1], version |-> d[2], live |-> TRUE,
                            at |-> "begins", value |-> NoReading]
    <3>1. /\ loops' = kept \cup {Begun(d) : d \in new}
          /\ overlap' = overlap \cup {d[1] : d \in {d \in new : \E l \in kept : l.id = d[1]}}
      BY <1>8 DEF Syncs
    <3>2. new \subseteq Definitions BY <1>0 DEF CollectorsTyped, Reloads
    <3>0. \A l \in loops : l \in Goroutines /\ [l EXCEPT !.live = FALSE] \in Goroutines
      BY DEF CollectorsTyped, Goroutines
    <3>3. kept \subseteq Goroutines
      <4> HIDE DEF Goroutines
      <4> QED BY <3>0
    <3>4. \A d \in new : Begun(d) \in Goroutines /\ d[1] \in Ids
      <4> HIDE DEF new
      <4> QED BY <1>0, <3>2 DEF Goroutines, Definitions, LoopStates
    <3> HIDE DEF kept, new, Begun
    <3> QED BY <3>1, <3>3, <3>4 DEF CollectorsTyped
  <2> QED BY <2>1, <2>2, <2>3 DEF CollectorsTyped
<1>9. ASSUME NEW l \in loops, Ticks(l) \/ Executed(l) \/ Reported(l)
      PROVE  CollectorsTyped' /\ OneVersion'
  <2>1. l \in Goroutines /\ l.id \in Ids /\ raw[l.id] \in 0..NoReading
    BY <1>0 DEF CollectorsTyped, Goroutines
  <2>2. loops' \subseteq Goroutines
    <3>1. \/ loops' = (loops \ {l}) \cup {[l EXCEPT !.at = "executes"]}
          \/ loops' = loops \ {l}
          \/ loops' = (loops \ {l}) \cup {[l EXCEPT !.at = "reads", !.value = raw[l.id]]}
          \/ loops' = (loops \ {l}) \cup {[l EXCEPT !.at = "waits"]}
          \/ loops' = (loops \ {l}) \cup {[l EXCEPT !.at = "waits", !.value = NoReading]}
      BY <1>9 DEF Ticks, Executed, Reported, Becomes, Turns
    <3> DEFINE v == raw[l.id]
    <3>v. v \in 0..NoReading /\ NoReading \in 0..NoReading BY <1>0, <2>1
    <3>a. [l EXCEPT !.at = "executes"] \in Goroutines BY <2>1 DEF Goroutines, LoopStates
    <3>b. [l EXCEPT !.at = "waits"] \in Goroutines BY <2>1 DEF Goroutines, LoopStates
    <3>c. [l EXCEPT !.at = "reads", !.value = v] \in Goroutines
      <4> HIDE DEF v
      <4> QED BY <2>1, <3>v DEF Goroutines, LoopStates
    <3>d. [l EXCEPT !.at = "waits", !.value = NoReading] \in Goroutines
      BY <2>1, <3>v DEF Goroutines, LoopStates
    <3> QED BY <3>1, <3>a, <3>b, <3>c, <3>d DEF CollectorsTyped
  <2>3. prev' \in [Ids -> 0..NoReading] /\ sent' \in [Ids -> Nat]
    <3>1. CASE Ticks(l) \/ Executed(l) BY <3>1 DEF Ticks, Executed, CollectorsTyped
    <3>2. CASE Reported(l)
      <4> DEFINE delta == Delta(l.id, l.value)
      <4>1. l.value \in 0..NoReading /\ prev[l.id] \in 0..NoReading
        BY <2>1 DEF Goroutines, CollectorsTyped
      <4>2. delta \in Nat BY <1>0, <4>1 DEF Delta
      <4>3. /\ prev' = [prev EXCEPT ![l.id] = l.value]
            /\ sent' \in {sent, [sent EXCEPT ![l.id] = @ + delta]}
        BY <3>2 DEF Reported, LastReading
      <4> HIDE DEF delta
      <4>4. prev' \in [Ids -> 0..NoReading] BY <2>1, <4>1, <4>3 DEF CollectorsTyped
      <4>5. sent' \in [Ids -> Nat]
        <5>1. sent \in [Ids -> Nat] /\ sent[l.id] + delta \in Nat
          BY <2>1, <4>2 DEF CollectorsTyped
        <5> QED BY <2>1, <4>3, <5>1
      <4> QED BY <4>4, <4>5
    <3> QED BY <1>9, <3>1, <3>2
  <2>4. UNCHANGED <<up, storeVars, reload, overlap, countVars>>
    BY <1>9 DEF Ticks, Executed, Reported
  <2> QED BY <2>2, <2>3, <2>4 DEF CollectorsTyped, OneVersion
<1>10. ASSUME NEW i \in Ids, Counts(i) \/ CounterResets(i)
       PROVE  CollectorsTyped' /\ OneVersion'
  <2>1. /\ raw' \in [Ids -> 0..MaxCount] /\ grown' \in [Ids -> 0..MaxCount]
        /\ \A j \in Ids : raw'[j] <= grown'[j]
    <3>0. /\ raw \in [Ids -> 0..MaxCount] /\ grown \in [Ids -> 0..MaxCount]
          /\ \A j \in Ids : raw[j] <= grown[j]
      BY DEF CollectorsTyped
    <3>1. CASE Counts(i)
      <4>1. /\ raw' = [raw EXCEPT ![i] = @ + 1] /\ grown' = [grown EXCEPT ![i] = @ + 1]
            /\ grown[i] < MaxCount
        BY <3>1 DEF Counts
      <4>2. raw[i] + 1 \in 0..MaxCount /\ grown[i] + 1 \in 0..MaxCount BY <1>0, <3>0, <4>1
      <4> QED BY <1>0, <3>0, <4>1, <4>2
    <3>2. CASE CounterResets(i)
      <4>1. raw' = [raw EXCEPT ![i] = 0] /\ grown' = grown BY <3>2 DEF CounterResets
      <4> QED BY <1>0, <3>0, <4>1
    <3> QED BY <1>10, <3>1, <3>2
  <2>2. UNCHANGED <<up, storeVars, engineVars, reportVars>>
    BY <1>10 DEF Counts, CounterResets
  <2> QED BY <2>1, <2>2 DEF CollectorsTyped, OneVersion
<1>11. CASE UNCHANGED collectorVars BY <1>11 DEF collectorVars, CollectorsTyped, OneVersion
<1> QED
  BY <1>1, <1>2, <1>3, <1>4, <1>5, <1>6, <1>7, <1>8, <1>9, <1>10, <1>11 DEF CollectorsNext

(* One loop goes on, or ends: no second one of its collector comes of it.    *)
LEMMA LoopGoesOn ==
  ASSUME OneLoop(loops, overlap), NEW l \in loops, NEW next,
         \A m, n \in next : m = n, \A m \in next : m.id = l.id
  PROVE  OneLoop((loops \ {l}) \cup next, overlap)
BY DEF OneLoop

(* ... and of the loops and what they counted.                               *)
LEMMA CollectorsStep == CollectorsInv /\ [CollectorsNext]_collectorVars => CollectorsInv'
<1> SUFFICES ASSUME CollectorsInv, [CollectorsNext]_collectorVars PROVE CollectorsInv'
  OBVIOUS
<1> DEFINE Now == \A i \in Ids \ overlap : Covered(i)
           OnItsWay == \A l \in loops : l.at = "reads" /\ l.id \notin overlap
                                          => CoveredBy(l.id, l.value)
           One == OneLoop(loops, overlap)
<1>0. CollectorsTyped /\ OneVersion /\ One /\ Now /\ OnItsWay BY DEF CollectorsInv
<1>t. CollectorsTyped' /\ OneVersion' BY <1>0, CollectorsTypeStep
<1>s. /\ raw \in [Ids -> Nat] /\ grown \in [Ids -> Nat] /\ prev \in [Ids -> Nat]
      /\ sent \in [Ids -> Nat] /\ NoReading \in Nat /\ MaxCount \in Nat
      /\ NoReading = MaxCount + 1
      /\ \A l \in loops : l.id \in Ids /\ l.value \in Nat
      /\ \A i \in Ids : raw[i] <= grown[i] /\ raw[i] # NoReading
  BY CollectorsAssumption DEF CollectorsTyped, Goroutines, NoReading, CollectorsInv
<1>c. ASSUME UNCHANGED <<raw, grown, prev, sent>>
      PROVE  \A i, v : (Covered(i)' <=> Covered(i)) /\ (CoveredBy(i, v)' <=> CoveredBy(i, v))
  BY <1>c DEF Covered, CoveredBy
<1> USE DEF storeVars, engineVars, countVars, reportVars
<1>1. ASSUME UNCHANGED <<raw, grown, prev, sent, loops, overlap>>
      PROVE  CollectorsInv'
  BY <1>0, <1>t, <1>1, <1>c DEF CollectorsInv
<1>2. CASE GoDies
  <2>1. /\ loops' = {} /\ prev' = [i \in Ids |-> NoReading]
        /\ UNCHANGED <<raw, grown, sent, overlap>>
    BY <1>2 DEF GoDies
  <2>2. Now' BY <1>0, <2>1 DEF Covered
  <2> QED BY <1>t, <2>1, <2>2 DEF CollectorsInv, OneLoop
<1>3. ASSUME NEW c \in Callers, Syncs(c) PROVE CollectorsInv'
  <2> DEFINE kept == {IF l.live /\ l.id \notin Wanted(c) THEN [l EXCEPT !.live = FALSE] ELSE l :
                        l \in loops}
             new == {d \in reload[c].want : LoopOf(d[1]) = {}}
             Begun(d) == [id |-> d[1], version |-> d[2], live |-> TRUE,
                          at |-> "begins", value |-> NoReading]
             clash == {d[1] : d \in {d \in new : \E l \in kept : l.id = d[1]}}
  <2>1. /\ loops' = kept \cup {Begun(d) : d \in new} /\ overlap' = overlap \cup clash
        /\ UNCHANGED <<raw, grown, prev, sent>>
    BY <1>3 DEF Syncs
  <2>2. \A k \in kept : \E l \in loops : /\ k.id = l.id /\ k.at = l.at /\ k.value = l.value
                                         /\ \A m \in loops : l = m => k.id = m.id
    <3> TAKE k \in kept
    <3>1. PICK l \in loops :
            k = IF l.live /\ l.id \notin Wanted(c) THEN [l EXCEPT !.live = FALSE] ELSE l
      OBVIOUS
    <3>2. l \in Goroutines BY <1>0 DEF CollectorsTyped
    <3> QED BY <3>1, <3>2 DEF Goroutines
  <2>3. OneLoop(kept, overlap)
    <3> SUFFICES ASSUME NEW j \in kept, NEW k \in kept, j.id = k.id, j.id \notin overlap
                 PROVE  j = k
      BY DEF OneLoop
    <3>1. PICK l \in loops :
            j = IF l.live /\ l.id \notin Wanted(c) THEN [l EXCEPT !.live = FALSE] ELSE l
      OBVIOUS
    <3>2. PICK m \in loops :
            k = IF m.live /\ m.id \notin Wanted(c) THEN [m EXCEPT !.live = FALSE] ELSE m
      OBVIOUS
    <3>3. l \in Goroutines /\ m \in Goroutines BY <1>0 DEF CollectorsTyped
    <3>4. j.id = l.id /\ k.id = m.id BY <3>1, <3>2, <3>3 DEF Goroutines
    <3>5. l = m BY <1>0, <3>4 DEF OneLoop
    <3> QED BY <3>1, <3>2, <3>5
  <2>4. \A d, e \in new : d[1] = e[1] => d = e BY <1>0 DEF OneVersion
  <2>5. \A d \in new : d[1] \notin overlap' => \A k \in kept : k.id # d[1]
    BY <2>1
  <2>6. \A d \in new : Begun(d).id = d[1] /\ Begun(d).at = "begins" OBVIOUS
  <2> HIDE DEF kept, new, Begun, clash
  <2>7. One'
    <3> SUFFICES ASSUME NEW l \in loops', NEW m \in loops', l.id = m.id, l.id \notin overlap'
                 PROVE  l = m
      BY DEF OneLoop
    <3>1. l.id \notin overlap BY <2>1
    <3>2. CASE l \in kept /\ m \in kept BY <2>3, <3>1, <3>2 DEF OneLoop
    <3>3. CASE l \notin kept
      <4>1. PICK d \in new : l = Begun(d) BY <2>1, <3>3
      <4>2. m \notin kept BY <2>5, <2>6, <4>1
      <4>3. PICK e \in new : m = Begun(e) BY <2>1, <4>2
      <4> QED BY <2>4, <2>6, <4>1, <4>3
    <3>4. CASE m \notin kept
      <4>1. PICK d \in new : m = Begun(d) BY <2>1, <3>4
      <4>2. l \notin kept BY <2>5, <2>6, <4>1
      <4> QED BY <3>3, <4>2
    <3> QED BY <3>2, <3>3, <3>4
  <2>8. Now' BY <1>0, <1>c, <2>1
  <2>9. OnItsWay'
    <3> SUFFICES ASSUME NEW l \in loops', l.at = "reads", l.id \notin overlap'
                 PROVE  CoveredBy(l.id, l.value)'
      OBVIOUS
    <3>1. l \in kept BY <2>1, <2>6
    <3>2. PICK m \in loops : l.id = m.id /\ l.at = m.at /\ l.value = m.value BY <2>2, <3>1
    <3>3. l.id \notin overlap BY <2>1
    <3>4. CoveredBy(l.id, l.value) BY <1>0, <3>2, <3>3
    <3> QED BY <1>c, <2>1, <3>4
  <2> QED BY <1>t, <2>7, <2>8, <2>9 DEF CollectorsInv
<1>4. ASSUME NEW l \in loops, Ticks(l) \/ Executed(l) PROVE CollectorsInv'
  <2>0. UNCHANGED <<raw, grown, prev, sent, overlap>> BY <1>4 DEF Ticks, Executed
  <2>1. PICK next : /\ loops' = (loops \ {l}) \cup next
                    /\ \A m, n \in next : m = n
                    /\ \A m \in next : m.id = l.id /\ (m.at = "reads" => m.value = raw[l.id])
    <3>0. l \in Goroutines BY <1>0 DEF CollectorsTyped
    <3>1. \/ loops' = (loops \ {l}) \cup {[l EXCEPT !.at = "executes"]}
          \/ loops' = (loops \ {l}) \cup {}
          \/ loops' = (loops \ {l}) \cup {[l EXCEPT !.at = "reads", !.value = raw[l.id]]}
          \/ loops' = (loops \ {l}) \cup {[l EXCEPT !.at = "waits"]}
      BY <1>4 DEF Ticks, Executed, Becomes, Turns
    <3> DEFINE a == [l EXCEPT !.at = "executes"]
               b == [l EXCEPT !.at = "reads", !.value = raw[l.id]]
               w == [l EXCEPT !.at = "waits"]
    <3>2. /\ a.id = l.id /\ a.at = "executes" /\ b.id = l.id /\ b.value = raw[l.id]
          /\ w.id = l.id /\ w.at = "waits"
      BY <3>0 DEF Goroutines
    <3>3. loops' = (loops \ {l}) \cup {a} \/ loops' = (loops \ {l}) \cup {}
          \/ loops' = (loops \ {l}) \cup {b} \/ loops' = (loops \ {l}) \cup {w}
      BY <3>1
    <3> HIDE DEF a, b, w
    <3>4. PICK next \in {{a}, {}, {b}, {w}} : loops' = (loops \ {l}) \cup next BY <3>3
    <3>5. /\ \A m, n \in next : m = n
          /\ \A m \in next : m.id = l.id /\ (m.at = "reads" => m.value = raw[l.id])
      BY <3>2, <3>4
    <3> QED BY <3>4, <3>5
  <2>2. One' BY <1>0, <2>0, <2>1, LoopGoesOn
  <2>3. Now' BY <1>0, <1>c, <2>0
  <2>4. OnItsWay'
    <3> SUFFICES ASSUME NEW m \in loops', m.at = "reads", m.id \notin overlap'
                 PROVE  CoveredBy(m.id, m.value)'
      OBVIOUS
    <3>1. CASE m \in loops BY <1>0, <1>c, <2>0, <3>1
    <3>2. CASE m \notin loops
      <4>1. m.id = l.id /\ m.value = raw[l.id] BY <2>1, <3>2
      <4>2. Covered(l.id) /\ l.id \in Ids BY <1>0, <1>s, <2>0, <4>1
      <4>3. CoveredBy(l.id, raw[l.id]) BY <1>s, <4>2 DEF Covered, CoveredBy
      <4> QED BY <1>c, <2>0, <4>1, <4>3
    <3> QED BY <3>1, <3>2
  <2> QED BY <1>t, <2>2, <2>3, <2>4 DEF CollectorsInv
<1>5. ASSUME NEW l \in loops, Reported(l) PROVE CollectorsInv'
  <2> DEFINE i == l.id
             v == l.value
             next == [l EXCEPT !.at = "waits", !.value = NoReading]
             delta == Delta(i, v)
  <2>1. /\ l.at = "reads" /\ prev' = [prev EXCEPT ![i] = v]
        /\ sent' \in {sent, [sent EXCEPT ![i] = @ + delta]}
        /\ loops' = (loops \ {l}) \cup {next}
        /\ UNCHANGED <<raw, grown, overlap>>
    BY <1>5 DEF Reported, Becomes, LastReading
  <2>2. i \in Ids /\ v \in Nat /\ l \in Goroutines BY <1>0, <1>s DEF CollectorsTyped
  <2>3. next.id = i /\ next.at = "waits" BY <2>2 DEF Goroutines
  <2>4. One'
    <3>1. \A m, n \in {next} : m = n OBVIOUS
    <3>2. \A m \in {next} : m.id = l.id BY <2>3
    <3> HIDE DEF next
    <3> QED BY <1>0, <2>1, <3>1, <3>2, LoopGoesOn
  <2>5. i \notin overlap => /\ sent'[i] <= grown[i] /\ sent'[i] + raw[i] <= grown[i] + v
    <3> SUFFICES ASSUME i \notin overlap
                 PROVE  sent'[i] <= grown[i] /\ sent'[i] + raw[i] <= grown[i] + v
      OBVIOUS
    <3>1. CoveredBy(i, v) /\ Covered(i) BY <1>0, <2>1, <2>2
    <3>2. sent'[i] = sent[i] \/ sent'[i] = sent[i] + delta BY <1>s, <2>1, <2>2
    <3>3. delta = IF prev[i] # NoReading /\ v > prev[i] THEN v - prev[i] ELSE 0 BY DEF Delta
    <3>4. sent[i] \in Nat /\ raw[i] \in Nat /\ grown[i] \in Nat /\ prev[i] \in Nat
      BY <1>s, <2>2
    <3> HIDE DEF i, v, delta
    <3> QED BY <2>2, <3>1, <3>2, <3>3, <3>4 DEF Covered, CoveredBy
  <2>6. \A j \in Ids : j # i => sent'[j] = sent[j] /\ prev'[j] = prev[j]
    BY <1>s, <2>1, <2>2
  <2>7. prev'[i] = v BY <1>s, <2>1, <2>2
  <2> HIDE DEF v, next, delta
  <2>8. Now'
    <3> SUFFICES ASSUME NEW j \in Ids \ overlap PROVE Covered(j)'
      BY <2>1
    <3>1. CASE j = i BY <2>1, <2>5, <2>7, <3>1 DEF Covered
    <3>2. CASE j # i
      <4>1. Covered(j) BY <1>0
      <4>2. sent'[j] = sent[j] /\ prev'[j] = prev[j] BY <2>6, <3>2
      <4> QED BY <2>1, <4>1, <4>2 DEF Covered
    <3> QED BY <3>1, <3>2
  <2>9. OnItsWay'
    <3> SUFFICES ASSUME NEW m \in loops', m.at = "reads", m.id \notin overlap'
                 PROVE  CoveredBy(m.id, m.value)'
      OBVIOUS
    <3>1. m \in loops /\ m # l BY <2>1, <2>3
    <3>2. m.id # i BY <1>0, <2>1, <3>1 DEF OneLoop
    <3>3. CoveredBy(m.id, m.value) /\ m.id \in Ids BY <1>0, <1>s, <2>1, <3>1
    <3>4. sent'[m.id] = sent[m.id] /\ prev'[m.id] = prev[m.id] BY <2>6, <3>2, <3>3
    <3> QED BY <2>1, <3>3, <3>4 DEF CoveredBy
  <2> QED BY <1>t, <2>4, <2>8, <2>9 DEF CollectorsInv
<1>6. ASSUME NEW i \in Ids, Counts(i) \/ CounterResets(i) PROVE CollectorsInv'
  <2>1. /\ UNCHANGED <<loops, overlap, prev, sent>>
        /\ \A j \in Ids : /\ raw'[j] \in Nat /\ grown'[j] \in Nat /\ grown[j] <= grown'[j]
                          /\ raw'[j] - grown'[j] <= raw[j] - grown[j]
    BY <1>s, <1>6 DEF Counts, CounterResets
  <2>2. Now' BY <1>0, <1>s, <2>1 DEF Covered
  <2>3. OnItsWay' BY <1>0, <1>s, <2>1 DEF CoveredBy
  <2> QED BY <1>0, <1>t, <2>1, <2>2, <2>3 DEF CollectorsInv
<1>7. CASE GoStarts BY <1>1, <1>7 DEF GoStarts
<1>8. ASSUME NEW todo \in Frames, FrameArrives(todo) PROVE CollectorsInv'
  BY <1>1, <1>8 DEF FrameArrives
<1>9. CASE Installs \/ Persists \/ FrameDone BY <1>1, <1>9 DEF Installs, Persists, FrameDone
<1>10. ASSUME NEW c \in Callers, Lists(c) PROVE CollectorsInv' BY <1>1, <1>10 DEF Lists
<1>11. CASE UNCHANGED collectorVars BY <1>1, <1>11 DEF collectorVars
<1> QED
  BY <1>2, <1>3, <1>4, <1>5, <1>6, <1>7, <1>8, <1>9, <1>10, <1>11 DEF CollectorsNext

(* Together they imply what the runs check.                                  *)
LEMMA GoInvIsEnough ==
  CollectorsInv /\ StreamInv /\ UpgradeInv => GoIsHonest
<1> SUFFICES ASSUME CollectorsInv, StreamInv, UpgradeInv PROVE GoIsHonest
  OBVIOUS
<1>1. CollectorsTypeOK
  BY DEF CollectorsInv, CollectorsTyped, CollectorsTypeOK, Definitions, Goroutines, LoopStates, Reloads
<1>2. CountedOnce BY DEF CollectorsInv, Covered, CountedOnce
<1>3. StreamTypeOK /\ OwnOutput
  BY DEF StreamInv, StreamTyped, StreamTypeOK, Sessions, RunsOfIt, OutLines
<1>4. UpgradeTypeOK /\ BinaryWhole BY DEF UpgradeInv, BinaryWhole
<1> QED BY <1>1, <1>2, <1>3, <1>4 DEF GoIsHonest

(* The Go agent tells of every count once, gives a body its own output and   *)
(* leaves a binary to start, for every number of collectors, bodies and      *)
(* releases (collect/manager.go, psstream, update).                          *)
THEOREM GoAgentIsHonest == CollectorsSpec /\ StreamSpec /\ UpgradeSpec => []GoIsHonest
<1>1. CollectorsInv /\ [CollectorsNext]_collectorVars => CollectorsInv' BY CollectorsStep
<1>2. StreamInv /\ [StreamNext]_streamVars => StreamInv' BY StreamStep
<1>3. UpgradeInv /\ [UpgradeNext]_upgradeVars => UpgradeInv' BY UpgradeStep
<1> QED
  BY <1>1, <1>2, <1>3, CollectorsStart, StreamStarts, UpgradeStarts, GoInvIsEnough, PTL
  DEF CollectorsSpec, StreamSpec, UpgradeSpec

-----------------------------------------------------------------------------
(* SnmpPolling.  What a command is owed it is owed of devices as they are     *)
(* assigned now; of a cycle it is past, nothing; and of the cycle it has       *)
(* begun itself, no more than that cycle still has to do.                    *)
OwedIsAssigned ==
  \A p \in Presses, k \in Cycles, x \in Devices \X Hosts :
    <<k, x>> \in owed[p] => target[x[1]] = x[2] /\ Takes(k, x[1])
OwedIsAhead ==
  \A p \in Presses, x \in Devices \X Hosts :
    /\ press[p] = "idle" => <<"topology", x>> \notin owed[p] /\ <<"counters", x>> \notin owed[p]
    /\ press[p] = "counters" => <<"topology", x>> \notin owed[p]
OwnCycle ==
  \A p \in Presses, k \in Cycles :
    cycle[k].by = p =>
      /\ press[p] = k
      /\ \A x \in Devices \X Hosts : <<k, x>> \in owed[p] => x \in cycle[k].todo

PollInv == PollTypeOK /\ OwedIsAssigned /\ OwedIsAhead /\ OwnCycle

LEMMA PollStart == PollInit => PollInv
<1> SUFFICES ASSUME PollInit PROVE PollInv
  OBVIOUS
<1>1. last \in [Cycles -> [Devices -> 0..Never]]
  BY DEF PollInit, Never
<1>2. cycle \in [Cycles -> [by : {"none", "timer"} \cup Presses,
                            todo : SUBSET (Devices \X Hosts),
                            busy : SUBSET (Devices \X Hosts)]]
  BY DEF PollInit, Off
<1>3. PollTypeOK BY <1>1, <1>2 DEF PollInit, PollTypeOK
<1>4. OwnCycle BY PollingAssumption DEF PollInit, Off, OwnCycle
<1> QED BY <1>3, <1>4 DEF PollInit, PollInv, OwedIsAssigned, OwedIsAhead

(* The types of what the steps change.                                       *)
LEMMA PollTypes ==
  ASSUME PollInv
  PROVE  /\ \A k \in Cycles : /\ cycle[k].by \in {"none", "timer"} \cup Presses
                              /\ cycle[k].todo \subseteq Devices \X Hosts
                              /\ cycle[k].busy \subseteq Devices \X Hosts
         /\ \A k \in Cycles, d \in Devices : last[k][d] \in 0..Never
         /\ \A p \in Presses : /\ owed[p] \subseteq Cycles \X (Devices \X Hosts)
                               /\ press[p] \in {"idle", "config"} \cup Cycles
         /\ "topology" \in Cycles /\ "counters" \in Cycles
BY DEF PollInv, PollTypeOK, Cycles

LEMMA SetTargetsKeeps ==
  ASSUME PollInv, NEW next \in [Devices -> Hosts \cup {NoHost}], SetTargets(next)
  PROVE  PollInv'
<1> USE DEF SetTargets
<1>1. \A p \in Presses : owed'[p] = {o \in owed[p] : next[o[2][1]] = o[2][2]}
  OBVIOUS
<1>2. owed' \in [Presses -> SUBSET (Cycles \X (Devices \X Hosts))]
  BY PollTypes
<1>3. last' \in [Cycles -> [Devices -> 0..Never]]
  <2>1. Never \in 0..Never BY DEF Never
  <2> QED BY <2>1, PollTypes
<1>4. PollTypeOK' BY <1>2, <1>3 DEF PollInv, PollTypeOK
<1>5. OwedIsAssigned' BY <1>1 DEF PollInv, OwedIsAssigned
<1>6. OwedIsAhead' /\ OwnCycle' BY <1>1 DEF PollInv, OwedIsAhead, OwnCycle
<1> QED BY <1>4, <1>5, <1>6 DEF PollInv

LEMMA AgesKeeps ==
  ASSUME PollInv, Ages
  PROVE  PollInv'
<1>1. \A k \in Cycles, d \in Devices :
        (IF last[k][d] < Interval[k] THEN last[k][d] + 1 ELSE last[k][d]) \in 0..Never
  <2> SUFFICES ASSUME NEW k \in Cycles, NEW d \in Devices
               PROVE  (IF last[k][d] < Interval[k] THEN last[k][d] + 1 ELSE last[k][d]) \in 0..Never
    OBVIOUS
  <2>1. last[k][d] \in 0..Never BY PollTypes
  <2>2. Interval[k] \in 1..(Never - 1) BY PollingAssumption
  <2> DEFINE a == last[k][d]
             i == Interval[k]
  <2>3. a \in 0..1000 /\ i \in 1..999 BY <2>1, <2>2 DEF Never
  <2> HIDE DEF a, i
  <2>4. (IF a < i THEN a + 1 ELSE a) \in 0..1000 BY <2>3
  <2> QED BY <2>4 DEF a, i, Never
<1>2. last' \in [Cycles -> [Devices -> 0..Never]] BY <1>1 DEF Ages
<1>3. PollTypeOK' BY <1>2 DEF Ages, PollInv, PollTypeOK
<1> QED BY <1>3 DEF Ages, PollInv, OwedIsAssigned, OwedIsAhead, OwnCycle

(* A cycle that begins has all to do that a command is owed by it, if it is   *)
(* that command's.                                                           *)
LEMMA BatchIsTyped ==
  ASSUME PollInv, NEW k \in Cycles, NEW force \in BOOLEAN
  PROVE  Batch(k, force) \subseteq Devices \X Hosts
BY DEF Batch, Assigned, AsTarget, PollInv, PollTypeOK

LEMMA ForcedBatchIsOwed ==
  ASSUME PollInv, NEW k \in Cycles, NEW p \in Presses, NEW x \in Devices \X Hosts,
         <<k, x>> \in owed[p]
  PROVE  x \in Batch(k, TRUE)
<1>1. x[1] \in Devices /\ x[2] \in Hosts /\ x = <<x[1], x[2]>> OBVIOUS
<1>2. target[x[1]] = x[2] /\ Takes(k, x[1]) BY DEF PollInv, OwedIsAssigned
<1>3. x[1] \in Assigned BY <1>1, <1>2, PollingAssumption DEF Assigned
<1> QED BY <1>1, <1>2, <1>3 DEF Batch, AsTarget

LEMMA BeginsKeeps ==
  ASSUME PollInv, NEW k \in Cycles, NEW by \in {"timer"} \cup Presses,
         NEW batch \in SUBSET (Devices \X Hosts), Begins(k, by, batch),
         ~Running(k), by \in Presses => press[by] = k /\ batch = Batch(k, TRUE),
         UNCHANGED <<target, last, press, owed>>
  PROVE  PollInv'
<1>1. cycle' = [cycle EXCEPT ![k] = [by |-> by, todo |-> batch, busy |-> {}]]
  BY DEF Begins
<1>2. cycle' \in [Cycles -> [by : {"none", "timer"} \cup Presses,
                             todo : SUBSET (Devices \X Hosts),
                             busy : SUBSET (Devices \X Hosts)]]
  <2>1. [by |-> by, todo |-> batch, busy |-> {}] \in
          [by : {"none", "timer"} \cup Presses, todo : SUBSET (Devices \X Hosts),
           busy : SUBSET (Devices \X Hosts)]
    OBVIOUS
  <2> QED BY <1>1, <2>1 DEF PollInv, PollTypeOK
<1>3. PollTypeOK' BY <1>2 DEF PollInv, PollTypeOK
<1>4. \A j \in Cycles :
        cycle'[j] = IF j = k THEN [by |-> by, todo |-> batch, busy |-> {}] ELSE cycle[j]
  BY <1>1 DEF PollInv, PollTypeOK
<1>5. OwnCycle'
  <2> SUFFICES ASSUME NEW p \in Presses, NEW j \in Cycles, cycle'[j].by = p
               PROVE  /\ press[p] = j
                      /\ \A x \in Devices \X Hosts : <<j, x>> \in owed[p] => x \in cycle'[j].todo
    BY DEF OwnCycle
  <2>1. CASE j = k
    <3>1. p = by /\ cycle'[j].todo = batch BY <1>4, <2>1
    <3>2. press[p] = k /\ batch = Batch(k, TRUE) BY <3>1
    <3> QED BY <2>1, <3>1, <3>2, ForcedBatchIsOwed
  <2>2. CASE j # k
    <3>1. cycle'[j] = cycle[j] BY <1>4, <2>2
    <3> QED BY <3>1 DEF PollInv, OwnCycle
  <2> QED BY <2>1, <2>2
<1> QED BY <1>3, <1>5 DEF PollInv, OwedIsAssigned, OwedIsAhead

(* A cycle that works on its batch, or rests.                                *)
LEMMA PollStartsKeeps ==
  ASSUME PollInv, NEW k \in Cycles, NEW x \in Devices \X Hosts, PollStarts(k, x)
  PROVE  PollInv'
<1> USE DEF PollStarts
<1>1. \A j \in Cycles :
        /\ cycle'[j].by = cycle[j].by
        /\ cycle'[j].todo = IF j = k THEN cycle[j].todo \ {x} ELSE cycle[j].todo
        /\ cycle'[j].busy = IF j = k THEN cycle[j].busy \cup {x} ELSE cycle[j].busy
  BY DEF PollInv, PollTypeOK
<1>2. \A p \in Presses : owed'[p] = owed[p] \ {<<k, x>>}
  OBVIOUS
<1>3. PollTypeOK'
  <2>1. cycle' \in [Cycles -> [by : {"none", "timer"} \cup Presses,
                               todo : SUBSET (Devices \X Hosts),
                               busy : SUBSET (Devices \X Hosts)]]
    <3> DEFINE R == [by : {"none", "timer"} \cup Presses, todo : SUBSET (Devices \X Hosts),
                     busy : SUBSET (Devices \X Hosts)]
               c == [cycle[k] EXCEPT !.todo = @ \ {x}, !.busy = @ \cup {x}]
    <3>1. cycle \in [Cycles -> R] BY DEF PollInv, PollTypeOK
    <3>2. c \in R BY <3>1
    <3>3. cycle' = [cycle EXCEPT ![k] = c] BY <3>1
    <3> HIDE DEF R, c
    <3>4. cycle' \in [Cycles -> R] BY <3>1, <3>2, <3>3
    <3> QED BY <3>4 DEF R
  <2>2. last' \in [Cycles -> [Devices -> 0..Never]]
    <3>1. x[1] \in Devices /\ 0 \in 0..Never BY DEF Never
    <3> QED BY <3>1 DEF PollInv, PollTypeOK
  <2>3. owed' \in [Presses -> SUBSET (Cycles \X (Devices \X Hosts))]
    BY PollTypes
  <2> QED BY <2>1, <2>2, <2>3 DEF PollInv, PollTypeOK
<1>4. OwedIsAssigned' BY <1>2 DEF PollInv, OwedIsAssigned
<1>5. OwedIsAhead' BY <1>2 DEF PollInv, OwedIsAhead
<1>6. OwnCycle'
  <2> SUFFICES ASSUME NEW p \in Presses, NEW j \in Cycles, cycle'[j].by = p
               PROVE  /\ press[p] = j
                      /\ \A y \in Devices \X Hosts : <<j, y>> \in owed'[p] => y \in cycle'[j].todo
    BY DEF OwnCycle
  <2>1. cycle[j].by = p BY <1>1
  <2>2. press[p] = j /\ \A y \in Devices \X Hosts : <<j, y>> \in owed[p] => y \in cycle[j].todo
    BY <2>1 DEF PollInv, OwnCycle
  <2>3. ASSUME NEW y \in Devices \X Hosts, <<j, y>> \in owed'[p] PROVE y \in cycle'[j].todo
    <3>1. <<j, y>> \in owed[p] /\ <<j, y>> # <<k, x>> BY <1>2, <2>3
    <3>2. y \in cycle[j].todo /\ (j = k => y # x) BY <2>2, <3>1
    <3>3. CASE j = k
      <4>1. cycle'[j].todo = cycle[j].todo \ {x} /\ y # x BY <1>1, <3>2, <3>3
      <4> QED BY <3>2, <4>1
    <3>4. CASE j # k
      <4>1. cycle'[j].todo = cycle[j].todo BY <1>1, <3>4
      <4> QED BY <3>2, <4>1
    <3> QED BY <3>3, <3>4
  <2> QED BY <2>2, <2>3
<1> QED BY <1>3, <1>4, <1>5, <1>6 DEF PollInv

LEMMA PollEndsKeeps ==
  ASSUME PollInv, NEW k \in Cycles, NEW x \in Devices \X Hosts, PollEnds(k, x)
  PROVE  PollInv'
<1> USE DEF PollEnds
<1>1. \A j \in Cycles : cycle'[j].by = cycle[j].by /\ cycle'[j].todo = cycle[j].todo
  BY DEF PollInv, PollTypeOK
<1>2. cycle' \in [Cycles -> [by : {"none", "timer"} \cup Presses,
                             todo : SUBSET (Devices \X Hosts),
                             busy : SUBSET (Devices \X Hosts)]]
  <2> DEFINE R == [by : {"none", "timer"} \cup Presses, todo : SUBSET (Devices \X Hosts),
                   busy : SUBSET (Devices \X Hosts)]
             c == [cycle[k] EXCEPT !.busy = @ \ {x}]
  <2>1. cycle \in [Cycles -> R] BY DEF PollInv, PollTypeOK
  <2>2. c \in R BY <2>1
  <2>3. cycle' = [cycle EXCEPT ![k] = c] BY <2>1
  <2> HIDE DEF R, c
  <2>4. cycle' \in [Cycles -> R] BY <2>1, <2>2, <2>3
  <2> QED BY <2>4 DEF R
<1>3. PollTypeOK' BY <1>2 DEF PollInv, PollTypeOK
<1>4. OwnCycle' BY <1>1 DEF PollInv, OwnCycle
<1> QED BY <1>3, <1>4 DEF PollInv, OwedIsAssigned, OwedIsAhead

(* A command that is past cycle k of its own is owed nothing by it, and goes  *)
(* on to what comes after.                                                   *)
LEMMA PressGoesOn ==
  ASSUME PollInv, NEW k \in Cycles, NEW p \in Presses, press[p] = k,
         press'[p] = After(k), owed' = owed,
         \A x \in Devices \X Hosts : <<k, x>> \notin owed[p]
  PROVE  \A x \in Devices \X Hosts :
           /\ press'[p] = "idle" => <<"topology", x>> \notin owed'[p] /\ <<"counters", x>> \notin owed'[p]
           /\ press'[p] = "counters" => <<"topology", x>> \notin owed'[p]
<1>1. k \in {"topology", "counters"} BY DEF Cycles
<1>2. CASE k = "topology"
  BY <1>2 DEF After
<1>3. CASE k = "counters"
  BY <1>3 DEF After, PollInv, OwedIsAhead
<1> QED BY <1>1, <1>2, <1>3

LEMMA SubmittedKeeps ==
  ASSUME PollInv, NEW k \in Cycles, Submitted(k)
  PROVE  PollInv'
<1> USE DEF Submitted
<1>1. /\ \A j \in Cycles : cycle'[j] = IF j = k THEN Off ELSE cycle[j]
      /\ cycle' \in [Cycles -> [by : {"none", "timer"} \cup Presses,
                                todo : SUBSET (Devices \X Hosts),
                                busy : SUBSET (Devices \X Hosts)]]
  <2>1. Off \in [by : {"none", "timer"} \cup Presses, todo : SUBSET (Devices \X Hosts),
                 busy : SUBSET (Devices \X Hosts)]
    BY DEF Off
  <2> QED BY <2>1 DEF PollInv, PollTypeOK
<1>2. \A p \in Presses : press'[p] = IF p = cycle[k].by THEN After(k) ELSE press[p]
  OBVIOUS
<1>3. press' \in [Presses -> {"idle", "config"} \cup Cycles]
  <2>1. After(k) \in {"idle", "config"} \cup Cycles BY DEF After, Cycles
  <2> QED BY <2>1, PollTypes
<1>4. PollTypeOK' BY <1>1, <1>3 DEF PollInv, PollTypeOK
<1>5. OwnCycle'
  <2> SUFFICES ASSUME NEW p \in Presses, NEW j \in Cycles, cycle'[j].by = p
               PROVE  /\ press'[p] = j
                      /\ \A x \in Devices \X Hosts : <<j, x>> \in owed'[p] => x \in cycle'[j].todo
    BY DEF OwnCycle
  <2>1. j # k BY <1>1, PollingAssumption DEF Off
  <2>2. cycle'[j] = cycle[j] /\ press[p] = j BY <1>1, <2>1 DEF PollInv, OwnCycle
  <2>3. p # cycle[k].by BY <2>1, <2>2 DEF PollInv, OwnCycle
  <2> QED BY <1>2, <2>2, <2>3 DEF PollInv, OwnCycle
<1>6. OwedIsAhead'
  <2> SUFFICES ASSUME NEW p \in Presses
               PROVE  \A x \in Devices \X Hosts :
                        /\ press'[p] = "idle" => /\ <<"topology", x>> \notin owed'[p]
                                                 /\ <<"counters", x>> \notin owed'[p]
                        /\ press'[p] = "counters" => <<"topology", x>> \notin owed'[p]
    BY DEF OwedIsAhead
  <2>1. CASE p = cycle[k].by
    <3>1. press[p] = k /\ \A x \in Devices \X Hosts : <<k, x>> \notin owed[p]
      BY <2>1 DEF PollInv, OwnCycle
    <3>2. press'[p] = After(k) BY <1>2, <2>1
    <3> QED BY <3>1, <3>2, PressGoesOn
  <2>2. CASE p # cycle[k].by
    BY <1>2, <2>2 DEF PollInv, OwedIsAhead
  <2> QED BY <2>1, <2>2
<1> QED BY <1>4, <1>5, <1>6 DEF PollInv, OwedIsAssigned

LEMMA PressBeginsKeeps ==
  ASSUME PollInv, NEW k \in Cycles, NEW p \in Presses, PressBegins(p, k)
  PROVE  PollInv'
<1>1. press[p] = k /\ ~Running(k) /\ UNCHANGED <<target, last, owed>>
  BY DEF PressBegins, WaitsFor
<1>2. CASE Batch(k, TRUE) = {}
  <2>1. press' = [press EXCEPT ![p] = After(k)] /\ cycle' = cycle BY <1>2 DEF PressBegins
  <2>2. \A x \in Devices \X Hosts : <<k, x>> \notin owed[p] BY <1>2, ForcedBatchIsOwed
  <2>3. /\ press' \in [Presses -> {"idle", "config"} \cup Cycles]
        /\ \A q \in Presses : press'[q] = IF q = p THEN After(k) ELSE press[q]
    <3>1. After(k) \in {"idle", "config"} \cup Cycles BY DEF After, Cycles
    <3> QED BY <2>1, <3>1 DEF PollInv, PollTypeOK
  <2>4. PollTypeOK' BY <1>1, <2>1, <2>3 DEF PollInv, PollTypeOK
  <2>5. OwnCycle'
    <3> SUFFICES ASSUME NEW q \in Presses, NEW j \in Cycles, cycle[j].by = q
                 PROVE  press'[q] = j
      BY <1>1, <2>1 DEF PollInv, OwnCycle
    <3>1. press[q] = j BY DEF PollInv, OwnCycle
    <3>2. q # p BY <1>1, <3>1, PollingAssumption DEF Running
    <3> QED BY <2>3, <3>1, <3>2
  <2>6. OwedIsAhead'
    <3> SUFFICES ASSUME NEW q \in Presses
                 PROVE  \A x \in Devices \X Hosts :
                          /\ press'[q] = "idle" => /\ <<"topology", x>> \notin owed'[q]
                                                   /\ <<"counters", x>> \notin owed'[q]
                          /\ press'[q] = "counters" => <<"topology", x>> \notin owed'[q]
      BY DEF OwedIsAhead
    <3>1. CASE q = p BY <1>1, <2>2, <2>3, <3>1, PressGoesOn
    <3>2. CASE q # p BY <1>1, <2>3, <3>2 DEF PollInv, OwedIsAhead
    <3> QED BY <3>1, <3>2
  <2> QED BY <1>1, <2>4, <2>5, <2>6 DEF PollInv, OwedIsAssigned
<1>3. CASE Batch(k, TRUE) # {}
  <2>1. Begins(k, p, Batch(k, TRUE)) /\ press' = press BY <1>3 DEF PressBegins
  <2>2. Batch(k, TRUE) \in SUBSET (Devices \X Hosts) BY BatchIsTyped
  <2> QED BY <1>1, <2>1, <2>2, BeginsKeeps
<1> QED BY <1>2, <1>3

LEMMA PressedKeeps ==
  ASSUME PollInv, NEW p \in Presses, Pressed(p)
  PROVE  PollInv'
<1> DEFINE New == {<<k, AsTarget(d)>> : k \in Cycles, d \in Assigned}
                    \ {<<"counters", AsTarget(d)>> : d \in Devices \ Counted}
<1>1. /\ press[p] = "idle" /\ press' = [press EXCEPT ![p] = "config"]
      /\ owed' = [owed EXCEPT ![p] = New] /\ UNCHANGED <<target, last, cycle>>
  BY DEF Pressed
<1>2. \A d \in Assigned : AsTarget(d) \in Devices \X Hosts /\ AsTarget(d) = <<d, target[d]>>
  BY DEF AsTarget, Assigned, PollInv, PollTypeOK
<1>3. New \subseteq Cycles \X (Devices \X Hosts) BY <1>2
<1>4. \A k \in Cycles, x \in Devices \X Hosts :
        <<k, x>> \in New => target[x[1]] = x[2] /\ Takes(k, x[1])
  <2> SUFFICES ASSUME NEW k \in Cycles, NEW x \in Devices \X Hosts, <<k, x>> \in New
               PROVE  target[x[1]] = x[2] /\ Takes(k, x[1])
    OBVIOUS
  <2>1. PICK d \in Assigned : x = AsTarget(d) OBVIOUS
  <2>2. d \in Devices /\ x[1] = d /\ x[2] = target[d] BY <1>2, <2>1
  <2>3. k = "counters" => d \in Counted BY <2>1, <2>2
  <2> QED BY <2>2, <2>3 DEF Takes
<1> HIDE DEF New
<1>5. /\ \A q \in Presses : owed'[q] = IF q = p THEN New ELSE owed[q]
      /\ \A q \in Presses : press'[q] = IF q = p THEN "config" ELSE press[q]
  BY <1>1 DEF PollInv, PollTypeOK
<1>6. PollTypeOK' BY <1>1, <1>3 DEF PollInv, PollTypeOK
<1>7. OwedIsAssigned' BY <1>1, <1>4, <1>5 DEF PollInv, OwedIsAssigned
<1>8. OwedIsAhead' BY <1>5 DEF PollInv, OwedIsAhead
<1>9. OwnCycle'
  <2> SUFFICES ASSUME NEW q \in Presses, NEW j \in Cycles, cycle[j].by = q
               PROVE  /\ press'[q] = j
                      /\ \A x \in Devices \X Hosts : <<j, x>> \in owed'[q] => x \in cycle[j].todo
    BY <1>1 DEF OwnCycle
  <2>1. press[q] = j BY DEF PollInv, OwnCycle
  <2>2. q # p BY <1>1, <2>1 DEF Cycles
  <2> QED BY <1>5, <2>1, <2>2 DEF PollInv, OwnCycle
<1> QED BY <1>6, <1>7, <1>8, <1>9 DEF PollInv

LEMMA ConfigReadKeeps ==
  ASSUME PollInv, NEW p \in Presses, ConfigRead(p)
  PROVE  PollInv'
<1> USE DEF ConfigRead
<1>1. \A q \in Presses : press'[q] = IF q = p THEN "topology" ELSE press[q]
  BY DEF PollInv, PollTypeOK
<1>2. PollTypeOK' BY DEF PollInv, PollTypeOK, Cycles
<1>3. OwedIsAhead'
  <2> SUFFICES ASSUME NEW q \in Presses, NEW x \in Devices \X Hosts
               PROVE  /\ press'[q] = "idle" => /\ <<"topology", x>> \notin owed[q]
                                               /\ <<"counters", x>> \notin owed[q]
                      /\ press'[q] = "counters" => <<"topology", x>> \notin owed[q]
    BY DEF OwedIsAhead
  <2>1. CASE q = p BY <1>1, <2>1
  <2>2. CASE q # p BY <1>1, <2>2 DEF PollInv, OwedIsAhead
  <2> QED BY <2>1, <2>2
<1>4. OwnCycle' BY <1>1 DEF PollInv, OwnCycle, Cycles
<1> QED BY <1>2, <1>3, <1>4 DEF PollInv, OwedIsAssigned

LEMMA PollStep == PollInv /\ [PollNext]_pollVars => PollInv'
<1> SUFFICES ASSUME PollInv, [PollNext]_pollVars PROVE PollInv'
  OBVIOUS
<1>1. ASSUME NEW next \in [Devices -> Hosts \cup {NoHost}], SetTargets(next) PROVE PollInv'
  BY <1>1, SetTargetsKeeps
<1>2. CASE Ages
  BY <1>2, AgesKeeps
<1>3. ASSUME NEW k \in Cycles, TimerTicks(k) PROVE PollInv'
  <2>1. Batch(k, FALSE) \in SUBSET (Devices \X Hosts) BY BatchIsTyped
  <2>2. /\ ~Running(k) /\ Begins(k, "timer", Batch(k, FALSE)) /\ "timer" \notin Presses
        /\ UNCHANGED <<target, last, press, owed>>
    BY <1>3, PollingAssumption DEF TimerTicks
  <2> QED BY <2>1, <2>2, BeginsKeeps
<1>4. ASSUME NEW k \in Cycles, Submitted(k) PROVE PollInv'
  BY <1>4, SubmittedKeeps
<1>5. ASSUME NEW k \in Cycles, NEW x \in Devices \X Hosts, PollStarts(k, x) \/ PollEnds(k, x)
      PROVE  PollInv'
  BY <1>5, PollStartsKeeps, PollEndsKeeps
<1>6. ASSUME NEW k \in Cycles, NEW p \in Presses, PressBegins(p, k) PROVE PollInv'
  BY <1>6, PressBeginsKeeps
<1>7. ASSUME NEW p \in Presses, Pressed(p) \/ ConfigRead(p) PROVE PollInv'
  BY <1>7, PressedKeeps, ConfigReadKeeps
<1>8. CASE UNCHANGED pollVars
  <2>1. target' = target /\ last' = last /\ cycle' = cycle /\ press' = press /\ owed' = owed
    BY <1>8 DEF pollVars
  <2>2. PollTypeOK' BY <2>1 DEF PollInv, PollTypeOK
  <2>3. OwedIsAssigned' /\ OwedIsAhead' BY <2>1 DEF PollInv, OwedIsAssigned, OwedIsAhead
  <2>4. OwnCycle' BY <2>1 DEF PollInv, OwnCycle
  <2> QED BY <2>2, <2>3, <2>4 DEF PollInv
<1>9. ASSUME NEW k \in Cycles,
             \/ TimerTicks(k) \/ Submitted(k)
             \/ \E x \in Devices \X Hosts : PollStarts(k, x) \/ PollEnds(k, x)
             \/ \E p \in Presses : PressBegins(p, k)
      PROVE  PollInv'
  BY <1>3, <1>4, <1>5, <1>6, <1>9
<1>10. CASE PollNext
  BY <1>1, <1>2, <1>7, <1>9, <1>10 DEF PollNext
<1> QED BY <1>8, <1>10

(* Whatever was in progress when Poll now was pressed, and whatever is        *)
(* assigned meanwhile, its answer comes after every device that was assigned   *)
(* then, and still is, was polled again by the cycles that take it: the part   *)
(* of PollsKeepUp that says what may never happen, for every set of devices,   *)
(* hosts and commands.                                                       *)
THEOREM PressesAreServed == PollSpec => []PollTypeOK /\ PressedIsPolled
<1> DEFINE Served == \A p \in Presses : press[p] # "idle" /\ press'[p] = "idle" => owed'[p] = {}
<1>1. PollInv => PollTypeOK BY DEF PollInv
<1>2. PollInv' => Served
  <2> SUFFICES ASSUME PollInv', NEW p \in Presses, press'[p] = "idle" PROVE owed'[p] = {}
    OBVIOUS
  <2>1. owed'[p] \subseteq Cycles \X (Devices \X Hosts) BY DEF PollInv, PollTypeOK
  <2>2. \A k \in Cycles, x \in Devices \X Hosts : <<k, x>> \notin owed'[p]
    BY DEF PollInv, OwedIsAhead, Cycles
  <2> QED BY <2>1, <2>2
<1>3. PollSpec => []PollInv BY PollStart, PollStep, PTL DEF PollSpec
<1>4. PollSpec => []PollTypeOK BY <1>1, <1>3, PTL
<1>5. PollSpec => [][Served]_pollVars BY <1>2, <1>3, PTL DEF PollSpec
<1> QED BY <1>4, <1>5, PTL DEF PressedIsPolled

-----------------------------------------------------------------------------
(* PolledDevices.  Both parts are inductive together: an answer is stored only *)
(* for the host a device is assigned by when it comes.                        *)
DevicesInv == DevicesTypeOK /\ TrapsAreOurs

LEMMA DevicesStart == DevicesInit => DevicesInv
BY DevicesAssumption
   DEF DevicesInit, DevicesInv, DevicesTypeOK, TrapsAreOurs, SendersOf, NoWalk

LEMMA AppliesKeeps ==
  ASSUME DevicesInv, NEW next \in [Boxes -> Names \cup {NoName}], Applies(next)
  PROVE  DevicesInv'
<1> USE DEF Applies
<1>1. \A n \in Names \cup {NoName} : AddressesOf[n] \subseteq Addresses
  BY DevicesAssumption
<1>2. \A b \in Boxes : addrs'[b] \subseteq AddressesOf[next[b]] /\ addrs'[b] \subseteq Addresses
  <2> SUFFICES ASSUME NEW b \in Boxes
               PROVE  addrs'[b] \subseteq AddressesOf[next[b]] /\ addrs'[b] \subseteq Addresses
    OBVIOUS
  <2>1. addrs'[b] = IF next[b] \in Literals THEN AddressesOf[next[b]]
                    ELSE IF next[b] = NoName THEN {} ELSE Kept(b, next)
    OBVIOUS
  <2>2. Kept(b, next) \subseteq AddressesOf[next[b]]
    BY DEF Kept, DevicesInv, DevicesTypeOK, TrapsAreOurs, SendersOf
  <2>3. addrs'[b] \subseteq AddressesOf[next[b]] BY <2>1, <2>2
  <2> QED BY <2>3, <1>1
<1>3. addrs' \in [Boxes -> SUBSET Addresses] BY <1>2
<1>4. ifNames' \in [Boxes -> Names \cup {NoName}] BY DEF DevicesInv, DevicesTypeOK
<1>5. lookups' \subseteq [box : Boxes, host : Names, fresh : BOOLEAN]
  <2> DEFINE R == [box : Boxes, host : Names, fresh : BOOLEAN]
             Asking == {[box |-> b, host |-> next[b], fresh |-> TRUE] :
                        b \in {b \in Boxes : next[b] \notin Literals \cup {NoName}}}
  <2>1. \A l \in lookups : [l EXCEPT !.fresh = FALSE] \in R
    BY DEF DevicesInv, DevicesTypeOK
  <2>2. \A b \in Boxes : next[b] \notin Literals \cup {NoName} =>
                          [box |-> b, host |-> next[b], fresh |-> TRUE] \in R
    OBVIOUS
  <2>3. Asking \subseteq R
    <3> HIDE DEF R
    <3> QED BY <2>2
  <2>4. lookups' = {[l EXCEPT !.fresh = FALSE] : l \in lookups} \cup Asking OBVIOUS
  <2> HIDE DEF R, Asking
  <2>5. lookups' \subseteq R BY <2>1, <2>3, <2>4
  <2> QED BY <2>5 DEF R
<1>6. DevicesTypeOK' BY <1>3, <1>4, <1>5 DEF DevicesInv, DevicesTypeOK
<1>7. TrapsAreOurs' BY <1>2 DEF TrapsAreOurs, SendersOf
<1> QED BY <1>6, <1>7 DEF DevicesInv

LEMMA AnswerKeeps ==
  ASSUME DevicesInv, NEW l \in lookups, NEW answer \in SUBSET AddressesOf[l.host],
         LookupAnswers(l, answer)
  PROVE  DevicesInv'
<1> USE DEF LookupAnswers
<1>1. l.box \in Boxes /\ l.host \in Names BY DEF DevicesInv, DevicesTypeOK
<1>2. answer \subseteq Addresses BY <1>1, DevicesAssumption
<1>3. DevicesTypeOK' BY <1>1, <1>2 DEF DevicesInv, DevicesTypeOK
<1>4. TrapsAreOurs'
  <2>1. CASE InForce(l) /\ answer # {}
    <3>1. hostOf[l.box] = l.host /\ hostOf' = hostOf BY <2>1 DEF InForce
    <3>2. \A b \in Boxes : addrs'[b] = IF b = l.box THEN answer ELSE addrs[b]
      BY <2>1, <1>1 DEF DevicesInv, DevicesTypeOK
    <3> QED BY <3>1, <3>2, <1>1 DEF DevicesInv, TrapsAreOurs, SendersOf
  <2>2. CASE ~ (InForce(l) /\ answer # {})
    BY <2>2 DEF DevicesInv, TrapsAreOurs, SendersOf
  <2> QED BY <2>1, <2>2
<1> QED BY <1>3, <1>4 DEF DevicesInv

LEMMA DevicesStep == DevicesInv /\ [DevicesNext]_deviceVars => DevicesInv'
<1> SUFFICES ASSUME DevicesInv, [DevicesNext]_deviceVars PROVE DevicesInv'
  OBVIOUS
<1> USE DEF DevicesInv, DevicesTypeOK, TrapsAreOurs, SendersOf
<1>1. ASSUME NEW next \in [Boxes -> Names \cup {NoName}], Applies(next) PROVE DevicesInv'
  BY <1>1, AppliesKeeps
<1>2. ASSUME NEW l \in lookups, LookupFails(l) PROVE DevicesInv'
  BY <1>2 DEF LookupFails
<1>3. ASSUME NEW l \in lookups, NEW answer \in SUBSET AddressesOf[l.host],
             LookupAnswers(l, answer)
      PROVE  DevicesInv'
  BY <1>3, AnswerKeeps
<1>4. ASSUME NEW b \in Boxes, WalkStarts(b) PROVE DevicesInv'
  <2>1. <<b, hostOf[b]>> \in Boxes \X Names BY <1>4 DEF WalkStarts
  <2> QED BY <1>4, <2>1 DEF WalkStarts
<1>5. CASE WalkRemembered
  <2>1. walk \in Boxes \X Names BY <1>5 DEF WalkRemembered
  <2>2. walk[1] \in Boxes /\ walk[2] \in Names BY <2>1
  <2>3. ifNames' \in [Boxes -> Names \cup {NoName}]
    BY <1>5, <2>2 DEF WalkRemembered, NewNames
  <2> QED BY <1>5, <2>3 DEF WalkRemembered
<1>6. CASE WalkFails
  BY <1>6 DEF WalkFails
<1>7. CASE UNCHANGED deviceVars
  BY <1>7 DEF deviceVars
<1> QED BY <1>1, <1>2, <1>3, <1>4, <1>5, <1>6, <1>7 DEF DevicesNext

(* Whatever assignments, lookups and polls overtake each other, a trap is     *)
(* taken for a device only if the host it is assigned by now has stood for    *)
(* the address it came from: the part of DevicesKnown that says what may      *)
(* never happen, for every set of devices, hosts and addresses.              *)
THEOREM TrapsAreAlwaysOurs == DevicesSpec => [](DevicesTypeOK /\ TrapsAreOurs)
<1>1. DevicesInv => DevicesTypeOK /\ TrapsAreOurs BY DEF DevicesInv
<1> QED BY <1>1, DevicesStart, DevicesStep, PTL DEF DevicesSpec
=============================================================================
