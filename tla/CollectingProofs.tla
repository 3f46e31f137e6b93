-------------------------- MODULE CollectingProofs --------------------------
(***************************************************************************)
(* Proofs about what reaches the agent to be passed on: the lines the        *)
(* receivers take in (DeviceEvents), the counters the traffic samplers       *)
(* subtract (TrafficSampling), and those that switches send by themselves    *)
(* (CounterRotation).  The first two are about sums over finite sets, whose   *)
(* lemmas come first: the provers know MapThenSumSet only by its definition, *)
(* a choice of the function that adds the elements up one by one.  The third *)
(* is about an order that a hand-back must not turn round.                   *)
(***************************************************************************)
EXTENDS DeviceEvents, TrafficSampling, CounterRotation, FiniteSetTheorems, SequenceTheorems,
        WellFoundedInduction, TLAPS

(* An element of a set, the one MapThenSumSet takes next.                   *)
One(s) == CHOOSE x \in s : TRUE

(* g adds up w over the subsets of S, the way MapThenSumSet does. *)
SumsUp(g, w, S) ==
  g = [s \in SUBSET S |-> IF s = {} THEN 0 ELSE w[One(s)] + g[s \ {One(s)}]]

(* Least-number principle. *)
LEMMA LeastNumber ==
  ASSUME NEW T, T \subseteq Nat, T # {}
  PROVE  \E n \in T : \A m \in T : ~ (m < n)
<1>1. \E x \in T : \A y \in T : ~ (<<y, x>> \in OpToRel(<, Nat))
  BY WFMin, NatLessThanWellFounded
<1> QED BY <1>1 DEF OpToRel

(* Such a g exists for every finite set: it is built up by the size of the  *)
(* subsets, and there is no least size at which that could fail.            *)
LEMMA SumsExist ==
  ASSUME NEW S, IsFiniteSet(S), NEW w
  PROVE  \E g : SumsUp(g, w, S)
<1> DEFINE Below(n) == {s \in SUBSET S : Cardinality(s) <= n}
           Good(g, n) == g = [s \in Below(n) |-> IF s = {} THEN 0 ELSE w[One(s)] + g[s \ {One(s)}]]
           T == {n \in Nat : ~ \E g : Good(g, n)}
<1>0. \A s \in SUBSET S : IsFiniteSet(s) /\ Cardinality(s) \in Nat
  BY FS_Subset, FS_CardinalityType
<1>a. ASSUME NEW s \in SUBSET S, s # {}
      PROVE  /\ s \ {One(s)} \in SUBSET S
             /\ Cardinality(s \ {One(s)}) = Cardinality(s) - 1
  <2>1. One(s) \in s BY <1>a DEF One
  <2> QED BY <1>a, <2>1, <1>0, FS_RemoveElement
<1>1. T = {}
  <2> SUFFICES ASSUME T # {} PROVE FALSE OBVIOUS
  <2>1. PICK n \in T : \A m \in T : ~ (m < n) 
    <3> HIDE DEF Good
    <3> QED BY LeastNumber
  <2>2. n \in Nat OBVIOUS
  <2>3. CASE n = 0
    <3> DEFINE g == [s \in Below(0) |-> 0]
    <3>1. ASSUME NEW s \in Below(0) PROVE s = {}
      <4>1. s \in SUBSET S /\ Cardinality(s) <= 0 OBVIOUS
      <4>2. Cardinality(s) \in Nat /\ IsFiniteSet(s) BY <4>1, <1>0
      <4>3. Cardinality(s) = 0 BY <4>1, <4>2
      <4> QED BY <4>2, <4>3, FS_EmptySet
    <3>2. Good(g, 0) BY <3>1
    <3> QED BY <3>2, <2>3
  <2>4. CASE n # 0
    <3>1. n - 1 \in Nat /\ n - 1 < n BY <2>2, <2>4
    <3>2. PICK h : Good(h, n - 1) BY <3>1, <2>1
    <3> DEFINE g == [s \in Below(n) |-> IF s = {} THEN 0 ELSE w[One(s)] + h[s \ {One(s)}]]
    <3>3. \A t \in Below(n - 1) : t \in Below(n) /\ g[t] = h[t]
      <4> TAKE t \in Below(n - 1)
      <4>0. t \in SUBSET S /\ Cardinality(t) <= n - 1 OBVIOUS
      <4>1. t \in Below(n)
        <5>1. Cardinality(t) \in Nat BY <4>0, <1>0
        <5>2. Cardinality(t) <= n BY <5>1, <4>0, <2>2
        <5> QED BY <4>0, <5>2
      <4>2. h[t] = IF t = {} THEN 0 ELSE w[One(t)] + h[t \ {One(t)}] BY <3>2
      <4>3. g[t] = IF t = {} THEN 0 ELSE w[One(t)] + h[t \ {One(t)}] BY <4>1
      <4> QED BY <4>1, <4>2, <4>3
    <3>4. \A s \in Below(n) : s # {} => s \ {One(s)} \in Below(n - 1)
      <4> TAKE s \in Below(n)
      <4>1. s \in SUBSET S /\ Cardinality(s) <= n OBVIOUS
      <4> HAVE s # {}
      <4> DEFINE r == s \ {One(s)}
      <4>2. r \in SUBSET S /\ Cardinality(r) = Cardinality(s) - 1 /\ Cardinality(s) \in Nat
        BY <4>1, <1>0, <1>a
      <4>3. Cardinality(r) <= n - 1 BY <4>1, <4>2, <2>2
      <4> QED BY <4>2, <4>3
    <3>5. \A s \in Below(n) : g[s] = IF s = {} THEN 0 ELSE w[One(s)] + g[s \ {One(s)}]
      <4> TAKE s \in Below(n)
      <4>1. g[s] = IF s = {} THEN 0 ELSE w[One(s)] + h[s \ {One(s)}] OBVIOUS
      <4>2. s # {} => h[s \ {One(s)}] = g[s \ {One(s)}] BY <3>3, <3>4
      <4> HIDE DEF g, Below
      <4> QED BY <4>1, <4>2
    <3>6. g = [s \in Below(n) |-> g[s]] OBVIOUS
    <3>7. Good(g, n)
      <4> HIDE DEF g, Below
      <4> QED BY <3>5, <3>6
    <3> QED BY <3>7, <2>1
  <2> QED BY <2>3, <2>4
<1>2. Cardinality(S) \in Nat BY FS_CardinalityType
<1>3. PICK g : Good(g, Cardinality(S)) BY <1>1, <1>2
<1>4. Below(Cardinality(S)) = SUBSET S BY FS_Subset
<1> QED BY <1>3, <1>4 DEF SumsUp

(* The sum of w over S.                                                     *)
SumOver(w, S) == (CHOOSE g : SumsUp(g, w, S))[S]


(* What holds of the empty set, and of a set if it does without one         *)
(* element, holds of every subset of a finite set.                          *)
LEMMA OneByOne ==
  ASSUME NEW S, IsFiniteSet(S), NEW Q, {} \in Q,
         \A s \in SUBSET S : s # {} /\ s \ {One(s)} \in Q => s \in Q
  PROVE  SUBSET S \subseteq Q
<1> DEFINE T == {Cardinality(s) : s \in (SUBSET S) \ Q}
<1>0. \A s \in SUBSET S : IsFiniteSet(s) /\ Cardinality(s) \in Nat
  BY FS_Subset, FS_CardinalityType
<1> SUFFICES ASSUME T # {} PROVE FALSE
  OBVIOUS
<1>1. T \subseteq Nat BY <1>0
<1>2. PICK n \in T : \A m \in T : ~ (m < n)
  <2> HIDE DEF T
  <2> QED BY <1>1, LeastNumber
<1>3. PICK s \in (SUBSET S) \ Q : n = Cardinality(s) OBVIOUS
<1>4. s # {} BY <1>3
<1>5. One(s) \in s BY <1>4 DEF One
<1>6. IsFiniteSet(s) BY <1>0
<1>7. Cardinality(s \ {One(s)}) = Cardinality(s) - 1 
  BY <1>6, <1>5, FS_RemoveElement
<1>8. Cardinality(s) \in Nat /\ Cardinality(s) - 1 < Cardinality(s) BY <1>0
<1>9. s \ {One(s)} \in SUBSET S /\ s \ {One(s)} \notin Q BY <1>3, <1>4
<1>10. Cardinality(s) - 1 \in T BY <1>7, <1>9
<1> QED BY <1>2, <1>3, <1>8, <1>10

(* What g is of the empty set, and of a set of which one element is set     *)
(* aside.                                                                   *)
LEMMA SumsUpRule ==
  ASSUME NEW S, NEW w, NEW g, SumsUp(g, w, S)
  PROVE  /\ g[{}] = 0
         /\ \A s \in SUBSET S :
              s # {} => /\ One(s) \in s
                        /\ s \ {One(s)} \in SUBSET S
                        /\ g[s] = w[One(s)] + g[s \ {One(s)}]
<1>1. \A s \in SUBSET S : g[s] = IF s = {} THEN 0 ELSE w[One(s)] + g[s \ {One(s)}]
  BY DEF SumsUp
<1>2. \A s \in SUBSET S : s # {} => One(s) \in s BY DEF One
<1>3. g[{}] = 0 BY <1>1
<1> QED BY <1>1, <1>2, <1>3

(* The sum is what any such function gives of the whole set.                *)
LEMMA SumOverRule ==
  ASSUME NEW S, IsFiniteSet(S), NEW w
  PROVE  \E g : SumsUp(g, w, S) /\ SumOver(w, S) = g[S]
BY SumsExist DEF SumOver

(* A sum of naturals is a natural.                                          *)
LEMMA SumType ==
  ASSUME NEW S, IsFiniteSet(S), NEW w, \A x \in S : w[x] \in Nat
  PROVE  SumOver(w, S) \in Nat
<1>1. PICK g : SumsUp(g, w, S) /\ SumOver(w, S) = g[S] BY SumOverRule
<1> DEFINE Q == {s \in SUBSET S : g[s] \in Nat}
<1>2. {} \in Q BY <1>1, SumsUpRule
<1>3. ASSUME NEW s \in SUBSET S, s # {}, s \ {One(s)} \in Q PROVE s \in Q
  <2>1. One(s) \in S /\ g[s] = w[One(s)] + g[s \ {One(s)}]
    BY <1>1, <1>3, SumsUpRule
  <2>2. w[One(s)] \in Nat /\ g[s \ {One(s)}] \in Nat BY <2>1, <1>3
  <2> QED BY <2>1, <2>2
<1>4. SUBSET S \subseteq Q
  <2> HIDE DEF Q
  <2> QED BY <1>2, <1>3, OneByOne
<1> QED BY <1>1, <1>4

(* A sum grows with its terms.                                              *)
LEMMA SumMonotone ==
  ASSUME NEW S, IsFiniteSet(S), NEW w, NEW v,
         \A x \in S : w[x] \in Nat /\ v[x] \in Nat /\ w[x] <= v[x]
  PROVE  SumOver(w, S) <= SumOver(v, S)
<1>1. PICK g : SumsUp(g, w, S) /\ SumOver(w, S) = g[S] BY SumOverRule
<1>2. PICK h : SumsUp(h, v, S) /\ SumOver(v, S) = h[S] BY SumOverRule
<1> DEFINE Q == {s \in SUBSET S : g[s] \in Nat /\ h[s] \in Nat /\ g[s] <= h[s]}
<1>3. {} \in Q BY <1>1, <1>2, SumsUpRule
<1>4. ASSUME NEW s \in SUBSET S, s # {}, s \ {One(s)} \in Q PROVE s \in Q
  <2>1. /\ One(s) \in S /\ g[s] = w[One(s)] + g[s \ {One(s)}]
        /\ h[s] = v[One(s)] + h[s \ {One(s)}]
    BY <1>1, <1>2, <1>4, SumsUpRule
  <2>2. w[One(s)] \in Nat /\ v[One(s)] \in Nat /\ w[One(s)] <= v[One(s)] BY <2>1
  <2>3. g[s \ {One(s)}] \in Nat /\ h[s \ {One(s)}] \in Nat /\ g[s \ {One(s)}] <= h[s \ {One(s)}]
    BY <1>4
  <2> DEFINE a == w[One(s)] b == v[One(s)] c == g[s \ {One(s)}] d == h[s \ {One(s)}]
  <2>4. a \in Nat /\ b \in Nat /\ c \in Nat /\ d \in Nat /\ a <= b /\ c <= d BY <2>2, <2>3
  <2>5. g[s] = a + c /\ h[s] = b + d BY <2>1
  <2> HIDE DEF a, b, c, d
  <2>6. g[s] \in Nat /\ h[s] \in Nat /\ g[s] <= h[s] BY <2>4, <2>5
  <2> QED BY <2>6
<1>5. SUBSET S \subseteq Q
  <2> HIDE DEF Q
  <2> QED BY <1>3, <1>4, OneByOne
<1> QED BY <1>1, <1>2, <1>5

(* Two sums with the same terms are one.                                    *)
LEMMA SumSame ==
  ASSUME NEW S, IsFiniteSet(S), NEW w, NEW v,
         \A x \in S : w[x] \in Nat /\ v[x] = w[x]
  PROVE  SumOver(w, S) = SumOver(v, S)
<1>1. \A x \in S : w[x] <= v[x] /\ v[x] <= w[x] /\ v[x] \in Nat OBVIOUS
<1>2. SumOver(w, S) <= SumOver(v, S) BY <1>1, SumMonotone
<1>3. SumOver(v, S) <= SumOver(w, S) BY <1>1, SumMonotone
<1>4. SumOver(v, S) \in Nat /\ SumOver(w, S) \in Nat BY <1>1, SumType
<1> QED BY <1>2, <1>3, <1>4

(* A sum of zeros is zero.                                                  *)
LEMMA SumZero ==
  ASSUME NEW S, IsFiniteSet(S), NEW w, \A x \in S : w[x] = 0
  PROVE  SumOver(w, S) = 0
<1>1. PICK g : SumsUp(g, w, S) /\ SumOver(w, S) = g[S] BY SumOverRule
<1> DEFINE Q == {s \in SUBSET S : g[s] = 0}
<1>2. {} \in Q BY <1>1, SumsUpRule
<1>3. ASSUME NEW s \in SUBSET S, s # {}, s \ {One(s)} \in Q PROVE s \in Q
  <2>1. One(s) \in S /\ g[s] = w[One(s)] + g[s \ {One(s)}]
    BY <1>1, <1>3, SumsUpRule
  <2>2. w[One(s)] = 0 /\ g[s \ {One(s)}] = 0 BY <2>1, <1>3
  <2> QED BY <2>1, <2>2
<1>4. SUBSET S \subseteq Q
  <2> HIDE DEF Q
  <2> QED BY <1>2, <1>3, OneByOne
<1> QED BY <1>1, <1>4

(* Changing one term changes the sum by as much.                            *)
LEMMA SumChanged ==
  ASSUME NEW S, IsFiniteSet(S), NEW w \in [S -> Nat], NEW x \in S, NEW n \in Nat
  PROVE  SumOver([w EXCEPT ![x] = n], S) + w[x] = SumOver(w, S) + n
<1> DEFINE v == [w EXCEPT ![x] = n]
<1>1. PICK g : SumsUp(g, w, S) /\ SumOver(w, S) = g[S] BY SumOverRule
<1>2. PICK h : SumsUp(h, v, S) /\ SumOver(v, S) = h[S] BY SumOverRule
<1>0. v \in [S -> Nat] /\ v[x] = n /\ \A y \in S : y # x => v[y] = w[y] OBVIOUS
<1> HIDE DEF v
<1> DEFINE Q == {s \in SUBSET S : /\ g[s] \in Nat /\ h[s] \in Nat
                                  /\ x \in s => h[s] + w[x] = g[s] + n
                                  /\ x \notin s => h[s] = g[s]}
<1>3. {} \in Q BY <1>1, <1>2, SumsUpRule
<1>4. ASSUME NEW s \in SUBSET S, s # {}, s \ {One(s)} \in Q PROVE s \in Q
  <2> DEFINE r == s \ {One(s)}
             a == w[One(s)] b == v[One(s)] c == g[r] d == h[r]
  <2>1. /\ One(s) \in S /\ One(s) \in s /\ g[s] = a + c /\ h[s] = b + d
    BY <1>1, <1>2, <1>4, SumsUpRule
  <2>2. a \in Nat /\ b \in Nat /\ c \in Nat /\ d \in Nat /\ w[x] \in Nat BY <2>1, <1>4, <1>0
  <2>3. x \in r => d + w[x] = c + n BY <1>4
  <2>4. x \notin r => d = c BY <1>4
  <2>5. CASE One(s) = x
    <3>1. x \notin r /\ x \in s /\ a = w[x] /\ b = n BY <2>5, <2>1, <1>0
    <3> HIDE DEF a, b, c, d, r
    <3>2. h[s] + w[x] = g[s] + n /\ g[s] \in Nat /\ h[s] \in Nat BY <3>1, <2>1, <2>2, <2>4
    <3> QED BY <3>1, <3>2
  <2>6. CASE One(s) # x
    <3>1. (x \in r <=> x \in s) /\ a = b BY <2>6, <2>1, <1>0
    <3> HIDE DEF a, b, c, d, r
    <3>2. g[s] \in Nat /\ h[s] \in Nat /\ (x \in s => h[s] + w[x] = g[s] + n) /\ (x \notin s => h[s] = g[s])
      BY <3>1, <2>1, <2>2, <2>3, <2>4
    <3> QED BY <3>2
  <2> QED BY <2>5, <2>6
<1>5. SUBSET S \subseteq Q
  <2> HIDE DEF Q
  <2> QED BY <1>3, <1>4, OneByOne
<1>6. h[S] + w[x] = g[S] + n BY <1>5
<1> QED BY <1>1, <1>2, <1>6 DEF v

(* A term is at most the sum.                                               *)
LEMMA SumElement ==
  ASSUME NEW S, IsFiniteSet(S), NEW w \in [S -> Nat], NEW x \in S
  PROVE  w[x] <= SumOver(w, S)
<1> DEFINE v == [w EXCEPT ![x] = 0]
<1>1. v \in [S -> Nat] OBVIOUS
<1>2. SumOver(v, S) \in Nat /\ SumOver(w, S) \in Nat 
  <2> HIDE DEF v
  <2> QED BY <1>1, SumType
<1>3. SumOver(v, S) + w[x] = SumOver(w, S) + 0 BY SumChanged
<1>4. w[x] \in Nat OBVIOUS
<1> QED BY <1>2, <1>3, <1>4

-----------------------------------------------------------------------------
(* Device events.                                                            *)

(* The buckets a receiver may keep: of any senders, each with tokens left.  *)
Buckets == UNION {[T -> 0..Burst] : T \in SUBSET Senders}

(* What may be held of a stream.                                            *)
Holdings == {"empty", "line", "torn", "rest"}

(* The types of the variables; the sets of functions are over the senders   *)
(* tracked.                                                                 *)
EventsTyped ==
  /\ enabled \subseteq Receivers
  /\ bound \in [Receivers -> {"off", "bound", "failed"}]
  /\ timers \in 0..1 /\ fatal \in BOOLEAN
  /\ vouched \subseteq Senders
  /\ bucket \in [Receivers -> Buckets]
  /\ buffer \in [Receivers -> [Rows -> Nat]]
  /\ count \in [Receivers -> [Outcomes -> Nat]]
  /\ offered \in 0..MaxLines /\ begun \in 0..MaxLines
  /\ fed \in Nat /\ cut \in Nat /\ batch \in Nat /\ gone \in Nat
  /\ conn \in [Senders -> {"none", "open", "ended"}]
  /\ pending \in [Senders -> Holdings]

(* The invariant: what is checked, conjunct by conjunct, without its bounds *)
(* of the run.                                                              *)
EventsInv == EventsTyped /\ MemoryBounded /\ EveryLineCounted /\ ShippedOnce /\ StreamLineOnce

(* The sets summed over are finite.                                         *)
LEMMA EventSets ==
  /\ IsFiniteSet(Rows) /\ IsFiniteSet(Outcomes) /\ IsFiniteSet(Senders)
  /\ IsFiniteSet(Receivers) /\ Syslog \in Receivers /\ Traps \in Receivers
<1>1. IsFiniteSet(Rows) BY EventsAssumption, FS_Product DEF Rows
<1>2. IsFiniteSet({}) BY FS_EmptySet
<1>3. IsFiniteSet({"received"}) BY <1>2, FS_AddElement
<1>4. IsFiniteSet({"received", "dropped"}) BY <1>3, FS_AddElement
<1>5. IsFiniteSet({"received", "dropped", "unusable"}) BY <1>4, FS_AddElement
<1>6. IsFiniteSet({"received", "dropped", "unusable", "overflowed"}) BY <1>5, FS_AddElement
<1>7. IsFiniteSet(Outcomes) BY <1>6, FS_AddElement DEF Outcomes
<1>8. IsFiniteSet({Syslog}) BY <1>2, FS_AddElement
<1>9. IsFiniteSet(Receivers) BY <1>8, FS_AddElement DEF Receivers
<1> QED BY <1>1, <1>7, <1>9, EventsAssumption DEF Receivers

(* The total of a table is the sum over its domain.                         *)
LEMMA TotalIsSum ==
  ASSUME NEW S, NEW f \in [S -> Nat]
  PROVE  Total(f) = SumOver(f, S)
<1>1. DOMAIN f = S OBVIOUS
<1>2. Total(f) = SumOver(f, DOMAIN f)
  BY DEF Total, MapThenSumSet, MapThenFoldSet, SumOver, SumsUp, One
<1> QED BY <1>1, <1>2

(* One more in one place of a function is one more in its total.             *)
LEMMA TotalOneMore ==
  ASSUME NEW S, IsFiniteSet(S), NEW f \in [S -> Nat], NEW x \in S
  PROVE  /\ [f EXCEPT ![x] = @ + 1] \in [S -> Nat]
         /\ Total(f) \in Nat
         /\ Total([f EXCEPT ![x] = @ + 1]) = Total(f) + 1
<1> DEFINE n == f[x] + 1
           g == [f EXCEPT ![x] = n]
<1>1. f[x] \in Nat /\ n \in Nat OBVIOUS
<1>2. g \in [S -> Nat] OBVIOUS
<1>3. g = [f EXCEPT ![x] = @ + 1] OBVIOUS
<1> HIDE DEF g
<1>4. Total(g) = SumOver(g, S) BY <1>2, TotalIsSum
<1>5. Total(f) = SumOver(f, S) BY TotalIsSum
<1>6. SumOver(g, S) \in Nat /\ SumOver(f, S) \in Nat BY <1>2, SumType
<1> USE DEF g
<1>7. SumOver(g, S) + f[x] = SumOver(f, S) + n
  <2> HIDE DEF n
  <2> QED BY <1>1, SumChanged
<1> HIDE DEF g
<1> QED BY <1>1, <1>2, <1>3, <1>4, <1>5, <1>6, <1>7

(* Nothing buffered is nothing in all.                                      *)
LEMMA TotalOfNone == Total(NoRows) = 0
<1>1. NoRows \in [Rows -> Nat] /\ \A x \in Rows : NoRows[x] = 0 BY DEF NoRows
<1>2. Total(NoRows) = SumOver(NoRows, Rows) BY <1>1, TotalIsSum
<1> QED BY <1>1, <1>2, EventSets, SumZero

(* A line counted is one more in all, in the counter it was counted in.     *)
LEMMA CountsOne ==
  ASSUME EventsTyped, NEW r \in Receivers, NEW o \in Outcomes, Counts(r, o)
  PROVE  /\ count' \in [Receivers -> [Outcomes -> Nat]]
         /\ Total(count[Syslog]) + Total(count[Traps]) \in Nat
         /\ Total(count'[Syslog]) + Total(count'[Traps])
              = Total(count[Syslog]) + Total(count[Traps]) + 1
         /\ \A q \in Receivers : count'[q]["received"] =
              IF q = r /\ o = "received" THEN count[q]["received"] + 1
                                         ELSE count[q]["received"]
<1>0. count \in [Receivers -> [Outcomes -> Nat]] /\ "received" \in Outcomes
  BY DEF EventsTyped, Outcomes
<1> DEFINE f == count[r]
<1>1. f \in [Outcomes -> Nat] BY <1>0
<1>2. count' = [count EXCEPT ![r] = [f EXCEPT ![o] = @ + 1]] BY <1>0 DEF Counts
<1>3. /\ [f EXCEPT ![o] = @ + 1] \in [Outcomes -> Nat]
      /\ Total(f) \in Nat
      /\ Total([f EXCEPT ![o] = @ + 1]) = Total(f) + 1
  <2> HIDE DEF f
  <2> QED BY <1>1, EventSets, TotalOneMore
<1>4. count' \in [Receivers -> [Outcomes -> Nat]] BY <1>0, <1>2, <1>3
<1>5. \A q \in Receivers : /\ count[q] \in [Outcomes -> Nat]
                           /\ count'[q] = IF q = r THEN [f EXCEPT ![o] = @ + 1] ELSE count[q]
  BY <1>0, <1>2
<1>6. \A q \in Receivers : Total(count[q]) \in Nat
  <2> TAKE q \in Receivers
  <2> DEFINE g == count[q]
  <2>1. g \in [Outcomes -> Nat] BY <1>5
  <2> HIDE DEF g
  <2>2. Total(g) = SumOver(g, Outcomes) BY <2>1, TotalIsSum
  <2>3. SumOver(g, Outcomes) \in Nat BY <2>1, EventSets, SumType
  <2> QED BY <2>2, <2>3 DEF g
<1>7. Total(count'[Syslog]) + Total(count'[Traps])
              = Total(count[Syslog]) + Total(count[Traps]) + 1
  <2>1. CASE r = Syslog
    <3>1. Total(count'[Syslog]) = Total(count[Syslog]) + 1 BY <2>1, <1>5, <1>3, EventSets
    <3>2. count'[Traps] = count[Traps] BY <2>1, <1>5, EventSets, EventsAssumption
    <3> QED BY <3>1, <3>2, <1>6, EventSets
  <2>2. CASE r = Traps
    <3>1. Total(count'[Traps]) = Total(count[Traps]) + 1 BY <2>2, <1>5, <1>3, EventSets
    <3>2. count'[Syslog] = count[Syslog] BY <2>2, <1>5, EventSets, EventsAssumption
    <3> QED BY <3>1, <3>2, <1>6, EventSets
  <2> QED BY <2>1, <2>2 DEF Receivers
<1>8. \A q \in Receivers : count'[q]["received"] =
              IF q = r /\ o = "received" THEN count[q]["received"] + 1
                                         ELSE count[q]["received"]
  BY <1>0, <1>5, <1>1
<1> QED BY <1>4, <1>6, <1>7, <1>8, EventSets

(* What is buffered is a number.                                            *)
LEMMA BufferedIsNumber ==
  ASSUME EventsTyped
  PROVE  \A q \in Receivers : Total(buffer[q]) \in Nat
<1> TAKE q \in Receivers
<1> DEFINE g == buffer[q]
<1>1. g \in [Rows -> Nat] BY DEF EventsTyped
<1> HIDE DEF g
<1>2. Total(g) = SumOver(g, Rows) BY <1>1, TotalIsSum
<1>3. SumOver(g, Rows) \in Nat BY <1>1, EventSets, SumType
<1> QED BY <1>2, <1>3 DEF g

(* A line that folds into a row, or for which there is room, is one more    *)
(* buffered.                                                                *)
LEMMA BuffersOne ==
  ASSUME EventsTyped, MemoryBounded, NEW r \in Receivers, NEW x \in Rows,
         x \in Held(r) \/ HasRoom(r),
         buffer' = [buffer EXCEPT ![r][x] = @ + 1]
  PROVE  /\ buffer' \in [Receivers -> [Rows -> Nat]]
         /\ AllBuffered \in Nat /\ AllBuffered' = AllBuffered + 1
         /\ \A q \in Receivers : Cardinality(Held(q)') <= MaxEvents
<1>0. buffer \in [Receivers -> [Rows -> Nat]] BY DEF EventsTyped
<1> DEFINE f == buffer[r]
<1>1. f \in [Rows -> Nat] BY <1>0
<1>2. buffer' = [buffer EXCEPT ![r] = [f EXCEPT ![x] = @ + 1]] BY <1>0
<1>3. /\ [f EXCEPT ![x] = @ + 1] \in [Rows -> Nat]
      /\ Total([f EXCEPT ![x] = @ + 1]) = Total(f) + 1
  <2> HIDE DEF f
  <2> QED BY <1>1, EventSets, TotalOneMore
<1>4. buffer' \in [Receivers -> [Rows -> Nat]] BY <1>0, <1>2, <1>3
<1>5. \A q \in Receivers : buffer'[q] = IF q = r THEN [f EXCEPT ![x] = @ + 1] ELSE buffer[q]
  BY <1>0, <1>2
<1>6. \A q \in Receivers : Total(buffer[q]) \in Nat BY BufferedIsNumber
<1>7. AllBuffered \in Nat /\ AllBuffered' = AllBuffered + 1
  <2>1. CASE r = Syslog
    <3>1. Total(buffer'[Syslog]) = Total(buffer[Syslog]) + 1 BY <2>1, <1>5, <1>3, EventSets
    <3>2. buffer'[Traps] = buffer[Traps] BY <2>1, <1>5, EventSets, EventsAssumption
    <3> QED BY <3>1, <3>2, <1>6, EventSets DEF AllBuffered
  <2>2. CASE r = Traps
    <3>1. Total(buffer'[Traps]) = Total(buffer[Traps]) + 1 BY <2>2, <1>5, <1>3, EventSets
    <3>2. buffer'[Syslog] = buffer[Syslog] BY <2>2, <1>5, EventSets, EventsAssumption
    <3> QED BY <3>1, <3>2, <1>6, EventSets DEF AllBuffered
  <2> QED BY <2>1, <2>2 DEF Receivers
<1>8. ASSUME NEW q \in Receivers PROVE Cardinality(Held(q)') <= MaxEvents
  <2>1. IsFiniteSet(Held(q)) BY EventSets, FS_Subset DEF Held
  <2>2. Cardinality(Held(q)) <= MaxEvents BY DEF MemoryBounded
  <2>3. CASE q # r
    <3>1. Held(q)' = Held(q) BY <2>3, <1>5 DEF Held
    <3> QED BY <3>1, <2>2
  <2>4. CASE q = r /\ x \in Held(r)
    <3>1. Held(q)' = Held(q) BY <2>4, <1>5, <1>1 DEF Held
    <3> QED BY <3>1, <2>2
  <2>5. CASE q = r /\ x \notin Held(r)
    <3>1. Held(q)' = Held(q) \cup {x} BY <2>5, <1>5, <1>1 DEF Held
    <3>2. Cardinality(Held(q) \cup {x}) = Cardinality(Held(q)) + 1
      BY <2>1, <2>5, FS_AddElement
    <3>3. Cardinality(Held(q)) < MaxEvents BY <2>5 DEF HasRoom
    <3>4. Cardinality(Held(q)) \in Nat BY <2>1, FS_CardinalityType
    <3> QED BY <3>1, <3>2, <3>3, <3>4, EventsAssumption
  <2> QED BY <2>3, <2>4, <2>5
<1> QED BY <1>4, <1>7, <1>8

(* A token taken keeps the tracked senders within their bound.              *)
LEMMA TokensTaken ==
  ASSUME EventsTyped, MemoryBounded, NEW r \in Receivers, NEW s \in Senders, HasToken(r, s),
         bucket' = TokenTaken(r, s)
  PROVE  /\ bucket' \in [Receivers -> Buckets]
         /\ \A q \in Receivers : Cardinality(Tracked(q)') <= MaxBuckets
<1>0. bucket \in [Receivers -> Buckets] BY DEF EventsTyped
<1> DEFINE b == bucket[r]
<1>1. PICK T \in SUBSET Senders : b \in [T -> 0..Burst] BY <1>0 DEF Buckets
<1>2. Tracked(r) = T BY <1>1 DEF Tracked
<1>4. IsFiniteSet(T) /\ Cardinality(T) <= MaxBuckets
  BY <1>2, EventSets, FS_Subset DEF MemoryBounded
<1>5. ASSUME NEW U \in SUBSET Senders, Cardinality(U) <= MaxBuckets,
             NEW n \in [U -> 0..Burst], bucket' = [bucket EXCEPT ![r] = n]
      PROVE  /\ bucket' \in [Receivers -> Buckets]
             /\ \A q \in Receivers : Cardinality(Tracked(q)') <= MaxBuckets
  <2>1. n \in Buckets /\ DOMAIN n = U BY DEF Buckets
  <2>2. bucket' \in [Receivers -> Buckets] BY <1>0, <1>5, <2>1
  <2>3. ASSUME NEW q \in Receivers PROVE Cardinality(Tracked(q)') <= MaxBuckets
    <3>1. bucket'[q] = IF q = r THEN n ELSE bucket[q] BY <1>0, <1>5
    <3>2. Cardinality(Tracked(q)) <= MaxBuckets BY DEF MemoryBounded
    <3> QED BY <3>1, <3>2, <2>1, <1>5 DEF Tracked
  <2> QED BY <2>2, <2>3
<1>6. CASE s \in Tracked(r)
  <2>1. b[s] \in 0..Burst /\ b[s] > 0 BY <1>6, <1>1, <1>2 DEF HasToken
  <2>2. b[s] - 1 \in 0..Burst BY <2>1, EventsAssumption
  <2>3. bucket' = [bucket EXCEPT ![r] = [b EXCEPT ![s] = b[s] - 1]]
    BY <1>6, <1>0 DEF TokenTaken
  <2>4. [b EXCEPT ![s] = b[s] - 1] \in [T -> 0..Burst] BY <2>2, <1>1
  <2> QED BY <2>3, <2>4, <1>4, <1>5
<1>7. CASE s \notin Tracked(r) /\ TracksMore(r)
  <2> DEFINE n == [t \in Tracked(r) \cup {s} |-> IF t = s THEN Burst - 1 ELSE b[t]]
  <2>1. bucket' = [bucket EXCEPT ![r] = n] BY <1>7, <1>0 DEF TokenTaken
  <2>2. Burst - 1 \in 0..Burst BY EventsAssumption
  <2>3. n \in [T \cup {s} -> 0..Burst] BY <2>2, <1>1, <1>2
  <2>4. Cardinality(T) < MaxBuckets BY <1>7, <1>2 DEF TracksMore
  <2>5. Cardinality(T \cup {s}) = Cardinality(T) + 1 /\ Cardinality(T) \in Nat
    BY <1>7, <1>2, <1>4, FS_AddElement, FS_CardinalityType
  <2>6. Cardinality(T \cup {s}) <= MaxBuckets BY <2>4, <2>5, EventsAssumption
  <2>7. T \cup {s} \in SUBSET Senders OBVIOUS
  <2> HIDE DEF n
  <2> QED BY <2>1, <2>3, <2>6, <2>7, <1>5
<1>8. CASE s \notin Tracked(r) /\ ~TracksMore(r)
  <2>1. bucket' = [bucket EXCEPT ![r] = b] BY <1>8, <1>0 DEF TokenTaken
  <2> QED BY <2>1, <1>1, <1>4, <1>5
<1> QED BY <1>6, <1>7, <1>8

(* Whatever becomes of a line, it is counted once and, if received,         *)
(* buffered once.                                                           *)
LEMMA IngestsKeeps ==
  ASSUME EventsInv, NEW r \in Receivers, NEW s \in Senders, Ingests(r, s)
  PROVE  /\ bucket' \in [Receivers -> Buckets]
         /\ buffer' \in [Receivers -> [Rows -> Nat]]
         /\ count' \in [Receivers -> [Outcomes -> Nat]]
         /\ offered' \in 0..MaxLines
         /\ MemoryBounded' /\ EveryLineCounted'
         /\ count'[Syslog]["received"] + count'[Traps]["received"] = AllBuffered' + batch + gone
<1> USE DEF EventsInv
<1>0. offered < MaxLines /\ offered' = offered + 1 BY DEF Ingests
<1>1. offered' \in 0..MaxLines BY <1>0, EventsAssumption DEF EventsTyped
<1>2. ASSUME NEW o \in Outcomes, Counts(r, o)
      PROVE  count' \in [Receivers -> [Outcomes -> Nat]] /\ EveryLineCounted'
  BY <1>0, <1>2, CountsOne DEF EveryLineCounted
<1>3. /\ count[Syslog]["received"] \in Nat /\ count[Traps]["received"] \in Nat
      /\ batch \in Nat /\ gone \in Nat /\ AllBuffered \in Nat
  BY EventSets, BufferedIsNumber DEF EventsTyped, Outcomes, AllBuffered
<1>4. ASSUME NEW o \in Outcomes, Counts(r, o), o # "received", UNCHANGED buffer
      PROVE  /\ buffer' \in [Receivers -> [Rows -> Nat]]
             /\ \A q \in Receivers : Cardinality(Held(q)') <= MaxEvents
             /\ count'[Syslog]["received"] + count'[Traps]["received"] = AllBuffered' + batch + gone
  <2>1. /\ count'[Syslog]["received"] = count[Syslog]["received"]
        /\ count'[Traps]["received"] = count[Traps]["received"]
    BY <1>4, CountsOne, EventSets
  <2>2. AllBuffered' = AllBuffered BY <1>4 DEF AllBuffered
  <2>3. \A q \in Receivers : Held(q)' = Held(q) BY <1>4 DEF Held
  <2> QED BY <2>1, <2>2, <2>3, <1>4 DEF ShippedOnce, EventsTyped, MemoryBounded
<1>5. ASSUME UNCHANGED bucket
      PROVE  /\ bucket' \in [Receivers -> Buckets]
             /\ \A q \in Receivers : Cardinality(Tracked(q)') <= MaxBuckets
  BY <1>5 DEF EventsTyped, Tracked, MemoryBounded
<1>6. "dropped" \in Outcomes /\ "unusable" \in Outcomes /\ "overflowed" \in Outcomes
      /\ "refused" \in Outcomes /\ "received" \in Outcomes BY DEF Outcomes
<1>7. CASE Counts(r, "refused") /\ UNCHANGED <<bucket, buffer>>
  BY <1>7, <1>1, <1>2, <1>4, <1>5, <1>6 DEF MemoryBounded
<1>8. CASE Counts(r, "dropped") /\ UNCHANGED <<bucket, buffer>>
  BY <1>8, <1>1, <1>2, <1>4, <1>5, <1>6 DEF MemoryBounded
<1>9. ASSUME HasToken(r, s), bucket' = TokenTaken(r, s)
      PROVE  /\ bucket' \in [Receivers -> Buckets]
             /\ \A q \in Receivers : Cardinality(Tracked(q)') <= MaxBuckets
  BY <1>9, TokensTaken
<1>10. CASE HasToken(r, s) /\ bucket' = TokenTaken(r, s) /\ Counts(r, "unusable") /\ UNCHANGED buffer
  BY <1>10, <1>1, <1>2, <1>4, <1>9, <1>6 DEF MemoryBounded
<1>11. ASSUME HasToken(r, s), bucket' = TokenTaken(r, s), NEW k \in Keys, Buffers(r, <<s, k>>)
       PROVE  /\ buffer' \in [Receivers -> [Rows -> Nat]]
              /\ count' \in [Receivers -> [Outcomes -> Nat]]
              /\ EveryLineCounted'
              /\ \A q \in Receivers : Cardinality(Held(q)') <= MaxEvents
              /\ count'[Syslog]["received"] + count'[Traps]["received"] = AllBuffered' + batch + gone
  <2> DEFINE x == <<s, k>>
  <2>0. x \in Rows BY DEF Rows
  <2>1. CASE (x \in Held(r) \/ HasRoom(r)) /\ buffer' = [buffer EXCEPT ![r][x] = @ + 1]
             /\ Counts(r, "received")
    <3>1. Counts(r, "received") BY <2>1
    <3>2. \A q \in Receivers : count'[q]["received"] =
              IF q = r THEN count[q]["received"] + 1 ELSE count[q]["received"]
      BY <3>1, <1>6, CountsOne
    <3>3. count'[Syslog]["received"] + count'[Traps]["received"]
            = count[Syslog]["received"] + count[Traps]["received"] + 1
      BY <3>2, <1>3, EventSets, EventsAssumption DEF Receivers
    <3>4. /\ buffer' \in [Receivers -> [Rows -> Nat]]
          /\ AllBuffered' = AllBuffered + 1
          /\ \A q \in Receivers : Cardinality(Held(q)') <= MaxEvents
      <4> HIDE DEF x
      <4> QED BY <2>0, <2>1, BuffersOne
    <3>5. count' \in [Receivers -> [Outcomes -> Nat]] /\ EveryLineCounted' BY <3>1, <1>6, <1>2
    <3>6. count'[Syslog]["received"] + count'[Traps]["received"] = AllBuffered' + batch + gone
      BY <3>3, <3>4, <1>3 DEF ShippedOnce
    <3> QED BY <3>4, <3>5, <3>6
  <2>2. CASE UNCHANGED buffer /\ Counts(r, "overflowed")
    BY <2>2, <1>2, <1>4, <1>6
  <2> QED BY <1>11, <2>1, <2>2 DEF Buffers
<1>12. CASE HasToken(r, s) /\ bucket' = TokenTaken(r, s) /\ \E k \in Keys : Buffers(r, <<s, k>>)
  BY <1>12, <1>1, <1>9, <1>11 DEF MemoryBounded
<1> QED BY <1>7, <1>8, <1>10, <1>12 DEF Ingests

(* Nothing offered, nothing counted.                                        *)
LEMMA EventsStart == Init => EventsInv
<1> SUFFICES ASSUME Init PROVE EventsInv
  OBVIOUS
<1> USE DEF Init
<1>1. ASSUME NEW q \in Receivers
      PROVE  Total(buffer[q]) = 0 /\ buffer[q] \in [Rows -> Nat]
  BY TotalOfNone DEF NoRows
<1>2. ASSUME NEW q \in Receivers
      PROVE  Total(count[q]) = 0 /\ count[q] \in [Outcomes -> Nat]
  <2> DEFINE f == [o \in Outcomes |-> 0]
  <2>1. f \in [Outcomes -> Nat] /\ \A o \in Outcomes : f[o] = 0 OBVIOUS
  <2>2. count[q] = f OBVIOUS
  <2> HIDE DEF f
  <2>3. Total(f) = SumOver(f, Outcomes) BY <2>1, TotalIsSum
  <2> QED BY <2>1, <2>2, <2>3, EventSets, SumZero
<1>3. ASSUME NEW q \in Receivers
      PROVE  Held(q) = {} /\ Tracked(q) = {} /\ bucket[q] \in Buckets
  <2>1. Held(q) = {} BY DEF Held, NoRows
  <2>2. bucket[q] \in [{} -> 0..Burst] BY SMT
  <2> QED BY <2>1, <2>2 DEF Tracked, Buckets
<1>4. EventsTyped
  <2>1. bucket \in [Receivers -> Buckets] BY <1>3
  <2>2. buffer \in [Receivers -> [Rows -> Nat]] BY <1>1
  <2>3. count \in [Receivers -> [Outcomes -> Nat]] BY <1>2
  <2>4. conn \in [Senders -> {"none", "open", "ended"}] OBVIOUS
  <2>5. pending \in [Senders -> Holdings] BY DEF Holdings
  <2>6. bound \in [Receivers -> {"off", "bound", "failed"}] OBVIOUS
  <2>7. enabled \subseteq Receivers /\ vouched \subseteq Senders OBVIOUS
  <2>8. /\ timers = 0 /\ fatal = FALSE /\ offered = 0 /\ begun = 0
        /\ fed = 0 /\ cut = 0 /\ batch = 0 /\ gone = 0
    OBVIOUS
  <2> HIDE DEF Init
  <2>9. timers \in 0..1 /\ offered \in 0..MaxLines /\ begun \in 0..MaxLines
    BY <2>8, EventsAssumption
  <2>10. fatal \in BOOLEAN BY <2>8
  <2>11. fed \in Nat /\ cut \in Nat /\ batch \in Nat /\ gone \in Nat BY <2>8
  <2> QED BY <2>1, <2>2, <2>3, <2>4, <2>5, <2>6, <2>7, <2>9, <2>10, <2>11 DEF EventsTyped
<1>5. Cardinality({}) = 0 BY FS_EmptySet
<1>6. MemoryBounded
  <2> HIDE DEF Init
  <2>1. ASSUME NEW q \in Receivers
        PROVE  Cardinality(Held(q)) = 0 /\ Cardinality(Tracked(q)) = 0
    BY <1>3, <1>5
  <2> QED BY <2>1, EventsAssumption DEF MemoryBounded
<1>7. EveryLineCounted BY <1>2, EventSets DEF EveryLineCounted
<1>8. ShippedOnce
  <2>1. count[Syslog]["received"] = 0 /\ count[Traps]["received"] = 0
    BY EventSets DEF Outcomes
  <2> QED BY <2>1, <1>1, EventSets DEF ShippedOnce, AllBuffered
<1>9. StreamLineOnce
  <2> DEFINE A == {s \in Senders : pending[s] = "line"}
  <2>1. A = {} OBVIOUS
  <2>2. begun = 0 /\ fed = 0 /\ cut = 0 OBVIOUS
  <2>3. StreamLineOnce <=> begun = fed + cut + Cardinality(A) BY DEF StreamLineOnce
  <2> HIDE DEF Init, A
  <2> QED BY <2>1, <2>2, <2>3, <1>5
<1> QED BY <1>4, <1>6, <1>7, <1>8, <1>9 DEF EventsInv

(* 1 while a line is held of a stream.                                       *)
HeldLine(what) == IF what = "line" THEN 1 ELSE 0

(* The lines begun are those handed on, those cut and those held, as long as *)
(* what begins in a step is handed on, cut or held by it.                    *)
LEMMA StreamGoesOn ==
  ASSUME EventsInv, NEW s \in Senders, NEW w \in Holdings,
         pending' = [pending EXCEPT ![s] = w],
         begun' \in Nat, fed' \in Nat, cut' \in Nat,
         begun' + fed + cut + HeldLine(pending[s])
           = begun + fed' + cut' + HeldLine(w)
  PROVE  StreamLineOnce'
<1> DEFINE A == {q \in Senders : pending[q] = "line"}
           B == {q \in Senders : pending'[q] = "line"}
<1>0. /\ pending \in [Senders -> Holdings] /\ begun \in Nat /\ fed \in Nat /\ cut \in Nat
      /\ begun = fed + cut + Cardinality(A)
  BY EventsAssumption DEF EventsInv, EventsTyped, StreamLineOnce
<1>1. IsFiniteSet(A) /\ IsFiniteSet(B) BY EventSets, FS_Subset
<1>2. /\ pending[s] = "line" /\ w = "line" => B = A
      /\ pending[s] = "line" /\ w # "line" => B = A \ {s} /\ s \in A
      /\ pending[s] # "line" /\ w = "line" => B = A \cup {s} /\ s \notin A
      /\ pending[s] # "line" /\ w # "line" => B = A
  BY <1>0
<1>3. StreamLineOnce' <=> begun' = fed' + cut' + Cardinality(B) BY DEF StreamLineOnce
<1> HIDE DEF A, B
<1>4. Cardinality(A) \in Nat /\ Cardinality(B) \in Nat
  BY <1>1, FS_CardinalityType
<1>5. /\ s \notin A => Cardinality(A \cup {s}) = Cardinality(A) + 1
      /\ s \in A => Cardinality(A \ {s}) = Cardinality(A) - 1
  BY <1>1, FS_AddElement, FS_RemoveElement
<1>6. Cardinality(B) + HeldLine(pending[s]) = Cardinality(A) + HeldLine(w)
  <2>1. CASE pending[s] = "line" /\ w = "line"
    <3>1. B = A BY <1>2, <2>1
    <3>2. HeldLine(pending[s]) = HeldLine(w) BY <2>1
    <3> QED BY <3>1, <3>2
  <2>2. CASE pending[s] = "line" /\ w # "line"
    <3>1. Cardinality(B) = Cardinality(A) - 1 BY <1>2, <1>5, <2>2
    <3>2. HeldLine(pending[s]) = 1 /\ HeldLine(w) = 0 BY <2>2 DEF HeldLine
    <3> QED BY <3>1, <3>2, <1>4
  <2>3. CASE pending[s] # "line" /\ w = "line" BY <1>2, <1>4, <1>5, <2>3 DEF HeldLine
  <2>4. CASE pending[s] # "line" /\ w # "line" BY <1>2, <1>4, <2>4 DEF HeldLine
  <2> QED BY <2>1, <2>2, <2>3, <2>4
<1>7. HeldLine(w) \in Nat /\ HeldLine(pending[s]) \in Nat BY DEF HeldLine
<1> QED BY <1>0, <1>3, <1>4, <1>6, <1>7

(* A step of a stream that hands something on.                               *)
LEMMA StreamFeeds ==
  ASSUME EventsInv, NEW s \in Senders, NEW w \in Holdings,
         pending' = [pending EXCEPT ![s] = w], Ingests(Syslog, s),
         begun' \in 0..MaxLines, fed' \in Nat, cut' \in Nat,
         begun' + fed + cut + HeldLine(pending[s])
           = begun + fed' + cut' + HeldLine(w),
         conn' \in [Senders -> {"none", "open", "ended"}],
         UNCHANGED <<setup, shipment>>
  PROVE  EventsInv'
<1>0. EventsTyped BY DEF EventsInv
<1>1. begun' \in Nat BY EventsAssumption
<1>2. StreamLineOnce' BY <1>1, StreamGoesOn
<1>3. pending' \in [Senders -> Holdings] BY <1>0 DEF EventsTyped
<1>4. EventsTyped' BY <1>0, <1>3, EventSets, IngestsKeeps DEF EventsTyped, setup, shipment
<1>5. MemoryBounded' /\ EveryLineCounted' /\ ShippedOnce'
  BY EventSets, IngestsKeeps DEF ShippedOnce, shipment
<1> QED BY <1>2, <1>4, <1>5 DEF EventsInv

(* What is left alone keeps the conjuncts that are about it.                 *)
LEMMA IntakeRests ==
  ASSUME EventsInv, UNCHANGED intake
  PROVE  MemoryBounded' /\ EveryLineCounted' /\ AllBuffered' = AllBuffered
<1>1. UNCHANGED <<bucket, buffer, count, offered>> BY DEF intake
<1>2. \A q \in Receivers : Held(q)' = Held(q) /\ Tracked(q)' = Tracked(q)
  BY <1>1 DEF Held, Tracked
<1> QED BY <1>1, <1>2 DEF EventsInv, MemoryBounded, EveryLineCounted, AllBuffered

(* Every step keeps it.                                                     *)
LEMMA EventsStep == EventsInv /\ [Next]_vars => EventsInv'
<1> SUFFICES ASSUME EventsInv, [Next]_vars PROVE EventsInv'
  OBVIOUS
<1>0. EventsTyped /\ MemoryBounded /\ EveryLineCounted /\ ShippedOnce /\ StreamLineOnce
  BY DEF EventsInv
<1>1. ASSUME NEW r \in Receivers, StartReceiver(r) PROVE EventsInv'
  <2>1. PICK b \in {"bound", "failed"} : Binds(r, b) BY <1>1 DEF StartReceiver
  <2>2. bound' \in [Receivers -> {"off", "bound", "failed"}] /\ timers' \in 0..1
    BY <2>1, <1>0 DEF Binds, FlushTimers, EventsTyped
  <2>3. UNCHANGED <<enabled, fatal, vouched, intake, streams, shipment>> BY <1>1 DEF StartReceiver
  <2>4. EventsTyped' BY <2>2, <2>3, <1>0 DEF EventsTyped, intake, streams, shipment
  <2>5. MemoryBounded' /\ EveryLineCounted' /\ AllBuffered' = AllBuffered BY <2>3, IntakeRests
  <2>6. ShippedOnce' BY <2>3, <2>5, <1>0 DEF ShippedOnce, intake, shipment
  <2>7. StreamLineOnce' BY <2>3, <1>0 DEF StreamLineOnce, streams
  <2> QED BY <2>4, <2>5, <2>6, <2>7 DEF EventsInv
<1>2. ASSUME NEW r \in Receivers, NEW s \in Senders, Datagram(r, s) PROVE EventsInv'
  <2>1. Ingests(r, s) /\ UNCHANGED <<setup, streams, shipment>> BY <1>2 DEF Datagram
  <2>2. EventsTyped' BY <2>1, <1>0, IngestsKeeps DEF EventsTyped, setup, streams, shipment
  <2>3. MemoryBounded' /\ EveryLineCounted' BY <2>1, IngestsKeeps
  <2>4. ShippedOnce' BY <2>1, IngestsKeeps DEF ShippedOnce, shipment
  <2>5. StreamLineOnce' BY <2>1, <1>0 DEF StreamLineOnce, streams
  <2> QED BY <2>2, <2>3, <2>4, <2>5 DEF EventsInv
<1>3. ASSUME NEW s \in Senders, TcpConnects(s) PROVE EventsInv'
  <2>0. UNCHANGED <<setup, shipment, bucket, buffer, pending, begun, fed, cut>>
    BY <1>3 DEF TcpConnects, Others
  <2>1. AllBuffered' = AllBuffered /\ StreamLineOnce' /\ MemoryBounded'
    <3>1. \A q \in Receivers : Held(q)' = Held(q) /\ Tracked(q)' = Tracked(q)
      BY <2>0 DEF Held, Tracked
    <3> QED BY <3>1, <2>0, <1>0 DEF AllBuffered, StreamLineOnce, MemoryBounded
  <2>2. CASE conn' = [conn EXCEPT ![s] = "open"] /\ UNCHANGED <<count, offered>>
    <3>1. EventsTyped' BY <2>0, <2>2, <1>0 DEF EventsTyped, setup, shipment
    <3>2. EveryLineCounted' /\ ShippedOnce'
      BY <2>0, <2>1, <2>2, <1>0 DEF EveryLineCounted, ShippedOnce, shipment
    <3> QED BY <3>1, <3>2, <2>1 DEF EventsInv
  <2>3. CASE /\ offered < MaxLines /\ offered' = offered + 1
             /\ Counts(Syslog, "refused") /\ UNCHANGED conn
    <3>1. "refused" \in Outcomes /\ "received" # "refused" BY DEF Outcomes
    <3>2. /\ count' \in [Receivers -> [Outcomes -> Nat]]
          /\ Total(count[Syslog]) + Total(count[Traps]) \in Nat
          /\ Total(count'[Syslog]) + Total(count'[Traps])
               = Total(count[Syslog]) + Total(count[Traps]) + 1
          /\ \A q \in Receivers : count'[q]["received"] = count[q]["received"]
      BY <3>1, <2>3, <1>0, EventSets, CountsOne
    <3>3. offered' \in 0..MaxLines BY <2>3, <1>0, EventsAssumption DEF EventsTyped
    <3>4. EventsTyped' BY <2>0, <2>3, <3>2, <3>3, <1>0 DEF EventsTyped, setup, shipment
    <3>5. EveryLineCounted' BY <3>2, <2>3, <1>0 DEF EveryLineCounted
    <3>6. ShippedOnce' BY <3>2, <2>0, <2>1, <1>0, EventSets DEF ShippedOnce, shipment
    <3> QED BY <3>4, <3>5, <3>6, <2>1 DEF EventsInv
  <2> QED BY <2>2, <2>3, <1>3 DEF TcpConnects
<1>4. ASSUME NEW s \in Senders, TcpLineBegins(s) \/ TcpRestArrives(s) PROVE EventsInv'
  <2>1. UNCHANGED <<setup, shipment, intake, conn, fed, cut>>
    BY <1>4 DEF TcpLineBegins, TcpRestArrives, Others
  <2>2. /\ begun' \in 0..MaxLines
        /\ \E w \in Holdings : /\ pending' = [pending EXCEPT ![s] = w]
                              /\ begun' + HeldLine(pending[s]) = begun + HeldLine(w)
    BY <1>4, <1>0, EventsAssumption
       DEF TcpLineBegins, TcpRestArrives, Holds, Holdings, HeldLine, EventsTyped
  <2>3. PICK w \in Holdings : /\ pending' = [pending EXCEPT ![s] = w]
                              /\ begun' + HeldLine(pending[s]) = begun + HeldLine(w)
    BY <2>2
  <2>4. HeldLine(w) \in Nat /\ HeldLine(pending[s]) \in Nat BY DEF HeldLine
  <2>5. begun \in Nat /\ begun' \in Nat /\ fed \in Nat /\ cut \in Nat
    BY <2>2, <1>0, EventsAssumption DEF EventsTyped
  <2>6. StreamLineOnce'
    <3>1. fed' = fed /\ cut' = cut BY <2>1
    <3>2. begun' + fed + cut + HeldLine(pending[s]) = begun + fed' + cut' + HeldLine(w)
      <4> DEFINE a == HeldLine(pending[s])
                 b == HeldLine(w)
      <4>1. begun' + a = begun + b /\ a \in Nat /\ b \in Nat BY <2>3, <2>4
      <4> HIDE DEF a, b
      <4>2. begun' + fed + cut + a = (begun' + a) + (fed + cut) BY <2>5, <4>1
      <4>3. begun + fed + cut + b = (begun + b) + (fed + cut) BY <2>5, <4>1
      <4> QED BY <3>1, <4>1, <4>2, <4>3 DEF a, b
    <3> QED BY <2>3, <2>5, <3>1, <3>2, StreamGoesOn
  <2>7. EventsTyped' BY <2>1, <2>2, <2>3, <1>0 DEF EventsTyped, setup, shipment, intake
  <2>8. MemoryBounded' /\ EveryLineCounted' /\ AllBuffered' = AllBuffered BY <2>1, IntakeRests
  <2>9. ShippedOnce' BY <2>1, <2>8, <1>0 DEF ShippedOnce, intake, shipment
  <2> QED BY <2>6, <2>7, <2>8, <2>9 DEF EventsInv
<1>5. ASSUME NEW s \in Senders, TcpLineEnds(s) PROVE EventsInv'
  <2>1. /\ pending[s] \in {"line", "rest"} /\ Ingests(Syslog, s)
        /\ fed' = fed + HeldLine(pending[s]) /\ pending' = [pending EXCEPT ![s] = "empty"]
        /\ UNCHANGED <<setup, shipment, conn, begun, cut>>
    BY <1>5, <1>0 DEF TcpLineEnds, HandsOn, Holds, Others, HeldLine, EventsTyped
  <2>2. HeldLine(pending[s]) \in Nat /\ HeldLine("empty") = 0 /\ "empty" \in Holdings
    BY DEF HeldLine, Holdings
  <2>3. begun \in Nat /\ fed \in Nat /\ cut \in Nat BY <1>0, EventsAssumption DEF EventsTyped
  <2>4. begun' + fed + cut + HeldLine(pending[s]) = begun + fed' + cut' + HeldLine("empty")
    BY <2>1, <2>2, <2>3
  <2>5. begun' \in 0..MaxLines /\ fed' \in Nat /\ cut' \in Nat
    BY <2>1, <2>2, <2>3, <1>0 DEF EventsTyped
  <2>6. conn' \in [Senders -> {"none", "open", "ended"}] BY <2>1, <1>0 DEF EventsTyped
  <2> QED BY <2>1, <2>2, <2>4, <2>5, <2>6, StreamFeeds
<1>11. ASSUME NEW s \in Senders, TcpOversized(s) PROVE EventsInv'
  <2>1. PICK n \in 0..(MaxLines - begun) :
          /\ pending[s] = "empty" => n > 0
          /\ Ingests(Syslog, s) /\ begun' = begun + n
          /\ IF pending[s] \in {"torn", "rest"}
             THEN cut' = cut + n /\ UNCHANGED fed
             ELSE /\ fed' = fed + 1
                  /\ cut' = IF pending[s] = "line" THEN cut + n ELSE cut + n - 1
          /\ Holds(s, "empty") \/ Holds(s, "torn")
          /\ UNCHANGED <<setup, shipment, conn>>
    BY <1>11 DEF TcpOversized, Others
  <2>2. PICK w \in {"empty", "torn"} : pending' = [pending EXCEPT ![s] = w]
    BY <2>1 DEF Holds
  <2>3. w \in Holdings /\ HeldLine(w) = 0 /\ pending[s] \in Holdings
    BY <2>2, <1>0 DEF HeldLine, Holdings, EventsTyped
  <2>4. /\ begun \in 0..MaxLines /\ fed \in Nat /\ cut \in Nat /\ MaxLines \in Nat
        /\ conn' \in [Senders -> {"none", "open", "ended"}]
    BY <2>1, <1>0, EventsAssumption DEF EventsTyped
  <2>5. /\ begun' \in 0..MaxLines /\ fed' \in Nat /\ cut' \in Nat
        /\ begun' + fed + cut + HeldLine(pending[s]) = begun + fed' + cut' + HeldLine(w)
    <3>0. n \in Nat /\ begun + n \in 0..MaxLines BY <2>4
    <3>1. CASE pending[s] \in {"torn", "rest"}
      <4>1. HeldLine(pending[s]) = 0 BY <3>1 DEF HeldLine
      <4> QED BY <2>1, <2>3, <2>4, <3>0, <3>1, <4>1
    <3>2. CASE pending[s] = "line"
      <4>1. HeldLine(pending[s]) = 1 BY <3>2 DEF HeldLine
      <4>2. fed' = fed + 1 /\ cut' = cut + n BY <2>1, <3>2
      <4> QED BY <2>1, <2>3, <2>4, <3>0, <4>1, <4>2
    <3>3. CASE pending[s] = "empty"
      <4>1. HeldLine(pending[s]) = 0 BY <3>3 DEF HeldLine
      <4>2. fed' = fed + 1 /\ cut' = cut + n - 1 /\ n > 0 BY <2>1, <3>3
      <4> QED BY <2>1, <2>3, <2>4, <3>0, <4>1, <4>2
    <3> QED BY <2>3, <3>1, <3>2, <3>3 DEF Holdings
  <2> QED BY <2>1, <2>2, <2>3, <2>4, <2>5, StreamFeeds
<1>6. ASSUME NEW s \in Senders, NEW to \in {"none", "ended"}, Done(s, to) PROVE EventsInv'
  <2>0. /\ conn' = [conn EXCEPT ![s] = to] /\ pending' = [pending EXCEPT ![s] = "empty"]
        /\ UNCHANGED <<setup, shipment, begun, cut>>
    BY <1>6 DEF Done, Others, RestCleared
  <2>1. conn' \in [Senders -> {"none", "open", "ended"}] BY <2>0, <1>0 DEF EventsTyped
  <2>2. /\ HeldLine(pending[s]) \in Nat /\ HeldLine("empty") = 0 /\ "empty" \in Holdings
        /\ begun \in Nat /\ begun \in 0..MaxLines /\ fed \in Nat /\ cut \in Nat
    BY <1>0, EventsAssumption DEF HeldLine, Holdings, EventsTyped
  <2>3. CASE pending[s] \in {"line", "rest"}
    <3>1. Ingests(Syslog, s) /\ fed' = fed + HeldLine(pending[s])
      BY <1>6, <2>2, <2>3 DEF Done, HandsOn, HeldLine
    <3>2. /\ begun' \in 0..MaxLines /\ fed' \in Nat /\ cut' \in Nat
          /\ begun' + fed + cut + HeldLine(pending[s]) = begun + fed' + cut' + HeldLine("empty")
      BY <2>0, <2>2, <3>1
    <3> QED BY <2>0, <2>1, <2>2, <3>1, <3>2, StreamFeeds
  <2>4. CASE pending[s] \notin {"line", "rest"}
    <3>0. UNCHANGED <<intake, fed>> /\ HeldLine(pending[s]) = 0
      BY <1>6, <2>4 DEF Done, HeldLine
    <3>1. EventsTyped' BY <2>0, <2>1, <2>2, <3>0, <1>0 DEF EventsTyped, setup, shipment, intake
    <3>2. MemoryBounded' /\ EveryLineCounted' /\ AllBuffered' = AllBuffered BY <3>0, IntakeRests
    <3>3. ShippedOnce' BY <2>0, <3>0, <3>2, <1>0 DEF ShippedOnce, intake, shipment
    <3>4. StreamLineOnce'
      <4>1. begun' + fed + cut + HeldLine(pending[s]) = begun + fed' + cut' + HeldLine("empty")
        BY <2>0, <2>2, <3>0
      <4> QED BY <2>0, <2>2, <3>0, <4>1, StreamGoesOn
    <3> QED BY <3>1, <3>2, <3>3, <3>4 DEF EventsInv
  <2> QED BY <2>3, <2>4
<1>7. CASE Refill
  <2>0. /\ bucket' = [r \in Receivers |->
             [s \in Tracked(r) |-> IF bucket[r][s] < Burst THEN bucket[r][s] + 1 ELSE Burst]]
        /\ UNCHANGED <<setup, buffer, count, offered, streams, shipment>>
    BY <1>7 DEF Refill
  <2>1. ASSUME NEW r \in Receivers PROVE bucket'[r] \in Buckets /\ Tracked(r)' = Tracked(r)
    <3>1. PICK T \in SUBSET Senders : bucket[r] \in [T -> 0..Burst]
      BY <1>0 DEF EventsTyped, Buckets
    <3>2. Tracked(r) = T BY <3>1 DEF Tracked
    <3>3. bucket'[r] = [s \in T |-> IF bucket[r][s] < Burst THEN bucket[r][s] + 1 ELSE Burst]
      BY <2>0, <3>2
    <3>4. \A s \in T : (IF bucket[r][s] < Burst THEN bucket[r][s] + 1 ELSE Burst) \in 0..Burst
      BY <3>1, EventsAssumption
    <3>5. bucket'[r] \in [T -> 0..Burst] BY <3>3, <3>4
    <3> QED BY <3>2, <3>5 DEF Buckets, Tracked
  <2>2. bucket' \in [Receivers -> Buckets] BY <2>0, <2>1
  <2>3. EventsTyped' BY <2>0, <2>2, <1>0 DEF EventsTyped, setup, streams, shipment
  <2>4. MemoryBounded' BY <2>0, <2>1, <1>0 DEF MemoryBounded, Held
  <2>5. EveryLineCounted' /\ ShippedOnce' /\ StreamLineOnce'
    BY <2>0, <1>0 DEF EveryLineCounted, ShippedOnce, AllBuffered, StreamLineOnce, streams, shipment
  <2> QED BY <2>3, <2>4, <2>5 DEF EventsInv
<1>8. CASE Flush
  <2>0. /\ batch = 0 /\ batch' = AllBuffered /\ buffer' = Emptied
        /\ UNCHANGED <<setup, bucket, count, offered, streams, gone>>
    BY <1>8 DEF Flush
  <2>1. \A q \in Receivers : buffer'[q] = NoRows BY <2>0 DEF Emptied
  <2>2. buffer' \in [Receivers -> [Rows -> Nat]] BY <2>0 DEF Emptied, NoRows
  <2>3. AllBuffered' = 0 BY <2>1, TotalOfNone, EventSets DEF AllBuffered
  <2>4. AllBuffered \in Nat BY <1>0, BufferedIsNumber, EventSets DEF AllBuffered
  <2>5. EventsTyped' BY <2>0, <2>2, <2>4, <1>0 DEF EventsTyped, setup, streams
  <2>6. MemoryBounded'
    <3>1. \A q \in Receivers : Held(q)' = {} /\ Tracked(q)' = Tracked(q)
      BY <2>0, <2>1 DEF Held, NoRows, Tracked
    <3> QED BY <3>1, <1>0, FS_EmptySet, EventsAssumption DEF MemoryBounded
  <2>7. ShippedOnce' BY <2>0, <2>3, <2>4, <1>0 DEF ShippedOnce, EventsTyped
  <2>8. EveryLineCounted' /\ StreamLineOnce'
    BY <2>0, <1>0 DEF EveryLineCounted, StreamLineOnce, streams
  <2> QED BY <2>5, <2>6, <2>7, <2>8 DEF EventsInv
<1>9. CASE FlushAnswered
  <2>0. /\ batch' = 0 /\ gone' = gone + batch /\ fatal' \in {fatal, TRUE}
        /\ UNCHANGED <<enabled, bound, timers, vouched, intake, streams>>
    BY <1>9 DEF FlushAnswered
  <2>a. fatal' \in BOOLEAN BY <2>0, <1>0 DEF EventsTyped
  <2>b. batch' \in Nat /\ gone' \in Nat BY <2>0, <1>0 DEF EventsTyped
  <2>1. EventsTyped' BY <2>0, <2>a, <2>b, <1>0 DEF EventsTyped, intake, streams
  <2>2. MemoryBounded' /\ EveryLineCounted' /\ AllBuffered' = AllBuffered BY <2>0, IntakeRests
  <2>3. AllBuffered \in Nat BY <1>0, BufferedIsNumber, EventSets DEF AllBuffered
  <2>4. ShippedOnce' BY <2>0, <2>2, <2>3, <1>0 DEF ShippedOnce, intake, EventsTyped
  <2>5. StreamLineOnce' BY <2>0, <1>0 DEF StreamLineOnce, streams
  <2> QED BY <2>1, <2>2, <2>4, <2>5 DEF EventsInv
<1>10. CASE RejectedElsewhere \/ UNCHANGED vars
  <2>0. fatal' \in {fatal, TRUE} /\ UNCHANGED <<enabled, bound, timers, vouched, intake, streams, shipment>>
    BY <1>10 DEF RejectedElsewhere, vars, setup
  <2>1. EventsTyped' BY <2>0, <1>0 DEF EventsTyped, intake, streams, shipment
  <2>2. MemoryBounded' /\ EveryLineCounted' /\ AllBuffered' = AllBuffered BY <2>0, IntakeRests
  <2>3. ShippedOnce' BY <2>0, <2>2, <1>0 DEF ShippedOnce, intake, shipment
  <2>4. StreamLineOnce' BY <2>0, <1>0 DEF StreamLineOnce, streams
  <2> QED BY <2>1, <2>2, <2>3, <2>4 DEF EventsInv
<1> QED BY <1>1, <1>2, <1>3, <1>4, <1>5, <1>11, <1>6, <1>7, <1>8, <1>9, <1>10 DEF Next, TcpEnds, TcpCloses

(* The bounds of the type invariant follow from the accounts.                *)
LEMMA EventsInvIsEnough == EventsInv => Accounted
<1> SUFFICES ASSUME EventsInv PROVE Accounted
  OBVIOUS
<1>0. EventsTyped /\ EveryLineCounted /\ ShippedOnce /\ StreamLineOnce BY DEF EventsInv
<1>1. ASSUME NEW q \in Receivers, NEW o \in Outcomes
      PROVE  count[q][o] \in Nat /\ count[q][o] <= Total(count[q]) /\ Total(count[q]) \in Nat
  <2> DEFINE f == count[q]
  <2>1. f \in [Outcomes -> Nat] BY <1>0 DEF EventsTyped
  <2> HIDE DEF f
  <2>2. Total(f) = SumOver(f, Outcomes) BY <2>1, TotalIsSum
  <2>3. SumOver(f, Outcomes) \in Nat BY <2>1, EventSets, SumType
  <2>4. f[o] <= SumOver(f, Outcomes) BY <2>1, EventSets, SumElement
  <2> QED BY <2>1, <2>2, <2>3, <2>4 DEF f
<1>2. ASSUME NEW q \in Receivers, NEW x \in Rows
      PROVE  buffer[q][x] \in Nat /\ buffer[q][x] <= Total(buffer[q])
  <2> DEFINE f == buffer[q]
  <2>1. f \in [Rows -> Nat] BY <1>0 DEF EventsTyped
  <2> HIDE DEF f
  <2>2. Total(f) = SumOver(f, Rows) BY <2>1, TotalIsSum
  <2>4. f[x] <= SumOver(f, Rows) BY <2>1, EventSets, SumElement
  <2> QED BY <2>1, <2>2, <2>4 DEF f
<1>3. \A q \in Receivers : Total(buffer[q]) \in Nat BY <1>0, BufferedIsNumber
<1>4. "received" \in Outcomes BY DEF Outcomes
<1>5. offered \in 0..MaxLines /\ offered = Total(count[Syslog]) + Total(count[Traps])
  BY <1>0 DEF EventsTyped, EveryLineCounted
<1>6. \A q \in Receivers : Total(count[q]) <= MaxLines
  BY <1>1, <1>4, <1>5, EventSets, EventsAssumption DEF Receivers
<1>7. count \in [Receivers -> [Outcomes -> 0..MaxLines]]
  <2>1. \A q \in Receivers, o \in Outcomes : count[q][o] \in 0..MaxLines
    BY <1>1, <1>6, EventsAssumption
  <2> QED BY <2>1, <1>0 DEF EventsTyped
<1>8. count[Syslog]["received"] + count[Traps]["received"] <= MaxLines
  BY <1>1, <1>4, <1>5, EventSets, EventsAssumption
<1>9. /\ Total(buffer[Syslog]) <= MaxLines /\ Total(buffer[Traps]) <= MaxLines
      /\ batch \in 0..MaxLines /\ gone \in 0..MaxLines
  <2>1. batch \in Nat /\ gone \in Nat BY <1>0 DEF EventsTyped
  <2>2. Total(buffer[Syslog]) + Total(buffer[Traps]) + batch + gone <= MaxLines
    BY <1>8, <1>0 DEF ShippedOnce, AllBuffered
  <2> QED BY <2>1, <2>2, <1>3, EventSets, EventsAssumption
<1>10. buffer \in [Receivers -> [Rows -> 0..MaxLines]]
  <2>1. \A q \in Receivers : Total(buffer[q]) <= MaxLines BY <1>9 DEF Receivers
  <2>2. \A q \in Receivers, x \in Rows : buffer[q][x] \in 0..MaxLines
    BY <2>1, <1>2, <1>3, EventsAssumption
  <2> QED BY <2>2, <1>0 DEF EventsTyped
<1>11. fed \in 0..MaxLines /\ cut \in 0..MaxLines
  <2> DEFINE A == {s \in Senders : pending[s] = "line"}
  <2>1. IsFiniteSet(A) BY EventSets, FS_Subset
  <2>2. Cardinality(A) \in Nat BY <2>1, FS_CardinalityType
  <2>3. begun = fed + cut + Cardinality(A) BY <1>0 DEF StreamLineOnce
  <2> HIDE DEF A
  <2> QED BY <2>2, <2>3, <1>0, EventsAssumption DEF EventsTyped
<1>12. ASSUME NEW r \in Receivers
       PROVE  Tracked(r) \subseteq Senders /\ bucket[r] \in [Tracked(r) -> 0..Burst]
  <2>1. PICK T \in SUBSET Senders : bucket[r] \in [T -> 0..Burst]
    BY <1>0 DEF EventsTyped, Buckets
  <2>2. Tracked(r) = T BY <2>1 DEF Tracked
  <2> QED BY <2>1, <2>2
<1>13. TypeOK
  BY <1>0, <1>7, <1>9, <1>10, <1>11, <1>12 DEF TypeOK, EventsTyped, Holdings
<1> QED BY <1>13 DEF EventsInv, Accounted

(* What a receiver is handed as a line is counted once, every occurrence     *)
(* received is in one place on its way to the server, neither the rows nor   *)
(* the senders' buckets outgrow their bounds, and a line that began over TCP *)
(* is handed on once unless an oversized data event cut it, for any senders, *)
(* keys and bounds (ingestLine, handleConnection, drain, flushDeviceEvents). *)
THEOREM EventsAreAccounted == Spec => []Accounted
<1>1. Spec => []EventsInv
  BY EventsStart, EventsStep, PTL DEF Spec
<1> QED BY <1>1, EventsInvIsEnough, PTL

-----------------------------------------------------------------------------
(* Interface rates.                                                          *)

(* Two functions that add up w are the same.                                *)
LEMMA SumsUnique ==
  ASSUME NEW S, IsFiniteSet(S), NEW w, NEW g, NEW h, SumsUp(g, w, S), SumsUp(h, w, S)
  PROVE  g[S] = h[S]
<1>a. \A s \in SUBSET S : g[s] = IF s = {} THEN 0 ELSE w[One(s)] + g[s \ {One(s)}]
  BY DEF SumsUp
<1>b. \A s \in SUBSET S : h[s] = IF s = {} THEN 0 ELSE w[One(s)] + h[s \ {One(s)}]
  BY DEF SumsUp
<1> DEFINE Q == {s \in SUBSET S : g[s] = h[s]}
<1>1. {} \in Q BY <1>a, <1>b
<1>2. ASSUME NEW s \in SUBSET S, s # {}, s \ {One(s)} \in Q PROVE s \in Q
  <2>1. g[s] = w[One(s)] + g[s \ {One(s)}] BY <1>a, <1>2
  <2>2. h[s] = w[One(s)] + h[s \ {One(s)}] BY <1>b, <1>2
  <2>3. g[s \ {One(s)}] = h[s \ {One(s)}] BY <1>2
  <2> QED BY <2>1, <2>2, <2>3
<1>3. SUBSET S \subseteq Q
  <2> HIDE DEF Q
  <2> QED BY <1>1, <1>2, OneByOne
<1> QED BY <1>3

(* The total of a snapshot is a sum over what its readings have in common.  *)
LEMMA TotalOfRows ==
  ASSUME NEW r, NEW s, IsFiniteSet(Compared(r, s))
  PROVE  TotalOf(r, s) = SumOver([i \in Compared(r, s) |-> RowOf(r, s, i).core], Compared(r, s))
<1> DEFINE S == Compared(r, s)
           w == [i \in S |-> RowOf(r, s, i).core]
           F(g) == [t \in SUBSET S |-> IF t = {} THEN 0 ELSE RowOf(r, s, One(t)).core + g[t \ {One(t)}]]
<1>1. TotalOf(r, s) = (CHOOSE g : g = F(g))[S]
  BY DEF TotalOf, MapThenSumSet, MapThenFoldSet, One
<1>2. ASSUME NEW g PROVE g = F(g) <=> SumsUp(g, w, S)
  <2>1. \A t \in SUBSET S : t # {} => RowOf(r, s, One(t)).core = w[One(t)] BY DEF One
  <2> HIDE DEF w, S
  <2> QED BY <2>1 DEF SumsUp
<1> HIDE DEF F, w, S
<1>0. IsFiniteSet(S) BY DEF S
<1>3. PICK g : SumsUp(g, w, S) /\ SumOver(w, S) = g[S] BY <1>0, SumOverRule
<1>4. PICK h : h = F(h) /\ TotalOf(r, s) = h[S] BY <1>1, <1>2, <1>3
<1>5. SumsUp(h, w, S) BY <1>2, <1>4
<1>6. g[S] = h[S] BY <1>0, <1>3, <1>5, SumsUnique
<1> QED BY <1>3, <1>4, <1>6 DEF w, S

(* So is what crossed between them.                                         *)
LEMMA TotalOfCrossed ==
  ASSUME NEW r, NEW s, IsFiniteSet(Compared(r, s))
  PROVE  CrossedAll(r, s) = SumOver([i \in Compared(r, s) |-> s.moved[i] - r.moved[i]], Compared(r, s))
<1> DEFINE S == Compared(r, s)
           w == [i \in S |-> s.moved[i] - r.moved[i]]
           F(g) == [t \in SUBSET S |-> IF t = {} THEN 0 ELSE (s.moved[One(t)] - r.moved[One(t)]) + g[t \ {One(t)}]]
<1>1. CrossedAll(r, s) = (CHOOSE g : g = F(g))[S]
  BY DEF CrossedAll, MapThenSumSet, MapThenFoldSet, One
<1>2. ASSUME NEW g PROVE g = F(g) <=> SumsUp(g, w, S)
  <2>1. \A t \in SUBSET S : t # {} => s.moved[One(t)] - r.moved[One(t)] = w[One(t)] BY DEF One
  <2> HIDE DEF w, S
  <2> QED BY <2>1 DEF SumsUp
<1> HIDE DEF F, w, S
<1>0. IsFiniteSet(S) BY DEF S
<1>3. PICK g : SumsUp(g, w, S) /\ SumOver(w, S) = g[S] BY <1>0, SumOverRule
<1>4. PICK h : h = F(h) /\ CrossedAll(r, s) = h[S] BY <1>1, <1>2, <1>3
<1>5. SumsUp(h, w, S) BY <1>2, <1>4
<1>6. g[S] = h[S] BY <1>0, <1>3, <1>5, SumsUnique
<1> QED BY <1>3, <1>4, <1>6 DEF w, S

(* A reading of the interfaces I; one that is in the past when the traffic   *)
(* and the counters are so; one that is earlier than another.                *)
IsReading(r, I) ==
  /\ r.at \in Nat
  /\ r.moved \in [I -> Nat]
  /\ DOMAIN r.rows \subseteq I
  /\ \A i \in DOMAIN r.rows :
       /\ r.rows[i].core \in Nat /\ r.rows[i].core <= r.moved[i]
       /\ r.rows[i].health \in {0, r.rows[i].core}
       /\ "health" \notin r.lost => r.rows[i].health = r.rows[i].core
       /\ r.rows[i].detail \in {Missing, r.rows[i].core}

Past(r, I, mv, ct) ==
  /\ \A i \in I : r.moved[i] <= mv[i]
  /\ \A i \in DOMAIN r.rows : Offset(r, i) <= mv[i] - ct[i]

Earlier(r, s, I) ==
  /\ \A i \in I : r.moved[i] <= s.moved[i]
  /\ \A i \in Compared(r, s) : Offset(r, i) <= Offset(s, i)

(* The difference of two readings is the truth about the time between them.  *)
LEMMA RowsHold ==
  ASSUME NEW I, NEW r, NEW s, IsReading(r, I), IsReading(s, I), Earlier(r, s, I),
         NEW i \in Compared(r, s)
  PROVE  LET crossed == s.moved[i] - r.moved[i]
             row == RowOf(r, s, i)
         IN  /\ crossed \in Nat /\ row.core \in Nat
             /\ row.core <= crossed
             /\ Offset(r, i) = Offset(s, i) => row.core = crossed
             /\ row.detail # Missing => row.detail <= crossed
             /\ row.health <= crossed \/ "health" \in r.lost
<1> DEFINE a == r.rows[i].core
           b == s.rows[i].core
           m == r.moved[i]
           n == s.moved[i]
<1>1. i \in I /\ i \in DOMAIN r.rows /\ i \in DOMAIN s.rows BY DEF Compared, IsReading
<1>2. a \in Nat /\ b \in Nat /\ m \in Nat /\ n \in Nat /\ m <= n BY <1>1 DEF IsReading, Earlier
<1>3. m - a <= n - b BY <1>1 DEF Earlier, Offset
<1>4. r.rows[i].health \in {0, a} /\ s.rows[i].health \in {0, b}
      /\ ("health" \notin r.lost => r.rows[i].health = a)
      /\ r.rows[i].detail \in {Missing, a} /\ s.rows[i].detail \in {Missing, b}
  BY <1>1 DEF IsReading
<1>5. /\ RowOf(r, s, i).core = Since(b, a)
      /\ RowOf(r, s, i).health = Since(s.rows[i].health, r.rows[i].health)
      /\ RowOf(r, s, i).detail = SinceDetail(s.rows[i].detail, r.rows[i].detail)
  BY DEF RowOf
<1>6. Offset(r, i) = m - a /\ Offset(s, i) = n - b BY DEF Offset
<1> DEFINE h1 == r.rows[i].health
           h2 == s.rows[i].health
           e1 == r.rows[i].detail
           e2 == s.rows[i].detail
<1>7. /\ h1 \in {0, a} /\ h2 \in {0, b} /\ ("health" \notin r.lost => h1 = a)
      /\ e1 \in {Missing, a} /\ e2 \in {Missing, b}
  BY <1>4
<1> DEFINE x == RowOf(r, s, i)
<1>8. x.core = Since(b, a) /\ x.health = Since(h2, h1) /\ x.detail = SinceDetail(e2, e1)
  BY <1>5
<1>9. n = s.moved[i] /\ m = r.moved[i] OBVIOUS
<1> HIDE DEF a, b, m, n, h1, h2, e1, e2, x
<1>10. n - m \in Nat /\ x.core \in Nat /\ x.core <= n - m
  BY <1>2, <1>3, <1>8 DEF Since
<1>11. m - a = n - b => x.core = n - m BY <1>2, <1>8 DEF Since
<1>12. x.detail # Missing => x.detail <= n - m
  BY <1>2, <1>3, <1>7, <1>8 DEF Since, SinceDetail, Missing
<1>13. "health" \notin r.lost => x.health <= n - m
  BY <1>2, <1>3, <1>7, <1>8 DEF Since
<1> QED BY <1>6, <1>9, <1>10, <1>11, <1>12, <1>13 DEF x

(* A snapshot of two such readings is true, its rows and its total.         *)
LEMMA SnapshotHolds ==
  ASSUME NEW I, IsFiniteSet(I), NEW r, NEW s, IsReading(r, I), IsReading(s, I),
         Earlier(r, s, I), s.at > r.at, NEW kept \in Listed(r, s),
         NEW p, p = Snapshot(r, s, kept)
  PROVE  (\A i \in DOMAIN p.rows : RowIsTrue(p, i)) /\ TotalIsTrue(p)
<1> DEFINE both == Compared(r, s)
           w == [i \in both |-> RowOf(r, s, i).core]
           v == [i \in both |-> s.moved[i] - r.moved[i]]
<1>1. /\ p.rows = [i \in kept |-> RowOf(r, s, i)] /\ p.first = r /\ p.second = s
      /\ p.omitted = Cardinality(both) - Cardinality(kept)
      /\ p.total = TotalOf(r, s)
  BY DEF Snapshot
<1>2. kept \subseteq both BY DEF Listed
<1>3. both \subseteq I BY DEF Compared, IsReading
<1>4. IsFiniteSet(both) BY <1>3, FS_Subset
<1>5. \A i \in DOMAIN p.rows : RowIsTrue(p, i)
  <2> TAKE i \in DOMAIN p.rows
  <2>1. i \in both /\ p.rows[i] = RowOf(r, s, i) BY <1>1, <1>2
  <2> QED BY <2>1, <1>1, RowsHold DEF RowIsTrue
<1>7. p.total = SumOver(w, both) BY <1>1, <1>4, TotalOfRows
<1>8. CrossedAll(r, s) = SumOver(v, both)
  BY <1>4, TotalOfCrossed
<1>a. \A i \in both : w[i] = RowOf(r, s, i).core /\ v[i] = s.moved[i] - r.moved[i]
  OBVIOUS
<1> HIDE DEF w, v
<1>6. \A i \in both : /\ w[i] \in Nat /\ v[i] \in Nat /\ w[i] <= v[i]
                      /\ Offset(r, i) = Offset(s, i) => v[i] = w[i]
  <2> TAKE i \in both
  <2> QED BY <1>a, RowsHold
<1>9. SumOver(w, both) <= SumOver(v, both)
  <2>1. \A i \in both : w[i] \in Nat /\ v[i] \in Nat /\ w[i] <= v[i] BY <1>6
  <2> HIDE DEF both
  <2> QED BY <1>4, <2>1, SumMonotone
<1>10. (\A i \in both : Offset(r, i) = Offset(s, i)) => SumOver(w, both) = SumOver(v, both)
  <2> SUFFICES ASSUME \A i \in both : Offset(r, i) = Offset(s, i)
               PROVE  SumOver(w, both) = SumOver(v, both)
    OBVIOUS
  <2>1. \A i \in both : w[i] \in Nat /\ v[i] = w[i] BY <1>6
  <2> HIDE DEF both
  <2> QED BY <1>4, <2>1, SumSame
<1>11. p.omitted = 0 <=> DOMAIN p.rows = both
  <2>1. IsFiniteSet(kept) /\ Cardinality(kept) \in Nat /\ Cardinality(both) \in Nat
    BY <1>2, <1>4, FS_Subset, FS_CardinalityType
  <2>2. Cardinality(kept) = Cardinality(both) => kept = both BY <1>2, <1>4, FS_Subset
  <2>3. DOMAIN p.rows = kept BY <1>1
  <2> QED BY <2>1, <2>2, <2>3, <1>1
<1>12. TotalIsTrue(p)
  BY <1>1, <1>7, <1>8, <1>9, <1>10, <1>11 DEF TotalIsTrue
<1> QED BY <1>5, <1>12

(* The world, and the readings kept of it.                                   *)
WorldTyped ==
  /\ source \in Sources /\ here \subseteq Interfaces
  /\ ticks \in 0..MaxSampleClock
  /\ behind \in 0..1 /\ behind <= ticks /\ (source # "win" => behind = 0)
  /\ moved \in [Interfaces -> 0..MaxMoved[source]]
  /\ counter \in [Interfaces -> Nat] /\ \A i \in Interfaces : counter[i] <= moved[i]

(* A reading of the past of these interfaces.                               *)
Kept(r) == IsReading(r, Interfaces) /\ Past(r, Interfaces, moved, counter)

(* The first reading of a sample, and on Windows the newest one, are        *)
(* readings of the past in their order.                                     *)
FirstHolds ==
  /\ Kept(sample.first)
  /\ IF source = "win"
     THEN Kept(newest) /\ Earlier(sample.first, newest, Interfaces)
     ELSE sample.due = sample.first.at + SampleInterval

(* What a sample in progress waits with.                                    *)
SampleHolds ==
  /\ sample.phase \in {"idle", "first", "second"}
  /\ source = "win" /\ sample.phase # "idle" => sample.until \in Int /\ wall <= sample.until
  /\ sample.phase = "second" => FirstHolds

(* The invariant: the readings kept are of the past, the snapshot is true.  *)
SamplingInv ==
  /\ WorldTyped /\ child \in {"none", "up", "exited", "broken", "stopped"}
  /\ newest = Nothing \/ Kept(newest)
  /\ SampleHolds
  /\ SnapshotIsTrue

(* The interfaces are a finite set, and the clock is a number.              *)
LEMMA InterfacesFinite ==
  ASSUME WorldTyped
  PROVE  IsFiniteSet(Interfaces) /\ MaxMoved[source] \in Nat /\ wall \in Nat
BY SamplingAssumption DEF WorldTyped, Interfaces, wall

(* A reading taken now is one, and no reading kept is later.                 *)
LEMMA ReadingNow ==
  ASSUME WorldTyped, NEW seen, seen \subseteq Interfaces, NEW lost, NEW q, q = Reading(seen, lost)
  PROVE  /\ Kept(q) /\ q.at = wall
         /\ \A r : Kept(r) => Earlier(r, q, Interfaces)
<1>1. /\ q.at = wall /\ q.moved = moved /\ q.lost = lost /\ DOMAIN q.rows = seen
      /\ \A i \in seen : q.rows[i] =
           [core |-> counter[i], health |-> IF "health" \in lost THEN 0 ELSE counter[i],
            detail |-> IF "detail" \in lost THEN Missing ELSE counter[i]]
  BY DEF Reading
<1>2. \A i \in seen : /\ q.rows[i].core = counter[i]
                      /\ q.rows[i].health \in {0, counter[i]}
                      /\ "health" \notin lost => q.rows[i].health = counter[i]
                      /\ q.rows[i].detail \in {Missing, counter[i]}
  <2> TAKE i \in seen
  <2> DEFINE h == IF "health" \in lost THEN 0 ELSE counter[i]
             d == IF "detail" \in lost THEN Missing ELSE counter[i]
  <2>1. q.rows[i] = [core |-> counter[i], health |-> h, detail |-> d] BY <1>1
  <2>2. h \in {0, counter[i]} /\ ("health" \notin lost => h = counter[i]) /\ d \in {Missing, counter[i]}
    OBVIOUS
  <2> HIDE DEF h, d
  <2> QED BY <2>1, <2>2
<1>3. /\ counter \in [Interfaces -> Nat] /\ moved \in [Interfaces -> Nat]
      /\ \A i \in Interfaces : counter[i] <= moved[i]
  BY InterfacesFinite DEF WorldTyped
<1>4. wall \in Nat BY InterfacesFinite
<1>5. IsReading(q, Interfaces) BY <1>1, <1>2, <1>3, <1>4 DEF IsReading
<1>6. \A i \in seen : Offset(q, i) = moved[i] - counter[i] BY <1>1, <1>2 DEF Offset
<1>7. Past(q, Interfaces, moved, counter)
  <2>1. \A i \in Interfaces : q.moved[i] <= moved[i] BY <1>1, <1>3
  <2>2. \A i \in seen : Offset(q, i) <= moved[i] - counter[i] BY <1>3, <1>6
  <2> QED BY <1>1, <2>1, <2>2 DEF Past
<1>8. ASSUME NEW r, Kept(r) PROVE Earlier(r, q, Interfaces)
  <2>1. \A i \in Interfaces : r.moved[i] <= q.moved[i] BY <1>8, <1>1 DEF Kept, Past
  <2>2. \A i \in Compared(r, q) : Offset(r, i) <= Offset(q, i)
    BY <1>8, <1>1, <1>6 DEF Kept, Past, Compared
  <2> QED BY <2>1, <2>2 DEF Earlier
<1> QED BY <1>1, <1>5, <1>7, <1>8 DEF Kept

(* What was in the past stays there.                                         *)
LEMMA PastKept ==
  ASSUME NEW I, NEW mv \in [I -> Int], NEW ct \in [I -> Int],
         NEW nm \in [I -> Int], NEW nc \in [I -> Int],
         \A i \in I : mv[i] <= nm[i] /\ mv[i] - ct[i] <= nm[i] - nc[i],
         NEW r, IsReading(r, I), Past(r, I, mv, ct)
  PROVE  Past(r, I, nm, nc)
<1>1. \A i \in I : r.moved[i] \in Int BY DEF IsReading
<1>2. \A i \in DOMAIN r.rows : i \in I /\ Offset(r, i) \in Int BY <1>1 DEF IsReading, Offset
<1>3. \A i \in I : r.moved[i] <= nm[i] BY <1>1 DEF Past
<1>4. \A i \in DOMAIN r.rows : Offset(r, i) <= nm[i] - nc[i]
  <2> TAKE i \in DOMAIN r.rows
  <2>1. Offset(r, i) <= mv[i] - ct[i] BY DEF Past
  <2>2. mv[i] - ct[i] <= nm[i] - nc[i] /\ mv[i] \in Int /\ ct[i] \in Int
        /\ nm[i] \in Int /\ nc[i] \in Int /\ Offset(r, i) \in Int
    BY <1>2
  <2> DEFINE o == Offset(r, i)
  <2> HIDE DEF o
  <2> QED BY <2>1, <2>2 DEF o
<1> QED BY <1>3, <1>4 DEF Past

(* A reading is not later than itself.                                      *)
LEMMA EarlierThanItself ==
  ASSUME NEW I, NEW r, IsReading(r, I)
  PROVE  Earlier(r, r, I)
<1>1. \A i \in I : r.moved[i] \in Int BY DEF IsReading
<1>2. \A i \in DOMAIN r.rows : Offset(r, i) \in Int BY <1>1 DEF IsReading, Offset
<1> QED BY <1>1, <1>2 DEF Earlier, Compared

(* It holds before anything was read.                                       *)
LEMMA SamplingStart == SamplingInit => SamplingInv
<1> SUFFICES ASSUME SamplingInit PROVE SamplingInv
  OBVIOUS
<1>0. source \in Sources /\ MaxMoved[source] \in Nat /\ MaxSampleClock \in Nat
  BY SamplingAssumption DEF SamplingInit, Longest
<1>1. WorldTyped
  <2>1. moved = [i \in Interfaces |-> 0] /\ counter = [i \in Interfaces |-> 0]
    BY DEF SamplingInit
  <2>2. moved \in [Interfaces -> 0..MaxMoved[source]] BY <2>1, <1>0
  <2>3. counter \in [Interfaces -> Nat] /\ \A i \in Interfaces : counter[i] <= moved[i] BY <2>1
  <2>4. here = Interfaces /\ ticks = 0 /\ behind = 0 BY DEF SamplingInit
  <2> QED BY <1>0, <2>2, <2>3, <2>4 DEF WorldTyped
<1>a. child \in {"none", "up", "exited", "broken", "stopped"} BY DEF SamplingInit
<1>2. SampleHolds BY DEF SamplingInit, SampleHolds, NotSampling
<1>3. SnapshotIsTrue BY DEF SamplingInit, SnapshotIsTrue
<1> QED BY <1>1, <1>a, <1>2, <1>3 DEF SamplingInit, SamplingInv

(* Steps that change neither the world, nor the readings kept of it.         *)
LEMMA WorldRests ==
  ASSUME SamplingInv, UNCHANGED world
  PROVE  /\ WorldTyped' /\ wall' = wall /\ Interfaces' = Interfaces
         /\ \A r : Kept(r)' <=> Kept(r)
<1>1. UNCHANGED <<source, ticks, behind, moved, counter, here>> BY DEF world
<1>2. Interfaces' = Interfaces /\ wall' = wall BY <1>1 DEF Interfaces, wall
<1> QED BY <1>1, <1>2 DEF SamplingInv, WorldTyped, Kept

(* The readings kept stay so while the traffic and the counters move on, and *)
(* a sample in progress while no time passes.                                *)
LEMMA ReadingsRest ==
  ASSUME SamplingInv, UNCHANGED <<source, ticks, behind, newest, sample>>,
         moved' \in [Interfaces -> Int], counter' \in [Interfaces -> Int],
         \A i \in Interfaces : /\ moved[i] <= moved'[i]
                               /\ moved[i] - counter[i] <= moved'[i] - counter'[i]
  PROVE  (newest = Nothing \/ Kept(newest))' /\ SampleHolds'
<1>0. Interfaces' = Interfaces /\ wall' = wall BY DEF Interfaces, wall
<1>1. moved \in [Interfaces -> Int] /\ counter \in [Interfaces -> Int]
  BY InterfacesFinite DEF SamplingInv, WorldTyped
<1>2. ASSUME NEW r, IsReading(r, Interfaces), Past(r, Interfaces, moved, counter)
      PROVE  Past(r, Interfaces, moved', counter')
  <2> DEFINE I == Interfaces
             mv == moved
             ct == counter
             nm == moved'
             nc == counter'
  <2>1. /\ mv \in [I -> Int] /\ ct \in [I -> Int] /\ nm \in [I -> Int] /\ nc \in [I -> Int]
        /\ \A i \in I : mv[i] <= nm[i] /\ mv[i] - ct[i] <= nm[i] - nc[i]
        /\ IsReading(r, I) /\ Past(r, I, mv, ct)
    BY <1>1, <1>2
  <2> HIDE DEF I, mv, ct, nm, nc
  <2>2. Past(r, I, nm, nc) BY <2>1, PastKept
  <2> QED BY <2>2 DEF I, nm, nc
<1>3. (newest = Nothing \/ Kept(newest))' BY <1>0, <1>2 DEF SamplingInv, Kept
<1>4. SampleHolds BY DEF SamplingInv
<1>5. sample.phase = "second" => FirstHolds' BY <1>0, <1>2, <1>4 DEF SampleHolds, FirstHolds, Kept
<1>6. SampleHolds' BY <1>0, <1>4, <1>5 DEF SampleHolds
<1> QED BY <1>3, <1>6

(* Where neither traffic nor counters change, readings of the past stay so. *)
LEMMA NothingMoves ==
  ASSUME SamplingInv, UNCHANGED <<world, newest, sample>>
  PROVE  WorldTyped' /\ (newest = Nothing \/ Kept(newest))' /\ SampleHolds'
<1>1. UNCHANGED <<source, ticks, behind, newest, sample, moved, counter, here>> BY DEF world
<1>2. /\ moved' \in [Interfaces -> Int] /\ counter' \in [Interfaces -> Int]
      /\ \A i \in Interfaces : /\ moved[i] <= moved'[i]
                               /\ moved[i] - counter[i] <= moved'[i] - counter'[i]
  BY <1>1, InterfacesFinite DEF SamplingInv, WorldTyped
<1>3. (newest = Nothing \/ Kept(newest))' /\ SampleHolds' BY <1>1, <1>2, ReadingsRest
<1> QED BY <1>3, WorldRests

(* What the host sampler reads.                                              *)
LEMMA ReadingsAreNow ==
  ASSUME SamplingInv, NEW q \in Readings
  PROVE  /\ source # "win" /\ Kept(q) /\ q.at = wall
         /\ \A r : Kept(r) => Earlier(r, q, Interfaces)
<1>1. source # "win" /\ \E seen \in SUBSET here : \E lost : q = Reading(seen, lost)
  BY SamplingAssumption DEF SamplingInv, WorldTyped, Readings, AllSources
<1>2. here \subseteq Interfaces BY DEF SamplingInv, WorldTyped
<1> QED BY <1>1, <1>2, ReadingNow DEF SamplingInv

(* One sample after another: what a step of the sampler leaves behind.       *)
LEMMA SampleOver ==
  ASSUME SamplingInv, UNCHANGED <<world, newest>>, sample' = NotSampling
  PROVE  WorldTyped' /\ (newest = Nothing \/ Kept(newest))' /\ SampleHolds'
<1>1. WorldTyped' /\ \A r : Kept(r)' <=> Kept(r) BY WorldRests
<1>2. newest' = newest OBVIOUS
<1>3. (newest = Nothing \/ Kept(newest))'
  BY <1>2 DEF SamplingInv, Kept, IsReading, Past, Interfaces, world, Offset
<1>4. SampleHolds' BY DEF SampleHolds, NotSampling
<1> QED BY <1>1, <1>3, <1>4

(* Every step keeps it.                                                     *)
LEMMA SamplingStep == SamplingInv /\ [SamplingNext]_samplingVars => SamplingInv'
<1> SUFFICES ASSUME SamplingInv, [SamplingNext]_samplingVars PROVE SamplingInv'
  OBVIOUS
<1> DEFINE Children == {"none", "up", "exited", "broken", "stopped"}
           Newest == newest = Nothing \/ Kept(newest)
<1>0. WorldTyped /\ child \in Children /\ Newest /\ SampleHolds /\ SnapshotIsTrue
      /\ wall \in Nat /\ MaxMoved[source] \in Nat
  BY InterfacesFinite DEF SamplingInv
<1>s. SampleInterval \in Nat \ {0} /\ Grace \in Nat /\ MaxSampleClock \in Nat
  BY SamplingAssumption
<1>n. snapshot' = Nothing => SnapshotIsTrue' BY DEF SnapshotIsTrue
<1>1. CASE Hand
  <2>1. UNCHANGED <<world, newest, child, sample>> /\ snapshot' = Nothing BY <1>1 DEF Hand
  <2>2. WorldTyped' /\ Newest' /\ SampleHolds' BY <2>1, NothingMoves
  <2> QED BY <1>0, <1>n, <2>1, <2>2 DEF SamplingInv
<1>2. CASE snapshot = Nothing /\ BeginSample
  <2>1. /\ UNCHANGED <<world, newest, child>> /\ snapshot' = Nothing
        /\ sample' = [phase |-> "first", until |-> wall + 1 + Grace]
    BY <1>2 DEF BeginSample
  <2>2. WorldTyped' /\ wall' = wall /\ Interfaces' = Interfaces BY <2>1, WorldRests
  <2>3. Newest' BY <1>0, <2>1, <2>2 DEF Kept, world
  <2>4. sample'.phase = "first" /\ sample'.until \in Int /\ wall' <= sample'.until
    BY <1>0, <1>s, <2>1, <2>2
  <2>5. SampleHolds' BY <2>4 DEF SampleHolds
  <2> QED BY <1>0, <1>n, <2>1, <2>2, <2>3, <2>5 DEF SamplingInv
<1>3. CASE snapshot = Nothing /\ ReadFirst
  <2>1. PICK q \in Readings :
          sample' = [phase |-> "second", first |-> q, due |-> ticks + SampleInterval]
    BY <1>3 DEF ReadFirst
  <2>2. UNCHANGED <<world, newest, child>> /\ snapshot' = Nothing BY <1>3 DEF ReadFirst
  <2>3. WorldTyped' /\ wall' = wall /\ Interfaces' = Interfaces BY <2>2, WorldRests
  <2>4. Newest' BY <1>0, <2>2, <2>3 DEF Kept, world
  <2>5. source # "win" /\ Kept(q) /\ q.at = wall BY ReadingsAreNow
  <2>6. q.at = ticks BY <1>0, <2>5 DEF WorldTyped, wall
  <2>7. sample'.phase = "second" /\ sample'.first = q /\ sample'.due = ticks + SampleInterval
    BY <2>1
  <2>8. source' = source /\ moved' = moved /\ counter' = counter BY <2>2 DEF world
  <2>9. FirstHolds' BY <2>3, <2>5, <2>6, <2>7, <2>8 DEF FirstHolds, Kept
  <2>10. SampleHolds' BY <2>5, <2>7, <2>8, <2>9 DEF SampleHolds
  <2> QED BY <1>0, <1>n, <2>2, <2>3, <2>4, <2>10 DEF SamplingInv
<1>4. CASE snapshot = Nothing /\ ReadSecond
  <2>0. /\ source # "win" /\ sample.phase = "second" /\ ticks >= sample.due
        /\ UNCHANGED <<world, newest, child>> /\ sample' = NotSampling
    BY <1>4 DEF ReadSecond
  <2> DEFINE r == sample.first
  <2>1. PICK q \in Readings : \E kept \in Listed(r, q) : snapshot' = Snapshot(r, q, kept)
    BY <1>4 DEF ReadSecond
  <2>2. PICK kept \in Listed(r, q) : snapshot' = Snapshot(r, q, kept) BY <2>1
  <2>3. WorldTyped' /\ Newest' /\ SampleHolds' BY <2>0, SampleOver
  <2>4. Kept(r) /\ sample.due = r.at + SampleInterval
    BY <1>0, <2>0 DEF SampleHolds, FirstHolds
  <2>5. Kept(q) /\ q.at = wall /\ Earlier(r, q, Interfaces) BY <2>4, ReadingsAreNow
  <2>6. q.at = ticks /\ ticks \in Nat BY <1>0, <2>0, <2>5 DEF WorldTyped, wall
  <2>7. IsReading(r, Interfaces) /\ IsReading(q, Interfaces) BY <2>4, <2>5 DEF Kept
  <2>8. q.at > r.at
    <3>1. r.at \in Nat BY <2>7 DEF IsReading
    <3> HIDE DEF r
    <3> QED BY <3>1, <1>s, <2>0, <2>4, <2>6
  <2>9. SnapshotIsTrue'
    <3> DEFINE I == Interfaces
               p == snapshot'
    <3>1. IsFiniteSet(I) BY <1>0, InterfacesFinite
    <3>2. p = Snapshot(r, q, kept) BY <2>2
    <3> HIDE DEF I, p, r
    <3>3. (\A i \in DOMAIN p.rows : RowIsTrue(p, i)) /\ TotalIsTrue(p)
      BY <3>1, <3>2, <2>2, <2>5, <2>7, <2>8, SnapshotHolds DEF I
    <3> QED BY <3>3 DEF p, SnapshotIsTrue
  <2> QED BY <1>0, <2>0, <2>3, <2>9 DEF SamplingInv
<1>5. CASE snapshot = Nothing /\ WalkFails
  <2>1. UNCHANGED <<world, newest, child>> /\ snapshot' = Nothing /\ sample' = NotSampling
    BY <1>5 DEF WalkFails
  <2>2. WorldTyped' /\ Newest' /\ SampleHolds' BY <2>1, SampleOver
  <2> QED BY <1>0, <1>n, <2>1, <2>2 DEF SamplingInv
<1>6. CASE snapshot = Nothing /\ TakeFirst
  <2>1. UNCHANGED <<world, newest, child>> /\ snapshot' = Nothing /\ source = "win"
    BY <1>6 DEF TakeFirst
  <2>2. CASE newest = Nothing
    <3>1. sample' = NotSampling BY <1>6, <2>2 DEF TakeFirst
    <3>2. WorldTyped' /\ Newest' /\ SampleHolds' BY <2>1, <3>1, SampleOver
    <3> QED BY <1>0, <1>n, <2>1, <3>2 DEF SamplingInv
  <2>3. CASE newest # Nothing
    <3>1. sample' = [phase |-> "second", first |-> newest, until |-> wall + SampleInterval + Grace]
      BY <1>6, <2>3 DEF TakeFirst
    <3>2. WorldTyped' /\ wall' = wall /\ Interfaces' = Interfaces BY <2>1, WorldRests
    <3>3. Newest' BY <1>0, <2>1, <3>2 DEF Kept, world
    <3>4. /\ sample'.phase = "second" /\ sample'.first = newest
          /\ sample'.until \in Int /\ wall' <= sample'.until
      BY <1>0, <1>s, <3>1, <3>2
    <3>5. Kept(newest) /\ Earlier(newest, newest, Interfaces)
      BY <1>0, <2>3, EarlierThanItself DEF Kept
    <3>6. UNCHANGED <<source, moved, counter, newest>> BY <2>1 DEF world
    <3>7. FirstHolds' BY <2>1, <3>2, <3>4, <3>5, <3>6 DEF FirstHolds, Kept
    <3>8. SampleHolds' BY <3>4, <3>7 DEF SampleHolds
    <3> QED BY <1>0, <1>n, <2>1, <3>2, <3>3, <3>8 DEF SamplingInv
  <2> QED BY <2>2, <2>3
<1>7. CASE snapshot = Nothing /\ TakeSecond
  <2>1. /\ source = "win" /\ sample.phase = "second" /\ snapshot = Nothing
        /\ UNCHANGED <<world, newest, child>> /\ sample' = NotSampling
    BY <1>7 DEF TakeSecond
  <2>2. WorldTyped' /\ Newest' /\ SampleHolds' BY <2>1, SampleOver
  <2>3. SnapshotIsTrue'
    <3>1. CASE ~ Comparable(sample.first, newest)
      BY <1>n, <2>1, <1>7, <3>1 DEF TakeSecond
    <3>2. CASE Comparable(sample.first, newest)
      <4> DEFINE r == sample.first
                 I == Interfaces
                 p == snapshot'
      <4>1. PICK kept \in Listed(r, newest) : p = Snapshot(r, newest, kept)
        BY <1>7, <3>2 DEF TakeSecond
      <4>2. IsFiniteSet(I) BY <1>0, InterfacesFinite
      <4>3. IsReading(r, I) /\ IsReading(newest, I) /\ Earlier(r, newest, I)
        BY <1>0, <2>1 DEF SampleHolds, FirstHolds, Kept
      <4>4. newest.at > r.at BY <3>2 DEF Comparable
      <4> HIDE DEF r, I, p
      <4>5. (\A i \in DOMAIN p.rows : RowIsTrue(p, i)) /\ TotalIsTrue(p)
        BY <4>1, <4>2, <4>3, <4>4, SnapshotHolds
      <4> QED BY <4>5 DEF p, SnapshotIsTrue
    <3> QED BY <3>1, <3>2
  <2> QED BY <1>0, <2>1, <2>2, <2>3 DEF SamplingInv
<1>8. CASE snapshot = Nothing /\ Prints
  <2>1. UNCHANGED <<world, child, sample>> /\ snapshot' = Nothing /\ newest' = Line
    BY <1>8 DEF Prints
  <2>2. WorldTyped' /\ wall' = wall /\ Interfaces' = Interfaces BY <2>1, WorldRests
  <2>3. UNCHANGED <<source, moved, counter>> BY <2>1 DEF world
  <2>4. Kept(newest') /\ \A r : Kept(r) => Earlier(r, newest', Interfaces)
    <3> DEFINE q == newest'
    <3>1. q = Reading(here, {"detail"}) BY <2>1 DEF Line
    <3>2. here \subseteq Interfaces BY <1>0 DEF WorldTyped
    <3> HIDE DEF q
    <3>3. Kept(q) /\ \A r : Kept(r) => Earlier(r, q, Interfaces)
      BY <1>0, <3>1, <3>2, ReadingNow
    <3> QED BY <3>3 DEF q
  <2>5. Newest' BY <2>2, <2>3, <2>4 DEF Kept
  <2>6. sample.phase = "second" => FirstHolds'
    <3> SUFFICES ASSUME sample.phase = "second" PROVE FirstHolds'
      OBVIOUS
    <3>1. FirstHolds BY <1>0 DEF SampleHolds
    <3>2. sample' = sample BY <2>1
    <3>3. Kept(sample.first) BY <3>1 DEF FirstHolds
    <3>4. Earlier(sample.first, newest', Interfaces) BY <2>4, <3>3
    <3> QED BY <2>2, <2>3, <2>4, <3>1, <3>2, <3>3, <3>4 DEF FirstHolds, Kept
  <2>7. SampleHolds' BY <1>0, <2>1, <2>2, <2>3, <2>6 DEF SampleHolds
  <2> QED BY <1>0, <1>n, <2>1, <2>2, <2>5, <2>7 DEF SamplingInv
<1>9. CASE snapshot = Nothing /\ (Exit \/ Spawn \/ SpawnBreaks \/ Stop)
  <2>1. UNCHANGED <<world, newest, sample>> /\ snapshot' = Nothing /\ child' \in Children
    BY <1>9 DEF Exit, Spawn, SpawnBreaks, Stop
  <2>2. WorldTyped' /\ Newest' /\ SampleHolds' BY <2>1, NothingMoves
  <2> QED BY <1>n, <2>1, <2>2 DEF SamplingInv
<1>10. ASSUME NEW i \in Interfaces, snapshot = Nothing, Move(i) \/ Leave(i) \/ Return(i)
       PROVE  SamplingInv'
  <2> DEFINE M == MaxMoved[source]
             I == Interfaces
  <2>1. /\ UNCHANGED <<source, ticks, behind, newest, child, sample>> /\ snapshot' = Nothing
        /\ here' \subseteq I
    BY <1>0, <1>10 DEF Move, Leave, Return, WorldTyped
  <2>2. /\ moved \in [I -> 0..M] /\ counter \in [I -> Nat] /\ \A j \in I : counter[j] <= moved[j]
        /\ M \in Nat
    BY <1>0 DEF WorldTyped
  <2>3. Interfaces' = Interfaces BY <2>1 DEF Interfaces
  <2>4. /\ moved' \in [I -> 0..M] /\ counter' \in [I -> Nat]
        /\ \A j \in I : /\ counter'[j] <= moved'[j] /\ moved[j] <= moved'[j]
                        /\ moved[j] - counter[j] <= moved'[j] - counter'[j]
    <3>1. CASE Move(i)
      <4>1. moved[i] < M
        <5>0. AllMoved = SumOver(moved, I)
          BY DEF AllMoved, MapThenSumSet, MapThenFoldSet, SumOver, SumsUp, One
        <5>1. SumOver(moved, I) < M BY <3>1, <5>0 DEF Move
        <5>2. IsFiniteSet(I) BY <1>0, InterfacesFinite
        <5>3. \A j \in I : moved[j] \in Nat BY <2>2
        <5>4. moved[i] <= SumOver(moved, I) /\ SumOver(moved, I) \in Nat
          <6>1. i \in I BY <1>10
          <6> DEFINE w == moved
          <6>2. w \in [I -> Nat] /\ \A j \in I : w[j] \in Nat BY <2>2, <5>3
          <6> HIDE DEF I, w
          <6>3. w[i] <= SumOver(w, I) BY <6>1, <6>2, <5>2, SumElement
          <6>4. SumOver(w, I) \in Nat BY <6>2, <5>2, SumType
          <6> QED BY <6>3, <6>4 DEF w
        <5>5. moved[i] \in Nat BY <1>10, <2>2
        <5> HIDE DEF I, M
        <5> QED BY <2>2, <5>1, <5>4, <5>5
      <4>2. moved' = [moved EXCEPT ![i] = @ + 1] /\ counter' = [counter EXCEPT ![i] = @ + 1]
        BY <3>1 DEF Move
      <4> HIDE DEF I, M
      <4> QED BY <1>10, <2>2, <4>1, <4>2 DEF I
    <3>2. CASE Leave(i)
      <4>1. moved' = moved /\ counter' = [counter EXCEPT ![i] = 0] BY <3>2 DEF Leave
      <4> HIDE DEF I, M
      <4> QED BY <1>10, <2>2, <4>1 DEF I
    <3>3. CASE Return(i)
      <4>1. moved' = moved /\ counter' = counter BY <3>3 DEF Return
      <4> HIDE DEF I, M
      <4> QED BY <2>2, <4>1
    <3> QED BY <1>10, <3>1, <3>2, <3>3
  <2>5. moved' \in [Interfaces -> Int] /\ counter' \in [Interfaces -> Int] BY <2>2, <2>4
  <2>6. Newest' /\ SampleHolds' BY <2>1, <2>4, <2>5, ReadingsRest
  <2>7. WorldTyped' BY <1>0, <2>1, <2>3, <2>4 DEF WorldTyped
  <2> QED BY <1>0, <1>n, <2>1, <2>6, <2>7 DEF SamplingInv
<1>11. CASE snapshot = Nothing /\ Pass
  <2>1. /\ UNCHANGED <<source, behind, moved, counter, here, newest, child, sample>>
        /\ snapshot' = Nothing /\ ticks' = ticks + 1 /\ ticks < MaxSampleClock /\ Waiting
    BY <1>11 DEF Pass
  <2>2. /\ source \in Sources /\ here \subseteq Interfaces
        /\ ticks \in 0..MaxSampleClock /\ behind \in 0..1 /\ behind <= ticks
        /\ (source # "win" => behind = 0)
        /\ moved \in [Interfaces -> 0..MaxMoved[source]]
        /\ counter \in [Interfaces -> Nat] /\ \A i \in Interfaces : counter[i] <= moved[i]
    BY <1>0 DEF WorldTyped
  <2>3. Interfaces' = Interfaces BY <2>1 DEF Interfaces
  <2>4. ticks' \in 0..MaxSampleClock /\ behind' <= ticks' BY <1>s, <2>1, <2>2
  <2>5. WorldTyped' BY <2>1, <2>2, <2>3, <2>4 DEF WorldTyped
  <2>6. Newest' BY <1>0, <2>1, <2>3 DEF Kept
  <2>7. wall' = wall + 1 BY <2>1, <2>2 DEF wall
  <2>8. source = "win" /\ sample.phase # "idle" => sample.until \in Int /\ wall < sample.until
    <3> SUFFICES ASSUME source = "win", sample.phase # "idle"
                 PROVE  sample.until \in Int /\ wall < sample.until
      OBVIOUS
    <3>1. sample.phase \in {"first", "second"} /\ sample.until \in Int BY <1>0 DEF SampleHolds
    <3>2. ~ Expired BY <2>1, <3>1 DEF Waiting
    <3> QED BY <1>0, <3>1, <3>2 DEF Expired
  <2>9. sample.phase = "second" => FirstHolds' BY <1>0, <2>1, <2>3 DEF SampleHolds, FirstHolds, Kept
  <2>10. source' = "win" /\ sample'.phase # "idle" => sample'.until \in Int /\ wall' <= sample'.until
    BY <1>0, <2>1, <2>7, <2>8
  <2>11. SampleHolds' BY <1>0, <2>1, <2>9, <2>10 DEF SampleHolds
  <2> QED BY <1>0, <1>n, <2>1, <2>5, <2>6, <2>11 DEF SamplingInv
<1>12. CASE snapshot = Nothing /\ SetBack
  <2>1. /\ UNCHANGED <<source, ticks, moved, counter, here, newest, child, sample>>
        /\ snapshot' = Nothing /\ behind' = 1 /\ behind = 0 /\ ticks > 0 /\ source = "win"
    BY <1>12 DEF SetBack
  <2>2. ticks \in 0..MaxSampleClock BY <1>0 DEF WorldTyped
  <2>3. Interfaces' = Interfaces BY <2>1 DEF Interfaces
  <2>4. behind' \in 0..1 /\ behind' <= ticks' BY <2>1, <2>2, <1>s
  <2>5. WorldTyped' BY <1>0, <2>1, <2>3, <2>4 DEF WorldTyped
  <2>6. Newest' BY <1>0, <2>1, <2>3 DEF Kept
  <2>7. wall' = wall - 1 BY <2>1, <2>2 DEF wall
  <2>8. sample.phase = "second" => FirstHolds' BY <1>0, <2>1, <2>3 DEF SampleHolds, FirstHolds, Kept
  <2>9. source' = "win" /\ sample'.phase # "idle" => sample'.until \in Int /\ wall' <= sample'.until
    BY <1>0, <2>1, <2>7 DEF SampleHolds
  <2>10. SampleHolds' BY <1>0, <2>1, <2>8, <2>9 DEF SampleHolds
  <2> QED BY <1>0, <1>n, <2>1, <2>5, <2>6, <2>10 DEF SamplingInv
<1>13. CASE UNCHANGED samplingVars
  <2>1. UNCHANGED <<world, newest, sample>> /\ snapshot' = snapshot /\ child' = child
    BY <1>13 DEF samplingVars, world
  <2>2. WorldTyped' /\ Newest' /\ SampleHolds' BY <2>1, NothingMoves
  <2>3. SnapshotIsTrue'
    BY <1>0, <2>1 DEF SnapshotIsTrue
  <2> QED BY <1>0, <2>1, <2>2, <2>3 DEF SamplingInv
<1> QED
  BY <1>1, <1>2, <1>3, <1>4, <1>5, <1>6, <1>7, <1>8, <1>9, <1>10, <1>11, <1>12, <1>13
  DEF SamplingNext

(* It implies what the runs check.                                          *)
LEMMA SamplingInvIsEnough == SamplingInv => SamplesKept
<1> SUFFICES ASSUME SamplingInv PROVE SamplesKept
  OBVIOUS
<1>1. WorldTyped /\ SampleHolds /\ wall \in Nat /\ MaxMoved[source] \in Nat
  BY InterfacesFinite DEF SamplingInv
<1>2. counter \in [Interfaces -> 0..MaxMoved[source]]
  <2> DEFINE M == MaxMoved[source]
             I == Interfaces
  <2>1. /\ moved \in [I -> 0..M] /\ counter \in [I -> Nat] /\ M \in Nat
        /\ \A i \in I : counter[i] <= moved[i]
    BY <1>1 DEF WorldTyped
  <2> HIDE DEF M, I
  <2>2. counter \in [I -> 0..M] BY <2>1
  <2> QED BY <2>2 DEF M, I
<1>3. SamplingTypeOK BY <1>1, <1>2 DEF SamplingInv, SamplingTypeOK, WorldTyped, SampleHolds
<1>4. SampleIsBounded BY <1>1 DEF SampleHolds, SampleIsBounded
<1> QED BY <1>3, <1>4 DEF SamplesKept, SamplingInv

(* SamplesKept (trafficMonitor.js, trafficMonitorDarwin.js,                  *)
(* trafficMonitorWin.js, snmpMonitor.js): whatever comes, goes, restarts or  *)
(* is lost between two readings of an interface's counters, the snapshot     *)
(* made of them never reports more than crossed it, and exactly that when no *)
(* counter was started over; and no Windows sample outlives its deadlines.   *)
(* For every set of interfaces, interval, grace and bound of the clock.      *)
THEOREM SamplesAreTrue == SamplingSpec => []SamplesKept
<1>1. SamplingInv /\ [SamplingNext]_samplingVars => SamplingInv' BY SamplingStep
<1> QED BY <1>1, SamplingStart, SamplingInvIsEnough, PTL DEF SamplingSpec

-----------------------------------------------------------------------------
(* CounterRotation.  What is sent ranks behind, what is handed back in front, *)
(* so whoever was sent while an interface waits is behind it in the order, or *)
(* later in the same snapshot, until both are handed back at once.           *)
Behind(i, j) ==
  /\ unsent[j] # Never
  /\ i \notin Carried => unsent[j] < unsent[i]
  /\ \A m \in Measurers : \A l \in DOMAIN hand[m] :
       hand[m][l].if = j => \E k \in DOMAIN hand[m] : k < l /\ hand[m][k].if = i

OneAtATime == overlapped # "now" =>
  \A m, n \in Measurers : hand[m] # NoCounters /\ hand[n] # NoCounters => m = n
NamedOnce == \A m \in Measurers : \A j, k \in DOMAIN hand[m] :
  hand[m][j].if = hand[m][k].if => j = k
CarriedRankFirst == overlapped # "now" /\ Carried # {} =>
  \A i \in Ifs : unsent[i] = 0 <=> i \in Carried
OvertakersAreBehind == \A i \in Ifs : \A j \in overtook[i] : overlapped # "now" /\ Behind(i, j)
OlderWasReplaced == overlapped = "never" =>
  \A m \in Measurers : \A k \in DOMAIN hand[m] :
    hand[m][k].age = "older" =>
      latest[hand[m][k].if] # "none" \/ Cardinality(Pending) >= PendingMax

RotationInv ==
  /\ RotationKept
  /\ OneAtATime /\ NamedOnce /\ CarriedRankFirst /\ OvertakersAreBehind /\ OlderWasReplaced

(* What the numbers of the interfaces are. *)
LEMMA InterfaceNumbers ==
  /\ IsFiniteSet(Ifs) /\ Cardinality(Ifs) = NumIfs
  /\ NumIfs \in Nat /\ Never \in Nat /\ Never > NumIfs
<1>1. NumIfs \in Nat BY RotationAssumption
<1>2. IsFiniteSet(1..NumIfs) /\ Cardinality(1..NumIfs) = NumIfs BY <1>1, FS_Interval
<1> QED BY <1>1, <1>2 DEF Ifs, Never

(* A set has no more images than elements.                                  *)
LEMMA ImageIsNoLarger ==
  ASSUME NEW S, IsFiniteSet(S), NEW f
  PROVE  /\ IsFiniteSet({f[x] : x \in S})
         /\ Cardinality({f[x] : x \in S}) \in Nat
         /\ Cardinality({f[x] : x \in S}) <= Cardinality(S)
<1> DEFINE T == {f[x] : x \in S}
           g == [x \in S |-> f[x]]
<1>1. g \in Surjection(S, T) BY DEF Surjection
<1>2. IsFiniteSet(T) /\ Cardinality(T) <= Cardinality(S) BY <1>1, FS_Surjection
<1>3. Cardinality(T) \in Nat BY <1>2, FS_CardinalityType
<1> QED BY <1>2, <1>3

(* The ranks after a drain: none but those sent rank first, who keeps a turn *)
(* stays behind whom, and an interface without a turn is in front of all.    *)
LEMMA RanksKeepTheOrder ==
  ASSUME RotationTypeOK, NEW usable, NEW sent
  PROVE  /\ Ranked(usable, sent) \in [Ifs -> 0..Never]
         /\ \A i \in Ifs : Ranked(usable, sent)[i] = 0 <=> i \in sent
         /\ \A i, j \in Ifs :
              (/\ i \in usable \ sent /\ j \notin sent
               /\ unsent[j] < unsent[i] /\ Ranked(usable, sent)[j] # Never)
              => Ranked(usable, sent)[j] < Ranked(usable, sent)[i]
<1> DEFINE known == {i \in Ifs \ sent : unsent[i] # Never /\ (idle[i] < Forget \/ i \in usable)}
           before(i) == {j \in known : unsent[j] < unsent[i]}
           turns(i) == {unsent[j] : j \in before(i)}
           R == [i \in Ifs |->
                  IF i \in sent THEN 0 ELSE IF i \notin known THEN Never
                  ELSE Cardinality(turns(i)) + 1]
<1>0. Ranked(usable, sent) = R BY DEF Ranked
<1>1. \A i \in Ifs : unsent[i] \in 0..Never BY DEF RotationTypeOK
<1>2. ASSUME NEW i \in known
      PROVE  /\ IsFiniteSet(turns(i)) /\ Cardinality(turns(i)) \in Nat
             /\ Cardinality(turns(i)) + 1 < Never
  <2>1. i \in Ifs /\ before(i) \subseteq Ifs \ {i} BY <1>1, InterfaceNumbers
  <2>2. IsFiniteSet(Ifs \ {i}) /\ Cardinality(Ifs \ {i}) = NumIfs - 1
    BY <2>1, InterfaceNumbers, FS_RemoveElement
  <2>3. IsFiniteSet(before(i)) /\ Cardinality(before(i)) <= NumIfs - 1
    BY <2>1, <2>2, FS_Subset
  <2>4. /\ IsFiniteSet(turns(i)) /\ Cardinality(turns(i)) \in Nat
        /\ Cardinality(turns(i)) <= Cardinality(before(i))
    <3> HIDE DEF before
    <3> QED BY <2>3, ImageIsNoLarger
  <2>5. Cardinality(before(i)) \in Nat BY <2>3, FS_CardinalityType
  <2> HIDE DEF before, turns
  <2> QED BY <2>3, <2>4, <2>5, InterfaceNumbers DEF Never
<1>3. ASSUME NEW i \in Ifs PROVE R[i] \in 0..Never /\ (R[i] = 0 <=> i \in sent)
  <2>1. CASE i \in known
    <3>1. i \notin sent /\ R[i] = Cardinality(turns(i)) + 1 BY <2>1
    <3> HIDE DEF R, turns, known
    <3> QED BY <3>1, <2>1, <1>2, InterfaceNumbers
  <2>2. CASE i \notin known
    <3>1. R[i] = IF i \in sent THEN 0 ELSE Never BY <2>2
    <3> HIDE DEF R, turns, known
    <3> QED BY <3>1, InterfaceNumbers
  <2> QED BY <2>1, <2>2
<1>4. ASSUME NEW i \in Ifs, NEW j \in Ifs, i \in usable \ sent, j \notin sent,
             unsent[j] < unsent[i], R[j] # Never
      PROVE  R[j] < R[i]
  <2>1. j \in known BY <1>4
  <2>2. R[j] = Cardinality(turns(j)) + 1 BY <2>1
  <2>3. CASE unsent[i] = Never
    <3>1. R[i] = Never BY <2>3, <1>4
    <3> HIDE DEF R, turns, known
    <3> QED BY <3>1, <2>1, <2>2, <1>2
  <2>4. CASE unsent[i] # Never
    <3>1. i \in known BY <2>4, <1>4
    <3>2. R[i] = Cardinality(turns(i)) + 1 BY <3>1, <1>4
    <3>3. unsent[j] \in turns(i) /\ unsent[j] \notin turns(j)
      BY <2>1, <1>1, <1>4, InterfaceNumbers
    <3>4. turns(j) \subseteq turns(i)
      <4>1. before(j) \subseteq before(i) BY <1>1, <1>4, InterfaceNumbers
      <4> HIDE DEF before
      <4> QED BY <4>1
    <3>5. IsFiniteSet(turns(i)) /\ Cardinality(turns(i)) \in Nat /\ Cardinality(turns(j)) \in Nat
      <4> HIDE DEF turns, known
      <4> QED BY <1>2, <2>1, <3>1
    <3> HIDE DEF turns, R, known
    <3>6. Cardinality(turns(j)) <= Cardinality(turns(i)) /\ Cardinality(turns(j)) # Cardinality(turns(i))
      BY <3>3, <3>4, <3>5, FS_Subset
    <3> QED BY <3>2, <2>2, <3>5, <3>6
  <2> QED BY <2>3, <2>4
<1> HIDE DEF R
<1>5. R \in [Ifs -> 0..Never] BY <1>3 DEF R
<1> QED BY <1>0, <1>3, <1>4, <1>5

(* No more of what comes back fits than there is room for.                  *)
LEMMA FitsInTheRoom ==
  ASSUME RotationTypeOK, NEW back \in Seq(Entries), NEW room \in Nat,
         \A j, k \in DOMAIN back : back[j].if = back[k].if => j = k
  PROVE  /\ IsFiniteSet({back[k].if : k \in Rejoining(back, room)})
         /\ Cardinality({back[k].if : k \in Rejoining(back, room)}) <= room
<1> DEFINE free == {k \in DOMAIN back : latest[back[k].if] = "none"}
           upTo(k) == {j \in free : j <= k}
           F == Rejoining(back, room)
           g == [k \in F |-> Cardinality(upTo(k))]
<1>1. F = {k \in free : Cardinality(upTo(k)) <= room} BY DEF Rejoining
<1>2. Len(back) \in Nat /\ DOMAIN back = 1..Len(back) OBVIOUS
<1>3. IsFiniteSet(free) /\ free \subseteq Nat /\ free \subseteq DOMAIN back
  <2>1. IsFiniteSet(1..Len(back)) BY <1>2, FS_Interval
  <2> QED BY <1>2, <2>1, FS_Subset
<1> HIDE DEF free
<1>4. ASSUME NEW k \in free
      PROVE  IsFiniteSet(upTo(k)) /\ Cardinality(upTo(k)) \in Nat \ {0}
  <2>1. IsFiniteSet(upTo(k)) /\ k \in upTo(k) BY <1>3, FS_Subset
  <2> HIDE DEF upTo
  <2> QED BY <2>1, FS_CardinalityType, FS_EmptySet
<1>5. ASSUME NEW j \in free, NEW k \in free, j < k
      PROVE  Cardinality(upTo(j)) < Cardinality(upTo(k))
  <2>0. \A x \in free : x \in Nat BY <1>3
  <2>1. upTo(j) \subseteq upTo(k) /\ k \in upTo(k) /\ k \notin upTo(j)
    <3>1. \A x \in free : x <= j => x <= k BY <2>0, <1>5
    <3>2. k <= k /\ ~ (k <= j) BY <2>0, <1>5
    <3> QED BY <3>1, <3>2
  <2>2. /\ IsFiniteSet(upTo(k)) /\ Cardinality(upTo(k)) \in Nat
        /\ Cardinality(upTo(j)) \in Nat
    <3> HIDE DEF upTo
    <3> QED BY <1>4
  <2> HIDE DEF upTo
  <2>3. Cardinality(upTo(j)) <= Cardinality(upTo(k)) /\ Cardinality(upTo(j)) # Cardinality(upTo(k))
    BY <2>1, <2>2, FS_Subset
  <2> QED BY <2>2, <2>3
<1>6. F \subseteq free /\ \A k \in F : Cardinality(upTo(k)) <= room BY <1>1
<1> HIDE DEF F, upTo
<1>7. g \in Injection(F, 1..room)
  <2>1. ASSUME NEW k \in F PROVE g[k] \in 1..room
    <3>1. Cardinality(upTo(k)) \in Nat \ {0} BY <1>4, <1>6
    <3> QED BY <3>1, <1>6
  <2>2. ASSUME NEW j \in F, NEW k \in F, g[j] = g[k] PROVE j = k
    <3>1. j \in Nat /\ k \in Nat /\ j \in free /\ k \in free BY <1>6, <1>3
    <3>2. g[j] = Cardinality(upTo(j)) /\ g[k] = Cardinality(upTo(k)) OBVIOUS
    <3>3. Cardinality(upTo(j)) \in Nat /\ Cardinality(upTo(k)) \in Nat BY <1>4, <3>1
    <3>4. ~ (j < k) /\ ~ (k < j) BY <1>5, <3>1, <3>2, <3>3, <2>2
    <3> QED BY <3>1, <3>4
  <2>3. g \in [F -> 1..room] BY <2>1
  <2>4. \A j, k \in F : g[j] = g[k] => j = k BY <2>2
  <2> HIDE DEF g
  <2> QED BY <2>3, <2>4 DEF Injection, IsInjective
<1>8. IsFiniteSet(1..room) /\ Cardinality(1..room) = room BY FS_Interval
<1> HIDE DEF g
<1>9. IsFiniteSet(F) /\ Cardinality(F) <= room BY <1>7, <1>8, FS_Injection
<1> DEFINE f == [k \in DOMAIN back |-> back[k].if]
<1>10. {back[k].if : k \in F} = {f[k] : k \in F} BY <1>6, <1>3
<1>11. /\ IsFiniteSet({f[k] : k \in F}) /\ Cardinality({f[k] : k \in F}) \in Nat
       /\ Cardinality({f[k] : k \in F}) <= Cardinality(F)
  <2> HIDE DEF f
  <2> QED BY <1>9, ImageIsNoLarger
<1>12. Cardinality(F) \in Nat BY <1>9, FS_CardinalityType
<1>13. Cardinality({f[k] : k \in F}) <= room
  <2> DEFINE c == Cardinality({f[k] : k \in F})
  <2>1. c \in Nat /\ c <= Cardinality(F) BY <1>11
  <2> HIDE DEF c
  <2>2. c <= room BY <2>1, <1>9, <1>12
  <2> QED BY <2>2 DEF c
<1> QED BY <1>10, <1>11, <1>13 DEF F

(* What fits needs room.                                                    *)
LEMMA NothingFitsWithoutRoom ==
  ASSUME NEW back \in Seq(Entries), NEW room \in Int,
         NEW k \in Rejoining(back, room)
  PROVE  room > 0 /\ k \in DOMAIN back /\ latest[back[k].if] = "none"
<1> DEFINE free == {j \in DOMAIN back : latest[back[j].if] = "none"}
           upTo == {j \in free : j <= k}
<1>1. k \in free /\ Cardinality(upTo) <= room BY DEF Rejoining
<1>2. Len(back) \in Nat /\ DOMAIN back = 1..Len(back) OBVIOUS
<1>3. IsFiniteSet(1..Len(back)) BY <1>2, FS_Interval
<1>4. upTo \subseteq 1..Len(back) /\ k \in upTo BY <1>1, <1>2
<1> HIDE DEF upTo
<1>5. IsFiniteSet(upTo) BY <1>3, <1>4, FS_Subset
<1>6. Cardinality(upTo) \in Nat /\ Cardinality(upTo) # 0
  BY <1>4, <1>5, FS_CardinalityType, FS_EmptySet
<1>7. room > 0 BY <1>1, <1>6
<1> QED BY <1>1, <1>7

(* At first nothing waits and nothing is carried. *)
LEMMA RotationStart == RotationInit => RotationInv
<1> SUFFICES ASSUME RotationInit PROVE RotationInv OBVIOUS
<1> USE DEF RotationInit
<1>1. NumIfs \in Nat /\ Never \in Nat /\ PendingMax \in Nat /\ Forget \in Nat
  BY RotationAssumption, InterfaceNumbers
<1>2. Pending = {} /\ Carried = {} BY DEF Pending, Carried, InHand, NoCounters
<1>3. Cardinality({}) = 0 BY FS_EmptySet
<1>4. RotationTypeOK
  <2>1. 0 \in 0..Forget /\ Never \in 0..Never /\ 0 \in 0..NumIfs BY <1>1
  <2>2. NoCounters \in Seq(Entries) BY DEF NoCounters
  <2> QED BY <2>1, <2>2 DEF RotationTypeOK
<1>5. RotationKept BY <1>1, <1>2, <1>3, <1>4 DEF RotationKept, FairTurns, NewestWaits, TableBounded
<1> QED
  BY <1>2, <1>5 DEF RotationInv, OneAtATime, NamedOnce, CarriedRankFirst, OvertakersAreBehind,
     OlderWasReplaced, NoCounters

(* What the proofs use of a sequence. *)
LEMMA SequenceFacts ==
  ASSUME NEW T, NEW s \in Seq(T)
  PROVE  /\ Len(s) \in Nat /\ DOMAIN s = 1..Len(s)
         /\ s = << >> <=> DOMAIN s = {}
         /\ \A k \in DOMAIN s : s[k] \in T
<1>1. Len(s) \in Nat /\ DOMAIN s = 1..Len(s) /\ s \in [1..Len(s) -> T] BY LenProperties
<1>2. s # << >> => Len(s) # 0 BY EmptySeq
<1>3. s = << >> => Len(s) = 0 BY EmptySeq
<1>4. Len(s) = 0 <=> 1..Len(s) = {}
  <2> DEFINE n == Len(s)
  <2> HIDE DEF n
  <2>1. n \in Nat => (n = 0 <=> 1..n = {}) OBVIOUS
  <2> QED BY <2>1, <1>1 DEF n
<1> QED BY <1>1, <1>2, <1>3, <1>4

(* A function on the first n numbers is a sequence of length n. *)
LEMMA FunctionIsSequence ==
  ASSUME NEW T, NEW n \in Nat, NEW f \in [1..n -> T]
  PROVE  f \in Seq(T) /\ Len(f) = n
<1>1. f \in Seq(T) BY SeqDef
<1>2. Len(f) \in Nat /\ DOMAIN f = 1..Len(f) BY <1>1, SequenceFacts
<1>3. DOMAIN f = 1..n OBVIOUS
<1> DEFINE l == Len(f)
<1> HIDE DEF l
<1>4. l \in Nat /\ 1..l = 1..n => l = n OBVIOUS
<1> QED BY <1>1, <1>2, <1>3, <1>4 DEF l

(* The snapshots in hand, and what they carry. *)
LEMMA Snapshots ==
  ASSUME RotationTypeOK
  PROVE  /\ \A m \in Measurers :
              /\ Len(hand[m]) \in Nat /\ DOMAIN hand[m] = 1..Len(hand[m])
              /\ hand[m] = NoCounters <=> DOMAIN hand[m] = {}
              /\ \A k \in DOMAIN hand[m] :
                   hand[m][k] \in Entries /\ hand[m][k].if \in Carried
         /\ \A i \in Carried : i \in Ifs /\ \E m \in Measurers : \E k \in DOMAIN hand[m] : hand[m][k].if = i
<1>1. ASSUME NEW m \in Measurers
      PROVE  /\ Len(hand[m]) \in Nat /\ DOMAIN hand[m] = 1..Len(hand[m])
             /\ hand[m] = NoCounters <=> DOMAIN hand[m] = {}
             /\ \A k \in DOMAIN hand[m] : hand[m][k] \in Entries
  <2>1. hand[m] \in Seq(Entries) BY DEF RotationTypeOK
  <2> QED BY <2>1, SequenceFacts DEF NoCounters
<1>2. \A e \in Entries : e.if \in Ifs BY DEF Entries
<1>3. \A m \in Measurers : \A k \in DOMAIN hand[m] : hand[m][k].if \in Carried
  BY <1>1, <1>2 DEF Carried, InHand
<1>4. \A i \in Carried : i \in Ifs /\ \E m \in Measurers : \E k \in DOMAIN hand[m] : hand[m][k].if = i
  BY DEF Carried, InHand
<1> QED BY <1>1, <1>3, <1>4

(* A reading that arrives changes no turn and no order. *)
LEMMA RemembersKeeps ==
  ASSUME RotationInv, NEW i \in Ifs, Remembers(i)
  PROVE  RotationInv'
<1> USE DEF Remembers
<1>1. RotationTypeOK /\ RotationKept BY DEF RotationInv, RotationKept
<1>2. PendingMax \in Nat BY RotationAssumption
<1>3. ASSUME NEW m \in Measurers
      PROVE  /\ DOMAIN hand'[m] = DOMAIN hand[m]
             /\ hand'[m] \in Seq(Entries)
             /\ \A k \in DOMAIN hand[m] :
                  /\ hand'[m][k].if = hand[m][k].if
                  /\ hand'[m][k].age = IF hand[m][k].if = i THEN "older" ELSE hand[m][k].age
  <2>1. hand'[m] = [k \in DOMAIN hand[m] |->
          IF hand[m][k].if = i THEN [hand[m][k] EXCEPT !.age = "older"] ELSE hand[m][k]]
    OBVIOUS
  <2>2. \A k \in DOMAIN hand[m] : hand[m][k] \in Entries BY <1>1, Snapshots
  <2>3. Len(hand[m]) \in Nat /\ DOMAIN hand[m] = 1..Len(hand[m]) BY <1>1, Snapshots
  <2>4. \A k \in DOMAIN hand[m] :
          /\ hand'[m][k] \in Entries
          /\ hand'[m][k].if = hand[m][k].if
          /\ hand'[m][k].age = IF hand[m][k].if = i THEN "older" ELSE hand[m][k].age
    <3> TAKE k \in DOMAIN hand[m]
    <3>1. hand[m][k] \in Entries BY <2>2
    <3>2. hand'[m][k] = IF hand[m][k].if = i THEN [hand[m][k] EXCEPT !.age = "older"] ELSE hand[m][k]
      BY <2>1
    <3> QED BY <3>1, <3>2 DEF Entries, ReadingAges
  <2>5. DOMAIN hand'[m] = 1..Len(hand[m]) /\ hand'[m] \in [1..Len(hand[m]) -> Entries]
    BY <2>1, <2>3, <2>4
  <2>6. hand'[m] \in Seq(Entries) BY <2>3, <2>5, FunctionIsSequence
  <2> QED BY <2>1, <2>3, <2>4, <2>5, <2>6
<1>4. latest' \in [Ifs -> ReadingAges \cup {"none"}] /\ \A j \in Ifs \ {i} : latest'[j] = latest[j]
  BY <1>1 DEF RotationTypeOK, ReadingAges
<1>5. latest'[i] = IF latest[i] # "none" \/ Cardinality(Pending) < PendingMax
                   THEN "newest" ELSE latest[i]
  BY <1>1 DEF RotationTypeOK
<1>6. RotationTypeOK'
  <2>1. hand' \in [Measurers -> Seq(Entries)] BY <1>3
  <2> QED BY <1>1, <1>4, <2>1 DEF RotationTypeOK
<1>7. IsFiniteSet(Pending) /\ Cardinality(Pending) \in Nat
  <2>1. Pending \subseteq Ifs BY DEF Pending
  <2>2. IsFiniteSet(Pending) BY <2>1, InterfaceNumbers, FS_Subset
  <2> QED BY <2>2, FS_CardinalityType
<1>8. /\ Pending \subseteq Pending'
      /\ Cardinality(Pending') \in Nat /\ Cardinality(Pending') >= Cardinality(Pending)
      /\ Cardinality(Pending') <= PendingMax
  <2>0. Cardinality(Pending) <= PendingMax BY <1>1 DEF RotationKept, TableBounded
  <2>1. CASE latest[i] # "none"
    <3>1. Pending' = Pending BY <1>4, <1>5, <2>1 DEF Pending
    <3> QED BY <3>1, <1>7, <2>0
  <2>2. CASE latest[i] = "none" /\ ~ (Cardinality(Pending) < PendingMax)
    <3>1. Pending' = Pending BY <1>4, <1>5, <2>2 DEF Pending
    <3> QED BY <3>1, <1>7, <2>0
  <2>3. CASE latest[i] = "none" /\ Cardinality(Pending) < PendingMax
    <3>1. Pending' = Pending \cup {i} /\ i \notin Pending BY <1>4, <1>5, <2>3 DEF Pending
    <3>2. Cardinality(Pending \cup {i}) = Cardinality(Pending) + 1 BY <1>7, <3>1, FS_AddElement
    <3> QED BY <3>1, <3>2, <1>7, <2>3, <1>2
  <2> QED BY <2>1, <2>2, <2>3
<1>9. RotationKept'
  <2>1. FairTurns' BY <1>1 DEF RotationKept, FairTurns
  <2>2. NewestWaits' BY <1>1, <1>4, <1>5 DEF RotationKept, NewestWaits
  <2> QED BY <1>6, <1>8, <2>1, <2>2 DEF RotationKept, TableBounded
<1>10. \A m \in Measurers : hand'[m] = NoCounters <=> hand[m] = NoCounters
  <2>1. \A m \in Measurers : hand'[m] = NoCounters <=> DOMAIN hand'[m] = {}
    BY <1>3, SequenceFacts DEF NoCounters
  <2> QED BY <2>1, <1>1, <1>3, Snapshots
<1>11. Carried' = Carried BY <1>3 DEF Carried, InHand
<1>12. OneAtATime' BY <1>10 DEF RotationInv, OneAtATime
<1>13. NamedOnce' BY <1>3 DEF RotationInv, NamedOnce
<1>14. CarriedRankFirst' BY <1>11 DEF RotationInv, CarriedRankFirst
<1>15. OvertakersAreBehind'
  <2> SUFFICES ASSUME NEW j \in Ifs, NEW h \in overtook[j]
               PROVE  overlapped # "now" /\ Behind(j, h)'
    BY DEF OvertakersAreBehind
  <2>1. overlapped # "now" /\ Behind(j, h) BY DEF RotationInv, OvertakersAreBehind
  <2>2. unsent'[h] # Never /\ (j \notin Carried' => unsent'[h] < unsent'[j]) BY <2>1, <1>11 DEF Behind
  <2>3. ASSUME NEW m \in Measurers, NEW l \in DOMAIN hand'[m], hand'[m][l].if = h
        PROVE  \E k \in DOMAIN hand'[m] : k < l /\ hand'[m][k].if = j
    <3>1. l \in DOMAIN hand[m] /\ hand[m][l].if = h BY <2>3, <1>3
    <3>2. PICK k \in DOMAIN hand[m] : k < l /\ hand[m][k].if = j BY <3>1, <2>1 DEF Behind
    <3> QED BY <3>2, <1>3
  <2> QED BY <2>1, <2>2, <2>3 DEF Behind
<1>16. OlderWasReplaced'
  <2> SUFFICES ASSUME overlapped = "never", NEW m \in Measurers, NEW k \in DOMAIN hand[m],
                      hand'[m][k].age = "older"
               PROVE  latest'[hand'[m][k].if] # "none" \/ Cardinality(Pending') >= PendingMax
    BY <1>3 DEF OlderWasReplaced
  <2>1. hand[m][k].if \in Ifs /\ hand'[m][k].if = hand[m][k].if BY <1>1, <1>3, Snapshots
  <2>2. CASE hand[m][k].if = i
    BY <2>1, <2>2, <1>5, <1>7, <1>8, <1>2
  <2>3. CASE hand[m][k].if # i
    <3>1. hand[m][k].age = "older" BY <2>3, <1>3
    <3>2. latest[hand[m][k].if] # "none" \/ Cardinality(Pending) >= PendingMax
      BY <3>1 DEF RotationInv, OlderWasReplaced
    <3> QED BY <3>2, <2>1, <2>3, <1>4, <1>7, <1>8, <1>2
  <2> QED BY <2>2, <2>3
<1> QED BY <1>9, <1>12, <1>13, <1>14, <1>15, <1>16 DEF RotationInv

(* A drain takes the front of the order, so those overtaken go out before *)
(* those that overtook them. *)
LEMMA DrainsKeeps ==
  ASSUME RotationInv, NEW m \in Measurers, Drains(m)
  PROVE  RotationInv'
<1>1. RotationTypeOK /\ RotationKept BY DEF RotationInv, RotationKept
<1>2. /\ PendingMax \in Nat /\ Room \in Nat \ {0} /\ Forget \in Nat
      /\ NumIfs \in Nat /\ Never \in Nat
  BY RotationAssumption, InterfaceNumbers
<1>a. PICK usable \in SUBSET Pending, n \in 1..Room :
        \E order \in Orders(usable) :
          HandsOut(m, usable, SubSeq(order, 1, IF n < Len(order) THEN n ELSE Len(order)))
  BY DEF Drains
<1>3. PICK order \in Orders(usable) :
        HandsOut(m, usable, SubSeq(order, 1, IF n < Len(order) THEN n ELSE Len(order)))
  BY <1>a
<1> DEFINE q == IF n < Len(order) THEN n ELSE Len(order)
           out == SubSeq(order, 1, q)
           sent == ToSet(out)
           taken == [k \in DOMAIN out |-> [if |-> out[k], age |-> latest[out[k]]]]
<1>4. /\ hand[m] = NoCounters /\ unfair' = unfair
      /\ overlapped' = IF Carried # {} THEN "now" ELSE IF overlapped = "now" THEN "before" ELSE overlapped
  BY DEF Drains
<1>5. usable \subseteq Ifs /\ IsFiniteSet(usable) /\ Cardinality(usable) \in Nat
  <2>1. usable \subseteq Ifs BY DEF Pending
  <2>2. IsFiniteSet(usable) BY <2>1, InterfaceNumbers, FS_Subset
  <2> QED BY <2>1, <2>2, FS_CardinalityType
<1>6. /\ order \in Seq(usable) /\ Len(order) \in Nat /\ DOMAIN order = 1..Len(order)
      /\ \A k \in DOMAIN order : order[k] \in usable
      /\ \A i \in usable : \E k \in DOMAIN order : order[k] = i
      /\ \A j, k \in DOMAIN order : j < k => Before(order[j], order[k])
  <2>1. order \in [1..Cardinality(usable) -> usable] BY DEF Orders
  <2>2. order \in Seq(usable) BY <2>1, <1>5, FunctionIsSequence
  <2> QED BY <2>2, SequenceFacts DEF Orders
<1>7. q \in Nat /\ q <= Len(order) BY <1>6, <1>2
<1> HIDE DEF q
<1>8. /\ DOMAIN out = 1..q
      /\ \A k \in DOMAIN out : out[k] = order[k] /\ out[k] \in usable /\ k \in DOMAIN order
  <2>1. \A k \in 1..q : k \in DOMAIN order /\ order[k] \in usable BY <1>6, <1>7
  <2>2. /\ SubSeq(order, 1, q) \in Seq(usable)
        /\ Len(SubSeq(order, 1, q)) = IF 1 <= q THEN q - 1 + 1 ELSE 0
        /\ \A k \in 1..q - 1 + 1 : SubSeq(order, 1, q)[k] = order[1 + k - 1]
    BY <2>1, <1>7, SubSeqProperties
  <2>3. Len(out) = q /\ \A k \in 1..q : out[k] = order[k] BY <2>2, <1>7
  <2>4. DOMAIN out = 1..Len(out) BY <2>2, SequenceFacts
  <2> QED BY <2>1, <2>3, <2>4
<1>9. sent = {out[k] : k \in DOMAIN out} /\ sent \subseteq usable
  BY <1>8 DEF ToSet
<1>10. /\ hand' = [hand EXCEPT ![m] = taken]
       /\ latest' = [i \in Ifs |-> IF i \in usable \ sent THEN latest[i] ELSE "none"]
       /\ unsent' = Ranked(usable, sent)
       /\ idle' = [i \in Ifs |-> IF i \in sent \/ unsent'[i] = Never THEN 0
                                 ELSE IF idle[i] < Forget THEN idle[i] + 1
                                 ELSE Forget]
       /\ overtook' = [i \in Ifs |->
            {j \in overtook[i] : i \in usable /\ Carried = {} /\ unsent'[j] # Never}]
  BY <1>3 DEF q, HandsOut
<1> HIDE DEF sent, out
<1>11. /\ DOMAIN taken = 1..q /\ taken \in Seq(Entries)
       /\ \A k \in DOMAIN taken : taken[k].if = out[k] /\ taken[k].age = latest[out[k]]
  <2>1. ASSUME NEW k \in DOMAIN out
        PROVE  taken[k] \in Entries /\ taken[k].if = out[k] /\ taken[k].age = latest[out[k]]
    <3>1. out[k] \in Ifs /\ latest[out[k]] \in ReadingAges
      BY <2>1, <1>8, <1>5, <1>1 DEF RotationTypeOK, Pending
    <3> QED BY <3>1 DEF Entries
  <2>2. taken \in [1..q -> Entries] BY <2>1, <1>8
  <2>3. taken \in Seq(Entries) BY <2>2, <1>7, FunctionIsSequence
  <2> QED BY <2>1, <2>3, <1>8
<1> HIDE DEF taken
<1>12. hand'[m] = taken /\ \A x \in Measurers \ {m} : hand'[x] = hand[x]
  BY <1>1, <1>10 DEF RotationTypeOK
<1>13. /\ unsent' \in [Ifs -> 0..Never]
       /\ \A i \in Ifs : unsent'[i] = 0 <=> i \in sent
       /\ \A i, j \in Ifs :
            (i \in usable \ sent /\ j \notin sent /\ unsent[j] < unsent[i] /\ unsent'[j] # Never)
            => unsent'[j] < unsent'[i]
  BY <1>10, <1>1, RanksKeepTheOrder
<1>14. RotationTypeOK'
  <2>1. latest' \in [Ifs -> ReadingAges \cup {"none"}] BY <1>10, <1>1 DEF RotationTypeOK
  <2>2. idle' \in [Ifs -> 0..Forget]
    <3>1. \A i \in Ifs : idle[i] \in 0..Forget BY <1>1 DEF RotationTypeOK
    <3> QED BY <3>1, <1>10, <1>2
  <2>3. hand' \in [Measurers -> Seq(Entries)]
    BY <1>1, <1>10, <1>11 DEF RotationTypeOK
  <2>4. overtook' \in [Ifs -> SUBSET Ifs]
    <3>1. \A i \in Ifs : overtook[i] \subseteq Ifs BY <1>1 DEF RotationTypeOK
    <3> QED BY <3>1, <1>10
  <2>5. unfair' \in BOOLEAN /\ overlapped' \in {"never", "now", "before"}
    BY <1>1, <1>4 DEF RotationTypeOK
  <2> QED BY <2>1, <2>2, <2>3, <2>4, <2>5, <1>13 DEF RotationTypeOK
<1>15. RotationKept'
  <2>1. FairTurns' BY <1>1, <1>4 DEF RotationKept, FairTurns
  <2>2. NewestWaits' BY <1>1, <1>4, <1>10 DEF RotationKept, NewestWaits
  <2>3. TableBounded'
    <3>1. Pending' \subseteq Pending /\ Pending \subseteq Ifs BY <1>10, <1>5 DEF Pending
    <3>2. IsFiniteSet(Pending) BY <3>1, InterfaceNumbers, FS_Subset
    <3>3. IsFiniteSet(Pending') /\ Cardinality(Pending') <= Cardinality(Pending)
      BY <3>1, <3>2, FS_Subset
    <3>4. Cardinality(Pending) \in Nat /\ Cardinality(Pending') \in Nat
      BY <3>2, <3>3, FS_CardinalityType
    <3>5. Cardinality(Pending) <= PendingMax BY <1>1 DEF RotationKept, TableBounded
    <3> QED BY <3>3, <3>4, <3>5, <1>2 DEF TableBounded
  <2> QED BY <1>14, <2>1, <2>2, <2>3 DEF RotationKept
<1>16. NamedOnce'
  <2>1. ASSUME NEW j \in DOMAIN taken, NEW k \in DOMAIN taken, taken[j].if = taken[k].if
        PROVE  j = k
    <3>1. j \in DOMAIN order /\ k \in DOMAIN order /\ order[j] = order[k] /\ order[j] \in Ifs
      BY <2>1, <1>8, <1>11, <1>5
    <3>2. unsent[order[j]] \in 0..Never /\ order[j] \in Nat
      BY <3>1, <1>1, <1>2 DEF RotationTypeOK, Ifs
    <3>3. ~ Before(order[j], order[k]) /\ ~ Before(order[k], order[j])
      BY <3>1, <3>2, <1>2 DEF Before
    <3>4. ~ (j < k) /\ ~ (k < j) BY <3>1, <3>3, <1>6
    <3> QED BY <3>1, <3>4, <1>6
  <2> QED BY <2>1, <1>12 DEF RotationInv, NamedOnce
<1>17. CASE Carried # {}
  <2>1. overlapped' = "now" BY <1>17, <1>4
  <2>2. \A i \in Ifs : overtook'[i] = {} BY <1>17, <1>10
  <2> QED
    BY <2>1, <2>2, <1>15, <1>16 DEF RotationInv, OneAtATime, CarriedRankFirst, OvertakersAreBehind,
       OlderWasReplaced
<1>18. CASE Carried = {}
  <2>1. \A x \in Measurers : hand[x] = NoCounters BY <1>18, <1>1, Snapshots
  <2>2. \A x \in Measurers \ {m} : hand'[x] = NoCounters /\ DOMAIN hand'[x] = {}
    BY <2>1, <1>12 DEF NoCounters
  <2>3. Carried' = sent
    <3>1. \A i \in Ifs : i \in Carried' <=> \E k \in DOMAIN taken : taken[k].if = i
      BY <2>2, <1>12 DEF Carried, InHand
    <3>2. \A i \in Ifs : i \in sent <=> \E k \in DOMAIN taken : taken[k].if = i
      BY <1>9, <1>8, <1>11
    <3>3. Carried' \subseteq Ifs /\ sent \subseteq Ifs BY <1>9, <1>5 DEF Carried
    <3> QED BY <3>1, <3>2, <3>3
  <2>4. OneAtATime' BY <2>2 DEF OneAtATime
  <2>5. CarriedRankFirst' BY <2>3, <1>13 DEF CarriedRankFirst
  <2>6. OvertakersAreBehind'
    <3> SUFFICES ASSUME NEW i \in Ifs, NEW j \in overtook'[i]
                 PROVE  (overlapped # "now" /\ Behind(i, j))'
      BY DEF OvertakersAreBehind
    <3>1. j \in overtook[i] /\ i \in usable /\ unsent'[j] # Never BY <1>10
    <3>2. j \in Ifs BY <3>1, <1>1 DEF RotationTypeOK
    <3>3. overlapped # "now" /\ unsent[j] < unsent[i] 
      BY <3>1, <1>18 DEF RotationInv, OvertakersAreBehind, Behind
    <3>4. overlapped' # "now" BY <3>3, <1>18, <1>4
    <3>5. ASSUME NEW x \in Measurers, NEW l \in DOMAIN hand'[x], hand'[x][l].if = j
          PROVE  \E k \in DOMAIN hand'[x] : k < l /\ hand'[x][k].if = i
      <4>1. x = m BY <2>2, <3>5
      <4>2. l \in 1..q /\ order[l] = j /\ l \in DOMAIN order
        BY <4>1, <3>5, <1>12, <1>11, <1>8
      <4>3. PICK k \in DOMAIN order : order[k] = i BY <3>1, <1>6
      <4>4. unsent[i] \in Nat /\ unsent[j] \in Nat
        BY <3>2, <1>1, <1>2 DEF RotationTypeOK
      <4>5. ~ Before(j, i) /\ i # j BY <3>3, <4>4 DEF Before
      <4>6. ~ (l < k) /\ l # k BY <4>2, <4>3, <4>5, <1>6
      <4>7. k \in 1..q /\ k < l BY <4>2, <4>3, <4>6, <1>6, <1>7
      <4>8. k \in DOMAIN taken /\ taken[k].if = i BY <4>7, <4>3, <1>11, <1>8
      <4> QED BY <4>1, <4>7, <4>8, <1>12
    <3>6. ASSUME i \notin Carried' PROVE unsent'[j] < unsent'[i]
      <4>1. i \notin sent BY <3>6, <2>3
      <4>2. ASSUME j \in sent PROVE FALSE
        <5>1. PICK l \in DOMAIN taken : taken[l].if = j BY <4>2, <1>9, <1>8, <1>11
        <5>2. \E k \in DOMAIN taken : taken[k].if = i BY <5>1, <1>12, <3>5
        <5> QED BY <5>2, <4>1, <1>9, <1>8, <1>11
      <4> QED BY <4>1, <4>2, <3>1, <3>2, <3>3, <1>13
    <3> QED BY <3>1, <3>4, <3>5, <3>6 DEF Behind
  <2>7. OlderWasReplaced'
    <3> SUFFICES ASSUME overlapped' = "never", NEW x \in Measurers, NEW k \in DOMAIN hand'[x],
                        hand'[x][k].age = "older"
                 PROVE  FALSE
      BY DEF OlderWasReplaced
    <3>1. x = m /\ overlapped = "never" BY <2>2, <1>4, <1>18
    <3>2. k \in DOMAIN taken /\ latest[out[k]] = "older" BY <3>1, <1>12, <1>11
    <3>3. out[k] \in Ifs BY <3>2, <1>11, <1>8, <1>5
    <3> QED BY <3>1, <3>2, <3>3, <1>1 DEF RotationKept, NewestWaits
  <2> QED BY <1>15, <1>16, <2>4, <2>5, <2>6, <2>7 DEF RotationInv
<1> QED BY <1>17, <1>18

(* What is cut off is the tail of the snapshot, so none is sent before one  *)
(* that it has overtaken. *)
LEMMA FinishesKeeps ==
  ASSUME RotationInv, NEW m \in Measurers, Finishes(m)
  PROVE  RotationInv'
<1>1. RotationTypeOK /\ RotationKept BY DEF RotationInv, RotationKept
<1>2. /\ PendingMax \in Nat /\ NumIfs \in Nat /\ Never \in Nat /\ Never > NumIfs
  BY RotationAssumption, InterfaceNumbers
<1> DEFINE L == Len(hand[m])
           keptOf(trim) == SubSeq(hand[m], 1, L - trim)
           backOf(trim) == SubSeq(hand[m], L - trim + 1, L)
           sentOf(trim) == {keptOf(trim)[k].if : k \in DOMAIN keptOf(trim)}
           cutOffOf(trim) == {backOf(trim)[k].if : k \in DOMAIN backOf(trim)}
<1>3. PICK trim \in 0..L :
        /\ unsent' = FirstAgain(backOf(trim))
        /\ latest' = Returned(backOf(trim), PendingMax - Cardinality(Pending))
        /\ unfair' = (unfair \/ /\ overlapped # "now"
                                /\ \E i \in (Pending \cup Carried) \ sentOf(trim) :
                                     overtook[i] \cap sentOf(trim) # {})
        /\ overtook' = [i \in Ifs |->
             IF i \in sentOf(trim) \/ i \notin Pending \cup Carried \/ overlapped = "now" THEN {}
             ELSE (IF i \in cutOffOf(trim) THEN overtook[i] \ cutOffOf(trim) ELSE overtook[i])
                  \cup sentOf(trim)]
  BY DEF Finishes
<1>4. /\ hand[m] # NoCounters /\ hand' = [hand EXCEPT ![m] = NoCounters]
      /\ idle' = idle /\ overlapped' = overlapped
  BY DEF Finishes
<1> DEFINE kept == keptOf(trim)
           back == backOf(trim)
           sent == sentOf(trim)
           cutOff == cutOffOf(trim)
           room == PendingMax - Cardinality(Pending)
<1>5. /\ L \in Nat /\ DOMAIN hand[m] = 1..L /\ hand[m] \in Seq(Entries)
      /\ \A k \in 1..L : hand[m][k] \in Entries /\ hand[m][k].if \in Carried /\ hand[m][k].if \in Ifs
  BY <1>1, Snapshots DEF RotationTypeOK
<1>6. /\ DOMAIN kept = 1..L - trim
      /\ \A k \in 1..L - trim : kept[k] = hand[m][k] /\ k \in 1..L
  <2>1. L - trim \in Nat /\ \A k \in 1..L - trim : k \in 1..L BY <1>5
  <2>2. \A k \in 1..L - trim : hand[m][k] \in Entries BY <1>5, <2>1
  <2>3. /\ SubSeq(hand[m], 1, L - trim) \in Seq(Entries)
        /\ Len(SubSeq(hand[m], 1, L - trim)) = IF 1 <= L - trim THEN L - trim - 1 + 1 ELSE 0
        /\ \A k \in 1..L - trim - 1 + 1 : SubSeq(hand[m], 1, L - trim)[k] = hand[m][1 + k - 1]
    BY <2>1, <2>2, SubSeqProperties
  <2>4. DOMAIN kept = 1..Len(kept) BY <2>3, SequenceFacts
  <2> QED BY <2>1, <2>3, <2>4
<1>7. /\ back \in Seq(Entries) /\ DOMAIN back = 1..trim
      /\ \A k \in 1..trim : back[k] = hand[m][L - trim + k] /\ L - trim + k \in 1..L
  <2>1. L - trim + 1 \in Nat /\ \A k \in L - trim + 1..L : k \in 1..L BY <1>5
  <2>2. \A k \in L - trim + 1..L : hand[m][k] \in Entries BY <1>5, <2>1
  <2>3. /\ SubSeq(hand[m], L - trim + 1, L) \in Seq(Entries)
        /\ Len(SubSeq(hand[m], L - trim + 1, L)) =
             IF L - trim + 1 <= L THEN L - (L - trim + 1) + 1 ELSE 0
        /\ \A k \in 1..L - (L - trim + 1) + 1 :
             SubSeq(hand[m], L - trim + 1, L)[k] = hand[m][L - trim + 1 + k - 1]
    BY <2>1, <2>2, <1>5, SubSeqProperties
  <2>4. Len(back) = trim /\ \A k \in 1..trim : back[k] = hand[m][L - trim + k] /\ L - trim + k \in 1..L
    BY <2>3, <1>5
  <2>5. DOMAIN back = 1..Len(back) BY <2>3, SequenceFacts
  <2> QED BY <2>3, <2>4, <2>5
<1>8. \A i : i \in sent <=> \E k \in 1..L - trim : hand[m][k].if = i
  BY <1>6
<1>9. \A i : i \in cutOff <=> \E k \in 1..L : k > L - trim /\ hand[m][k].if = i
  <2>1. \A i : i \in cutOff <=> \E k \in 1..trim : hand[m][L - trim + k].if = i BY <1>7
  <2>2. \A k \in 1..L : k > L - trim => \E j \in 1..trim : L - trim + j = k
    <3>1. L \in Nat /\ trim \in 0..L BY <1>5
    <3> HIDE DEF L
    <3> TAKE k \in 1..L
    <3> HAVE k > L - trim
    <3>2. k - (L - trim) \in 1..trim BY <3>1
    <3>3. L - trim + (k - (L - trim)) = k BY <3>1
    <3> QED BY <3>2, <3>3
  <2>3. \A k \in 1..trim : L - trim + k \in 1..L /\ L - trim + k > L - trim BY <1>5
  <2> HIDE DEF cutOff
  <2> QED BY <2>1, <2>2, <2>3
<1>10. /\ unsent' = FirstAgain(back) /\ latest' = Returned(back, room)
       /\ unfair' = (unfair \/ /\ overlapped # "now"
                               /\ \E i \in (Pending \cup Carried) \ sent :
                                    overtook[i] \cap sent # {})
       /\ overtook' = [i \in Ifs |->
            IF i \in sent \/ i \notin Pending \cup Carried \/ overlapped = "now" THEN {}
            ELSE (IF i \in cutOff THEN overtook[i] \ cutOff ELSE overtook[i]) \cup sent]
  BY <1>3
<1>11. \A j, k \in DOMAIN back : back[j].if = back[k].if => j = k
  <2>1. \A j, k \in 1..L : hand[m][j].if = hand[m][k].if => j = k
    BY <1>5 DEF RotationInv, NamedOnce
  <2>2. L \in Nat /\ trim \in 0..L BY <1>5
  <2> HIDE DEF back, L
  <2> SUFFICES ASSUME NEW j \in 1..trim, NEW k \in 1..trim, back[j].if = back[k].if PROVE j = k
    BY <1>7
  <2>3. L - trim + j = L - trim + k BY <2>1, <1>7
  <2> QED BY <2>2, <2>3
<1>12. \A i \in Ifs : unsent'[i] = IF i \in cutOff THEN Never ELSE unsent[i]
  BY <1>10 DEF FirstAgain
<1> HIDE DEF kept, back, sent, cutOff, L
<1>13. sent \subseteq Ifs /\ cutOff \subseteq Ifs /\ sent \cap cutOff = {}
       /\ sent \subseteq Carried /\ cutOff \subseteq Carried
  <2>1. \A j, k \in 1..L : hand[m][j].if = hand[m][k].if => j = k
    BY <1>5 DEF RotationInv, NamedOnce
  <2>2. \A j \in 1..L - trim : j \in 1..L /\ ~ (j > L - trim) BY <1>5
  <2>3. \A i \in sent : i \in Ifs /\ i \in Carried BY <1>5, <1>8, <2>2
  <2>4. \A i \in cutOff : i \in Ifs /\ i \in Carried BY <1>5, <1>9
  <2>5. ASSUME NEW i \in sent, i \in cutOff PROVE FALSE
    <3>1. PICK j \in 1..L - trim : hand[m][j].if = i BY <1>8
    <3>2. PICK k \in 1..L : k > L - trim /\ hand[m][k].if = i BY <2>5, <1>9
    <3> QED BY <3>1, <3>2, <2>1, <2>2
  <2> QED BY <2>3, <2>4, <2>5
<1>14. IsFiniteSet(Pending) /\ Cardinality(Pending) \in Nat /\ Cardinality(Pending) <= PendingMax
  <2>1. Pending \subseteq Ifs BY DEF Pending
  <2>2. IsFiniteSet(Pending) BY <2>1, InterfaceNumbers, FS_Subset
  <2> QED BY <2>2, FS_CardinalityType, <1>1 DEF RotationKept, TableBounded
<1>15. room \in Nat BY <1>14, <1>2
<1> HIDE DEF room
<1>16. ASSUME NEW i \in Ifs
       PROVE  \/ /\ \E k \in Rejoining(back, room) : back[k].if = i /\ latest'[i] = back[k].age
                 /\ latest[i] = "none" /\ latest'[i] \in ReadingAges
              \/ /\ \A k \in Rejoining(back, room) : back[k].if # i
                 /\ latest'[i] = latest[i]
  <2>1. CASE \E k \in Rejoining(back, room) : back[k].if = i
    <3> DEFINE c == CHOOSE k \in Rejoining(back, room) : back[k].if = i
    <3>1. c \in Rejoining(back, room) /\ back[c].if = i BY <2>1
    <3>2. latest'[i] = back[c].age BY <2>1, <1>10 DEF Returned
    <3> HIDE DEF c
    <3>3. c \in DOMAIN back /\ latest[back[c].if] = "none"
      BY <3>1, <1>7, <1>15, NothingFitsWithoutRoom
    <3>4. back[c] \in Entries BY <3>3, <1>7, SequenceFacts
    <3>5. back[c].age \in ReadingAges BY <3>4 DEF Entries
    <3> QED BY <3>1, <3>2, <3>3, <3>5
  <2>2. CASE ~ \E k \in Rejoining(back, room) : back[k].if = i
    BY <2>2, <1>10 DEF Returned
  <2> QED BY <2>1, <2>2
<1>17. RotationTypeOK'
  <2>1. latest' \in [Ifs -> ReadingAges \cup {"none"}]
    <3>1. latest' = [i \in Ifs |-> latest'[i]] BY <1>10 DEF Returned
    <3>2. \A i \in Ifs : latest'[i] \in ReadingAges \cup {"none"}
      BY <1>16, <1>1 DEF RotationTypeOK
    <3> QED BY <3>1, <3>2
  <2>2. unsent' \in [Ifs -> 0..Never]
    <3>1. unsent' = [i \in Ifs |-> unsent'[i]] BY <1>10 DEF FirstAgain
    <3>2. \A i \in Ifs : unsent'[i] \in 0..Never BY <1>12, <1>1, <1>2 DEF RotationTypeOK
    <3> QED BY <3>1, <3>2
  <2>3. hand' \in [Measurers -> Seq(Entries)]
    <3>1. NoCounters \in Seq(Entries) BY EmptySeq DEF NoCounters
    <3> QED BY <3>1, <1>1, <1>4 DEF RotationTypeOK
  <2>4. overtook' \in [Ifs -> SUBSET Ifs]
    <3>1. \A i \in Ifs : overtook[i] \subseteq Ifs BY <1>1 DEF RotationTypeOK
    <3> QED BY <3>1, <1>10, <1>13
  <2>5. unfair' \in BOOLEAN BY <1>10
  <2> QED BY <2>1, <2>2, <2>3, <2>4, <2>5, <1>1, <1>4 DEF RotationTypeOK
<1>18. ASSUME NEW i \in Ifs, i \notin sent, NEW j \in overtook[i]
       PROVE  /\ overlapped # "now" /\ j \in Ifs /\ j \notin sent
              /\ i \notin cutOff => j \notin cutOff
  <2>1. overlapped # "now" /\ Behind(i, j) BY DEF RotationInv, OvertakersAreBehind
  <2>2. j \in Ifs BY <1>1 DEF RotationTypeOK
  <2>3. ASSUME NEW l \in 1..L, hand[m][l].if = j
        PROVE  \E k \in 1..L : k < l /\ hand[m][k].if = i
    BY <2>1, <2>3, <1>5 DEF Behind
  <2>4. j \notin sent
    <3> SUFFICES ASSUME j \in sent PROVE FALSE OBVIOUS
    <3>1. PICK l \in 1..L - trim : hand[m][l].if = j BY <1>8
    <3>2. l \in 1..L BY <1>5
    <3>3. PICK k \in 1..L : k < l /\ hand[m][k].if = i BY <3>1, <3>2, <2>3
    <3>4. k \in 1..L - trim BY <3>3, <1>5
    <3> QED BY <3>3, <3>4, <1>8, <1>18
  <2>5. ASSUME i \notin cutOff PROVE j \notin cutOff
    <3> SUFFICES ASSUME j \in cutOff PROVE FALSE OBVIOUS
    <3>1. PICK l \in 1..L : l > L - trim /\ hand[m][l].if = j BY <1>9
    <3>2. PICK k \in 1..L : k < l /\ hand[m][k].if = i BY <3>1, <2>3
    <3>3. k \in 1..L - trim \/ k > L - trim BY <1>5
    <3> QED BY <3>2, <3>3, <1>8, <1>9, <1>18, <2>5
  <2> QED BY <2>1, <2>2, <2>4, <2>5
<1>19. RotationKept'
  <2>1. FairTurns'
    <3>1. ~ unfair BY <1>1 DEF RotationKept, FairTurns
    <3>2. Pending \cup Carried \subseteq Ifs BY DEF Pending, Carried
    <3>3. \A i \in (Pending \cup Carried) \ sent : overtook[i] \cap sent = {} BY <3>2, <1>18
    <3>4. ~ unfair' BY <3>1, <3>3, <1>10
    <3> QED BY <3>4 DEF FairTurns
  <2>2. NewestWaits'
    <3> SUFFICES ASSUME overlapped = "never", NEW i \in Ifs, latest'[i] = "older" PROVE FALSE
      BY <1>4 DEF NewestWaits
    <3>1. latest[i] # "older" BY <1>1 DEF RotationKept, NewestWaits
    <3>2. PICK k \in Rejoining(back, room) : back[k].if = i /\ back[k].age = "older"
      BY <3>1, <1>16
    <3>3. room > 0 /\ k \in DOMAIN back /\ latest[back[k].if] = "none"
      BY <1>7, <1>15, NothingFitsWithoutRoom
    <3>4. back[k] = hand[m][L - trim + k] /\ L - trim + k \in DOMAIN hand[m]
      BY <3>3, <1>7, <1>5
    <3>5. latest[hand[m][L - trim + k].if] # "none" \/ Cardinality(Pending) >= PendingMax
      BY <3>2, <3>4 DEF RotationInv, OlderWasReplaced
    <3> QED BY <3>3, <3>4, <3>5, <1>14, <1>2 DEF room
  <2>3. TableBounded'
    <3> DEFINE back2 == {back[k].if : k \in Rejoining(back, room)}
    <3>1. IsFiniteSet(back2) /\ Cardinality(back2) <= room
      BY <1>1, <1>7, <1>11, <1>15, FitsInTheRoom
    <3>2. Cardinality(back2) \in Nat BY <3>1, FS_CardinalityType
    <3>3. Pending' \subseteq Pending \cup back2
      <4>1. ASSUME NEW i \in Ifs, latest'[i] # "none" PROVE i \in Pending \cup back2
        BY <4>1, <1>16 DEF Pending
      <4> HIDE DEF back2
      <4> QED BY <4>1 DEF Pending
    <3> HIDE DEF back2
    <3>4. /\ IsFiniteSet(Pending \cup back2)
          /\ Cardinality(Pending \cup back2) =
               Cardinality(Pending) + Cardinality(back2) - Cardinality(Pending \cap back2)
      BY <3>1, <1>14, FS_Union
    <3>5. IsFiniteSet(Pending \cap back2) /\ Cardinality(Pending \cap back2) \in Nat
      <4>1. IsFiniteSet(Pending \cap back2) BY <1>14, FS_Subset
      <4> QED BY <4>1, FS_CardinalityType
    <3>6. IsFiniteSet(Pending') /\ Cardinality(Pending') <= Cardinality(Pending \cup back2)
      BY <3>3, <3>4, FS_Subset
    <3>7. Cardinality(Pending') \in Nat BY <3>6, FS_CardinalityType
    <3> QED BY <3>1, <3>2, <3>4, <3>5, <3>6, <3>7, <1>14, <1>2 DEF room, TableBounded
  <2> QED BY <1>17, <2>1, <2>2, <2>3 DEF RotationKept
<1>20. \A x \in Measurers \ {m} : hand'[x] = hand[x]
  BY <1>1, <1>4 DEF RotationTypeOK
<1>21. hand'[m] = NoCounters /\ DOMAIN hand'[m] = {} BY <1>1, <1>4 DEF RotationTypeOK, NoCounters
<1>22. OneAtATime' BY <1>4, <1>20, <1>21 DEF RotationInv, OneAtATime
<1>23. NamedOnce' BY <1>20, <1>21 DEF RotationInv, NamedOnce
<1>24. ASSUME overlapped # "now"
       PROVE  /\ Carried' = {} /\ \A x \in Measurers : DOMAIN hand'[x] = {}
              /\ \A i \in Ifs \ (sent \cup cutOff) : i \notin Carried
  <2>1. \A x \in Measurers \ {m} : hand[x] = NoCounters
    BY <1>24, <1>4 DEF RotationInv, OneAtATime
  <2>2. \A x \in Measurers \ {m} : DOMAIN hand[x] = {} BY <2>1 DEF NoCounters
  <2>3. \A x \in Measurers : DOMAIN hand'[x] = {} BY <2>2, <1>20, <1>21
  <2>4. Carried' = {} BY <2>3 DEF Carried, InHand
  <2>5. ASSUME NEW i \in Carried PROVE i \in sent \cup cutOff
    <3>1. PICK k \in DOMAIN hand[m] : hand[m][k].if = i BY <2>2, <1>1, Snapshots
    <3>2. k \in 1..L /\ (k \in 1..L - trim \/ k > L - trim) BY <1>5
    <3> QED BY <3>1, <3>2, <1>8, <1>9
  <2> QED BY <2>3, <2>4, <2>5
<1>25. CarriedRankFirst' BY <1>4, <1>24 DEF CarriedRankFirst
<1>26. OlderWasReplaced' BY <1>4, <1>24 DEF OlderWasReplaced
<1>27. OvertakersAreBehind'
  <2> SUFFICES ASSUME NEW i \in Ifs, NEW j \in overtook'[i]
               PROVE  (overlapped # "now" /\ Behind(i, j))'
    BY DEF OvertakersAreBehind
  <2>1. /\ i \notin sent /\ overlapped # "now"
        /\ j \in sent \/ (j \in overtook[i] /\ (i \in cutOff => j \notin cutOff))
    BY <1>10
  <2>2. overlapped' # "now" /\ Carried' = {} /\ \A x \in Measurers : DOMAIN hand'[x] = {}
    BY <2>1, <1>4, <1>24
  <2>3. Carried # {} /\ \A x \in Ifs : unsent[x] = 0 <=> x \in Carried
    <3>1. DOMAIN hand[m] # {} BY <1>1, <1>4, Snapshots
    <3>2. Carried # {} BY <3>1, <1>5
    <3> QED BY <3>2, <2>1 DEF RotationInv, CarriedRankFirst
  <2>4. j \in Ifs /\ j \notin cutOff BY <2>1, <1>13, <1>18
  <2>5. unsent'[j] = unsent[j] /\ unsent[j] # Never
    <3>1. j \in sent => unsent[j] = 0 BY <1>13, <2>3, <2>4
    <3>2. j \in overtook[i] => unsent[j] # Never
      BY DEF RotationInv, OvertakersAreBehind, Behind
    <3> QED BY <3>1, <3>2, <2>1, <2>4, <1>12, <1>2
  <2>6. unsent[j] \in 0..Never /\ unsent[i] \in 0..Never BY <2>4, <1>1 DEF RotationTypeOK
  <2>7. unsent'[j] < unsent'[i]
    <3>1. CASE i \in cutOff
      BY <3>1, <2>5, <2>6, <1>12, <1>2
    <3>2. CASE i \notin cutOff
      <4>1. unsent'[i] = unsent[i] /\ i \notin Carried BY <3>2, <2>1, <1>12, <1>24
      <4>2. CASE j \in sent
        BY <4>1, <4>2, <1>13, <2>3, <2>4, <2>5, <2>6, <1>2
      <4>3. CASE j \in overtook[i]
        <5>1. unsent[j] < unsent[i]
          BY <4>1, <4>3 DEF RotationInv, OvertakersAreBehind, Behind
        <5> QED BY <5>1, <4>1, <2>5
      <4> QED BY <4>2, <4>3, <2>1
    <3> QED BY <3>1, <3>2
  <2> QED BY <2>2, <2>5, <2>7 DEF Behind
<1> QED BY <1>19, <1>22, <1>23, <1>25, <1>26, <1>27 DEF RotationInv

(* Every step of a measurement keeps the invariant. *)
LEMMA RotationStep == RotationInv /\ [RotationNext]_rotationVars => RotationInv'
<1> SUFFICES ASSUME RotationInv, [RotationNext]_rotationVars PROVE RotationInv' OBVIOUS
<1>1. CASE \E i \in Ifs : Remembers(i) BY <1>1, RemembersKeeps
<1>2. CASE \E m \in Measurers : Drains(m) BY <1>2, DrainsKeeps
<1>3. CASE \E m \in Measurers : Finishes(m) BY <1>3, FinishesKeeps
<1>4. CASE UNCHANGED rotationVars
  BY <1>4 DEF rotationVars, RotationInv, RotationKept, RotationTypeOK, FairTurns, NewestWaits,
     TableBounded, Pending, Carried, InHand, OneAtATime, NamedOnce, CarriedRankFirst,
     OvertakersAreBehind, Behind, OlderWasReplaced
<1> QED BY <1>1, <1>2, <1>3, <1>4 DEF RotationNext

(* For any number of interfaces, room and measurers: while a reading waits no *)
(* other interface is sent twice, unless the order was forgotten; a newer    *)
(* reading is never replaced by one handed back while measurements do not    *)
(* overlap; the table keeps its size.                                        *)
THEOREM TurnsAreFair == RotationSpec => []RotationKept
<1>1. RotationInv => RotationKept BY DEF RotationInv
<1> QED BY <1>1, RotationStart, RotationStep, PTL DEF RotationSpec
=============================================================================
