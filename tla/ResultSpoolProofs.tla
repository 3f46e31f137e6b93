-------------------------- MODULE ResultSpoolProofs --------------------------
(***************************************************************************)
(* What holds of ResultSpool for every set of lanes, every bound and every *)
(* number of batches.                                                      *)
(***************************************************************************)
EXTENDS ResultSpool, FiniteSetTheorems, SequenceTheorems, TLAPS

-----------------------------------------------------------------------------
(* The four operations on the queue, each with what it does to its length.  *)

(* Trimming keeps a queue of entries and brings it within the bound.       *)
LEMMA TrimmedQueue ==
  ASSUME NEW S, NEW q \in Seq(S), SpoolMax \in Nat
  PROVE  /\ Overflow(q) \in Nat
         /\ Trimmed(q) \in Seq(S)
         /\ Len(Trimmed(q)) <= SpoolMax
         /\ Len(Trimmed(q)) <= Len(q)
  BY DEF Overflow, Trimmed

(* Taking a batch out shortens the queue by one.                           *)
LEMMA TakenOutQueue ==
  ASSUME NEW S, NEW q \in Seq(S), NEW i \in DOMAIN q
  PROVE  /\ TakenOut(q, i) \in Seq(S)
         /\ Len(TakenOut(q, i)) = Len(q) - 1
<1>1. /\ i \in 1..Len(q)
      /\ Len(q) \in Nat
  OBVIOUS
<1>2. /\ SubSeq(q, 1, i - 1) \in Seq(S)
      /\ Len(SubSeq(q, 1, i - 1)) = i - 1
  BY <1>1
<1>3. /\ SubSeq(q, i + 1, Len(q)) \in Seq(S)
      /\ Len(SubSeq(q, i + 1, Len(q))) = Len(q) - i
  BY <1>1
<1> DEFINE a == SubSeq(q, 1, i - 1)
           b == SubSeq(q, i + 1, Len(q))
<1>4. TakenOut(q, i) = a \o b
  BY DEF TakenOut, RemoveAt
<1> HIDE DEF a, b
<1>5. a \o b \in Seq(S) /\ Len(a \o b) = Len(a) + Len(b)
  BY <1>2, <1>3, ConcatProperties DEF a, b
<1>6. Len(a) = i - 1 /\ Len(b) = Len(q) - i
  BY <1>2, <1>3 DEF a, b
<1> QED
  BY <1>1, <1>4, <1>5, <1>6

(* Putting a batch back lengthens it by one, whatever the index.           *)
LEMMA ReinsertedQueue ==
  ASSUME NEW S, NEW q \in Seq(S), NEW i \in Nat \ {0}, NEW e \in S
  PROVE  /\ Reinsert(q, i, e) \in Seq(S)
         /\ Len(Reinsert(q, i, e)) = Len(q) + 1
<1> DEFINE n == IF i <= Len(q) THEN i ELSE Len(q) + 1
<1>1. /\ n \in 1..(Len(q) + 1)
      /\ Len(q) \in Nat
  OBVIOUS
<1> HIDE DEF n
<1>2. /\ SubSeq(q, 1, n - 1) \in Seq(S)
      /\ Len(SubSeq(q, 1, n - 1)) = n - 1
  BY <1>1
<1>3. /\ SubSeq(q, n, Len(q)) \in Seq(S)
      /\ Len(SubSeq(q, n, Len(q))) = Len(q) + 1 - n
  BY <1>1
<1> DEFINE a == SubSeq(q, 1, n - 1)
           b == SubSeq(q, n, Len(q))
<1>4. Reinsert(q, i, e) = (a \o <<e>>) \o b
  BY DEF Reinsert, InsertAt, n
<1> HIDE DEF a, b
<1>5. /\ <<e>> \in Seq(S)
      /\ Len(<<e>>) = 1
  OBVIOUS
<1>6. a \o <<e>> \in Seq(S) /\ Len(a \o <<e>>) = n
  BY <1>1, <1>2, <1>5, ConcatProperties DEF a
<1>7. b \in Seq(S) /\ Len(b) = Len(q) + 1 - n
  BY <1>3 DEF b
<1>8. /\ (a \o <<e>>) \o b \in Seq(S)
      /\ Len((a \o <<e>>) \o b) = Len(a \o <<e>>) + Len(b)
  BY <1>6, <1>7, ConcatProperties
<1>9. Len((a \o <<e>>) \o b) = Len(q) + 1
  BY <1>1, <1>6, <1>7, <1>8
<1> QED
  BY <1>4, <1>8, <1>9

-----------------------------------------------------------------------------
(* Type correctness.                                                       *)

(* What flush does next with a queue q, and what it leaves of the types.   *)
LEMMA TakeNextTypes ==
  ASSUME TypeOK, NEW l \in Lanes, NEW k \in Kinds, NEW q \in Seq(Entry),
         NEW own \in Ids, NEW sent \in Nat, TakeNext(l, q, k, own, sent)
  PROVE  /\ queue' \in Seq(Entry)
         /\ call' \in [Lanes -> Pending \cup {Idle}]
         /\ returned' \in [Lanes -> {"none", "ok", "failed"}]
<1>1. CASE /\ queue' = q
           /\ call' = [call EXCEPT ![l] = Idle]
           /\ returned' = [returned EXCEPT ![l] = "ok"]
  BY <1>1 DEF TypeOK
<1>2. ASSUME NEW i \in DOMAIN q,
             queue' = TakenOut(q, i),
             call' = [call EXCEPT ![l] =
               [pc |-> "submitting", entry |-> q[i], index |-> i,
                own |-> own, sent |-> sent, direct |-> FALSE]],
             UNCHANGED returned
      PROVE  /\ queue' \in Seq(Entry)
             /\ call' \in [Lanes -> Pending \cup {Idle}]
             /\ returned' \in [Lanes -> {"none", "ok", "failed"}]
  <2>1. i \in Nat \ {0} /\ q[i] \in Entry
    BY ElementOfSeq, LenProperties
  <2>2. [pc |-> "submitting", entry |-> q[i], index |-> i,
         own |-> own, sent |-> sent, direct |-> FALSE] \in Pending
    BY <2>1 DEF Pending, Submit
  <2> QED
    BY <1>2, <2>2, TakenOutQueue DEF TypeOK
<1> QED
  BY <1>1, <1>2 DEF TakeNext

(* Every variable of the spool keeps its type.                             *)
THEOREM SpoolTypes == Spec => []TypeOK
<1>1. Init => TypeOK
  <2> SUFFICES ASSUME Init
               PROVE  TypeOK
    OBVIOUS
  <2>1. queue \in Seq(Entry) /\ dropped \in Nat /\ measured \in 0..MaxBatches
    BY SpoolAssumption DEF Init
  <2>2. call \in [Lanes -> Pending \cup {Idle}]
    BY DEF Init
  <2>3. returned \in [Lanes -> {"none", "ok", "failed"}]
    BY DEF Init
  <2>4. server \in [has : SUBSET Ids, last : [Kinds -> 0..MaxBatches]]
    BY SpoolAssumption DEF Init
  <2> QED
    BY <2>1, <2>2, <2>3, <2>4 DEF Init, TypeOK
<1>2. TypeOK /\ [Next]_vars => TypeOK'
  <2> SUFFICES ASSUME TypeOK, [Next]_vars
               PROVE  TypeOK'
    OBVIOUS
  <2> USE SpoolAssumption
  <2>0. overlapped' \in BOOLEAN
    BY DEF Next, vars, TypeOK
  <2>1. ASSUME NEW l \in Lanes, NEW k \in Kinds, SpoolMax > 0, DeliverSpooled(l, k)
        PROVE  TypeOK'
    <3> DEFINE e == [kind |-> k, id |-> measured + 1]
               q == Append(queue, e)
    <3>1. e.id \in Ids /\ e \in Entry /\ measured + 1 \in 0..MaxBatches
      BY <2>1 DEF DeliverSpooled, TypeOK, Ids, Entry
    <3>2. q \in Seq(Entry)
      BY <3>1 DEF TypeOK
    <3>3. /\ Overflow(q) \in Nat
          /\ Trimmed(q) \in Seq(Entry)
      BY <3>2, TrimmedQueue
    <3>4. TakeNext(l, Trimmed(q), k, e.id, 0)
      BY <2>1 DEF DeliverSpooled
    <3>5. /\ queue' \in Seq(Entry)
          /\ call' \in [Lanes -> Pending \cup {Idle}]
          /\ returned' \in [Lanes -> {"none", "ok", "failed"}]
      <4> HIDE DEF e, q
      <4> QED
        BY <3>1, <3>3, <3>4, TakeNextTypes
    <3>6. dropped' \in Nat /\ measured' \in 0..MaxBatches /\ server' = server
      BY <2>1, <3>1, <3>3 DEF DeliverSpooled, DroppedAfter, TypeOK
    <3> QED
      BY <2>0, <3>5, <3>6 DEF TypeOK
  <2>2. ASSUME NEW l \in Lanes, NEW k \in Kinds, ~(SpoolMax > 0), DeliverUnspooled(l, k)
        PROVE  TypeOK'
    <3>1. measured + 1 \in Ids /\ measured + 1 \in 0..MaxBatches
      BY <2>2 DEF DeliverUnspooled, TypeOK, Ids
    <3>2. [pc |-> "submitting", entry |-> [kind |-> k, id |-> measured + 1],
           index |-> 0, own |-> measured + 1, sent |-> 0, direct |-> TRUE]
             \in Pending
      BY <3>1 DEF Pending, Submit, Entry
    <3> QED
      BY <2>0, <2>2, <3>1, <3>2 DEF DeliverUnspooled, TypeOK
  <2>3. ASSUME NEW l \in Lanes, Land(l)
        PROVE  TypeOK'
    <3>1. call[l] \in Pending
      BY <2>3 DEF Land, TypeOK
    <3>2. /\ call[l].entry \in Entry
          /\ [call[l] EXCEPT !.pc = "landed"] \in Pending
      BY <3>1 DEF Pending, Submit
    <3>3. call' \in [Lanes -> Pending \cup {Idle}]
      BY <2>3, <3>2 DEF Land, TypeOK
    <3>4. server' \in [has : SUBSET Ids, last : [Kinds -> 0..MaxBatches]]
      BY <2>3, <3>2 DEF Land, TypeOK, Entry, Ids
    <3> QED
      BY <2>0, <2>3, <3>3, <3>4 DEF Land, TypeOK
  <2>4. ASSUME NEW l \in Lanes, SubmitResolved(l)
        PROVE  TypeOK'
    <3>1. call[l] \in Pending
      BY <2>4 DEF SubmitResolved, TypeOK
    <3>2. call[l].entry \in Entry /\ call[l].own \in Ids /\ call[l].sent \in Nat
      BY <3>1 DEF Pending, Submit
    <3> call[l].entry.kind \in Kinds /\ call[l].sent + 1 \in Nat
      BY <3>2 DEF Entry
    <3>3. CASE call[l].direct
      BY <2>0, <2>4, <3>3 DEF SubmitResolved, TypeOK
    <3>4. CASE ~call[l].direct
      BY <2>0, <2>4, <3>2, <3>4, TakeNextTypes DEF SubmitResolved, TypeOK
    <3> QED
      BY <3>3, <3>4
  <2>5. ASSUME NEW l \in Lanes, SubmitRejected(l)
        PROVE  TypeOK'
    <3>1. call[l] \in Pending
      BY <2>5 DEF SubmitRejected, TypeOK
    <3>2. /\ call[l].entry \in Entry
          /\ ~call[l].direct => call[l].index \in Nat \ {0}
      BY <3>1 DEF Pending, Submit
    <3>3. queue' \in Seq(Entry)
      BY <2>5, <3>2, ReinsertedQueue DEF SubmitRejected, TypeOK
    <3> QED
      BY <2>0, <2>5, <3>3 DEF SubmitRejected, TypeOK, Rethrown
  <2>6. CASE UNCHANGED vars
    BY <2>6 DEF vars, TypeOK
  <2> QED
    BY <2>1, <2>2, <2>3, <2>4, <2>5, <2>6 DEF Next, Deliver
<1> QED
  BY <1>1, <1>2, PTL DEF Spec

-----------------------------------------------------------------------------
(* The bound.  A delivery in progress has taken one batch out of the queue, *)
(* so a queue trimmed to the bound has SpoolMax - 1 batches left when the   *)
(* last lane becomes busy; from then on a batch only moves between the      *)
(* queue and a lane.                                                        *)

(* With spooling enabled no delivery throws its batch away.                *)
NoDirect == SpoolMax > 0 => \A l \in Busy : ~call[l].direct

(* The lanes with a delivery in progress are counted by a natural number.  *)
LEMMA BusyCount ==
  /\ Cardinality(Lanes) \in Nat
  /\ IsFiniteSet(Busy)
  /\ Cardinality(Busy) \in Nat
  /\ Cardinality(Busy) <= Cardinality(Lanes)
<1>1. Busy \in SUBSET Lanes /\ IsFiniteSet(Lanes)
  BY SpoolAssumption DEF Busy
<1> QED
  BY <1>1, FS_Subset, FS_CardinalityType

(* A lane that is idle leaves room for one more.                           *)
LEMMA IdleLaneCount ==
  ASSUME NEW l \in Lanes, l \notin Busy
  PROVE  Cardinality(Busy) <= Cardinality(Lanes) - 1
<1>1. IsFiniteSet(Lanes) /\ Busy \in SUBSET (Lanes \ {l})
  BY SpoolAssumption DEF Busy
<1>2. /\ IsFiniteSet(Lanes \ {l})
      /\ Cardinality(Lanes \ {l}) = Cardinality(Lanes) - 1
  BY <1>1, FS_RemoveElement
<1> QED
  BY <1>1, <1>2, FS_Subset

(* A delivery that starts, goes on, or ends.                               *)
LEMMA BusySteps ==
  ASSUME TypeOK, NEW l \in Lanes
  PROVE  /\ \A c : (c # Idle /\ call' = [call EXCEPT ![l] = c])
                      => Busy' = Busy \cup {l}
         /\ call' = [call EXCEPT ![l] = Idle] => Busy' = Busy \ {l}
  BY DEF Busy, TypeOK

(* One turn of the loop in flush: a batch moves from the queue to the lane, *)
(* or the lane becomes idle and the queue is left alone.                    *)
LEMMA TakeNextMoves ==
  ASSUME TypeOK, NEW l \in Lanes, NEW k, NEW q \in Seq(Entry),
         NEW own, NEW sent, TakeNext(l, q, k, own, sent)
  PROVE  /\ \/ Len(queue') = Len(q) - 1 /\ Busy' = Busy \cup {l}
            \/ queue' = q /\ Busy' = Busy \ {l}
         /\ NoDirect => NoDirect'
<1>1. CASE queue' = q /\ call' = [call EXCEPT ![l] = Idle]
  <2>1. Busy' = Busy \ {l}
    BY <1>1, BusySteps
  <2>2. \A m \in Busy' : call'[m] = call[m]
    BY <1>1, <2>1 DEF TypeOK, Busy
  <2> QED
    BY <1>1, <2>1, <2>2 DEF NoDirect
<1>2. ASSUME NEW i \in DOMAIN q,
             queue' = TakenOut(q, i),
             call' = [call EXCEPT ![l] =
               [pc |-> "submitting", entry |-> q[i], index |-> i,
                own |-> own, sent |-> sent, direct |-> FALSE]]
      PROVE  /\ Len(queue') = Len(q) - 1
             /\ Busy' = Busy \cup {l}
             /\ NoDirect => NoDirect'
  <2> DEFINE c == [pc |-> "submitting", entry |-> q[i], index |-> i,
                   own |-> own, sent |-> sent, direct |-> FALSE]
  <2>1. c # Idle /\ c.direct = FALSE
    BY DEF Idle
  <2>2. Busy' = Busy \cup {l}
    <3> HIDE DEF c
    <3>1. call' = [call EXCEPT ![l] = c]
      BY <1>2 DEF c
    <3> QED
      BY <2>1, <3>1, BusySteps
  <2>3. /\ call'[l].direct = FALSE
        /\ \A m \in Busy \ {l} : call'[m] = call[m]
    BY <1>2, <2>1 DEF TypeOK, Busy
  <2> QED
    BY <1>2, <2>2, <2>3, TakenOutQueue DEF NoDirect
<1> QED
  BY <1>1, <1>2 DEF TakeNext

(* What the agent holds stays within resultSpoolMax plus the other lanes.  *)
THEOREM SpoolBound == Spec => []HeldBounded
<1>1. Init => NoDirect /\ HeldBounded
  <2> SUFFICES ASSUME Init
               PROVE  NoDirect /\ HeldBounded
    OBVIOUS
  <2>1. Busy = {} /\ Len(queue) = 0
    BY DEF Init, Busy
  <2> QED
    BY <2>1, FS_EmptySet, BusyCount, SpoolAssumption DEF NoDirect, HeldBounded
<1>2. TypeOK /\ TypeOK' /\ NoDirect /\ HeldBounded /\ [Next]_vars
        => (NoDirect /\ HeldBounded)'
  <2> SUFFICES ASSUME TypeOK, TypeOK', NoDirect, HeldBounded, [Next]_vars,
                      SpoolMax > 0
               PROVE  (NoDirect /\ HeldBounded)'
    BY DEF NoDirect, HeldBounded
  <2>0. /\ Len(queue) \in Nat /\ Len(queue') \in Nat
        /\ SpoolMax \in Nat
        /\ Cardinality(Lanes) \in Nat
        /\ IsFiniteSet(Busy) /\ Cardinality(Busy) \in Nat
        /\ Cardinality(Busy) <= Cardinality(Lanes)
        /\ Len(queue) + Cardinality(Busy) <= SpoolMax + Cardinality(Lanes) - 1
    BY SpoolAssumption, BusyCount, LenProperties DEF TypeOK, HeldBounded
  <2>1. ASSUME NEW l \in Lanes, NEW k \in Kinds, SpoolMax > 0, DeliverSpooled(l, k)
        PROVE  (NoDirect /\ HeldBounded)'
    <3> DEFINE q == Append(queue, [kind |-> k, id |-> measured + 1])
    <3>1. q \in Seq(Entry)
      BY <2>1 DEF DeliverSpooled, TypeOK, Ids, Entry
    <3>2. TakeNext(l, Trimmed(q), k, measured + 1, 0)
      BY <2>1 DEF DeliverSpooled
    <3> HIDE DEF q
    <3>3. /\ Trimmed(q) \in Seq(Entry)
          /\ Len(Trimmed(q)) \in Nat
          /\ Len(Trimmed(q)) <= SpoolMax
      BY <2>0, <3>1, TrimmedQueue, LenProperties
    <3>4. l \notin Busy
      BY <2>1 DEF DeliverSpooled, Busy
    <3>5. /\ NoDirect'
          /\ \/ Len(queue') = Len(Trimmed(q)) - 1 /\ Busy' = Busy \cup {l}
             \/ queue' = Trimmed(q) /\ Busy' = Busy \ {l}
      BY <3>2, <3>3, TakeNextMoves
    <3>6. Cardinality(Busy) <= Cardinality(Lanes) - 1
      BY <3>4, IdleLaneCount
    <3>7. Cardinality(Busy \cup {l}) = Cardinality(Busy) + 1
      BY <2>0, <3>4, FS_AddElement
    <3>8. Len(queue') + Cardinality(Busy') <= SpoolMax + Cardinality(Lanes) - 1
      <4>1. CASE Len(queue') = Len(Trimmed(q)) - 1 /\ Busy' = Busy \cup {l}
        <5>1. Cardinality(Busy') = Cardinality(Busy) + 1
          BY <3>7, <4>1
        <5> QED
          BY <2>0, <3>3, <3>6, <4>1, <5>1
      <4>2. CASE queue' = Trimmed(q) /\ Busy' = Busy \ {l}
        <5>1. Busy' = Busy
          BY <3>4, <4>2
        <5>2. Cardinality(Busy') = Cardinality(Busy)
          BY <5>1
        <5> QED
          BY <2>0, <3>3, <3>6, <4>2, <5>2
      <4> QED
        BY <3>5, <4>1, <4>2
    <3> QED
      BY <3>5, <3>8 DEF HeldBounded
  <2>2. ASSUME NEW l \in Lanes, NEW k \in Kinds, ~(SpoolMax > 0), DeliverUnspooled(l, k)
        PROVE  (NoDirect /\ HeldBounded)'
    BY <2>0, <2>2 DEF DeliverUnspooled
  <2>3. ASSUME NEW l \in Lanes, Land(l)
        PROVE  (NoDirect /\ HeldBounded)'
    <3>1. call[l] \in Pending
      BY <2>3 DEF Land, TypeOK
    <3> DEFINE c == [call[l] EXCEPT !.pc = "landed"]
    <3>2. c # Idle /\ c.direct = call[l].direct
      BY <3>1 DEF Pending, Submit, Idle
    <3>3. call' = [call EXCEPT ![l] = c]
      BY <2>3 DEF Land
    <3> HIDE DEF c
    <3>4. l \in Busy /\ Busy' = Busy \cup {l}
      BY <2>3, <3>2, <3>3, BusySteps DEF Land, Busy
    <3>5. \A m \in Busy : call'[m].direct = call[m].direct
      BY <3>2, <3>3 DEF TypeOK, Busy
    <3>6. Busy' = Busy /\ queue' = queue
      BY <2>3, <3>4 DEF Land
    <3> QED
      BY <3>5, <3>6 DEF NoDirect, HeldBounded
  <2>4. ASSUME NEW l \in Lanes, SubmitResolved(l)
        PROVE  (NoDirect /\ HeldBounded)'
    <3>1. l \in Busy /\ ~call[l].direct
      BY <2>4 DEF SubmitResolved, Busy, NoDirect
    <3>2. TakeNext(l, queue, call[l].entry.kind, call[l].own, call[l].sent + 1)
      BY <2>4, <3>1 DEF SubmitResolved
    <3>3. /\ NoDirect'
          /\ \/ Len(queue') = Len(queue) - 1 /\ Busy' = Busy \cup {l}
             \/ queue' = queue /\ Busy' = Busy \ {l}
      BY <3>2, TakeNextMoves DEF TypeOK
    <3>4. Cardinality(Busy \ {l}) = Cardinality(Busy) - 1
      BY <2>0, <3>1, FS_RemoveElement
    <3>5. Len(queue') + Cardinality(Busy') <= SpoolMax + Cardinality(Lanes) - 1
      <4>1. CASE Len(queue') = Len(queue) - 1 /\ Busy' = Busy \cup {l}
        <5>1. Busy' = Busy
          BY <3>1, <4>1
        <5>2. Cardinality(Busy') = Cardinality(Busy)
          BY <5>1
        <5> QED
          BY <2>0, <4>1, <5>2
      <4>2. CASE queue' = queue /\ Busy' = Busy \ {l}
        <5>1. Cardinality(Busy') = Cardinality(Busy) - 1
          BY <3>4, <4>2
        <5>2. Len(queue') = Len(queue)
          BY <4>2
        <5> QED
          BY <2>0, <5>1, <5>2
      <4> QED
        BY <3>3, <4>1, <4>2
    <3> QED
      BY <3>3, <3>5 DEF HeldBounded
  <2>5. ASSUME NEW l \in Lanes, SubmitRejected(l)
        PROVE  (NoDirect /\ HeldBounded)'
    <3>1. l \in Busy /\ ~call[l].direct /\ call[l] \in Pending
      BY <2>5 DEF SubmitRejected, Busy, NoDirect, TypeOK
    <3>2. call[l].entry \in Entry /\ call[l].index \in Nat \ {0}
      BY <3>1 DEF Pending, Submit
    <3>3. Len(queue') = Len(queue) + 1
      <4>1. queue' = Reinsert(queue, call[l].index, call[l].entry)
        BY <2>5, <3>1 DEF SubmitRejected
      <4>2. queue \in Seq(Entry)
        BY DEF TypeOK
      <4>3. Len(Reinsert(queue, call[l].index, call[l].entry)) = Len(queue) + 1
        <5> DEFINE i == call[l].index
                   e == call[l].entry
        <5>1. i \in Nat \ {0} /\ e \in Entry
          BY <3>2
        <5> HIDE DEF i, e
        <5>2. Len(Reinsert(queue, i, e)) = Len(queue) + 1
          BY <4>2, <5>1, ReinsertedQueue
        <5> QED
          BY <5>2 DEF i, e
      <4> QED
        BY <4>1, <4>3
    <3>4. Busy' = Busy \ {l}
      BY <2>5, BusySteps DEF SubmitRejected
    <3>5. Cardinality(Busy') = Cardinality(Busy) - 1
      BY <2>0, <3>1, <3>4, FS_RemoveElement
    <3>6. \A m \in Busy' : call'[m] = call[m]
      BY <2>5, <3>4 DEF SubmitRejected, TypeOK, Busy
    <3>7. Len(queue') + Cardinality(Busy') <= SpoolMax + Cardinality(Lanes) - 1
      BY <2>0, <3>3, <3>5
    <3> QED
      BY <3>4, <3>6, <3>7 DEF NoDirect, HeldBounded
  <2>6. CASE UNCHANGED vars
    BY <2>6 DEF vars, NoDirect, HeldBounded, Busy
  <2> QED
    BY <2>1, <2>2, <2>3, <2>4, <2>5, <2>6 DEF Next, Deliver
<1> QED
  BY <1>1, <1>2, SpoolTypes, PTL DEF Spec
-----------------------------------------------------------------------------
(* The losses.  A batch that leaves the queue is in the hands of a lane, one  *)
(* that leaves a lane is back in the queue or with the server, and only the   *)
(* overflow, which counts, lets one go.                                      *)

HeldIn(q) == {q[i].id : i \in DOMAIN q}
Lost == 1..measured \ (QueuedIds \cup InHandIds \cup server.has)

(* An answer that is on its way back is for a batch the server has.         *)
LandedArrived ==
  \A l \in Busy : call[l].pc = "landed" => call[l].entry.id \in server.has

(* What each operation leaves where.                                        *)
LEMMA TrimmedAt ==
  ASSUME NEW q \in Seq(Entry), SpoolMax \in Nat
  PROVE  /\ DOMAIN q = 1..Len(q) /\ Overflow(q) \in 0..Len(q) /\ Trimmed(q) \in Seq(Entry)
         /\ DOMAIN Trimmed(q) = 1..(Len(q) - Overflow(q))
         /\ \A j \in DOMAIN Trimmed(q) : Trimmed(q)[j] = q[j + Overflow(q)]
<1>1. Len(q) \in Nat /\ DOMAIN q = 1..Len(q) /\ Overflow(q) \in 0..Len(q)
  BY LenProperties DEF Overflow
<1>2. Trimmed(q) \in Seq(Entry)
  BY TrimmedQueue
<1> DEFINE n == Overflow(q)
<1>3. /\ Len(Trimmed(q)) = Len(q) - n
      /\ \A j \in 1..(Len(q) - n) : Trimmed(q)[j] = q[n + j]
  BY <1>1 DEF Trimmed
<1> QED
  BY <1>1, <1>2, <1>3, LenProperties

LEMMA TakenOutAt ==
  ASSUME NEW q \in Seq(Entry), NEW i \in DOMAIN q
  PROVE  /\ DOMAIN q = 1..Len(q) /\ Len(q) \in Nat
         /\ DOMAIN TakenOut(q, i) = 1..(Len(q) - 1)
         /\ \A j \in 1..(Len(q) - 1) : TakenOut(q, i)[j] = IF j < i THEN q[j] ELSE q[j + 1]
<1> DEFINE a == SubSeq(q, 1, i - 1)
           b == SubSeq(q, i + 1, Len(q))
<1>1. Len(q) \in Nat /\ DOMAIN q = 1..Len(q) /\ i \in 1..Len(q)
  BY LenProperties
<1>2. /\ a \in Seq(Entry) /\ Len(a) = i - 1
      /\ \A j \in 1..(i - 1) : a[j] = q[j]
  BY <1>1
<1>3. /\ b \in Seq(Entry) /\ Len(b) = Len(q) - i
      /\ \A j \in 1..(Len(q) - i) : b[j] = q[i + j]
  BY <1>1
<1>4. TakenOut(q, i) = a \o b
  BY DEF TakenOut, RemoveAt
<1> HIDE DEF a, b
<1>5. /\ a \o b \in Seq(Entry) /\ Len(a \o b) = Len(a) + Len(b)
      /\ \A j \in 1..(Len(a) + Len(b)) :
           (a \o b)[j] = IF j <= Len(a) THEN a[j] ELSE b[j - Len(a)]
  BY <1>2, <1>3, ConcatProperties
<1>6. DOMAIN (a \o b) = 1..(Len(q) - 1) /\ Len(a) + Len(b) = Len(q) - 1
  <2>1. Len(a) + Len(b) = Len(q) - 1
    BY <1>1, <1>2, <1>3
  <2> DEFINE t == a \o b
  <2>2. t \in Seq(Entry) /\ Len(t) = Len(q) - 1
    BY <1>5, <2>1
  <2> HIDE DEF t
  <2>3. DOMAIN t = 1..(Len(q) - 1)
    BY <2>2, LenProperties
  <2> QED
    BY <2>1, <2>3 DEF t
<1> SUFFICES ASSUME NEW j \in 1..(Len(q) - 1)
             PROVE  (a \o b)[j] = IF j < i THEN q[j] ELSE q[j + 1]
  BY <1>1, <1>4, <1>6
<1>7. CASE j < i
  <2>1. j <= Len(a) /\ j \in 1..(i - 1)
    BY <1>1, <1>2, <1>7
  <2> QED
    BY <1>2, <1>5, <1>6, <1>7, <2>1
<1>8. CASE ~(j < i)
  <2>1. ~(j <= Len(a)) /\ j - Len(a) \in 1..(Len(q) - i) /\ i + (j - Len(a)) = j + 1
    BY <1>1, <1>2, <1>8
  <2>2. (a \o b)[j] = b[j - Len(a)]
    BY <1>5, <1>6, <2>1
  <2>3. b[j - Len(a)] = q[j + 1]
    BY <1>3, <2>1
  <2> QED
    BY <1>8, <2>2, <2>3
<1> QED
  BY <1>7, <1>8

LEMMA ReinsertedAt ==
  ASSUME NEW q \in Seq(Entry), NEW i \in Nat \ {0}, NEW e \in Entry
  PROVE  \E n \in 1..(Len(q) + 1) :
           /\ i <= Len(q) + 1 => n = i
           /\ DOMAIN q = 1..Len(q) /\ Len(q) \in Nat
           /\ DOMAIN Reinsert(q, i, e) = 1..(Len(q) + 1)
           /\ \A j \in 1..(Len(q) + 1) :
                Reinsert(q, i, e)[j] = IF j < n THEN q[j] ELSE IF j = n THEN e ELSE q[j - 1]
<1> DEFINE n == IF i <= Len(q) THEN i ELSE Len(q) + 1
<1>1. /\ n \in 1..(Len(q) + 1) /\ Len(q) \in Nat /\ DOMAIN q = 1..Len(q)
      /\ i <= Len(q) + 1 => n = i
  BY LenProperties
<1> HIDE DEF n
<1> DEFINE a == SubSeq(q, 1, n - 1)
           b == SubSeq(q, n, Len(q))
<1>2. /\ a \in Seq(Entry) /\ Len(a) = n - 1
      /\ \A j \in 1..(n - 1) : a[j] = q[j]
  BY <1>1
<1>3. /\ b \in Seq(Entry) /\ Len(b) = Len(q) + 1 - n
      /\ \A j \in 1..(Len(q) + 1 - n) : b[j] = q[n + j - 1]
  BY <1>1
<1>4. Reinsert(q, i, e) = (a \o <<e>>) \o b
  BY DEF Reinsert, InsertAt, n
<1> HIDE DEF a, b
<1> DEFINE c == a \o <<e>>
<1>5. /\ c \in Seq(Entry) /\ Len(c) = n /\ c[n] = e
      /\ \A j \in 1..(n - 1) : c[j] = q[j]
  <2>1. <<e>> \in Seq(Entry) /\ Len(<<e>>) = 1 /\ <<e>>[1] = e
    OBVIOUS
  <2>2. /\ c \in Seq(Entry) /\ Len(c) = n
        /\ \A j \in 1..n : c[j] = IF j <= n - 1 THEN a[j] ELSE <<e>>[j - (n - 1)]
    BY <1>1, <1>2, <2>1, ConcatProperties
  <2>3. n \in 1..n /\ ~(n <= n - 1) /\ n - (n - 1) = 1
    BY <1>1
  <2>4. c[n] = e
    BY <2>1, <2>2, <2>3
  <2>5. ASSUME NEW j \in 1..(n - 1) PROVE c[j] = q[j]
    BY <1>1, <1>2, <2>2
  <2> QED
    BY <2>2, <2>4, <2>5
<1> HIDE DEF c
<1> DEFINE t == c \o b
<1>6. /\ DOMAIN t = 1..(Len(q) + 1)
      /\ \A j \in 1..(Len(q) + 1) : t[j] = IF j <= n THEN c[j] ELSE b[j - n]
  <2>1. /\ t \in Seq(Entry) /\ Len(t) = Len(c) + Len(b)
        /\ \A j \in 1..(Len(c) + Len(b)) : t[j] = IF j <= Len(c) THEN c[j] ELSE b[j - Len(c)]
    BY <1>3, <1>5, ConcatProperties
  <2>2. Len(c) = n /\ Len(c) + Len(b) = Len(q) + 1
    BY <1>1, <1>3, <1>5
  <2> HIDE DEF t
  <2>3. DOMAIN t = 1..(Len(q) + 1)
    BY <2>1, <2>2, LenProperties
  <2> QED
    BY <2>1, <2>2, <2>3
<1>7. Reinsert(q, i, e) = t
  BY <1>4 DEF c
<1> HIDE DEF t
<1>8. ASSUME NEW j \in 1..(Len(q) + 1)
      PROVE  t[j] = IF j < n THEN q[j] ELSE IF j = n THEN e ELSE q[j - 1]
  <2>1. CASE j < n
    <3>1. j \in 1..(n - 1) /\ j <= n
      BY <1>1, <2>1
    <3> QED
      BY <1>5, <1>6, <2>1, <3>1
  <2>2. CASE j = n
    BY <1>1, <1>5, <1>6, <2>2
  <2>3. CASE j > n
    <3>1. ~(j <= n) /\ j - n \in 1..(Len(q) + 1 - n) /\ n + (j - n) - 1 = j - 1
      BY <1>1, <2>3
    <3>2. t[j] = b[j - n]
      BY <1>6, <3>1
    <3>3. b[j - n] = q[j - 1]
      BY <1>3, <3>1
    <3> QED
      BY <1>1, <2>3, <3>2, <3>3
  <2> QED
    BY <1>1, <2>1, <2>2, <2>3
<1> QED
  BY <1>1, <1>6, <1>7, <1>8

(* What is trimmed off is counted, a batch at a time.                       *)
LEMMA TrimmedKeeps ==
  ASSUME NEW q \in Seq(Entry), SpoolMax \in Nat
  PROVE  HeldIn(q) \subseteq HeldIn(Trimmed(q)) \cup {q[i].id : i \in 1..Overflow(q)}
<1> DEFINE n == Overflow(q)
           t == Trimmed(q)
<1>1. /\ DOMAIN q = 1..Len(q) /\ n \in 0..Len(q)
      /\ DOMAIN t = 1..(Len(q) - n) /\ \A j \in DOMAIN t : t[j] = q[j + n]
      /\ Len(q) \in Nat
  BY TrimmedAt, LenProperties
<1> HIDE DEF n, t
<1>2. ASSUME NEW i \in DOMAIN q, i \notin 1..n
      PROVE  q[i].id \in HeldIn(t)
  <2>1. i - n \in DOMAIN t /\ (i - n) + n = i
    BY <1>1, <1>2
  <2> QED
    BY <1>1, <2>1 DEF HeldIn
<1> QED
  BY <1>2 DEF HeldIn, n, t

(* Only the batch taken out leaves.                                         *)
LEMMA TakenOutKeeps ==
  ASSUME NEW q \in Seq(Entry), NEW i \in DOMAIN q
  PROVE  HeldIn(q) \subseteq HeldIn(TakenOut(q, i)) \cup {q[i].id}
<1> DEFINE t == TakenOut(q, i)
<1>1. /\ DOMAIN q = 1..Len(q) /\ Len(q) \in Nat /\ DOMAIN t = 1..(Len(q) - 1)
      /\ \A j \in 1..(Len(q) - 1) : t[j] = IF j < i THEN q[j] ELSE q[j + 1]
  BY TakenOutAt
<1> HIDE DEF t
<1>2. ASSUME NEW j \in DOMAIN q, j # i
      PROVE  q[j].id \in HeldIn(t)
  <2>1. CASE j < i
    BY <1>1, <2>1 DEF HeldIn
  <2>2. CASE ~(j < i)
    <3>1. j - 1 \in DOMAIN t /\ ~(j - 1 < i) /\ (j - 1) + 1 = j
      BY <1>1, <1>2, <2>2
    <3> QED
      BY <1>1, <3>1 DEF HeldIn
  <2> QED
    BY <2>1, <2>2
<1> QED
  BY <1>2 DEF HeldIn, t

(* Nothing leaves when a batch is put back.                                 *)
LEMMA ReinsertedKeeps ==
  ASSUME NEW q \in Seq(Entry), NEW i \in Nat \ {0}, NEW e \in Entry
  PROVE  HeldIn(q) \cup {e.id} \subseteq HeldIn(Reinsert(q, i, e))
<1>0. PICK n \in 1..(Len(q) + 1) :
        /\ i <= Len(q) + 1 => n = i
        /\ DOMAIN q = 1..Len(q) /\ Len(q) \in Nat
        /\ DOMAIN Reinsert(q, i, e) = 1..(Len(q) + 1)
        /\ \A j \in 1..(Len(q) + 1) :
             Reinsert(q, i, e)[j] = IF j < n THEN q[j] ELSE IF j = n THEN e ELSE q[j - 1]
  BY ReinsertedAt
<1> DEFINE t == Reinsert(q, i, e)
<1>1. /\ DOMAIN q = 1..Len(q) /\ Len(q) \in Nat /\ DOMAIN t = 1..(Len(q) + 1)
      /\ \A j \in 1..(Len(q) + 1) :
           t[j] = IF j < n THEN q[j] ELSE IF j = n THEN e ELSE q[j - 1]
  BY <1>0
<1> HIDE DEF t
<1>2. e.id \in HeldIn(t)
  BY <1>1 DEF HeldIn
<1>3. ASSUME NEW j \in DOMAIN q
      PROVE  q[j].id \in HeldIn(t)
  <2>1. CASE j < n
    BY <1>1, <2>1 DEF HeldIn
  <2>2. CASE ~(j < n)
    <3>1. /\ j + 1 \in 1..(Len(q) + 1) /\ ~(j + 1 < n) /\ j + 1 # n /\ (j + 1) - 1 = j
      BY <1>1, <2>2
    <3> QED
      BY <1>1, <3>1 DEF HeldIn
  <2> QED
    BY <2>1, <2>2
<1> QED
  BY <1>2, <1>3 DEF HeldIn, t

(* One turn of the loop in flush loses nothing, and starts no answer.        *)
LEMMA TakeNextKeeps ==
  ASSUME TypeOK, NEW l \in Lanes, NEW k, NEW q \in Seq(Entry),
         NEW own, NEW sent, TakeNext(l, q, k, own, sent)
  PROVE  /\ HeldIn(q) \subseteq QueuedIds' \cup InHandIds'
         /\ \A m \in Busy \ {l} : m \in Busy' /\ call'[m] = call[m]
         /\ \A m \in Busy' : m # l => m \in Busy
         /\ l \in Busy' => call'[l].pc = "submitting"
<1>1. CASE queue' = q /\ call' = [call EXCEPT ![l] = Idle]
  BY <1>1 DEF TypeOK, Busy, HeldIn, QueuedIds
<1>2. ASSUME NEW i \in DOMAIN q,
             queue' = TakenOut(q, i),
             call' = [call EXCEPT ![l] =
               [pc |-> "submitting", entry |-> q[i], index |-> i,
                own |-> own, sent |-> sent, direct |-> FALSE]]
      PROVE  /\ HeldIn(q) \subseteq QueuedIds' \cup InHandIds'
             /\ \A m \in Busy \ {l} : m \in Busy' /\ call'[m] = call[m]
             /\ \A m \in Busy' : m # l => m \in Busy
             /\ l \in Busy' => call'[l].pc = "submitting"
  <2> DEFINE c == [pc |-> "submitting", entry |-> q[i], index |-> i,
                   own |-> own, sent |-> sent, direct |-> FALSE]
  <2>1. c # Idle /\ c.pc = "submitting" /\ c.entry = q[i]
    BY DEF Idle
  <2>2. call' = [call EXCEPT ![l] = c]
    BY <1>2
  <2> HIDE DEF c
  <2>3. call'[l] = c /\ l \in Busy' /\ \A m \in Lanes : m # l => call'[m] = call[m]
    BY <2>1, <2>2 DEF TypeOK, Busy
  <2>4. q[i].id \in InHandIds'
    BY <2>1, <2>3 DEF InHandIds
  <2>5. HeldIn(q) \subseteq HeldIn(queue') \cup {q[i].id}
    BY <1>2, TakenOutKeeps
  <2>6. HeldIn(queue') = QueuedIds'
    BY DEF HeldIn, QueuedIds
  <2> QED
    BY <2>1, <2>3, <2>4, <2>5, <2>6 DEF Busy
<1> QED
  BY <1>1, <1>2 DEF TakeNext

(* A set of the first n ids of a queue has at most n of them.               *)
LEMMA FirstIdsCount ==
  ASSUME NEW q, NEW n \in Nat
  PROVE  /\ IsFiniteSet({q[i].id : i \in 1..n})
         /\ Cardinality({q[i].id : i \in 1..n}) <= n
<1>1. IsFiniteSet(1..n) /\ Cardinality(1..n) = n
  BY FS_Interval
<1> DEFINE f == [i \in 1..n |-> q[i].id]
           T == {q[i].id : i \in 1..n}
<1>2. f \in Surjection(1..n, T)
  BY DEF Surjection
<1> HIDE DEF f, T
<1>3. IsFiniteSet(T) /\ Cardinality(T) <= n
  BY <1>1, <1>2, FS_Surjection
<1> QED
  BY <1>3 DEF T

LEMMA LostIsFinite ==
  ASSUME TypeOK
  PROVE  IsFiniteSet(Lost) /\ Cardinality(Lost) \in Nat
<1>1. measured \in Int /\ IsFiniteSet(1..measured)
  BY SpoolAssumption, FS_Interval DEF TypeOK
<1>2. Lost \subseteq 1..measured
  BY DEF Lost
<1> QED
  BY <1>1, <1>2, FS_Subset, FS_CardinalityType

(* A step that loses nothing but what it counts.                            *)
LEMMA CountedStep ==
  ASSUME TypeOK, TypeOK', NEW D, NEW n \in Nat, IsFiniteSet(D), Cardinality(D) <= n,
         Lost' \subseteq Lost \cup D, dropped' = dropped + n, Cardinality(Lost) <= dropped
  PROVE  Cardinality(Lost') <= dropped'
<1>1. IsFiniteSet(Lost) /\ Cardinality(Lost) \in Nat
  BY LostIsFinite
<1>2. /\ IsFiniteSet(Lost \cup D)
      /\ Cardinality(Lost \cup D) = Cardinality(Lost) + Cardinality(D) - Cardinality(Lost \cap D)
  BY <1>1, FS_Union
<1>3. /\ Cardinality(D) \in Nat /\ Cardinality(Lost \cup D) \in Nat
      /\ Cardinality(Lost \cap D) \in Nat
  BY <1>1, <1>2, FS_CardinalityType, FS_Intersection
<1>4. IsFiniteSet(Lost') /\ Cardinality(Lost') <= Cardinality(Lost \cup D)
  BY <1>2, FS_Subset
<1>5. Cardinality(Lost') \in Nat /\ dropped \in Nat
  BY <1>4, FS_CardinalityType DEF TypeOK
<1> QED
  BY <1>1, <1>2, <1>3, <1>4, <1>5

LossInv == SpoolMax > 0 => NoDirect /\ LandedArrived /\ Cardinality(Lost) <= dropped

LEMMA LossStep ==
  ASSUME TypeOK, TypeOK', LossInv, [Next]_vars
  PROVE  LossInv'
<1> USE SpoolAssumption
<1> SUFFICES ASSUME SpoolMax > 0, NoDirect, LandedArrived, Cardinality(Lost) <= dropped
             PROVE  (NoDirect /\ LandedArrived /\ Cardinality(Lost) <= dropped)'
  BY DEF LossInv
<1> DEFINE Goal == (NoDirect /\ LandedArrived /\ Cardinality(Lost) <= dropped)'
<1>0. /\ queue \in Seq(Entry) /\ QueuedIds = HeldIn(queue)
      /\ dropped \in Nat /\ dropped + 0 = dropped
      /\ IsFiniteSet({}) /\ Cardinality({}) <= 0
  BY FS_EmptySet DEF TypeOK, QueuedIds, HeldIn
<1>1. ASSUME NEW l \in Lanes, NEW k \in Kinds, DeliverSpooled(l, k)
      PROVE  Goal
  <2> DEFINE e == [kind |-> k, id |-> measured + 1]
             q == Append(queue, e)
  <2>1. e \in Entry /\ measured \in Nat /\ e.id = measured + 1
    BY <1>1 DEF DeliverSpooled, TypeOK, Ids, Entry
  <2>2. /\ TakeNext(l, Trimmed(q), k, measured + 1, 0)
        /\ dropped' = dropped + Overflow(q) /\ measured' = measured + 1
        /\ server' = server /\ l \notin Busy
    BY <1>1 DEF DeliverSpooled, DroppedAfter, Busy
  <2>3. /\ q \in Seq(Entry) /\ Len(q) = Len(queue) + 1
        /\ \A i \in DOMAIN queue : i \in DOMAIN q /\ q[i] = queue[i]
        /\ Len(q) \in DOMAIN q /\ q[Len(q)] = e
    <3> HIDE DEF e
    <3> QED
      BY <1>0, <2>1, AppendProperties, LenProperties
  <2>4. QueuedIds \cup {measured + 1} \subseteq HeldIn(q)
    <3> HIDE DEF e, q
    <3> QED
      BY <2>1, <2>3 DEF HeldIn, QueuedIds
  <2> HIDE DEF e, q
  <2> DEFINE D == {q[i].id : i \in 1..Overflow(q)}
  <2>5. /\ Overflow(q) \in Nat /\ Trimmed(q) \in Seq(Entry)
        /\ HeldIn(q) \subseteq HeldIn(Trimmed(q)) \cup D
    BY <2>3, TrimmedQueue, TrimmedKeeps
  <2>6. IsFiniteSet(D) /\ Cardinality(D) <= Overflow(q)
    BY <2>5, FirstIdsCount
  <2>7. /\ HeldIn(Trimmed(q)) \subseteq QueuedIds' \cup InHandIds'
        /\ \A m \in Busy \ {l} : m \in Busy' /\ call'[m] = call[m]
        /\ \A m \in Busy' : m # l => m \in Busy
        /\ l \in Busy' => call'[l].pc = "submitting"
    BY <2>2, <2>5, TakeNextKeeps
  <2>8. NoDirect'
    BY <2>2, <2>5, TakeNextMoves
  <2>9. LandedArrived'
    BY <2>2, <2>7 DEF LandedArrived
  <2>10. InHandIds \subseteq InHandIds'
    BY <2>2, <2>7 DEF InHandIds
  <2>11. Lost' \subseteq Lost \cup D
    <3>1. \A x \in 1..(measured + 1) : x \in 1..measured \/ x = measured + 1
      BY <2>1
    <3> QED
      BY <2>2, <2>4, <2>5, <2>7, <2>10, <3>1 DEF Lost
  <2>12. Cardinality(Lost') <= dropped'
    <3> HIDE DEF D
    <3> QED
      BY <2>2, <2>5, <2>6, <2>11, CountedStep
  <2> QED
    BY <2>8, <2>9, <2>12
<1>2. ASSUME NEW l \in Lanes, Land(l)
      PROVE  Goal
  <2>1. call[l] \in Pending /\ l \in Busy
    BY <1>2 DEF Land, TypeOK, Busy
  <2> DEFINE c == [call[l] EXCEPT !.pc = "landed"]
  <2>2. c # Idle /\ c.direct = call[l].direct /\ c.entry = call[l].entry
    BY <2>1 DEF Pending, Submit, Idle
  <2>3. call' = [call EXCEPT ![l] = c] /\ server'.has = server.has \cup {call[l].entry.id}
    BY <1>2 DEF Land
  <2> HIDE DEF c
  <2>4. Busy' = Busy /\ call'[l] = c /\ \A m \in Busy : m # l => call'[m] = call[m]
    BY <2>1, <2>2, <2>3 DEF TypeOK, Busy
  <2>5. NoDirect'
    BY <2>2, <2>4 DEF NoDirect
  <2>6. LandedArrived'
    BY <2>2, <2>3, <2>4 DEF LandedArrived
  <2>7. InHandIds' = InHandIds
    BY <2>2, <2>4 DEF InHandIds
  <2>8. QueuedIds' = QueuedIds /\ measured' = measured /\ dropped' = dropped + 0
    BY <1>0, <1>2 DEF Land, QueuedIds
  <2>9. Lost' \subseteq Lost \cup {}
    BY <2>3, <2>7, <2>8 DEF Lost
  <2> QED
    BY <1>0, <2>5, <2>6, <2>8, <2>9, CountedStep
<1>3. ASSUME NEW l \in Lanes, SubmitResolved(l)
      PROVE  Goal
  <2>1. l \in Busy /\ ~call[l].direct /\ call[l].entry.id \in server.has
    BY <1>3 DEF SubmitResolved, Busy, NoDirect, LandedArrived
  <2>2. /\ TakeNext(l, queue, call[l].entry.kind, call[l].own, call[l].sent + 1)
        /\ UNCHANGED <<dropped, measured, server>>
    BY <1>3, <2>1 DEF SubmitResolved
  <2>3. /\ HeldIn(queue) \subseteq QueuedIds' \cup InHandIds'
        /\ \A m \in Busy \ {l} : m \in Busy' /\ call'[m] = call[m]
        /\ \A m \in Busy' : m # l => m \in Busy
        /\ l \in Busy' => call'[l].pc = "submitting"
    BY <1>0, <2>2, TakeNextKeeps
  <2>4. NoDirect'
    BY <1>0, <2>2, TakeNextMoves
  <2>5. LandedArrived'
    BY <2>2, <2>3 DEF LandedArrived
  <2>6. InHandIds \subseteq InHandIds' \cup server.has
    BY <2>1, <2>3 DEF InHandIds
  <2>7. Lost' \subseteq Lost \cup {}
    BY <1>0, <2>2, <2>3, <2>6 DEF Lost
  <2> QED
    BY <1>0, <2>2, <2>4, <2>5, <2>7, CountedStep
<1>4. ASSUME NEW l \in Lanes, SubmitRejected(l)
      PROVE  Goal
  <2>1. l \in Busy /\ ~call[l].direct /\ call[l] \in Pending
    BY <1>4 DEF SubmitRejected, Busy, NoDirect, TypeOK
  <2>2. call[l].entry \in Entry /\ call[l].index \in Nat \ {0}
    BY <2>1 DEF Pending, Submit
  <2>3. /\ queue' = Reinsert(queue, call[l].index, call[l].entry)
        /\ call' = [call EXCEPT ![l] = Idle] /\ UNCHANGED <<dropped, measured, server>>
    BY <1>4, <2>1 DEF SubmitRejected
  <2>4. QueuedIds \cup {call[l].entry.id} \subseteq QueuedIds'
    <3> DEFINE i == call[l].index
               e == call[l].entry
    <3>1. i \in Nat \ {0} /\ e \in Entry /\ queue' = Reinsert(queue, i, e)
      BY <2>2, <2>3
    <3> HIDE DEF i, e
    <3>2. HeldIn(queue) \cup {e.id} \subseteq HeldIn(queue')
      BY <1>0, <3>1, ReinsertedKeeps
    <3>3. HeldIn(queue') = QueuedIds'
      BY DEF HeldIn, QueuedIds
    <3> QED
      BY <1>0, <3>2, <3>3 DEF e
  <2>5. Busy' = Busy \ {l} /\ \A m \in Busy' : call'[m] = call[m]
    BY <2>3 DEF TypeOK, Busy
  <2>6. NoDirect' /\ LandedArrived'
    BY <2>3, <2>5 DEF NoDirect, LandedArrived
  <2>7. InHandIds \subseteq InHandIds' \cup QueuedIds'
    BY <2>4, <2>5 DEF InHandIds
  <2>8. Lost' \subseteq Lost \cup {}
    BY <2>3, <2>4, <2>7 DEF Lost
  <2> QED
    BY <1>0, <2>3, <2>6, <2>8, CountedStep
<1>5. CASE UNCHANGED vars
  BY <1>5 DEF vars, NoDirect, LandedArrived, Lost, Busy, QueuedIds, InHandIds
<1> QED
  BY <1>1, <1>2, <1>3, <1>4, <1>5 DEF Next, Deliver

LEMMA InitLoses == Init => LossInv
<1> SUFFICES ASSUME Init
             PROVE  LossInv
  OBVIOUS
<1>1. Busy = {} /\ Lost = {} /\ dropped = 0
  BY DEF Init, Busy, Lost
<1> QED
  BY <1>1, FS_EmptySet DEF LossInv, NoDirect, LandedArrived

(* A batch that is no longer held and that the server never got was thrown    *)
(* away by the overflow, and counted: whatever the submits come to and        *)
(* however deliveries overlap, no batch is lost in silence ("the count of     *)
(* what was dropped is kept so the agent can say so", add and flush of        *)
(* src/resultSpool.js).                                                      *)
THEOREM LossesAreCounted == Spec => []LossIsCounted
<1>1. Init => LossInv
  BY InitLoses
<1>2. TypeOK /\ TypeOK' /\ LossInv /\ [Next]_vars => LossInv'
  BY LossStep, SpoolAssumption
<1>3. LossInv => LossIsCounted
  BY DEF LossInv, LossIsCounted, Lost
<1> QED
  BY <1>1, <1>2, <1>3, SpoolTypes, PTL DEF Spec

-----------------------------------------------------------------------------
(* The series.  As long as no two deliveries have been in progress together,  *)
(* a batch in hand can go back to where it was: what stood before it is of    *)
(* another kind, and the queue is as that call left it.                       *)

Ordered(q) ==
  \A i, j \in DOMAIN q : (i < j /\ q[i].kind = q[j].kind) => q[i].id < q[j].id

InPlace(l) ==
  /\ call[l].index <= Len(queue) + 1
  /\ \A j \in DOMAIN queue : queue[j].kind = call[l].entry.kind => call[l].index <= j

InSeries ==
  /\ \A l, m \in Busy : l = m
  /\ OldestFirst
  /\ \A i \in DOMAIN queue : queue[i].id <= measured
  /\ Len(queue) <= SpoolMax
  /\ \A l \in Busy :
       /\ Len(queue) < SpoolMax /\ InPlace(l) /\ call[l].entry.id <= measured
       /\ call[l].pc = "landed" => server.last[call[l].entry.kind] = call[l].entry.id

SeriesInv == SpoolMax > 0 /\ ~overlapped => InSeries

KindIds(q, k) == {q[i].id : i \in {j \in DOMAIN q : q[j].kind = k}}

(* The three operations on a queue in order.                                *)
LEMMA TrimmedSeries ==
  ASSUME NEW q \in Seq(Entry), SpoolMax \in Nat, Ordered(q), Overflow(q) \in {0, 1}
  PROVE  /\ Ordered(Trimmed(q))
         /\ Overflow(q) = 0 => \A k : KindIds(Trimmed(q), k) = KindIds(q, k)
         /\ Overflow(q) = 1 =>
              /\ 1 \in DOMAIN q /\ \A m \in KindIds(q, q[1].kind) : q[1].id <= m
              /\ \A k : KindIds(Trimmed(q), k)
                          = KindIds(q, k) \ (IF k = q[1].kind THEN {q[1].id} ELSE {})
<1> DEFINE n == Overflow(q)
           t == Trimmed(q)
<1>1. /\ DOMAIN q = 1..Len(q) /\ n \in 0..Len(q) /\ n \in {0, 1}
      /\ DOMAIN t = 1..(Len(q) - n) /\ \A j \in DOMAIN t : t[j] = q[j + n]
      /\ Len(q) \in Nat
  BY TrimmedAt, LenProperties
<1> HIDE DEF n, t
<1>2. ASSUME NEW j \in DOMAIN t PROVE j + n \in DOMAIN q /\ t[j] = q[j + n] /\ j \in Nat
  BY <1>1
<1>3. Ordered(t)
  BY <1>1, <1>2 DEF Ordered
<1>4. ASSUME n = 0 PROVE \A k : KindIds(t, k) = KindIds(q, k)
  <2>1. DOMAIN t = DOMAIN q /\ \A j \in DOMAIN q : t[j] = q[j]
    BY <1>1, <1>4
  <2> QED
    BY <2>1 DEF KindIds
<1>5. ASSUME n = 1
      PROVE  /\ 1 \in DOMAIN q /\ \A m \in KindIds(q, q[1].kind) : q[1].id <= m
             /\ \A k : KindIds(t, k)
                         = KindIds(q, k) \ (IF k = q[1].kind THEN {q[1].id} ELSE {})
  <2>1. /\ 1 \in DOMAIN q
        /\ \A i \in DOMAIN q : i # 1 => i - 1 \in DOMAIN t /\ t[i - 1] = q[i] /\ 1 < i
    <3>1. ASSUME NEW i \in DOMAIN q, i # 1
          PROVE  i - 1 \in DOMAIN t /\ (i - 1) + n = i /\ 1 < i
      BY <1>1, <1>5, <3>1
    <3> QED
      BY <1>1, <1>5, <3>1
  <2>2. \A i \in DOMAIN q : q[i].id \in Nat
    <3>1. \A i \in DOMAIN q : q[i] \in Entry
      BY ElementOfSeq, LenProperties
    <3> QED
      BY <3>1 DEF Entry, Ids
  <2>3. \A i \in DOMAIN q : i # 1 /\ q[i].kind = q[1].kind => q[1].id < q[i].id
    BY <2>1 DEF Ordered
  <2>4. \A m \in KindIds(q, q[1].kind) : q[1].id <= m
    BY <2>2, <2>3 DEF KindIds
  <2>5. ASSUME NEW k
        PROVE  KindIds(t, k) = KindIds(q, k) \ (IF k = q[1].kind THEN {q[1].id} ELSE {})
    <3>1. ASSUME NEW x \in KindIds(t, k)
          PROVE  x \in KindIds(q, k) \ (IF k = q[1].kind THEN {q[1].id} ELSE {})
      <4>1. PICK j \in DOMAIN t : t[j].kind = k /\ x = t[j].id
        BY DEF KindIds
      <4>2. j + n \in DOMAIN q /\ t[j] = q[j + n] /\ j + n # 1
        BY <1>1, <1>2, <1>5
      <4>3. x \in KindIds(q, k)
        BY <4>1, <4>2 DEF KindIds
      <4>4. k = q[1].kind => q[1].id < x
        BY <2>3, <4>1, <4>2
      <4>5. x \in Nat
        BY <2>2, <4>1, <4>2
      <4> QED
        BY <2>1, <2>2, <4>3, <4>4, <4>5
    <3>2. ASSUME NEW x \in KindIds(q, k), x \notin (IF k = q[1].kind THEN {q[1].id} ELSE {})
          PROVE  x \in KindIds(t, k)
      <4>1. PICK i \in DOMAIN q : q[i].kind = k /\ x = q[i].id
        BY DEF KindIds
      <4>2. i # 1
        BY <3>2, <4>1
      <4> QED
        BY <2>1, <4>1, <4>2 DEF KindIds
    <3> QED
      BY <3>1, <3>2
  <2> QED
    BY <2>1, <2>4, <2>5
<1> QED
  BY <1>3, <1>4, <1>5 DEF n, t

LEMMA TakenOutSeries ==
  ASSUME NEW q \in Seq(Entry), NEW k, NEW i \in DOMAIN q, IsFirstOf(q, k, i), Ordered(q)
  PROVE  /\ Ordered(TakenOut(q, i)) /\ i <= Len(TakenOut(q, i)) + 1
         /\ \A j \in DOMAIN TakenOut(q, i) :
              /\ TakenOut(q, i)[j].kind = k => i <= j /\ q[i].id < TakenOut(q, i)[j].id
              /\ \E m \in DOMAIN q : TakenOut(q, i)[j] = q[m]
         /\ \A x : KindIds(TakenOut(q, i), x) \cup (IF x = k THEN {q[i].id} ELSE {})
                     = KindIds(q, x)
<1> DEFINE t == TakenOut(q, i)
<1>1. /\ DOMAIN q = 1..Len(q) /\ Len(q) \in Nat /\ DOMAIN t = 1..(Len(q) - 1)
      /\ \A j \in 1..(Len(q) - 1) : t[j] = IF j < i THEN q[j] ELSE q[j + 1]
      /\ Len(t) = Len(q) - 1
  BY TakenOutAt, TakenOutQueue
<1>2. q[i].kind = k /\ \A j \in 1..(i - 1) : q[j].kind # k
  BY DEF IsFirstOf
<1> HIDE DEF t
<1> DEFINE from(j) == IF j < i THEN j ELSE j + 1
<1>3. ASSUME NEW j \in DOMAIN t
      PROVE  from(j) \in DOMAIN q /\ t[j] = q[from(j)] /\ from(j) # i /\ j \in Nat
  BY <1>1
<1>4. ASSUME NEW j \in DOMAIN t, NEW m \in DOMAIN t, j < m PROVE from(j) < from(m)
  BY <1>1, <1>4
<1>5. Ordered(t)
  <2> HIDE DEF from
  <2> QED
    BY <1>3, <1>4 DEF Ordered
<1>6. ASSUME NEW j \in DOMAIN t, t[j].kind = k
      PROVE  i <= j /\ q[i].id < t[j].id
  <2>1. from(j) >= i
    BY <1>1, <1>2, <1>3, <1>6
  <2>2. i < from(j)
    BY <1>1, <1>3, <2>1
  <2>3. i <= j
    BY <1>1, <2>2
  <2> HIDE DEF from
  <2> QED
    BY <1>2, <1>3, <1>6, <2>2, <2>3 DEF Ordered
<1>7. \A j \in DOMAIN q : j # i => \E m \in DOMAIN t : t[m] = q[j]
  <2> SUFFICES ASSUME NEW j \in DOMAIN q, j # i
               PROVE  \E m \in DOMAIN t : t[m] = q[j]
    OBVIOUS
  <2>1. CASE j < i
    BY <1>1, <2>1
  <2>2. CASE ~(j < i)
    <3>1. j - 1 \in DOMAIN t /\ ~(j - 1 < i) /\ (j - 1) + 1 = j
      BY <1>1, <2>2
    <3> QED
      BY <1>1, <3>1
  <2> QED
    BY <2>1, <2>2
<1>8. \A j \in DOMAIN t : \E m \in DOMAIN q : t[j] = q[m]
  BY <1>3
<1>9. ASSUME NEW x
      PROVE  KindIds(t, x) \cup (IF x = k THEN {q[i].id} ELSE {}) = KindIds(q, x)
  <2>1. \A y \in KindIds(t, x) : y \in KindIds(q, x)
    BY <1>8 DEF KindIds
  <2>2. x = k => q[i].id \in KindIds(q, x)
    BY <1>2 DEF KindIds
  <2>3. ASSUME NEW y \in KindIds(q, x)
        PROVE  y \in KindIds(t, x) \/ (x = k /\ y = q[i].id)
    <3>1. PICK j \in DOMAIN q : q[j].kind = x /\ y = q[j].id
      BY DEF KindIds
    <3>2. CASE j = i
      BY <1>2, <3>1, <3>2
    <3>3. CASE j # i
      BY <1>7, <3>1, <3>3 DEF KindIds
    <3> QED
      BY <3>2, <3>3
  <2> QED
    BY <2>1, <2>2, <2>3
<1>10. i <= Len(t) + 1
  BY <1>1
<1> QED
  BY <1>5, <1>6, <1>8, <1>9, <1>10 DEF t

LEMMA ReinsertedSeries ==
  ASSUME NEW q \in Seq(Entry), NEW i \in Nat \ {0}, NEW e \in Entry, i <= Len(q) + 1,
         Ordered(q),
         \A j \in DOMAIN q : q[j].kind = e.kind => i <= j /\ e.id < q[j].id
  PROVE  /\ Ordered(Reinsert(q, i, e))
         /\ \A j \in DOMAIN Reinsert(q, i, e) :
              Reinsert(q, i, e)[j] = e \/ \E m \in DOMAIN q : Reinsert(q, i, e)[j] = q[m]
         /\ \A x : KindIds(Reinsert(q, i, e), x)
                     = KindIds(q, x) \cup (IF x = e.kind THEN {e.id} ELSE {})
<1>0. PICK n \in 1..(Len(q) + 1) :
        /\ i <= Len(q) + 1 => n = i
        /\ DOMAIN q = 1..Len(q) /\ Len(q) \in Nat
        /\ DOMAIN Reinsert(q, i, e) = 1..(Len(q) + 1)
        /\ \A j \in 1..(Len(q) + 1) :
             Reinsert(q, i, e)[j] = IF j < n THEN q[j] ELSE IF j = n THEN e ELSE q[j - 1]
  BY ReinsertedAt
<1> DEFINE t == Reinsert(q, i, e)
           from(j) == IF j < i THEN j ELSE j - 1
<1>1. /\ DOMAIN q = 1..Len(q) /\ Len(q) \in Nat /\ DOMAIN t = 1..(Len(q) + 1)
      /\ i \in DOMAIN t /\ t[i] = e /\ i \in Int
      /\ \A j \in DOMAIN t : j # i => t[j] = q[IF j < i THEN j ELSE j - 1]
  BY <1>0
<1> HIDE DEF t
<1>2. ASSUME NEW j \in DOMAIN t, j # i PROVE from(j) \in DOMAIN q /\ t[j] = q[from(j)]
  BY <1>1, <1>2
<1>3. ASSUME NEW j \in DOMAIN t, NEW m \in DOMAIN t, j < m, j # i, m # i
      PROVE  from(j) < from(m)
  BY <1>1, <1>3
<1>4. Ordered(t)
  <2> SUFFICES ASSUME NEW j \in DOMAIN t, NEW m \in DOMAIN t, j < m, t[j].kind = t[m].kind
               PROVE  t[j].id < t[m].id
    BY DEF Ordered
  <2>1. CASE j # i /\ m # i
    <3>1. from(j) < from(m)
      BY <1>3, <2>1
    <3>2. /\ from(j) \in DOMAIN q /\ t[j] = q[from(j)]
          /\ from(m) \in DOMAIN q /\ t[m] = q[from(m)]
      BY <1>2, <2>1
    <3> HIDE DEF from
    <3> QED
      BY <3>1, <3>2 DEF Ordered
  <2>2. CASE j = i
    <3>1. from(m) \in DOMAIN q /\ t[m] = q[from(m)]
      BY <1>1, <1>2, <2>2
    <3> HIDE DEF from
    <3> QED
      BY <1>1, <2>2, <3>1
  <2>3. CASE m = i
    <3>1. from(j) \in DOMAIN q /\ t[j] = q[from(j)] /\ from(j) < i
      BY <1>1, <1>2, <2>3
    <3>2. i <= from(j)
      <4> HIDE DEF from
      <4> QED
        BY <1>1, <2>3, <3>1
    <3> QED
      BY <1>1, <3>1, <3>2
  <2> QED
    BY <2>1, <2>2, <2>3
<1>5. \A j \in DOMAIN t : t[j] = e \/ \E m \in DOMAIN q : t[j] = q[m]
  BY <1>1, <1>2
<1>6. \A j \in DOMAIN q : \E m \in DOMAIN t : t[m] = q[j]
  <2> SUFFICES ASSUME NEW j \in DOMAIN q PROVE \E m \in DOMAIN t : t[m] = q[j]
    OBVIOUS
  <2>1. CASE j < i
    <3>1. j \in DOMAIN t /\ j # i
      BY <1>1, <2>1
    <3> QED
      BY <1>1, <2>1, <3>1
  <2>2. CASE ~(j < i)
    <3>1. j + 1 \in DOMAIN t /\ ~(j + 1 < i) /\ j + 1 # i /\ (j + 1) - 1 = j
      BY <1>1, <2>2
    <3> QED
      BY <1>1, <3>1
  <2> QED
    BY <2>1, <2>2
<1>7. ASSUME NEW x
      PROVE  KindIds(t, x) = KindIds(q, x) \cup (IF x = e.kind THEN {e.id} ELSE {})
  <2>1. \A y \in KindIds(t, x) : y \in KindIds(q, x) \/ (x = e.kind /\ y = e.id)
    BY <1>5 DEF KindIds
  <2>2. \A y \in KindIds(q, x) : y \in KindIds(t, x)
    BY <1>6 DEF KindIds
  <2>3. x = e.kind => e.id \in KindIds(t, x)
    BY <1>1 DEF KindIds
  <2> QED
    BY <2>1, <2>2, <2>3
<1> QED
  BY <1>4, <1>5, <1>7 DEF t

(* Whatever waits is in the queue or in the hands of the one delivery.        *)
LEMMA WaitingSplit ==
  /\ Busy = {} => \A x : WaitingOf(x) = KindIds(queue, x)
  /\ \A l : Busy = {l} =>
       \A x : WaitingOf(x) = KindIds(queue, x)
                 \cup (IF x = call[l].entry.kind THEN {call[l].entry.id} ELSE {})
BY DEF WaitingOf, KindIds

(* One turn of the loop in flush, of the only delivery in progress: what      *)
(* waits stays, in order.                                                    *)
LEMMA TakeNextSeries ==
  ASSUME TypeOK, NEW l \in Lanes, NEW k \in Kinds, NEW q \in Seq(Entry), Ordered(q),
         Len(q) <= SpoolMax, NEW N \in Nat, \A i \in DOMAIN q : q[i].id <= N,
         Busy \subseteq {l}, measured' = N, SpoolMax \in Nat,
         NEW own, NEW sent, TakeNext(l, q, k, own, sent)
  PROVE  /\ InSeries'
         /\ \A x : WaitingOf(x)' = KindIds(q, x)
         /\ HasKind(q, k) => Busy' = {l}
<1>1. CASE /\ ~HasKind(q, k) /\ queue' = q /\ call' = [call EXCEPT ![l] = Idle]
  <2>1. Busy' = {}
    BY <1>1 DEF TypeOK, Busy
  <2>2. \A x : WaitingOf(x)' = KindIds(queue', x)
    BY <2>1 DEF WaitingOf, KindIds
  <2>3. InSeries'
    BY <1>1, <2>1 DEF InSeries, OldestFirst, Ordered
  <2> QED
    BY <1>1, <2>2, <2>3
<1>2. ASSUME NEW i \in DOMAIN q, IsFirstOf(q, k, i),
             queue' = TakenOut(q, i),
             call' = [call EXCEPT ![l] =
               [pc |-> "submitting", entry |-> q[i], index |-> i,
                own |-> own, sent |-> sent, direct |-> FALSE]]
      PROVE  /\ InSeries'
             /\ \A x : WaitingOf(x)' = KindIds(q, x)
             /\ Busy' = {l}
  <2> DEFINE c == [pc |-> "submitting", entry |-> q[i], index |-> i,
                   own |-> own, sent |-> sent, direct |-> FALSE]
  <2>1. c # Idle /\ c.pc = "submitting" /\ c.entry = q[i] /\ c.index = i
    BY DEF Idle
  <2>2. call' = [call EXCEPT ![l] = c]
    BY <1>2
  <2> HIDE DEF c
  <2>3. Busy' = {l} /\ call'[l] = c
    BY <2>1, <2>2 DEF TypeOK, Busy
  <2>4. q[i].kind = k
    BY <1>2 DEF IsFirstOf
  <2>5. /\ Ordered(queue') /\ i <= Len(queue') + 1
        /\ \A j \in DOMAIN queue' :
             /\ queue'[j].kind = k => i <= j /\ q[i].id < queue'[j].id
             /\ \E m \in DOMAIN q : queue'[j] = q[m]
        /\ \A x : KindIds(queue', x) \cup (IF x = k THEN {q[i].id} ELSE {}) = KindIds(q, x)
    BY <1>2, TakenOutSeries
  <2>6. Len(queue') = Len(q) - 1 /\ Len(q) \in Nat
    BY <1>2, TakenOutQueue, LenProperties
  <2>7. \A x : WaitingOf(x)' = KindIds(q, x)
    <3>1. \A x : WaitingOf(x)' = KindIds(queue', x) \cup
                   (IF x = call'[l].entry.kind THEN {call'[l].entry.id} ELSE {})
      BY <2>3 DEF WaitingOf, KindIds
    <3> QED
      BY <2>1, <2>3, <2>4, <2>5, <3>1
  <2>8. OldestFirst'
    BY <2>1, <2>3, <2>4, <2>5 DEF OldestFirst, Ordered
  <2>9. InPlace(l)'
    BY <2>1, <2>3, <2>4, <2>5 DEF InPlace
  <2>10. \A j \in DOMAIN queue' : queue'[j].id <= measured'
    BY <2>5
  <2>11. Len(queue') < SpoolMax
    BY <2>6
  <2> QED
    BY <2>1, <2>3, <2>6, <2>7, <2>8, <2>9, <2>10, <2>11 DEF InSeries
<1> QED
  BY <1>1, <1>2 DEF TakeNext

PromiseStep == Promise!Next \/ UNCHANGED Promise!vars

LEMMA SeriesStep ==
  ASSUME TypeOK, TypeOK', NoDirect, SeriesInv, [Next]_vars, SpoolMax > 0, ~overlapped'
  PROVE  InSeries' /\ PromiseStep
<1> USE SpoolAssumption
<1>1. CASE UNCHANGED vars
  BY <1>1 DEF vars, SeriesInv, InSeries, OldestFirst, InPlace, Busy, PromiseStep,
     Promise!vars, WaitingOf
<1> SUFFICES ASSUME Next
             PROVE  InSeries' /\ PromiseStep
  BY <1>1
<1>2. InSeries /\ \A l, m \in Busy' : l = m
  BY DEF Next, SeriesInv, TypeOK
<1>3. /\ queue \in Seq(Entry) /\ Ordered(queue) /\ Len(queue) \in Nat
      /\ DOMAIN queue = 1..Len(queue)
      /\ \A i \in DOMAIN queue : queue[i] \in Entry /\ queue[i].id \in Nat
      /\ measured \in Nat /\ server.last \in [Kinds -> 0..MaxBatches]
  <2>1. \A i \in DOMAIN queue : queue[i] \in Entry
    BY ElementOfSeq, LenProperties DEF TypeOK
  <2> QED
    BY <1>2, <2>1, LenProperties DEF TypeOK, Entry, Ids, InSeries, OldestFirst, Ordered
<1> DEFINE Goal == InSeries' /\ PromiseStep
           W == [k \in Kinds |-> WaitingOf(k)]
<1>4. ASSUME NEW l \in Lanes, NEW k \in Kinds, DeliverSpooled(l, k)
      PROVE  Goal
  <2> DEFINE e == [kind |-> k, id |-> measured + 1]
             q == Append(queue, e)
             t == Trimmed(q)
  <2>1. e \in Entry /\ e.kind = k /\ e.id = measured + 1
    BY <1>4 DEF DeliverSpooled, TypeOK, Ids, Entry
  <2>2. /\ TakeNext(l, t, k, measured + 1, 0)
        /\ measured' = measured + 1 /\ server' = server /\ l \notin Busy
    BY <1>4 DEF DeliverSpooled, Busy
  <2> HIDE DEF e
  <2>3. /\ q \in Seq(Entry) /\ Len(q) = Len(queue) + 1
        /\ DOMAIN q = 1..(Len(queue) + 1)
        /\ \A i \in DOMAIN queue : q[i] = queue[i]
        /\ q[Len(queue) + 1] = e
    BY <1>3, <2>1, AppendProperties, LenProperties
  <2> HIDE DEF q
  <2>4. /\ Ordered(q) /\ \A i \in DOMAIN q : q[i].id <= measured + 1
    <3>1. \A i \in DOMAIN q : i \in DOMAIN queue \/ i = Len(queue) + 1
      BY <1>3, <2>3
    <3>2. \A i \in DOMAIN queue : queue[i].id <= measured /\ i < Len(queue) + 1
      BY <1>2, <1>3 DEF InSeries
    <3>3. \A i \in DOMAIN queue : queue[i].id < measured + 1
      BY <1>3, <3>2
    <3>4. Ordered(q)
      <4> SUFFICES ASSUME NEW i \in DOMAIN q, NEW j \in DOMAIN q, i < j,
                          q[i].kind = q[j].kind
                   PROVE  q[i].id < q[j].id
        BY DEF Ordered
      <4>1. i \in DOMAIN queue
        BY <1>3, <2>3
      <4>2. CASE j \in DOMAIN queue
        BY <1>3, <2>3, <4>1, <4>2 DEF Ordered
      <4>3. CASE j = Len(queue) + 1
        BY <2>1, <2>3, <3>3, <4>1, <4>3
      <4> QED
        BY <3>1, <4>2, <4>3
    <3>5. ASSUME NEW i \in DOMAIN q PROVE q[i].id <= measured + 1
      <4>1. CASE i \in DOMAIN queue
        BY <1>3, <2>3, <3>3, <4>1
      <4>2. CASE i = Len(queue) + 1
        BY <1>3, <2>1, <2>3, <4>2
      <4> QED
        BY <3>1, <4>1, <4>2
    <3> QED
      BY <3>4, <3>5
  <2>5. \A x : KindIds(q, x) = KindIds(queue, x) \cup (IF x = k THEN {measured + 1} ELSE {})
    <3>1. \A i \in DOMAIN q : i \in DOMAIN queue \/ i = Len(queue) + 1
      BY <1>3, <2>3
    <3>2. \A i \in DOMAIN queue : i \in DOMAIN q
      BY <1>3, <2>3
    <3>3. Len(queue) + 1 \in DOMAIN q
      BY <1>3, <2>3
    <3> QED
      BY <2>1, <2>3, <3>1, <3>2, <3>3 DEF KindIds
  <2>6. Overflow(q) \in {0, 1}
    BY <1>2, <1>3, <2>3 DEF Overflow, InSeries
  <2>7. /\ Ordered(t)
        /\ Overflow(q) = 0 => \A x : KindIds(t, x) = KindIds(q, x)
        /\ Overflow(q) = 1 =>
             /\ 1 \in DOMAIN q /\ \A m \in KindIds(q, q[1].kind) : q[1].id <= m
             /\ \A x : KindIds(t, x)
                         = KindIds(q, x) \ (IF x = q[1].kind THEN {q[1].id} ELSE {})
    BY <2>3, <2>4, <2>6, TrimmedSeries
  <2>8. /\ t \in Seq(Entry) /\ Len(t) <= SpoolMax
        /\ DOMAIN t = 1..(Len(q) - Overflow(q))
        /\ \A j \in DOMAIN t : t[j] = q[j + Overflow(q)]
    BY <2>3, TrimmedQueue, TrimmedAt
  <2>9. HasKind(t, k)
    <3>1. Overflow(q) < Len(q)
      BY <1>3, <2>3 DEF Overflow
    <3>2. /\ Len(q) - Overflow(q) \in DOMAIN t
          /\ (Len(q) - Overflow(q)) + Overflow(q) = Len(queue) + 1
      BY <1>3, <2>3, <2>6, <2>8, <3>1
    <3>3. t[Len(q) - Overflow(q)] = e
      BY <2>3, <2>8, <3>2
    <3> QED
      BY <2>1, <3>2, <3>3 DEF HasKind
  <2>10. \A j \in DOMAIN t : t[j].id <= measured + 1
    <3>1. ASSUME NEW j \in DOMAIN t PROVE j + Overflow(q) \in DOMAIN q
      BY <1>3, <2>3, <2>6, <2>8
    <3> QED
      BY <2>4, <2>8, <3>1
  <2> HIDE DEF t
  <2>11. l \in Busy' /\ Busy \ {l} \subseteq Busy'
    <3>1. \A m \in Busy \ {l} : m \in Busy'
      BY <2>2, <2>8, TakeNextKeeps
    <3>2. \A i \in DOMAIN t :
            [pc |-> "submitting", entry |-> t[i], index |-> i,
             own |-> measured + 1, sent |-> 0, direct |-> FALSE] # Idle
      BY DEF Idle
    <3>3. l \in Busy'
      BY <2>2, <2>9, <3>2 DEF TakeNext, Busy, TypeOK
    <3> QED
      BY <3>1, <3>3
  <2>12. Busy = {}
    BY <1>2, <2>2, <2>11
  <2>13. InSeries' /\ \A x : WaitingOf(x)' = KindIds(t, x)
    <3> DEFINE N == measured + 1
    <3>1. /\ N \in Nat /\ measured' = N /\ Busy \subseteq {l} /\ SpoolMax \in Nat
          /\ \A j \in DOMAIN t : t[j].id <= N
          /\ TakeNext(l, t, k, N, 0)
      BY <1>3, <2>2, <2>10, <2>12
    <3>2. t \in Seq(Entry) /\ Ordered(t) /\ Len(t) <= SpoolMax
      BY <2>7, <2>8
    <3> HIDE DEF N
    <3> QED
      BY <3>1, <3>2, TakeNextSeries
  <2>14. \A x : WaitingOf(x) = KindIds(queue, x)
    BY <2>12, WaitingSplit
  <2> DEFINE joined == [W EXCEPT ![k] = @ \cup {measured + 1}]
  <2>15. joined = [x \in Kinds |-> KindIds(q, x)]
    BY <2>5, <2>14
  <2>16. W' = [x \in Kinds |-> KindIds(t, x)]
    BY <2>13
  <2>17. \/ W' = joined
         \/ \E j \in Kinds : \E n \in joined[j] :
              Promise!IsOldest(n, joined[j]) /\ W' = [joined EXCEPT ![j] = @ \ {n}]
    <3>1. CASE Overflow(q) = 0
      BY <2>7, <2>15, <2>16, <3>1
    <3>2. CASE Overflow(q) = 1
      <4> DEFINE j == q[1].kind
                 n == q[1].id
      <4>1. j \in Kinds
        <5>1. q[1] \in Entry
          BY <2>3, <2>7, <3>2, ElementOfSeq
        <5> QED
          BY <5>1 DEF Entry
      <4>2. n \in KindIds(q, j) /\ \A m \in KindIds(q, j) : n <= m
        BY <2>7, <3>2 DEF KindIds
      <4>3. \A x : KindIds(t, x) = KindIds(q, x) \ (IF x = j THEN {n} ELSE {})
        BY <2>7, <3>2
      <4> HIDE DEF j, n, joined, W
      <4>4. joined[j] = KindIds(q, j)
        BY <2>15, <4>1
      <4>5. W' = [joined EXCEPT ![j] = @ \ {n}]
        BY <2>15, <2>16, <4>1, <4>3
      <4> QED
        BY <4>1, <4>2, <4>4, <4>5 DEF Promise!IsOldest
    <3> QED
      BY <2>6, <3>1, <3>2
  <2>18. Promise!Take(k)
    BY <2>2, <2>17 DEF Promise!Take
  <2> QED
    BY <2>13, <2>18 DEF PromiseStep, Promise!Next
<1>5. ASSUME NEW l \in Lanes, Land(l)
      PROVE  Goal
  <2>1. call[l] \in Pending /\ l \in Busy /\ Busy = {l}
    BY <1>2, <1>5 DEF Land, TypeOK, Busy, InSeries
  <2> DEFINE c == [call[l] EXCEPT !.pc = "landed"]
             k == call[l].entry.kind
             n == call[l].entry.id
  <2>2. /\ c # Idle /\ c.entry = call[l].entry /\ c.index = call[l].index
        /\ call[l].entry \in Entry
    BY <2>1 DEF Pending, Submit, Idle
  <2>3. /\ call' = [call EXCEPT ![l] = c] /\ server'.last = [server.last EXCEPT ![k] = n]
        /\ UNCHANGED <<queue, measured>>
    BY <1>5 DEF Land
  <2>4. k \in Kinds /\ n \in Nat /\ n <= measured
    BY <1>2, <2>1, <2>2 DEF Entry, Ids, InSeries
  <2> HIDE DEF c
  <2>5. Busy' = Busy /\ call'[l] = c
    BY <2>1, <2>2, <2>3 DEF TypeOK, Busy
  <2>6. \A x : WaitingOf(x)' = WaitingOf(x)
    BY <2>1, <2>2, <2>3, <2>5 DEF WaitingOf
  <2>7. server'.last[k] = n
    BY <1>3, <2>3, <2>4
  <2>8. InSeries'
    <3>1. OldestFirst'
      BY <1>2, <2>1, <2>2, <2>3, <2>5 DEF InSeries, OldestFirst
    <3>2. InPlace(l)'
      BY <1>2, <2>1, <2>2, <2>3, <2>5 DEF InSeries, InPlace
    <3> QED
      BY <1>2, <2>1, <2>2, <2>3, <2>5, <2>7, <3>1, <3>2 DEF InSeries
  <2>9. Promise!IsOldest(n, WaitingOf(k))
    <3>1. WaitingOf(k) = KindIds(queue, k) \cup {n}
      BY <2>1, WaitingSplit
    <3>2. \A m \in KindIds(queue, k) : n < m
      BY <1>2, <2>1 DEF InSeries, OldestFirst, KindIds
    <3>3. \A m \in KindIds(queue, k) : m \in Nat
      BY <1>3 DEF KindIds
    <3> HIDE DEF n, k
    <3> QED
      BY <2>4, <3>1, <3>2, <3>3 DEF Promise!IsOldest
  <2>10. W' = W /\ W[k] = WaitingOf(k)
    BY <2>4, <2>6
  <2>11. Promise!Receive(k)
    <3> HIDE DEF W, k, n
    <3>1. n \in W[k] /\ Promise!IsOldest(n, W[k])
      BY <2>9, <2>10 DEF Promise!IsOldest
    <3>2. server'.last = [server.last EXCEPT ![k] = n] /\ UNCHANGED <<W, measured>>
      BY <2>3, <2>10
    <3> QED
      BY <3>1, <3>2 DEF Promise!Receive, W
  <2> QED
    BY <2>4, <2>8, <2>11 DEF PromiseStep, Promise!Next
<1>6. ASSUME NEW l \in Lanes, SubmitResolved(l)
      PROVE  Goal
  <2>1. l \in Busy /\ Busy = {l} /\ ~call[l].direct /\ call[l] \in Pending
    BY <1>2, <1>6 DEF SubmitResolved, Busy, NoDirect, InSeries, TypeOK
  <2> DEFINE k == call[l].entry.kind
             n == call[l].entry.id
  <2>2. /\ TakeNext(l, queue, k, call[l].own, call[l].sent + 1)
        /\ measured' = measured /\ server' = server /\ server.last[k] = n
    BY <1>2, <1>6, <2>1 DEF SubmitResolved, InSeries
  <2>3. call[l].entry \in Entry
    BY <2>1 DEF Pending, Submit
  <2>4. k \in Kinds /\ n \in Nat
    BY <2>3 DEF Entry, Ids
  <2>5. WaitingOf(k) = KindIds(queue, k) \cup {n} /\ \A x : x # k => WaitingOf(x) = KindIds(queue, x)
    BY <2>1, WaitingSplit
  <2>6. \A m \in KindIds(queue, k) : n < m
    BY <1>2, <2>1 DEF InSeries, OldestFirst, KindIds
  <2>7. \A m \in KindIds(queue, k) : m \in Nat
    BY <1>3 DEF KindIds
  <2> HIDE DEF k, n
  <2>8. InSeries' /\ \A x : WaitingOf(x)' = KindIds(queue, x)
    <3>1. /\ \A i \in DOMAIN queue : queue[i].id <= measured
          /\ Len(queue) <= SpoolMax /\ SpoolMax \in Nat /\ Busy \subseteq {l}
      BY <1>2, <2>1 DEF InSeries
    <3> DEFINE own == call[l].own
               sent == call[l].sent + 1
    <3>2. TakeNext(l, queue, k, own, sent)
      BY <2>2
    <3> HIDE DEF own, sent
    <3> QED
      BY <1>3, <2>2, <2>4, <3>1, <3>2, TakeNextSeries
  <2>9. Promise!IsOldest(n, W[k]) /\ W' = [W EXCEPT ![k] = @ \ {n}]
    <3>1. W[k] = WaitingOf(k)
      BY <2>4
    <3>2. Promise!IsOldest(n, W[k])
      <4> HIDE DEF W
      <4> QED
        BY <2>4, <2>5, <2>6, <2>7, <3>1 DEF Promise!IsOldest
    <3>3. ASSUME NEW x \in Kinds PROVE KindIds(queue, x) = [W EXCEPT ![k] = @ \ {n}][x]
      <4>1. CASE x = k
        <5>1. n \notin KindIds(queue, k)
          BY <2>4, <2>6, <2>7
        <5>2. KindIds(queue, k) = WaitingOf(k) \ {n}
          BY <2>5, <5>1
        <5> QED
          BY <2>4, <4>1, <5>2
      <4>2. CASE x # k
        BY <2>4, <2>5, <4>2
      <4> QED
        BY <4>1, <4>2
    <3>4. W' = [x \in Kinds |-> KindIds(queue, x)]
      BY <2>8
    <3> QED
      BY <3>2, <3>3, <3>4
  <2>10. Promise!Acknowledge(k)
    <3> HIDE DEF W
    <3>1. /\ Promise!IsOldest(server.last[k], W[k])
          /\ W' = [W EXCEPT ![k] = @ \ {server.last[k]}]
          /\ UNCHANGED <<server.last, measured>>
      BY <2>2, <2>9
    <3> QED
      BY <3>1 DEF Promise!Acknowledge, W
  <2> QED
    BY <2>4, <2>8, <2>10 DEF PromiseStep, Promise!Next
<1>7. ASSUME NEW l \in Lanes, SubmitRejected(l)
      PROVE  Goal
  <2>1. l \in Busy /\ Busy = {l} /\ ~call[l].direct /\ call[l] \in Pending
    BY <1>2, <1>7 DEF SubmitRejected, Busy, NoDirect, InSeries, TypeOK
  <2> DEFINE i == call[l].index
             e == call[l].entry
  <2>2. e \in Entry /\ i \in Nat \ {0} /\ e.id <= measured
    BY <1>2, <2>1 DEF Pending, Submit, InSeries
  <2>3. /\ queue' = Reinsert(queue, i, e) /\ UNCHANGED <<measured, server>>
        /\ call' = [call EXCEPT ![l] = Idle]
    BY <1>7, <2>1 DEF SubmitRejected
  <2>4. /\ i <= Len(queue) + 1 /\ Len(queue) < SpoolMax
        /\ \A j \in DOMAIN queue : queue[j].kind = e.kind => i <= j /\ e.id < queue[j].id
    BY <1>2, <2>1 DEF InSeries, InPlace, OldestFirst
  <2>5. \A x : WaitingOf(x) = KindIds(queue, x) \cup (IF x = e.kind THEN {e.id} ELSE {})
    BY <2>1, WaitingSplit
  <2> HIDE DEF i, e
  <2>6. /\ Ordered(queue')
        /\ \A j \in DOMAIN queue' : queue'[j] = e \/ \E m \in DOMAIN queue : queue'[j] = queue[m]
        /\ \A x : KindIds(queue', x)
                    = KindIds(queue, x) \cup (IF x = e.kind THEN {e.id} ELSE {})
    <3>1. queue \in Seq(Entry) /\ Ordered(queue) /\ i <= Len(queue) + 1
          /\ \A j \in DOMAIN queue : queue[j].kind = e.kind => i <= j /\ e.id < queue[j].id
      BY <1>3, <2>4
    <3>2. /\ Ordered(Reinsert(queue, i, e))
          /\ \A j \in DOMAIN Reinsert(queue, i, e) :
               Reinsert(queue, i, e)[j] = e \/ \E m \in DOMAIN queue : Reinsert(queue, i, e)[j] = queue[m]
          /\ \A x : KindIds(Reinsert(queue, i, e), x)
                      = KindIds(queue, x) \cup (IF x = e.kind THEN {e.id} ELSE {})
      BY <2>2, <3>1, ReinsertedSeries, SMTT(60)
    <3> DEFINE t == Reinsert(queue, i, e)
    <3>3. queue' = t BY <2>3
    <3>4. /\ Ordered(t)
          /\ \A j \in DOMAIN t : t[j] = e \/ \E m \in DOMAIN queue : t[j] = queue[m]
          /\ \A x : KindIds(t, x)
                      = KindIds(queue, x) \cup (IF x = e.kind THEN {e.id} ELSE {})
      BY <3>2
    <3> HIDE DEF t
    <3> QED
      BY <3>3, <3>4
  <2>7. Len(queue') = Len(queue) + 1
    BY <1>3, <2>2, <2>3, ReinsertedQueue
  <2>8. Busy' = {}
    BY <2>1, <2>3 DEF TypeOK, Busy
  <2>9. InSeries'
    <3>1. OldestFirst'
      BY <2>6, <2>8 DEF OldestFirst, Ordered
    <3>2. \A j \in DOMAIN queue' : queue'[j].id <= measured'
      BY <1>2, <2>2, <2>3, <2>6 DEF InSeries
    <3> QED
      BY <1>3, <2>4, <2>7, <2>8, <3>1, <3>2 DEF InSeries
  <2>10. \A x : WaitingOf(x)' = WaitingOf(x)
    <3>1. \A x : WaitingOf(x)' = KindIds(queue', x)
      BY <2>8 DEF WaitingOf, KindIds
    <3> QED
      BY <2>5, <2>6, <3>1
  <2>11. UNCHANGED Promise!vars
    BY <2>3, <2>10 DEF Promise!vars
  <2> QED
    BY <2>9, <2>11 DEF PromiseStep
<1> QED
  BY <1>4, <1>5, <1>6, <1>7 DEF Next, Deliver

(* One delivery at a time is what a caller expects of a spool: of each kind   *)
(* the readings are kept and sent in the order they were taken, the one that  *)
(* failed is the next to be tried, and only the oldest of some kind is ever   *)
(* pushed out (add, flush and deliver of src/resultSpool.js).                *)
THEOREM OneAtATimeIsASeries == Spec => ImplementsSeries
<1>1. Init => Promise!Init /\ SeriesInv /\ (SpoolMax > 0 => NoDirect)
  <2> SUFFICES ASSUME Init
               PROVE  Promise!Init /\ SeriesInv /\ NoDirect
    OBVIOUS
  <2>1. Busy = {} /\ DOMAIN queue = {} /\ Len(queue) = 0
    BY DEF Init, Busy
  <2>2. \A x : WaitingOf(x) = {}
    BY <2>1 DEF WaitingOf
  <2>3. Promise!Init
    BY <2>2 DEF Promise!Init, Init
  <2>4. SeriesInv
    BY <2>1, SpoolAssumption DEF SeriesInv, InSeries, OldestFirst
  <2> QED
    BY <2>1, <2>3, <2>4 DEF NoDirect
<1> DEFINE SInv == SeriesInv /\ LossInv
           Act == SpoolMax > 0 /\ ~overlapped' => PromiseStep
<1>2. TypeOK /\ TypeOK' /\ SInv /\ [Next]_vars => SInv' /\ [Act]_vars
  <2> SUFFICES ASSUME TypeOK, TypeOK', SInv, [Next]_vars
               PROVE  SInv' /\ [Act]_vars
    OBVIOUS
  <2>1. LossInv'
    BY LossStep, SpoolAssumption
  <2>2. SpoolMax > 0 /\ ~overlapped' => InSeries' /\ PromiseStep
    BY SeriesStep, SpoolAssumption DEF LossInv
  <2> QED
    BY <2>1, <2>2 DEF SeriesInv
<1>3. Init => LossInv
  BY InitLoses
<1> QED
  BY <1>1, <1>2, <1>3, SpoolTypes, PTL DEF Spec, ImplementsSeries, PromiseStep
=============================================================================
