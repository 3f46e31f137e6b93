--------------------------- MODULE CounterRotation ---------------------------
(***************************************************************************)
(* The interface counters that switches send by sFlow, on their way into a *)
(* traffic result (src/sflow/collector.js, src/resultBudget.js and          *)
(* runAndSubmit in src/runtime.js).                                        *)
(*                                                                         *)
(* The collector keeps the latest reading of every interface.  A measurement *)
(* drains as many as its snapshot has room for, the longest unsent first,    *)
(* then awaits the metrics of the host; after that the result is fitted to   *)
(* its size and the readings it could not carry are handed back.  The        *)
(* reporting timer never overlaps itself, but a run-test command measures    *)
(* beside it.                                                                *)
(*                                                                         *)
(* Room is a number of readings, never less than one (the counters' floor). *)
(* Time is counted in drains; when a reading has become too old is open.    *)
(* Not modelled: the flow records, the restart of the collector by a         *)
(* configuration (it begins empty), the exporters' names.                    *)
(***************************************************************************)
EXTENDS Naturals, FiniteSets, SequencesExt

CONSTANTS
  NumIfs,      (* interfaces, numbered in the order of their keys            *)
  PendingMax,  (* COUNTERS_PENDING_MAX                                       *)
  Room,        (* the most readings a snapshot carries                       *)
  Forget,      (* drains after which an idle interface's last turn is        *)
               (* forgotten: 6 * COUNTERS_STALE_MS                           *)
  Measurers    (* who may be measuring at the same time                      *)

ASSUME RotationAssumption ==
  /\ NumIfs \in Nat /\ PendingMax \in Nat \ {0} /\ Room \in Nat \ {0}
  /\ Forget \in Nat
  /\ IsFiniteSet(Measurers)

Ifs == 1..NumIfs
Never == NumIfs + 1   (* behind every interface that was sent                *)

(* A reading: the newest its interface has sent, or an older one.           *)
ReadingAges == {"newest", "older"}
Entries == [if : Ifs, age : ReadingAges]
NoCounters == << >>   (* not measuring, or no counters in the snapshot         *)

VARIABLES
  latest,    (* counterPending                                               *)
  unsent,    (* counterLastSent: its rank, 0 for those sent last, or Never   *)
  idle,      (* drains since the interface was last sent                     *)
  hand,      (* the counters in each measurement's snapshot                  *)
  overtook,  (* history: who was sent while an interface waits               *)
  unfair,    (* history: one of them was sent again, and it still waits      *)
  overlapped (* history: when two measurements were in progress together     *)

rotationVars == <<latest, unsent, idle, hand, overtook, unfair, overlapped>>

Pending == {i \in Ifs : latest[i] # "none"}
InHand(m, i) == \E k \in DOMAIN hand[m] : hand[m][k].if = i
Carried == {i \in Ifs : \E m \in Measurers : InHand(m, i)}

RotationInit ==
  /\ latest = [i \in Ifs |-> "none"]
  /\ unsent = [i \in Ifs |-> Never]
  /\ idle = [i \in Ifs |-> 0]
  /\ hand = [m \in Measurers |-> NoCounters]
  /\ overtook = [i \in Ifs |-> {}]
  /\ unfair = FALSE /\ overlapped = "never"

(* rememberCounters: a reading is refused only if it is of an interface that *)
(* does not wait yet and the table is full.                                  *)
Remembers(i) ==
  /\ latest' = IF latest[i] # "none" \/ Cardinality(Pending) < PendingMax
                THEN [latest EXCEPT ![i] = "newest"] ELSE latest
  /\ hand' = [m \in Measurers |->
       [k \in DOMAIN hand[m] |->
          IF hand[m][k].if = i
          THEN [hand[m][k] EXCEPT !.age = "older"] ELSE hand[m][k]]]
  /\ UNCHANGED <<unsent, idle, overtook, unfair, overlapped>>

-----------------------------------------------------------------------------
(* The longest unsent first; of two sent by one drain, or handed back, the   *)
(* lesser key.                                                               *)
Before(i, j) == unsent[i] > unsent[j] \/ (unsent[i] = unsent[j] /\ i < j)

(* Those sent now rank first, then the others in the order they had, without *)
(* the idle ones that were sent too long ago.                                *)
Ranked(usable, sent) ==
  LET known == {i \in Ifs \ sent : unsent[i] # Never /\ (idle[i] < Forget \/ i \in usable)}
  IN  [i \in Ifs |->
         IF i \in sent THEN 0
         ELSE IF i \notin known THEN Never
         ELSE Cardinality({unsent[j] : j \in {j \in known : unsent[j] < unsent[i]}}) + 1]

(* The order of the keys: the one sequence of all of them that is sorted.    *)
Orders(usable) ==
  {o \in [1..Cardinality(usable) -> usable] :
     /\ \A i \in usable : \E k \in DOMAIN o : o[k] = i
     /\ \A j, k \in DOMAIN o : j < k => Before(o[j], o[k])}

(* What a drain of those still usable changes when out is what goes out; the *)
(* last turn of an idle interface is forgotten.                              *)
HandsOut(m, usable, out) ==
  LET sent == ToSet(out)
  IN  /\ hand' = [hand EXCEPT ![m] =
           [k \in DOMAIN out |-> [if |-> out[k], age |-> latest[out[k]]]]]
      /\ latest' = [i \in Ifs |-> IF i \in usable \ sent THEN latest[i] ELSE "none"]
      /\ unsent' = Ranked(usable, sent)
      /\ idle' = [i \in Ifs |-> IF i \in sent \/ unsent'[i] = Never THEN 0
                                ELSE IF idle[i] < Forget THEN idle[i] + 1
                                ELSE Forget]
      /\ overtook' = [i \in Ifs |->
           {j \in overtook[i] : i \in usable /\ Carried = {} /\ unsent'[j] # Never}]

(* drainCounters: what has become stale is dropped, and the front of the     *)
(* order goes out.                                                           *)
Drains(m) ==
  /\ hand[m] = NoCounters
  /\ \E usable \in SUBSET Pending, n \in 1..Room : \E order \in Orders(usable) :
       HandsOut(m, usable, SubSeq(order, 1, IF n < Len(order) THEN n ELSE Len(order)))
  /\ overlapped' = IF Carried # {} THEN "now" ELSE IF overlapped = "now" THEN "before" ELSE overlapped
  /\ UNCHANGED unfair

(* Mutant: what comes back keeps its turn.                                   *)
KeepsTurn(back) == unsent

(* requeueCounters: what comes back was never sent, and waits unless a newer *)
(* reading does or the table is full (in the order of the list).             *)
FirstAgain(back) ==
  [i \in Ifs |-> IF \E k \in DOMAIN back : back[k].if = i THEN Never ELSE unsent[i]]

Rejoining(back, room) ==
  LET free == {k \in DOMAIN back : latest[back[k].if] = "none"}
  IN  {k \in free : Cardinality({j \in free : j <= k}) <= room}
Returned(back, room) ==
  [i \in Ifs |-> IF \E k \in Rejoining(back, room) : back[k].if = i
                 THEN back[CHOOSE k \in Rejoining(back, room) : back[k].if = i].age
                 ELSE latest[i]]

(* fitResult cuts from the tail and hands back what it cut; the rest goes    *)
(* out.  A result that cannot be made to fit has lost its counters first,    *)
(* so all of them come back before it is given up.                           *)
Finishes(m) ==
  /\ hand[m] # NoCounters
  /\ \E cut \in 0..Len(hand[m]) :
       LET kept == SubSeq(hand[m], 1, Len(hand[m]) - cut)
           back == SubSeq(hand[m], Len(hand[m]) - cut + 1, Len(hand[m]))
           sent == {kept[k].if : k \in DOMAIN kept}
           cutOff == {back[k].if : k \in DOMAIN back}
       IN  /\ unsent' = FirstAgain(back)
           /\ latest' = Returned(back, PendingMax - Cardinality(Pending))
           /\ unfair' = (unfair \/ /\ overlapped # "now"
                                   /\ \E i \in (Pending \cup Carried) \ sent :
                                        overtook[i] \cap sent # {})
           /\ overtook' = [i \in Ifs |->
                IF i \in sent \/ i \notin Pending \cup Carried \/ overlapped = "now" THEN {}
                ELSE (IF i \in cutOff THEN overtook[i] \ cutOff ELSE overtook[i]) \cup sent]
  /\ hand' = [hand EXCEPT ![m] = NoCounters]
  /\ UNCHANGED <<idle, overlapped>>

RotationNext ==
  \/ \E i \in Ifs : Remembers(i)
  \/ \E m \in Measurers : Drains(m) \/ Finishes(m)

RotationSpec == RotationInit /\ [][RotationNext]_rotationVars

-----------------------------------------------------------------------------
RotationTypeOK ==
  /\ latest \in [Ifs -> ReadingAges \cup {"none"}]
  /\ unsent \in [Ifs -> 0..Never] /\ idle \in [Ifs -> 0..Forget]
  /\ hand \in [Measurers -> Seq(Entries)]
  /\ overtook \in [Ifs -> SUBSET Ifs]
  /\ unfair \in BOOLEAN /\ overlapped \in {"never", "now", "before"}

(* "ROTATES through them instead of starving the same ones every time":     *)
(* while the reading of one interface waits, no other is sent twice, however *)
(* the results in between were cut.  Not counted is who was sent before both *)
(* were handed back by one result (which forgets who had waited longest),    *)
(* before its own last turn was forgotten, or before two measurements        *)
(* stopped overlapping.                                                      *)
FairTurns == ~unfair

(* "A newer reading for the same interface wins over the returned one": what *)
(* waits is the newest there is, unless two measurements overlapped: then    *)
(* one may hand back a reading after the other has sent a newer one.         *)
NewestWaits == overlapped = "never" => \A i \in Ifs : latest[i] # "older"

(* COUNTERS_PENDING_MAX bounds what waits: what is handed back takes no more  *)
(* room than new interfaces have left.                                       *)
TableBounded == Cardinality(Pending) <= PendingMax

(* Every interface gets its turn, with the newest reading there is of it, and *)
(* the table keeps its size.                                                 *)
RotationKept == RotationTypeOK /\ FairTurns /\ NewestWaits /\ TableBounded
=============================================================================
