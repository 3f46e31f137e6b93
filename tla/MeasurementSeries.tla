-------------------------- MODULE MeasurementSeries --------------------------
(***************************************************************************)
(* What a caller may expect of the result spool, without its queue: of     *)
(* each kind the readings wait, the server only ever receives the oldest   *)
(* one waiting, and a reading stops waiting either because the server has  *)
(* it or because the bound pushed the oldest one out.  Readings are        *)
(* numbered in the order they were taken.                                  *)
(***************************************************************************)
EXTENDS Naturals

CONSTANT Kinds

VARIABLES
  waiting,  (* of each kind, the readings not yet acknowledged               *)
  latest,   (* of each kind, the reading the server received last            *)
  taken     (* number of readings taken                                      *)

vars == <<waiting, latest, taken>>

Init ==
  /\ waiting = [k \in Kinds |-> {}]
  /\ latest = [k \in Kinds |-> 0]
  /\ taken = 0

IsOldest(n, readings) == n \in readings /\ \A m \in readings : n <= m

(* A new reading joins its series; at most one, the oldest of some series,  *)
(* is pushed out for it.                                                    *)
Take(k) ==
  LET joined == [waiting EXCEPT ![k] = @ \cup {taken + 1}]
  IN  /\ taken' = taken + 1
      /\ \/ waiting' = joined
         \/ \E j \in Kinds : \E n \in joined[j] :
              IsOldest(n, joined[j]) /\ waiting' = [joined EXCEPT ![j] = @ \ {n}]
      /\ UNCHANGED latest

(* The server receives the oldest reading waiting, possibly again.         *)
Receive(k) ==
  /\ \E n \in waiting[k] :
       IsOldest(n, waiting[k]) /\ latest' = [latest EXCEPT ![k] = n]
  /\ UNCHANGED <<waiting, taken>>

(* The oldest reading stops waiting once the server has it.                *)
Acknowledge(k) ==
  /\ IsOldest(latest[k], waiting[k])
  /\ waiting' = [waiting EXCEPT ![k] = @ \ {latest[k]}]
  /\ UNCHANGED <<latest, taken>>

Next == \E k \in Kinds : Take(k) \/ Receive(k) \/ Acknowledge(k)

Spec == Init /\ [][Next]_vars

=============================================================================
