----------------------------- MODULE ResultSpool -----------------------------
(***************************************************************************)
(* The measurements the server could not take, held in memory until it can *)
(* (src/resultSpool.js), together with the callers that reach it           *)
(* (runtime.js: runAndSubmit for 'traffic', runProbeAndSubmit for          *)
(* 'probe').                                                               *)
(*                                                                         *)
(* JavaScript runs one callback at a time, so an action is everything a    *)
(* caller does up to its next `await`: `deliver` adds its batch, trims the *)
(* queue, takes the oldest batch of its kind out of the queue and starts   *)
(* the submit in ONE step.  While the submit is pending the batch is in no *)
(* queue, only in the `entry` and `index` locals of that call.             *)
(*                                                                         *)
(* A lane is one chain of callers that never overlaps itself: the          *)
(* reporting timer (its `running` flag), one `run-test` command, one       *)
(* `run-probe` command.  Different lanes overlap freely.                   *)
(***************************************************************************)
EXTENDS Integers, Sequences, FiniteSets, SequencesExt

CONSTANTS
  Kinds,      (* kinds of result: 'traffic' and 'probe' in the agent         *)
  Lanes,      (* callers of deliver that may be in progress together         *)
  LaneKinds,  (* the kinds a lane delivers                                   *)
  SpoolMax,   (* config.resultSpoolMax; 0 disables spooling                  *)
  MaxBatches  (* bound: how many batches are ever measured                   *)

ASSUME SpoolAssumption ==
  /\ IsFiniteSet(Lanes)
  /\ LaneKinds \in [Lanes -> SUBSET Kinds]
  /\ SpoolMax \in Nat
  /\ MaxBatches \in Nat

VARIABLES
  queue,     (* the batches held, oldest first                               *)
  dropped,   (* how many batches the overflow discarded                      *)
  measured,  (* how many batches were ever handed to deliver                 *)
  call,      (* the deliver in progress on each lane                         *)
  returned,  (* what the lane's last deliver told its caller                 *)
  server,    (* what the server holds, and which batch of each kind is last  *)
  overlapped (* history: two deliveries were in progress together            *)

vars == <<queue, dropped, measured, call, returned, server, overlapped>>

(* Batches are numbered in the order they were measured.                   *)
Ids   == 1..MaxBatches
Entry == [kind : Kinds, id : Ids]

(* `submitting`: the request is on its way.  `landed`: the server took it  *)
(* and its answer is on the way back.  `direct`: spooling is disabled and  *)
(* a failure throws the batch away.                                        *)
Submit(index, direct) ==
  [pc : {"submitting", "landed"}, entry : Entry, index : index,
   own : Ids, sent : Nat, direct : {direct}]
Pending == Submit(Nat \ {0}, FALSE) \cup Submit({0}, TRUE)
Idle == [pc |-> "idle"]

Busy == {l \in Lanes : call[l] # Idle}

HasKind(q, k) == \E i \in DOMAIN q : q[i].kind = k

(* queue.findIndex((entry) => entry.kind === kind)                         *)
IsFirstOf(q, k, i) ==
  /\ i \in DOMAIN q
  /\ q[i].kind = k
  /\ \A j \in 1..(i - 1) : q[j].kind # k

(* const [entry] = queue.splice(index, 1)                                  *)
TakenOut(q, i) == RemoveAt(q, i)

(* Mutants: the refused batch joins the end of the queue, or is forgotten.  *)
PushedBack(q, i, e) == Append(q, e)
Forgotten(q, i, e)  == q

(* queue.splice(index, 0, entry): an index past the end appends.           *)
Reinsert(q, i, e) == InsertAt(q, IF i <= Len(q) THEN i ELSE Len(q) + 1, e)

(* Mutant: while (queue.length > max + 1)                                  *)
LateOverflow(q) == IF Len(q) > SpoolMax + 1 THEN Len(q) - SpoolMax - 1 ELSE 0

(* add(): push, then shift the oldest while the queue is over its bound.   *)
Overflow(q) == IF Len(q) > SpoolMax THEN Len(q) - SpoolMax ELSE 0
Trimmed(q)  == SubSeq(q, Overflow(q) + 1, Len(q))

(* What was dropped so far, after trimming q.                              *)
DroppedAfter(q) == dropped + Overflow(q)

(* What the caller of deliver sees when a submit throws.                   *)
Rethrown == "failed"

Init ==
  /\ queue = << >>
  /\ dropped = 0
  /\ measured = 0
  /\ call = [l \in Lanes |-> Idle]
  /\ returned = [l \in Lanes |-> "none"]
  /\ server = [has |-> {}, last |-> [k \in Kinds |-> 0]]
  /\ overlapped = FALSE

(* One turn of the loop in flush over the queue q: take the oldest batch of *)
(* kind k out and start its submit, or end the call when there is none.     *)
TakeNext(l, q, k, own, sent) ==
  \/ \E i \in DOMAIN q :
       /\ IsFirstOf(q, k, i)
       /\ queue' = TakenOut(q, i)
       /\ call' = [call EXCEPT ![l] =
            [pc |-> "submitting", entry |-> q[i], index |-> i,
             own |-> own, sent |-> sent, direct |-> FALSE]]
       /\ UNCHANGED returned
  \/ /\ ~HasKind(q, k)
     /\ queue' = q
     /\ call' = [call EXCEPT ![l] = Idle]
     /\ returned' = [returned EXCEPT ![l] = "ok"]

(* deliver(kind, items, submit) up to its first await.                     *)
DeliverSpooled(l, k) ==
  LET e == [kind |-> k, id |-> measured + 1]
      q == Append(queue, e)
  IN  /\ call[l] = Idle
      /\ k \in LaneKinds[l]
      /\ measured < MaxBatches
      /\ measured' = measured + 1
      /\ dropped' = DroppedAfter(q)
      /\ TakeNext(l, Trimmed(q), k, e.id, 0)
      /\ UNCHANGED server

(* deliver with max <= 0: submit at once, hold nothing.                    *)
DeliverUnspooled(l, k) ==
  /\ call[l] = Idle
  /\ k \in LaneKinds[l]
  /\ measured < MaxBatches
  /\ measured' = measured + 1
  /\ call' = [call EXCEPT ![l] =
       [pc |-> "submitting", entry |-> [kind |-> k, id |-> measured + 1],
        index |-> 0, own |-> measured + 1, sent |-> 0, direct |-> TRUE]]
  /\ UNCHANGED <<queue, dropped, returned, server>>

Deliver(l, k) ==
  IF SpoolMax > 0 THEN DeliverSpooled(l, k) ELSE DeliverUnspooled(l, k)

(* The server takes the batch; the agent does not know yet.                *)
Land(l) ==
  /\ call[l] # Idle
  /\ call[l].pc = "submitting"
  /\ call' = [call EXCEPT ![l].pc = "landed"]
  /\ server' = [has  |-> server.has \cup {call[l].entry.id},
                last |-> [server.last EXCEPT ![call[l].entry.kind] =
                                                  call[l].entry.id]]
  /\ UNCHANGED <<queue, dropped, measured, returned>>

(* The submit resolved: flush counts the batch and takes the next one.     *)
SubmitResolved(l) ==
  /\ call[l] # Idle
  /\ call[l].pc = "landed"
  /\ IF call[l].direct
     THEN /\ call' = [call EXCEPT ![l] = Idle]
          /\ returned' = [returned EXCEPT ![l] = "ok"]
          /\ UNCHANGED queue
     ELSE TakeNext(l, queue, call[l].entry.kind, call[l].own, call[l].sent + 1)
  /\ UNCHANGED <<dropped, measured, server>>

(* The submit rejected, before the server took the batch or because the    *)
(* answer was lost: the batch goes back to the index it was taken from and *)
(* the error is rethrown to the caller.                                    *)
SubmitRejected(l) ==
  /\ call[l] # Idle
  /\ queue' = IF call[l].direct THEN queue
              ELSE Reinsert(queue, call[l].index, call[l].entry)
  /\ call' = [call EXCEPT ![l] = Idle]
  /\ returned' = [returned EXCEPT ![l] = Rethrown]
  /\ UNCHANGED <<dropped, measured, server>>

Next ==
  /\ \E l \in Lanes :
       \/ \E k \in Kinds : Deliver(l, k)
       \/ Land(l)
       \/ SubmitResolved(l)
       \/ SubmitRejected(l)
  /\ overlapped' = (overlapped \/ \E l, m \in Busy' : l # m)

Spec == Init /\ [][Next]_vars

-----------------------------------------------------------------------------

TypeOK ==
  /\ queue \in Seq(Entry)
  /\ dropped \in Nat
  /\ measured \in 0..MaxBatches
  /\ call \in [Lanes -> Pending \cup {Idle}]
  /\ returned \in [Lanes -> {"none", "ok", "failed"}]
  /\ server \in [has : SUBSET Ids, last : [Kinds -> 0..MaxBatches]]
  /\ overlapped \in BOOLEAN

(* "Bounded": the batches the agent holds, in the queue and in the hands of *)
(* the deliveries in progress, never exceed resultSpoolMax by more than the *)
(* number of OTHER lanes (add trims the queue only, and flush puts a batch  *)
(* back without trimming).  With one lane this is the bound itself.         *)
HeldBounded ==
  SpoolMax > 0 => Len(queue) + Cardinality(Busy) <= SpoolMax + Cardinality(Lanes) - 1

QueuedIds == {queue[i].id : i \in DOMAIN queue}
InHandIds == {call[l].entry.id : l \in Busy}

(* A reading that is neither held nor with the server was dropped by the    *)
(* overflow, and counted: "the count of what was dropped is kept so the     *)
(* agent can say so".                                                       *)
LossIsCounted ==
  SpoolMax > 0 => Cardinality(1..measured \ (QueuedIds \cup InHandIds \cup server.has))
               <= dropped

(* "Order is preserved": of one kind, what a flush holds is older than what *)
(* is queued, and the queue is in the order of measurement.                 *)
OldestFirst ==
  /\ \A i, j \in DOMAIN queue :
       (i < j /\ queue[i].kind = queue[j].kind) => queue[i].id < queue[j].id
  /\ \A l \in Busy, i \in DOMAIN queue :
       queue[i].kind = call[l].entry.kind => call[l].entry.id < queue[i].id

-----------------------------------------------------------------------------
(* What the spool promises (MeasurementSeries), read off the state above.   *)
WaitingOf(k) ==
  {queue[i].id : i \in {j \in DOMAIN queue : queue[j].kind = k}}
    \cup {call[l].entry.id : l \in {m \in Busy : call[m].entry.kind = k}}

Promise == INSTANCE MeasurementSeries
             WITH waiting <- [k \in Kinds |-> WaitingOf(k)],
                  latest  <- server.last,
                  taken   <- measured

(* One delivery at a time implements the series a caller expects: of each   *)
(* kind the readings are kept and sent in the order they were taken.        *)
ImplementsSeries ==
  /\ Promise!Init
  /\ [][SpoolMax > 0 /\ ~overlapped' => Promise!Next \/ UNCHANGED Promise!vars]_vars

=============================================================================
