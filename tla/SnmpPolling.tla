----------------------------- MODULE SnmpPolling -----------------------------
(***************************************************************************)
(* The switches the server assigned to this agent, polled in two cycles    *)
(* (src/snmpPoller.js): the topology cycle, one device at a time, and the   *)
(* counter cycle, a bounded number at a time.  Each is started by its timer *)
(* when a device is due, and by "Poll now" (poll-snmp in src/runtime.js),   *)
(* which reads the assignment again, waits for a cycle in progress and then *)
(* runs both for every device.                                             *)
(*                                                                         *)
(* An assignment may be applied at any moment, also between two devices of  *)
(* a cycle, which goes on with the devices it began with.                  *)
(*                                                                         *)
(* Time is the age of each device's last attempt, counted up to the        *)
(* interval it must wait.  What a poll returns, and whether it or the       *)
(* submission fails, decides nothing here: a failure costs that device its  *)
(* turn, that submission its results, and is not tried again.  A batch is   *)
(* taken in any order (the code takes the order of the assignment).  Not    *)
(* modelled: the terminal state, in which neither cycle runs.              *)
(***************************************************************************)
EXTENDS Naturals, FiniteSets

CONSTANTS
  Devices,           (* deviceIds                                            *)
  Hosts, NoHost,     (* where a device may be; not assigned                  *)
  Counted,           (* the devices whose `collect` names 'ifcounters'       *)
  Interval,          (* of each cycle: how long a device waits               *)
  CounterConcurrency,
  Presses            (* poll-snmp commands that may be in progress together  *)

Cycles == {"topology", "counters"}
Never  == 1000       (* no attempt recorded; older than any interval         *)

ASSUME PollingAssumption ==
  /\ NoHost \notin Hosts
  /\ Counted \subseteq Devices
  /\ Interval \in [Cycles -> 1..(Never - 1)]
  /\ CounterConcurrency \in Nat \ {0}
  /\ Presses \cap {"none", "timer"} = {}

VARIABLES
  target,   (* targets: the host of each device, or NoHost                   *)
  last,     (* lastAttempt and lastCounterAttempt: the age of each entry     *)
  cycle,    (* by: what runs it, or "none"; todo, busy: <<device, host>>     *)
  press,    (* what each poll-snmp command is at                             *)
  owed      (* history: what must be polled before the command may answer    *)

pollVars == <<target, last, cycle, press, owed>>

Assigned == {d \in Devices : target[d] # NoHost}
AsTarget(d) == <<d, target[d]>>

(* The topology poller reads the whole list, the counter cycle the devices  *)
(* that ask for it (wantsCounters).                                         *)
Takes(k, d) == k = "counters" => d \in Counted
Width(k) == IF k = "topology" THEN 1 ELSE CounterConcurrency

Off == [by |-> "none", todo |-> {}, busy |-> {}]
Running(k) == cycle[k].by # "none"
WaitsFor(p, k) == press[p] = k /\ cycle[k].by # p

PollInit ==
  /\ target = [d \in Devices |-> NoHost]
  /\ last = [k \in Cycles |-> [d \in Devices |-> Never]]
  /\ cycle = [k \in Cycles |-> Off]
  /\ press = [p \in Presses |-> "idle"]
  /\ owed = [p \in Presses |-> {}]

-----------------------------------------------------------------------------
(* setTargets: a device that disappears loses its schedule.  A cycle in     *)
(* progress keeps its batch, and may record an attempt of such a device.    *)
SetTargets(next) ==
  /\ target' = next
  /\ last' = [k \in Cycles |-> [d \in Devices |->
                IF next[d] = NoHost THEN Never ELSE last[k][d]]]
  /\ owed' = [p \in Presses |-> {o \in owed[p] : next[o[2][1]] = o[2][2]}]
  /\ UNCHANGED <<cycle, press>>

(* Time passes.                                                             *)
Ages ==
  /\ last' = [k \in Cycles |-> [d \in Devices |->
                IF last[k][d] < Interval[k] THEN last[k][d] + 1 ELSE last[k][d]]]
  /\ UNCHANGED <<target, cycle, press, owed>>

Due(k, d) == last[k][d] >= Interval[k]

Batch(k, force) ==
  {AsTarget(d) : d \in {d \in Assigned : Takes(k, d) /\ (force \/ Due(k, d))}}

Begins(k, by, batch) ==
  cycle' = [cycle EXCEPT ![k] = [by |-> by, todo |-> batch, busy |-> {}]]

(* A tick finds a cycle in progress and does nothing, or begins one if a    *)
(* device is due.  A caller that waits for the cycle that ended comes first: *)
(* it resumes before the next timer can fire.                               *)
TimerTicks(k) ==
  /\ ~Running(k) /\ \A p \in Presses : ~WaitsFor(p, k)
  /\ Batch(k, FALSE) # {}
  /\ Begins(k, "timer", Batch(k, FALSE))
  /\ UNCHANGED <<target, last, press, owed>>

(* The attempt is recorded before the answer is awaited.                    *)
PollStarts(k, x) ==
  /\ x \in cycle[k].todo
  /\ Cardinality(cycle[k].busy) < Width(k)
  /\ cycle' = [cycle EXCEPT ![k].todo = @ \ {x}, ![k].busy = @ \cup {x}]
  /\ last' = [last EXCEPT ![k][x[1]] = 0]
  /\ owed' = [p \in Presses |-> owed[p] \ {<<k, x>>}]
  /\ UNCHANGED <<target, press>>

(* An answer, an error, no credential, or withTimeout gives up waiting.     *)
PollEnds(k, x) ==
  /\ x \in cycle[k].busy
  /\ cycle' = [cycle EXCEPT ![k].busy = @ \ {x}]
  /\ UNCHANGED <<target, last, press, owed>>

After(k) == IF k = "topology" THEN "counters" ELSE "idle"

(* The batch is submitted, successfully or not, and the cycle is over.      *)
Submitted(k) ==
  /\ Running(k) /\ cycle[k].todo = {} /\ cycle[k].busy = {}
  /\ cycle' = [cycle EXCEPT ![k] = Off]
  /\ press' = [p \in Presses |-> IF p = cycle[k].by THEN After(k) ELSE press[p]]
  /\ UNCHANGED <<target, last, owed>>

-----------------------------------------------------------------------------
(* Poll now.                                                                *)
Pressed(p) ==
  /\ press[p] = "idle"
  /\ press' = [press EXCEPT ![p] = "config"]
  /\ owed' = [owed EXCEPT ![p] =
       {<<k, AsTarget(d)>> : k \in Cycles, d \in Assigned}
         \ {<<"counters", AsTarget(d)>> : d \in Devices \ Counted}]
  /\ UNCHANGED <<target, last, cycle>>

(* The assignment was read again (SetTargets), or could not be in time.     *)
ConfigRead(p) ==
  /\ press[p] = "config"
  /\ press' = [press EXCEPT ![p] = "topology"]
  /\ UNCHANGED <<target, last, cycle, owed>>

(* Mutant: a cycle in progress is as good as one of its own.                *)
PressJoins(p, k) ==
  /\ press[p] = k /\ cycle[k].by # p
  /\ IF Running(k) \/ Batch(k, TRUE) = {}
     THEN press' = [press EXCEPT ![p] = After(k)] /\ UNCHANGED cycle
     ELSE Begins(k, p, Batch(k, TRUE)) /\ UNCHANGED press
  /\ UNCHANGED <<target, last, owed>>

(* runCycle with force and waitIfRunning; with nothing to poll it is over.  *)
PressBegins(p, k) ==
  /\ WaitsFor(p, k) /\ ~Running(k)
  /\ IF Batch(k, TRUE) = {}
     THEN press' = [press EXCEPT ![p] = After(k)] /\ UNCHANGED cycle
     ELSE Begins(k, p, Batch(k, TRUE)) /\ UNCHANGED press
  /\ UNCHANGED <<target, last, owed>>

PollNext ==
  \/ \E next \in [Devices -> Hosts \cup {NoHost}] : SetTargets(next)
  \/ Ages
  \/ \E k \in Cycles :
       \/ TimerTicks(k) \/ Submitted(k)
       \/ \E x \in Devices \X Hosts : PollStarts(k, x) \/ PollEnds(k, x)
       \/ \E p \in Presses : PressBegins(p, k)
  \/ \E p \in Presses : Pressed(p) \/ ConfigRead(p)

(* Both timers keep firing, every poll ends within its timeout, every       *)
(* request and the bounded read of the assignment end.                      *)
PollFair ==
  /\ WF_pollVars(Ages)
  /\ \A k \in Cycles :
       /\ WF_pollVars(TimerTicks(k)) /\ WF_pollVars(Submitted(k))
       /\ \A x \in Devices \X Hosts :
            WF_pollVars(PollStarts(k, x)) /\ WF_pollVars(PollEnds(k, x))
       /\ \A p \in Presses : WF_pollVars(PressBegins(p, k))
  /\ \A p \in Presses : WF_pollVars(ConfigRead(p))

PollSpec == PollInit /\ [][PollNext]_pollVars /\ PollFair

-----------------------------------------------------------------------------
PollTypeOK ==
  /\ target \in [Devices -> Hosts \cup {NoHost}]
  /\ last \in [Cycles -> [Devices -> 0..Never]]
  /\ cycle \in [Cycles -> [by : {"none", "timer"} \cup Presses,
                           todo : SUBSET (Devices \X Hosts),
                           busy : SUBSET (Devices \X Hosts)]]
  /\ press \in [Presses -> {"idle", "config"} \cup Cycles]
  /\ owed \in [Presses -> SUBSET (Cycles \X (Devices \X Hosts))]

(* A pressed Poll now answers for every device: whatever was in progress    *)
(* when it was pressed, each device assigned then and not moved since has   *)
(* been polled again, by both cycles, when the answer goes out.             *)
PressedIsPolled ==
  [][\A p \in Presses :
       press[p] # "idle" /\ press'[p] = "idle" => owed'[p] = {}]_pollVars

(* Polling goes on: a device that stays assigned is polled again and again  *)
(* by each cycle that takes it, whatever fails and whatever is reassigned   *)
(* under a cycle in progress, and a pressed Poll now is answered.           *)
PollsGoOn ==
  /\ \A d \in Devices, k \in Cycles :
       (<>[](target[d] # NoHost) /\ Takes(k, d)) => []<>(last[k][d] = 0)
  /\ \A p \in Presses : (press[p] = "config") ~> (press[p] = "idle")

(* Polls are made when they are asked for, and when nobody asks.             *)
PollsKeepUp == []PollTypeOK /\ PressedIsPolled /\ PollsGoOn
=============================================================================
