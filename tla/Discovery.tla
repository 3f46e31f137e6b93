------------------------------ MODULE Discovery ------------------------------
(***************************************************************************)
(* One sweep of the networks the agent was asked to discover: src/discovery  *)
(* and runDiscoveryAndSubmit of src/runtime.js.  Several workers try the      *)
(* ports of one address; every one of them queues for a grant of the rate    *)
(* limiter before it connects.  A step runs from one await to the next.      *)
(*                                                                         *)
(* Not modelled: a second sweep, which has a limiter of its own; the name of  *)
(* an address beyond the grant it costs; what a probe sends.                 *)
(***************************************************************************)
EXTENDS Integers, Sequences

CONSTANTS
  NumHosts,          (* addresses the scope covers                           *)
  Caps,              (* how many a command may allow                         *)
  NumPorts,          (* the list of ports is 1..NumPorts                     *)
  Width,             (* portConcurrency                                      *)
  Gap,               (* intervalMs, in ticks                                 *)
  MaxClock           (* bound                                                *)

ASSUME DiscoveryAssumption ==
  /\ NumHosts \in Nat \ {0} /\ NumPorts \in Nat
  /\ Width \in Nat \ {0} /\ Gap \in Nat /\ MaxClock \in Nat

Sweeper == 0
Workers == 1..Width
Never == -1
Idle == [at |-> "done", port |-> 0]

VARIABLES
  clock, sweep, host,    (* where the sweep is, and at which address          *)
  next, worker, open,    (* next and open of sweepPorts, and its workers      *)
  echo,                  (* of this address: "none", "asked", "yes" or "no"   *)
  line, nextAt, wake,    (* grantChain; nextAt; when its head may go on       *)
  found,                 (* candidates                                       *)
  began, granted, last,  (* history: when the first slot was claimed, the     *)
                         (* grants given, and when the last two of them were  *)
  tried, heard           (* history: ports connected to, and those that answered *)

gate  == <<line, nextAt, wake>>
past  == <<began, granted, last, tried, heard>>
discoveryVars == <<clock, sweep, host, next, worker, open, echo, gate, found, past>>

DiscoveryInit ==
  /\ clock = 0 /\ sweep = "idle" /\ host = 1
  /\ next = 1 /\ worker = [w \in Workers |-> Idle] /\ open = {} /\ echo = "none"
  /\ line = <<>> /\ nextAt = Never /\ wake = Never
  /\ found = {}
  /\ began = Never /\ granted = 0 /\ last = <<Never, Never>>
  /\ tried = <<>> /\ heard = {}

Queue(who) == line' = Append(line, who) /\ UNCHANGED <<nextAt, wake>>

(* validateScope: more addresses than allowed are refused before one is asked *)
Asked ==
  /\ sweep = "idle"
  /\ \E cap \in Caps :
       IF NumHosts > cap THEN sweep' = "refused" /\ UNCHANGED gate
                         ELSE sweep' = "address" /\ Queue(Sweeper)
  /\ UNCHANGED <<clock, host, next, worker, open, echo, found, past>>

-----------------------------------------------------------------------------
(* The head of the line claims its slot before it sleeps.                    *)
(* Mutant: the next slot is reckoned from now instead of from the slot.      *)
FromNow(slot) == clock + Gap
NextSlot(slot) == slot + Gap

Claims ==
  /\ line # <<>> /\ wake = Never
  /\ wake' = IF nextAt > clock THEN nextAt ELSE clock
  /\ nextAt' = NextSlot(wake')
  /\ began' = IF began = Never THEN clock ELSE began
  /\ UNCHANGED <<clock, sweep, host, next, worker, open, echo, line, found>>
  /\ UNCHANGED <<granted, last, tried, heard>>

Granted(who) ==
  /\ line # <<>> /\ wake # Never /\ wake <= clock /\ Head(line) = who
  /\ wake' = Never /\ UNCHANGED nextAt
  /\ granted' = granted + 1 /\ last' = <<last[2], clock>>
  /\ UNCHANGED began

(* A worker takes the next port and queues for it, or is done.               *)
Took(w, ws) ==
  IF next <= NumPorts
  THEN /\ worker' = [ws EXCEPT ![w] = [at |-> "queued", port |-> next]]
       /\ next' = next + 1
       /\ line' = Append(line, w)
  ELSE /\ worker' = [ws EXCEPT ![w] = Idle]
       /\ UNCHANGED <<next, line>>

(* The address is asked for an echo while its ports are tried.  The workers  *)
(* start one after the other, each up to its first await.                    *)
Started == IF Width < NumPorts THEN Width ELSE NumPorts
AddressBegins ==
  /\ sweep = "address" /\ Granted(Sweeper)
  /\ sweep' = "ports" /\ echo' = "asked" /\ open' = {} /\ tried' = <<>> /\ heard' = {}
  /\ worker' = [w \in Workers |-> IF w <= Started THEN [at |-> "queued", port |-> w] ELSE Idle]
  /\ next' = Started + 1
  /\ line' = [i \in 1..Started |-> i]
  /\ UNCHANGED <<clock, host, found>>

EchoOver ==
  /\ echo = "asked" /\ echo' \in {"yes", "no"}
  /\ UNCHANGED <<clock, sweep, host, next, worker, open, gate, found, past>>

Connects(w) ==
  /\ worker[w].at = "queued" /\ Granted(w)
  /\ worker' = [worker EXCEPT ![w].at = "trying"]
  /\ tried' = Append(tried, worker[w].port)
  /\ line' = Tail(line)
  /\ UNCHANGED <<clock, sweep, host, next, open, echo, found, heard>>

(* Which port an outcome is of.                                             *)
OutcomeOf(w) == worker[w].port

(* The connect is over, by an answer, a refusal, its timeout or an error.    *)
ConnectOver(w) ==
  /\ worker[w].at = "trying"
  /\ \E yes \in BOOLEAN :
       /\ open' = IF yes THEN open \cup {OutcomeOf(w)} ELSE open
       /\ heard' = IF yes THEN heard \cup {worker[w].port} ELSE heard
  /\ Took(w, worker)
  /\ UNCHANGED <<clock, sweep, host, echo, nextAt, wake, found, began, granted, last, tried>>

(* The ports are tried and the echo is in.  An address that answered to      *)
(* neither is left out; the others cost one more grant, for their name.      *)
MovesOn ==
  IF host < NumHosts
  THEN host' = host + 1 /\ sweep' = "address" /\ line' = <<Sweeper>>
  ELSE sweep' = "over" /\ line' = <<>> /\ UNCHANGED host

AddressOver ==
  /\ sweep = "ports" /\ echo \in {"yes", "no"}
  /\ \A w \in Workers : worker[w].at = "done"
  /\ IF echo = "yes" \/ open # {}
     THEN sweep' = "naming" /\ line' = <<Sweeper>> /\ UNCHANGED host
     ELSE MovesOn
  /\ UNCHANGED <<clock, next, worker, open, echo, nextAt, wake, found, past>>

Named ==
  /\ sweep = "naming" /\ Granted(Sweeper)
  /\ found' = found \cup {[host |-> host, open |-> open]}
  /\ MovesOn
  /\ UNCHANGED <<clock, next, worker, open, echo, tried, heard>>

(* The sweep, or its refusal, is posted; either way the command is over.     *)
Posted ==
  /\ sweep \in {"over", "refused"} /\ sweep' = "posted"
  /\ UNCHANGED <<clock, host, next, worker, open, echo, gate, found, past>>

Ticks ==
  /\ clock < MaxClock /\ clock' = clock + 1
  /\ UNCHANGED <<sweep, host, next, worker, open, echo, gate, found, past>>

DiscoveryStep ==
  \/ Claims \/ AddressBegins \/ EchoOver \/ AddressOver \/ Named \/ Posted
  \/ \E w \in Workers : Connects(w) \/ ConnectOver(w)
DiscoveryNext == Asked \/ Ticks \/ DiscoveryStep
DiscoverySpec == DiscoveryInit /\ [][DiscoveryNext]_discoveryVars

-----------------------------------------------------------------------------
DiscoveryTypeOK ==
  /\ clock \in 0..MaxClock /\ host \in 1..NumHosts /\ next \in 1..NumPorts + 1
  /\ sweep \in {"idle", "refused", "address", "ports", "naming", "over", "posted"}
  /\ worker \in [Workers -> [at : {"done", "queued", "trying"}, port : 0..NumPorts]]
  /\ open \subseteq 1..NumPorts /\ echo \in {"none", "asked", "yes", "no"}
  /\ line \in Seq(0..Width) /\ nextAt \in Int /\ wake \in Int

(* However the connects of several workers come back, an address has its     *)
(* ports tried in the order of the list, each of them once and none left      *)
(* out, and what is reported open is what answered.                          *)
EveryPortOnce ==
  /\ \A i \in DOMAIN tried : tried[i] = i
  /\ open = heard
  /\ sweep = "naming" => Len(tried) = NumPorts

(* "Spacing grants evenly at ratePerSec": whoever waits for a grant, and      *)
(* however late a timer fires, a sweep never gets ahead of one probe per      *)
(* interval since it began, and after a stall no more than two probes leave   *)
(* within one interval.                                                      *)
SweepPaced ==
  [][granted' # granted =>
       /\ clock >= began + granted * Gap
       /\ last[1] # Never => clock >= last[1] + Gap]_discoveryVars

(* A sweep, as the network it goes through sees it.                          *)
SweepKept == [](DiscoveryTypeOK /\ EveryPortOnce) /\ SweepPaced
=============================================================================
