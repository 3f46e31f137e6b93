--------------------------- MODULE CommandDispatch ---------------------------
(***************************************************************************)
(* What becomes of a command once it may run: dispatchCommand of             *)
(* src/runtime.js and the wrapper around it, with the handlers that take     *)
(* their time there (a burst, an installation, the removal of the agent, and *)
(* those that wait for one thing and reply).                                *)
(*                                                                         *)
(* Commands are not queued: each is handled from its arrival on, beside the  *)
(* others.  A step is what the event loop does between two awaits.  An       *)
(* answer goes to the link as it is then, and is lost if that is down.       *)
(* Modelled elsewhere: whether a command may run (TrustAnchor), the update   *)
(* (SelfUpdate), what "Poll now" polls (SnmpPolling), what a removal does to *)
(* the exporter (LocalExporter).  Not modelled: the commands whose result is *)
(* posted and not answered (run-test, run-probe, speedtest, run-discovery),  *)
(* what a probe measures, the clamping of what a burst asks for.             *)
(***************************************************************************)
EXTENDS Naturals, FiniteSets

CONSTANTS
  Orders,          (* the commands the server sends                          *)
  KindOf,
  Total,           (* samples of a burst                                     *)
  Retries,         (* attempts at an installation                            *)
  MaxSent          (* bound: how many commands the server sends             *)

Kinds == {"ping", "diagnose", "evidence", "delete", "install", "burst", "stop",
          "transaction", "poll"}

ASSUME DispatchAssumption ==
  /\ KindOf \in [Orders -> Kinds]
  /\ Total \in Nat \ {0} /\ Retries \in Nat \ {0} /\ MaxSent \in Nat

VARIABLES
  linked,
  handler,  (* of each command: how far it is                                *)
  tries,    (* attempts at an installation                            *)
  running, cancelled,   (* the burst runner's flags                          *)
  sampled,  (* how many samples each burst has taken                         *)
  cutAt,    (* history: of a burst that was stopped, its samples then        *)
  owed      (* history: commands this connection has to answer               *)

burstVars == <<running, cancelled, sampled, cutAt>>
dispatchVars == <<linked, handler, tries, burstVars, owed>>

NotCut == Total + 1

DispatchInit ==
  /\ linked = TRUE
  /\ handler = [c \in Orders |-> "none"] /\ tries = [c \in Orders |-> 0]
  /\ running = FALSE /\ cancelled = FALSE
  /\ sampled = [c \in Orders |-> 0] /\ cutAt = [c \in Orders |-> NotCut]
  /\ owed = {}

To(c, stage) == handler' = [handler EXCEPT ![c] = stage]
Bursting == {c \in Orders : handler[c] \in {"sampling", "pausing"}}

(* The handler is over and has sent its answer.                              *)
HasAnswered(c) == To(c, "over") /\ owed' = owed \ {c}

-----------------------------------------------------------------------------
(* A command arrives.                                                       *)
Comes(c) ==
  /\ linked /\ handler[c] = "none"
  /\ Cardinality({d \in Orders : handler[d] # "none"}) < MaxSent
Owes(c) == owed' = owed \cup {c}

(* Refused, declined, or of a kind that is answered at once.                 *)
AnsweredAtOnce(c) ==
  /\ Comes(c) /\ KindOf[c] \in {"ping", "diagnose", "evidence", "delete", "install"}
  /\ HasAnswered(c)
  /\ UNCHANGED <<linked, tries, burstVars>>

Accepted(c) ==
  /\ Comes(c) /\ KindOf[c] \in {"evidence", "delete", "install", "transaction", "poll"}
  /\ To(c, IF KindOf[c] \in {"delete", "install"} THEN KindOf[c] ELSE "works")
  /\ Owes(c)
  /\ UNCHANGED <<linked, tries, burstVars>>

(* One burst at a time: a second is refused, not queued.                     *)
(* Mutant: it runs beside the first.                                        *)
Always == TRUE
MayBurst == ~running

BurstBegins(c) ==
  /\ Comes(c) /\ KindOf[c] = "burst" /\ MayBurst
  /\ running' = TRUE /\ cancelled' = FALSE
  /\ To(c, "sampling") /\ Owes(c)
  /\ UNCHANGED <<linked, tries, sampled, cutAt>>

BurstRefused(c) ==
  /\ Comes(c) /\ KindOf[c] = "burst" /\ ~MayBurst
  /\ HasAnswered(c)
  /\ UNCHANGED <<linked, tries, burstVars>>

(* The answer says whether there was one to stop.                            *)
StopArrives(c) ==
  /\ Comes(c) /\ KindOf[c] = "stop"
  /\ cancelled' = (cancelled \/ running)
  /\ cutAt' = [b \in Orders |-> IF b \in Bursting THEN sampled[b] ELSE cutAt[b]]
  /\ HasAnswered(c)
  /\ UNCHANGED <<linked, tries, running, sampled>>

-----------------------------------------------------------------------------
BurstOver(c) ==
  /\ HasAnswered(c)
  /\ running' = FALSE /\ cancelled' = FALSE

(* The probe of a tick has settled; it never fails, only loses its sample.   *)
Samples(c) ==
  /\ handler[c] = "sampling"
  /\ sampled' = [sampled EXCEPT ![c] = @ + 1]
  /\ IF sampled'[c] = Total \/ cancelled
     THEN BurstOver(c)
     ELSE To(c, "pausing") /\ UNCHANGED <<running, cancelled, owed>>
  /\ UNCHANGED <<linked, tries, cutAt>>

NextTick(c) ==
  /\ handler[c] = "pausing"
  /\ IF cancelled THEN BurstOver(c)
     ELSE To(c, "sampling") /\ UNCHANGED <<running, cancelled, owed>>
  /\ UNCHANGED <<linked, tries, sampled, cutAt>>

(* An attempt to install succeeds, fails for good, or finds the package      *)
(* database locked, which is tried again.                                   *)
Installs(c) ==
  /\ handler[c] = "install"
  /\ tries' = [tries EXCEPT ![c] = @ + 1]
  /\ \/ HasAnswered(c)
     \/ tries'[c] < Retries /\ UNCHANGED <<handler, owed>>
  /\ UNCHANGED <<linked, burstVars>>

(* The exporter is stopped, then the token is wiped, the answer sent and the *)
(* removal started (one that cannot be started is answered too).             *)
Deletes(c) ==
  /\ handler[c] = "delete"
  /\ To(c, "leaves") /\ owed' = owed \ {c}
  /\ UNCHANGED <<linked, tries, burstVars>>

Works(c) ==
  /\ handler[c] = "works" /\ HasAnswered(c)
  /\ UNCHANGED <<linked, tries, burstVars>>

(* What a handler throws ends in the wrapper.                                *)
(* Mutant: it is logged and nothing more.                                   *)
Logged(c) == To(c, "over") /\ UNCHANGED owed
Caught(c) == HasAnswered(c)
Throws(c) ==
  /\ handler[c] = "works" /\ Caught(c)
  /\ UNCHANGED <<linked, tries, burstVars>>

LinkDrops ==
  /\ linked /\ linked' = FALSE /\ owed' = {}
  /\ UNCHANGED <<handler, tries, burstVars>>
LinkBack ==
  /\ ~linked /\ linked' = TRUE
  /\ UNCHANGED <<handler, tries, burstVars, owed>>

(* The process ends: removed, restarted or stopped.                          *)
AgentEnds ==
  /\ linked' = FALSE /\ owed' = {}
  /\ handler' = [c \in Orders |-> IF handler[c] = "none" THEN "none" ELSE "over"]
  /\ running' = FALSE /\ cancelled' = FALSE
  /\ cutAt' = [b \in Orders |-> IF b \in Bursting THEN sampled[b] ELSE cutAt[b]]
  /\ UNCHANGED <<tries, sampled>>

HandlerStep(c) ==
  Samples(c) \/ NextTick(c) \/ Installs(c) \/ Deletes(c) \/ Works(c) \/ Throws(c)

DispatchNext ==
  \/ \E c \in Orders :
       \/ AnsweredAtOnce(c) \/ Accepted(c) \/ BurstBegins(c) \/ BurstRefused(c)
       \/ StopArrives(c) \/ HandlerStep(c)
  \/ LinkDrops \/ LinkBack \/ AgentEnds

(* What a handler waits for settles: every probe, command and poll of its    *)
(* own has a timeout.                                                       *)
DispatchFair == \A c \in Orders : WF_dispatchVars(HandlerStep(c))
DispatchSpec == DispatchInit /\ [][DispatchNext]_dispatchVars /\ DispatchFair

-----------------------------------------------------------------------------
DispatchTypeOK ==
  /\ linked \in BOOLEAN /\ running \in BOOLEAN /\ cancelled \in BOOLEAN
  /\ handler \in [Orders -> {"none", "sampling", "pausing", "install", "delete",
                             "leaves", "works", "over"}]
  /\ tries \in [Orders -> 0..Retries] /\ sampled \in [Orders -> 0..Total]
  /\ cutAt \in [Orders -> 0..NotCut] /\ owed \subseteq Orders

(* A burst is a packet generator: there is one at a time; a stop that found  *)
(* it running lets it send at most the sample that was under way; and a stop *)
(* ends no burst but the one it met, so that one nobody stopped is complete. *)
StopStops ==
  /\ DispatchTypeOK
  /\ Cardinality(Bursting) <= 1
  /\ \A c \in Orders :
       /\ cutAt[c] # NotCut => sampled[c] <= cutAt[c] + 1
       /\ sampled[c] > 0 /\ handler[c] = "over" /\ cutAt[c] = NotCut => sampled[c] = Total

(* "a failed action instead of a request that silently never completed": what *)
(* was accepted over a connection is answered, whatever its handler does, as *)
(* long as that connection and the process last.  (MaxSent commands come, so *)
(* that the last of them is answered says that each is.)                     *)
AllAnswered == (owed # {}) ~> (owed = {})
=============================================================================
