---------------------------- MODULE HeaderCapture ----------------------------
(***************************************************************************)
(* The header capture around a transaction run (src/capture/index.js):      *)
(* start() with its awaits, the wait until tcpdump listens, the session and *)
(* its stop(), cancel(), and the tcpdump processes themselves.              *)
(*                                                                          *)
(* A lane is a run that may ask for a capture; each asks for at most one at *)
(* a time.  Not modelled: the filter, the packets and their decoding, the   *)
(* lengths of READY_TIMEOUT_MS, STOP_GRACE_MS and the run deadline (each    *)
(* may be over at any time).                                                *)
(***************************************************************************)
CONSTANTS Lanes, NoLane

VARIABLES
  stage,      (* how far the capture of each lane has come                    *)
  tcpdump,    (* its process: running, told to end by a SIGTERM, or gone      *)
  active,     (* the lane whose session `active` is                            *)
  cancelling  (* the lane whose session cancel() is stopping                   *)

vars == <<stage, tcpdump, active, cancelling>>

Stages    == {"idle", "resolving", "opening", "live", "stopping"}
Processes == {"none", "alive", "termed"}

Init ==
  /\ stage = [l \in Lanes |-> "idle"]
  /\ tcpdump = [l \in Lanes |-> "none"]
  /\ active = NoLane
  /\ cancelling = NoLane

Moves(l, to) == stage' = [stage EXCEPT ![l] = to]

Termed(p) == IF p = "alive" THEN "termed" ELSE p
Killed == "none"   (* nothing survives a SIGKILL                               *)

(* start() up to its first await; a second capture is refused.              *)
Begins(l) ==
  /\ stage[l] = "idle" /\ active = NoLane
  /\ Moves(l, "resolving")
  /\ UNCHANGED <<tcpdump, active, cancelling>>

Refused(l) ==
  /\ stage[l] = "idle" /\ active # NoLane
  /\ UNCHANGED vars

(* No target, no address, no filter, or tcpdump cannot be spawned.          *)
Unresolved(l) ==
  /\ stage[l] = "resolving"
  /\ Moves(l, "idle")
  /\ UNCHANGED <<tcpdump, active, cancelling>>

Spawns(l) ==
  /\ stage[l] = "resolving"
  /\ Moves(l, "opening")
  /\ tcpdump' = [tcpdump EXCEPT ![l] = "alive"]
  /\ UNCHANGED <<active, cancelling>>

(* The header is on stdout: the capture is live, whoever else is active.     *)
Ready(l) ==
  /\ stage[l] = "opening"
  /\ Moves(l, "live")
  /\ active' = l
  /\ UNCHANGED <<tcpdump, cancelling>>

(* tcpdump exited, or did not listen in time: SIGKILL.                      *)
NotReady(l) ==
  /\ stage[l] = "opening"
  /\ Moves(l, "idle")
  /\ tcpdump' = [tcpdump EXCEPT ![l] = Killed]
  /\ UNCHANGED <<active, cancelling>>

(* A limit of tcpdump's own, an error, or a signal obeyed.                  *)
Exits(l) ==
  /\ tcpdump[l] # "none"
  /\ tcpdump' = [tcpdump EXCEPT ![l] = "none"]
  /\ UNCHANGED <<stage, active, cancelling>>

(* The backstop for a run that hangs.                                       *)
DeadlineFires(l) ==
  /\ stage[l] = "live"
  /\ tcpdump' = [tcpdump EXCEPT ![l] = Termed(@)]
  /\ UNCHANGED <<stage, active, cancelling>>

(* if (active === session) active = null                                    *)
NoLonger(l) == IF active = l THEN NoLane ELSE active

(* session.stop() up to its await.                                          *)
StopBegins(l) ==
  /\ stage[l] = "live"
  /\ Moves(l, "stopping")
  /\ active' = NoLonger(l)
  /\ tcpdump' = [tcpdump EXCEPT ![l] = Termed(@)]
  /\ UNCHANGED cancelling

(* Mutant: a tcpdump deaf to SIGTERM is left to itself.                     *)
AfterSignal(p) == p

(* The process is gone, or STOP_GRACE_MS is over: SIGKILL.                  *)
AfterGrace(p) == Killed

StopEnds(l) ==
  /\ stage[l] = "stopping"
  /\ Moves(l, "idle")
  /\ tcpdump' = [tcpdump EXCEPT ![l] = AfterGrace(@)]
  /\ UNCHANGED <<active, cancelling>>

(* cancel(): stops the active session under the feet of its run, and writes *)
(* `active` once more after the await.                                      *)
CancelBegins ==
  IF active = NoLane
  THEN UNCHANGED vars
  ELSE /\ cancelling' = active
       /\ active' = NoLane
       /\ tcpdump' = [tcpdump EXCEPT ![active] = Termed(@)]
       /\ UNCHANGED stage

CancelEnds ==
  /\ cancelling # NoLane
  /\ tcpdump' = [tcpdump EXCEPT ![cancelling] = AfterGrace(@)]
  /\ cancelling' = NoLane
  /\ active' = NoLane
  /\ UNCHANGED stage

-----------------------------------------------------------------------------
TypeOK ==
  /\ stage \in [Lanes -> Stages]
  /\ tcpdump \in [Lanes -> Processes]
  /\ active \in Lanes \cup {NoLane}
  /\ cancelling \in Lanes \cup {NoLane}
=============================================================================
