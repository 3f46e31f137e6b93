---------------------------- MODULE LocalExporter ----------------------------
(***************************************************************************)
(* The Host sFlow daemon the agent keeps on its own host: installed, set up, *)
(* started and stopped as the server's configuration says                   *)
(* (src/sflow/hsflowd.js; reconcileHsflowd and the deletion in               *)
(* src/runtime.js).                                                        *)
(*                                                                         *)
(* One command of the operating system is one step: between two of them the  *)
(* agent may die, the host may reboot and the deletion of the agent may run. *)
(* Configurations are applied one at a time (configChain), so there is at    *)
(* most one reconciliation; the deletion is not in that chain.               *)
(*                                                                         *)
(* A configuration file is named by the wish it was rendered from; which     *)
(* interface it samples is part of the wish.  Linux with systemd, not in a   *)
(* container: elsewhere every operation reports and does nothing.            *)
(***************************************************************************)
EXTENDS Naturals

CONSTANTS
  Wishes, NoWish,   (* what sflowExporterOptions makes of a configuration    *)
  InstallRetries,   (* installRetries                                        *)
  ExporterMishaps   (* "denied", "fails", "crash", "reboot", "delete"        *)

(* A file that is not the agent's: none, an operator's, one cut off before   *)
(* its first line.                                                          *)
Foreign == {"none", "operator", "torn"}
Stopped == "stopped"

(* A process that has not applied a configuration yet.                       *)
Unread == "unread"

ASSUME ExporterAssumption ==
  /\ NoWish \notin Wishes /\ InstallRetries \in Nat \ {0}
  /\ (Wishes \cup {NoWish}) \cap (Foreign \cup {Stopped, Unread}) = {}

(* Where a reconciliation can be, in the order of the code.                  *)
Builds == {"apt", "clone", "make", "installed"}
Points == {"idle", "look", "write", "writing", "check", "enable", "start",
           "observe", "stop"} \cup Builds

VARIABLES
  wish,       (* what the configuration in force asks for                    *)
  conf,       (* /etc/hsflowd.conf                                           *)
  installed, enabled,   (* the daemon; its unit                              *)
  runs,       (* the configuration the running daemon read, or Stopped       *)
  flag,       (* hsflowdManaged                                              *)
  job,        (* [at, for, round]: the reconciliation in progress            *)
  reported,   (* lastHsflowdState, with the wish it was the answer to        *)
  missed,     (* history: the daemon may still run what was read before the  *)
              (* file was last changed, because the restart did not happen   *)
  deletion    (* "none", "asked", "over": of the agent                       *)

exporterVars == <<wish, conf, installed, enabled, runs, flag, job, reported,
                  missed, deletion>>

Idle == [at |-> "idle", for |-> NoWish, round |-> 0]
Unreported == [state |-> "unknown", for |-> NoWish]

(* isManaged: the marker in the first line.                                  *)
IsManaged == conf \in Wishes

Managed == flag \/ IsManaged

ExporterInit ==
  /\ wish = Unread /\ flag = FALSE /\ job = Idle /\ reported = Unreported
  /\ missed = FALSE /\ deletion = "none"
  /\ \/ installed = FALSE /\ conf = "none" /\ enabled = FALSE /\ runs = Stopped
     \/ installed = TRUE /\ conf = "operator" /\ enabled = TRUE /\ runs = "operator"

Does(mishap) == mishap \in ExporterMishaps

-----------------------------------------------------------------------------
At(point) == job.at = point
Goes(point) == job' = [job EXCEPT !.at = point, !.round = 0]

(* The end of a reconciliation: what enable or disable answered is kept and  *)
(* sent, and the flag says whether the agent manages the daemon.             *)
Reports(state) ==
  /\ reported' = [state |-> state, for |-> job.for]
  /\ flag' = (job.for # NoWish)
  /\ job' = Idle

host == <<conf, installed, enabled, runs, missed>>
agent == <<flag, reported>>
rest == <<wish, deletion>>

(* A configuration is applied (at the start, on every reconnection, or when  *)
(* it changed) and reconcileHsflowd begins.                                  *)
Reconciles(w) ==
  /\ At("idle") /\ deletion # "over"
  /\ wish' = w
  /\ job' = IF w # NoWish \/ Managed THEN [at |-> "look", for |-> w, round |-> 0]
            ELSE Idle
  /\ UNCHANGED <<agent, host, deletion>>

(* isInstalled, of enable and of disable.                                    *)
Looks ==
  /\ At("look")
  /\ \/ installed /\ Goes(IF job.for = NoWish THEN "stop" ELSE "write")
        /\ UNCHANGED agent
     \/ ~installed /\ job.for = NoWish /\ Reports("not_installed")
     \/ ~installed /\ job.for # NoWish /\ Goes("apt") /\ UNCHANGED agent
  /\ UNCHANGED <<host, rest>>

(* aptInstall retries while another holds the lock, and gives up on anything *)
(* else; the clone and the three runs of make are not retried.               *)
AptLocked ==
  /\ At("apt") /\ job.round < InstallRetries - 1
  /\ job' = [job EXCEPT !.round = @ + 1]
  /\ UNCHANGED <<agent, host, rest>>
BuildStep ==
  /\ job.at \in {"apt", "clone", "make"}
  /\ \/ At("apt") /\ Goes("clone") /\ UNCHANGED installed
     \/ At("clone") /\ Goes("make") /\ UNCHANGED installed
     \/ At("make") /\ job.round < 2 /\ job' = [job EXCEPT !.round = @ + 1]
        /\ installed' = (installed \/ job.round = 1)
     \/ At("make") /\ job.round = 2 /\ Goes("installed") /\ UNCHANGED installed
  /\ UNCHANGED <<agent, conf, enabled, runs, missed, rest>>
BuildFails ==
  /\ job.at \in {"apt", "clone", "make"}
  /\ \/ Does("fails") /\ Reports("install_failed")
     \/ Does("denied") /\ Reports("permission_denied")
  /\ UNCHANGED <<host, rest>>
Installed ==
  /\ At("installed")
  /\ IF installed THEN Goes("write") /\ UNCHANGED agent
     ELSE Reports("install_failed")
  /\ UNCHANGED <<host, rest>>

(* The file is replaced in place if it is not what is wished: truncated,     *)
(* then written.  A daemon that runs still has what it read before.          *)
Compares ==
  /\ At("write")
  /\ IF conf = job.for
     THEN Goes("check") /\ UNCHANGED <<conf, missed>>
     ELSE /\ Goes("writing") /\ conf' = "torn"
          /\ missed' = (runs # Stopped)
  /\ UNCHANGED <<agent, installed, enabled, runs, rest>>
WriteRefused ==
  /\ At("write") /\ conf # job.for
  /\ \/ Does("denied") /\ Reports("permission_denied")
     \/ Does("fails") /\ Reports("failed")
  /\ UNCHANGED <<host, rest>>
Writes ==
  /\ At("writing")
  /\ conf' = job.for
  /\ job' = [job EXCEPT !.at = "enable", !.round = 1]
  /\ UNCHANGED <<agent, installed, enabled, runs, missed, rest>>

(* The file is as wished: an active daemon is left alone.                    *)
Checks ==
  /\ At("check")
  /\ IF runs # Stopped THEN Reports("active") ELSE Goes("enable") /\ UNCHANGED agent
  /\ UNCHANGED <<host, rest>>

(* systemctl enable: only a denial ends the attempt.                         *)
Enables ==
  /\ At("enable")
  /\ \/ /\ job' = [job EXCEPT !.at = "start"]
        /\ enabled' \in IF Does("fails") THEN {TRUE, enabled} ELSE {TRUE}
        /\ UNCHANGED agent
     \/ Does("denied") /\ Reports("permission_denied") /\ UNCHANGED enabled
  /\ UNCHANGED <<conf, installed, runs, missed, rest>>

(* Mutant: a changed file is left to `start`.                                *)
StartsOnly == "start"
(* job.round is 1 if the file was changed by this attempt.                   *)
Action == IF job.round = 1 THEN "restart" ELSE "start"

(* systemctl restart or start; `start` leaves a running daemon as it is.     *)
Starts ==
  /\ At("start")
  /\ \/ /\ runs' = IF Action = "start" /\ runs # Stopped THEN runs ELSE conf
        /\ missed' = (missed /\ job.round = 0 /\ runs # Stopped)
        /\ Goes("observe") /\ UNCHANGED agent
     \/ Does("fails") /\ Goes("observe") /\ UNCHANGED <<runs, missed, agent>>
     \/ Does("denied") /\ Reports("permission_denied") /\ UNCHANGED <<runs, missed>>
  /\ UNCHANGED <<conf, installed, enabled, rest>>

(* systemctl disable --now, of the reconciliation.                           *)
StopsUnit == runs' = Stopped /\ enabled' = FALSE /\ missed' = FALSE
Stops ==
  /\ At("stop")
  /\ \/ StopsUnit /\ Goes("observe") /\ UNCHANGED agent
     \/ Does("fails") /\ Goes("observe")
        /\ UNCHANGED <<runs, enabled, missed, agent>>
     \/ Does("denied") /\ Reports("permission_denied")
        /\ UNCHANGED <<runs, enabled, missed>>
  /\ UNCHANGED <<conf, installed, rest>>

(* activeState.                                                              *)
Observes ==
  /\ At("observe")
  /\ Reports(IF runs = Stopped THEN "inactive" ELSE "active")
  /\ UNCHANGED <<host, rest>>

-----------------------------------------------------------------------------
(* The agent is deleted: what it manages is stopped first, whatever a        *)
(* reconciliation is doing; then it is gone.                                 *)
DeleteAsked ==
  /\ Does("delete") /\ deletion = "none"
  /\ deletion' = "asked"
  /\ UNCHANGED <<wish, host, agent, job>>
DeleteStops ==
  /\ deletion = "asked"
  /\ deletion' = "over"
  /\ IF Managed /\ installed
     THEN /\ \/ StopsUnit
             \/ (Does("denied") \/ Does("fails")) /\ UNCHANGED <<runs, enabled, missed>>
          /\ flag' = FALSE
     ELSE UNCHANGED <<runs, enabled, missed, flag>>
  /\ UNCHANGED <<wish, conf, installed, reported, job>>

(* The agent dies, alone or with its host; the flag and the attempt are lost. *)
AgentDies ==
  /\ Does("crash")
  /\ job' = Idle /\ flag' = FALSE /\ reported' = Unreported
  /\ wish' = Unread
  /\ UNCHANGED <<host, deletion>>
HostReboots ==
  /\ Does("reboot")
  /\ job' = Idle /\ flag' = FALSE /\ reported' = Unreported /\ wish' = Unread
  /\ runs' = IF enabled /\ conf \notin {"none", "torn"} THEN conf ELSE Stopped
  /\ missed' = FALSE
  /\ UNCHANGED <<conf, installed, enabled, deletion>>

ExporterNext ==
  \/ \E w \in Wishes \cup {NoWish} : Reconciles(w)
  \/ Looks \/ AptLocked \/ BuildStep \/ BuildFails \/ Installed
  \/ Compares \/ WriteRefused \/ Writes \/ Checks \/ Enables \/ Starts
  \/ Stops \/ Observes
  \/ DeleteAsked \/ DeleteStops \/ AgentDies \/ HostReboots

ExporterSpec == ExporterInit /\ [][ExporterNext]_exporterVars

-----------------------------------------------------------------------------
ExporterTypeOK ==
  /\ wish \in Wishes \cup {NoWish, Unread} /\ conf \in Wishes \cup Foreign
  /\ runs \in Wishes \cup Foreign \cup {Stopped}
  /\ installed \in BOOLEAN /\ enabled \in BOOLEAN /\ flag \in BOOLEAN
  /\ missed \in BOOLEAN /\ deletion \in {"none", "asked", "over"}
  /\ job.at \in Points /\ job.for \in Wishes \cup {NoWish}
  /\ job.round \in 0..InstallRetries \cup 0..2
  /\ reported.for \in Wishes \cup {NoWish}

(* "Converge hsflowd to enabled+running with the given collector/sampling    *)
(* config": an attempt that reports active leaves the daemon running what    *)
(* was wished, unless a restart after an earlier change of the file was       *)
(* refused, failed or cut short, or the deletion came in between.            *)
ExporterAsWished ==
  At("idle") /\ reported.state = "active" /\ reported.for # NoWish
    /\ ~missed /\ deletion # "over" => runs = reported.for

(* "... so the exporter doesn't end up orphaned": once a configuration that   *)
(* wishes for nothing has been applied, in this process or in a later one,   *)
(* no file of the agent's making is being served, unless the answer said so  *)
(* (the stop was refused or failed) or a death while the file was being      *)
(* rewritten took the marker away.                                           *)
NothingOrphaned ==
  At("idle") /\ wish = NoWish /\ runs \in Wishes /\ deletion # "over"
    => \/ conf = "torn"
       \/ reported.for = NoWish /\ reported.state \in {"active", "permission_denied"}

(* The daemon that runs is the one wished for, and none when none is.        *)
ExporterKept == ExporterTypeOK /\ ExporterAsWished /\ NothingOrphaned
=============================================================================
