---------------------------- MODULE AgentRuntime ----------------------------
(***************************************************************************)
(* The runtime (src/runtime.js) around its live channel: the bootstrap, the *)
(* timers it arms, the pause on a 401 and the way back, the terminal state, *)
(* and the config loads that change the reporting cadence and the local     *)
(* sFlow exporter.                                                          *)
(*                                                                          *)
(* The channel is the one LiveChannel promises (AgentLink implements it);   *)
(* the server is whoever accepts or refuses the token and holds the         *)
(* assigned configuration.  A REST call is served when the server looks at  *)
(* it and answered later, so an answer may be old when it arrives.          *)
(*                                                                          *)
(* Not modelled: what is measured, the SNMP targets in the same config body, *)
(* the spool (ResultSpool), runtime.stop(), which the program follows by    *)
(* ending the process.                                                      *)
(***************************************************************************)
EXTENDS Naturals, Sequences

CONSTANTS
  Configs,       (* the configurations the server may assign                 *)
  Interval,      (* the reporting interval each asks for; 0 is none          *)
  WantsExporter, (* the configurations with a local sFlow exporter           *)
  DefaultConfig, (* monitorConfig before the first load                      *)
  AuthRetry,     (* config.authRetryMs > 0                                   *)
  Probes,        (* config.probeIntervalMs > 0                               *)
  HangsUp,       (* the server closes the channel of a token it revokes      *)
  MaxCalls,      (* bound: REST calls in flight, config loads apart          *)
  MaxLoads       (* bound: config loads, the bootstrap's own apart           *)

ASSUME RuntimeAssumption ==
  /\ DefaultConfig \in Configs
  /\ Interval \in [Configs -> Nat]
  /\ WantsExporter \subseteq Configs /\ DefaultConfig \notin WantsExporter
  /\ AuthRetry \in BOOLEAN /\ Probes \in BOOLEAN /\ HangsUp \in BOOLEAN
  /\ MaxCalls \in Nat \ {0} /\ MaxLoads \in Nat \ {0}

VARIABLES
  chan, refused,   (* the live channel                                       *)
  token,           (* the server accepts this agent's token                  *)
  assigned,        (* the configuration the server assigns                   *)
  boot,            (* where start()'s bootstrap is waiting                   *)
  fatal, authPaused, reportingStarted,
  report,          (* the interval reportTimer was armed with, 0 if null     *)
  capsTimer, refreshTimer, probeTimer,
  monitorConfig,   (* its sampler is the running one                         *)
  appliedKey,      (* appliedMonitorKey: <<>> or <<config>>                  *)
  exporter,        (* the hsflowd manager was last told to run the exporter  *)
  calls,           (* oldest first: kind, phase, and whether the live timer's *)
                   (* `running` flag is waiting for it                       *)
  loads            (* configChain: the load running, then those waiting      *)

server  == <<token, assigned>>
channel == <<chan, refused>>
flags   == <<fatal, authPaused, reportingStarted>>
timers  == <<report, capsTimer, refreshTimer, probeTimer>>
applied == <<monitorConfig, appliedKey, exporter>>
vars == <<channel, server, boot, flags, timers, applied, calls, loads>>

Live == INSTANCE LiveChannel

Phases == {"sent", "ok", "refused", "failed"}
Kinds  == {"boot", "caps", "report", "probe"}
Load(force, by) == [force |-> force, by |-> by, phase |-> "sent",
                    answer |-> DefaultConfig]

Init ==
  /\ Live!Init
  /\ token \in BOOLEAN /\ assigned \in Configs
  /\ boot = "off"
  /\ fatal = FALSE /\ authPaused = FALSE /\ reportingStarted = FALSE
  /\ report = 0
  /\ capsTimer = FALSE /\ refreshTimer = FALSE /\ probeTimer = FALSE
  /\ monitorConfig = DefaultConfig /\ appliedKey = <<>>
  /\ exporter \in BOOLEAN   (* a previous process may have left it running   *)
  /\ calls = <<>>
  /\ loads = <<>>

-----------------------------------------------------------------------------
(* The timers.  Arming one again forgets the `running` flag of the old one. *)

Busy(kind) == \E i \in DOMAIN calls : calls[i].kind = kind /\ calls[i].mine

Forget(cs, kind) ==
  [i \in DOMAIN cs |-> IF cs[i].kind = kind THEN [cs[i] EXCEPT !.mine = FALSE]
                                            ELSE cs[i]]

(* A call is sent; one beyond the bound is not followed.                    *)
Sent(cs, kind, mine) ==
  IF Len(cs) < MaxCalls
  THEN Append(cs, [kind |-> kind, phase |-> "sent", mine |-> mine])
  ELSE cs

Without(q, i) ==
  [j \in 1..(Len(q) - 1) |-> IF j < i THEN q[j] ELSE q[j + 1]]

(* loadServerConfig: appended to the chain; one beyond the bound is dropped  *)
(* (its load would repeat the one before it).                               *)
Enqueued(ls, force, by) ==
  IF Len(ls) < MaxLoads THEN Append(ls, Load(force, by)) ELSE ls

(* The refresh timer's `running` flag waits for a load marked "tick".       *)
ForgetTick(ls) ==
  [i \in DOMAIN ls |-> IF ls[i].by = "tick" THEN [ls[i] EXCEPT !.by = "open"]
                                            ELSE ls[i]]

(* startReporting: a configuration without an interval arms nothing.        *)
Cadence(c) == IF Interval[c] = 0 THEN report ELSE Interval[c]

(* What stopReporting, stopCapabilitiesReporting and stopConfigRefresh do.  *)
StopTimers ==
  report' = 0 /\ capsTimer' = FALSE /\ refreshTimer' = FALSE
  /\ UNCHANGED probeTimer

-----------------------------------------------------------------------------
(* 401: the pause, the way back, and the terminal state.                    *)

HandleFatal ==
  IF fatal
  THEN UNCHANGED <<fatal, authPaused, timers, chan>>
  ELSE /\ fatal' = TRUE
       /\ StopTimers
       /\ chan' = "halted"
       /\ UNCHANGED authPaused

Pauses ==
  IF fatal \/ authPaused
  THEN UNCHANGED <<fatal, authPaused, timers, chan>>
  ELSE /\ authPaused' = TRUE
       /\ StopTimers
       /\ UNCHANGED <<fatal, chan>>

HandleTokenRejected == IF AuthRetry THEN Pauses ELSE HandleFatal

(* Mutant of the way back: only the reporting is put back.                  *)
ResumesReports ==
  IF ~authPaused \/ fatal
  THEN UNCHANGED <<authPaused, timers>>
  ELSE /\ authPaused' = FALSE
       /\ report' = IF reportingStarted THEN Cadence(monitorConfig) ELSE report
       /\ UNCHANGED <<capsTimer, refreshTimer, probeTimer>>

(* resumeAfterAuth: everything the pause stopped is put back.               *)
ResumeAfterAuth ==
  IF ~authPaused \/ fatal
  THEN UNCHANGED <<authPaused, timers>>
  ELSE /\ authPaused' = FALSE
       /\ capsTimer' = TRUE /\ refreshTimer' = TRUE
       /\ report' = IF reportingStarted THEN Cadence(monitorConfig) ELSE report
       /\ UNCHANGED probeTimer

-----------------------------------------------------------------------------
(* The bootstrap.                                                           *)

(* start(): the channel starts dialling and capabilities are reported.      *)
Start ==
  /\ boot = "off"
  /\ boot' = "caps"
  /\ calls' = Sent(calls, "boot", FALSE)
  /\ UNCHANGED <<channel, server, flags, timers, applied, loads>>

(* `await reportCapabilities()` is over: the config load is next.           *)
CapsReported ==
  IF fatal' THEN boot' = "over" /\ UNCHANGED loads
  ELSE boot' = "config" /\ loads' = Append(loads, Load(TRUE, "boot"))

(* `await loadServerConfig()` is over: startReporting, startScheduledProbes. *)
ReportingStarts ==
  /\ reportingStarted' = TRUE
  /\ report' = Cadence(monitorConfig)
  /\ probeTimer' = Probes

(* Mutant: the bootstrap leaves the config refresh to the reconnects.       *)
BootEndsUnrefreshed ==
  /\ boot = "binding"
  /\ boot' = "over"
  /\ capsTimer' = ~fatal
  /\ UNCHANGED <<channel, server, flags, report, refreshTimer, probeTimer,
                 applied, calls, loads>>

(* The receivers are bound: the rest of the timers.                         *)
BootEnds ==
  /\ boot = "binding"
  /\ boot' = "over"
  /\ IF fatal THEN UNCHANGED <<capsTimer, refreshTimer>>
              ELSE capsTimer' = TRUE /\ refreshTimer' = TRUE
  /\ calls' = IF fatal THEN calls ELSE Forget(calls, "caps")
  /\ loads' = IF fatal THEN loads ELSE ForgetTick(loads)
  /\ UNCHANGED <<channel, server, flags, report, probeTimer, applied>>

-----------------------------------------------------------------------------
(* The ticks.                                                               *)

Tick(kind) ==
  /\ ~fatal /\ ~Busy(kind) /\ Len(calls) < MaxCalls
  /\ calls' = Sent(calls, kind, TRUE)
  /\ UNCHANGED <<channel, server, boot, flags, timers, applied, loads>>

ReportTick == report # 0 /\ Tick("report")
ProbeTick  == probeTimer /\ Tick("probe")
CapsTick   == capsTimer /\ chan = "open" /\ Tick("caps")

RefreshTick ==
  /\ refreshTimer /\ ~fatal /\ chan = "open"
  /\ \A i \in DOMAIN loads : loads[i].by # "tick"
  /\ Len(loads) < MaxLoads   (* bound                                        *)
  /\ loads' = Enqueued(loads, FALSE, "tick")
  /\ UNCHANGED <<channel, server, boot, flags, timers, applied, calls>>

-----------------------------------------------------------------------------
(* REST calls.                                                              *)

(* The server looks at a call, or it fails on the way: to the caller only a  *)
(* 401 is different.                                                        *)
CallServed(i) ==
  /\ i \in DOMAIN calls /\ calls[i].phase = "sent"
  /\ \E p \in {"ok", IF token THEN "ok" ELSE "refused"} :
       calls' = [calls EXCEPT ![i].phase = p]
  /\ UNCHANGED <<channel, server, boot, flags, timers, applied, loads>>

(* The answer reaches its caller.  The bootstrap goes on after its own.     *)
CallAnswered(i) ==
  /\ i \in DOMAIN calls /\ calls[i].phase # "sent"
  /\ calls' = Without(calls, i)
  /\ IF calls[i].phase = "refused"
     THEN HandleTokenRejected
     ELSE UNCHANGED <<fatal, authPaused, timers, chan>>
  /\ IF calls[i].kind = "boot" THEN CapsReported
                               ELSE UNCHANGED <<boot, loads>>
  /\ UNCHANGED <<refused, server, reportingStarted, applied>>

-----------------------------------------------------------------------------
(* Config loads.                                                            *)

(* Mutant: loads are not chained.                                           *)
AllAtOnce == DOMAIN loads

(* The loads that may take a step: the chain runs them one at a time.       *)
Running == DOMAIN loads \cap {1}

LoadServed(i) ==
  /\ i \in Running
  /\ loads[i].phase = "sent"
  /\ \E p \in {IF token THEN "ok" ELSE "refused", "failed"} :
       loads' = [loads EXCEPT ![i].phase = p, ![i].answer = assigned]
  /\ UNCHANGED <<channel, server, boot, flags, timers, applied, calls>>

(* The load resolves: the bootstrap goes on after its own.                  *)
LoadResolves(i) ==
  /\ loads' = Without(loads, i)
  /\ IF loads[i].by = "boot" /\ ~fatal
     THEN boot' = "binding" /\ ReportingStarts
     ELSE /\ boot' = IF loads[i].by = "boot" THEN "over" ELSE boot
          /\ UNCHANGED <<report, probeTimer, reportingStarted>>

(* A load that changed the interval of a running timer restarts it.         *)
Recadence(c) ==
  IF reportingStarted /\ Interval[c] # Interval[monitorConfig]
  THEN report' = Interval[c] /\ calls' = Forget(calls, "report")
  ELSE UNCHANGED <<report, calls>>

(* applyServerConfig with a body that changes something, up to the          *)
(* reconciliation of the exporter, which takes its time.                    *)
ConfigApplied(i) ==
  /\ i \in Running
  /\ loads[i].phase = "ok" /\ ~fatal
  /\ LET c == loads[i].answer IN
     /\ loads[i].force \/ appliedKey # <<c>>
     /\ monitorConfig' = c /\ appliedKey' = <<c>>
     /\ Recadence(c)
  /\ loads' = [loads EXCEPT ![i].phase = "exporter"]
  /\ UNCHANGED <<channel, server, boot, flags, capsTimer, refreshTimer,
                 probeTimer, exporter>>

(* reconcileHsflowd is over: enabled, or disabled if it was managed.        *)
ExporterReconciled(i) ==
  /\ i \in Running
  /\ loads[i].phase = "exporter"
  /\ exporter' = (loads[i].answer \in WantsExporter)
  /\ LoadResolves(i)
  /\ UNCHANGED <<channel, server, fatal, authPaused, capsTimer, refreshTimer,
                 monitorConfig, appliedKey, calls>>

(* A load that changes nothing: no answer, the config in force, or fatal.   *)
LoadIsMoot(i) ==
  /\ i \in Running
  /\ \/ loads[i].phase = "failed"
     \/ loads[i].phase = "ok" /\ fatal
     \/ /\ loads[i].phase = "ok"
        /\ ~loads[i].force /\ appliedKey = <<loads[i].answer>>
  /\ LoadResolves(i)
  /\ UNCHANGED <<channel, server, fatal, authPaused, capsTimer, refreshTimer,
                 applied, calls>>

(* A load answered with a 401.                                              *)
LoadRefused(i) ==
  /\ i \in Running
  /\ loads[i].phase = "refused"
  /\ loads' = Without(loads, i)
  /\ IF loads[i].by = "boot" /\ AuthRetry /\ ~fatal
     THEN (* paused, and the bootstrap goes on                                *)
          /\ authPaused' = TRUE
          /\ capsTimer' = (capsTimer /\ authPaused)
          /\ refreshTimer' = (refreshTimer /\ authPaused)
          /\ boot' = "binding"
          /\ ReportingStarts
          /\ UNCHANGED <<fatal, chan>>
     ELSE /\ HandleTokenRejected
          /\ boot' = IF loads[i].by = "boot" THEN "over" ELSE boot
          /\ UNCHANGED reportingStarted
  /\ UNCHANGED <<refused, server, applied, calls>>

-----------------------------------------------------------------------------
(* The channel's events.                                                    *)

(* 'open': a pause is over, capabilities and config are sent again.         *)
ChannelOpens ==
  /\ boot # "off"
  /\ token
  /\ Live!Opened
  /\ ResumeAfterAuth
  /\ LET resumes == authPaused /\ ~fatal
         cs == IF resumes THEN Forget(Forget(calls, "caps"), "report")
               ELSE calls
         ls == IF resumes THEN ForgetTick(loads) ELSE loads
     IN /\ calls' = IF fatal THEN cs ELSE Sent(cs, "caps", FALSE)
        /\ loads' = IF fatal THEN ls ELSE Enqueued(ls, TRUE, "open")
  /\ UNCHANGED <<server, boot, fatal, reportingStarted, applied>>

(* 'auth-rejected' or, without a retry interval, 'fatal'.                   *)
ChannelRefused ==
  /\ boot # "off"
  /\ ~token
  /\ Live!Refused
  /\ IF AuthRetry THEN Pauses ELSE HandleFatal
  /\ UNCHANGED <<server, boot, reportingStarted, applied, calls, loads>>

(* 'fatal' for another reason: a socket that cannot be pinned.              *)
ChannelFails ==
  /\ boot # "off"
  /\ Live!Halted
  /\ HandleFatal
  /\ UNCHANGED <<server, boot, reportingStarted, applied, calls, loads>>

ChannelDrops ==
  /\ Live!Dropped
  /\ UNCHANGED <<server, boot, flags, timers, applied, calls, loads>>

(* The server's side.                                                       *)
TokenChanges ==
  /\ token' = ~token
  /\ chan' = IF HangsUp /\ token /\ chan = "open" THEN "down" ELSE chan
  /\ UNCHANGED <<refused, assigned, boot, flags, timers, applied, calls,
                 loads>>

ConfigAssigned ==
  /\ \E c \in Configs \ {assigned} : assigned' = c
  /\ UNCHANGED <<channel, token, boot, flags, timers, applied, calls, loads>>

CallStep(i) == CallServed(i) \/ CallAnswered(i)
LoadStep(i) == \/ LoadServed(i) \/ ConfigApplied(i) \/ ExporterReconciled(i)
               \/ LoadIsMoot(i) \/ LoadRefused(i)

Next ==
  \/ Start \/ BootEnds
  \/ ReportTick \/ ProbeTick \/ CapsTick \/ RefreshTick
  \/ \E i \in 1..MaxCalls : CallStep(i)
  \/ \E i \in 1..(MaxLoads + 1) : LoadStep(i)
  \/ ChannelOpens \/ ChannelRefused \/ ChannelFails \/ ChannelDrops
  \/ TokenChanges \/ ConfigAssigned

(* Timers fire, the receivers bind, a REST call is served or fails, a dial   *)
(* the server accepts opens the channel, and the network lets a config load  *)
(* through again and again.                                                 *)
Fairness ==
  /\ WF_vars(Start) /\ WF_vars(BootEnds) /\ WF_vars(ChannelOpens)
  /\ WF_vars(CallStep(1))
  /\ WF_vars(\E i \in 1..MaxCalls : CallStep(i) /\ calls[i].kind = "boot")
  /\ WF_vars(LoadStep(1))
  /\ SF_vars(LoadServed(1) /\ loads'[1].phase # "failed")
  /\ SF_vars(RefreshTick)

Spec == Init /\ [][Next]_vars
FairSpec == Spec /\ Fairness

-----------------------------------------------------------------------------

TypeOK ==
  /\ chan \in {"down", "open", "halted"} /\ refused \in BOOLEAN
  /\ token \in BOOLEAN /\ assigned \in Configs
  /\ boot \in {"off", "caps", "config", "binding", "over"}
  /\ fatal \in BOOLEAN /\ authPaused \in BOOLEAN
  /\ reportingStarted \in BOOLEAN
  /\ report \in {Interval[c] : c \in Configs} \cup {0}
  /\ capsTimer \in BOOLEAN /\ refreshTimer \in BOOLEAN
  /\ probeTimer \in BOOLEAN
  /\ monitorConfig \in Configs
  /\ appliedKey \in {<<>>} \cup {<<c>> : c \in Configs}
  /\ exporter \in BOOLEAN
  /\ calls \in Seq([kind : Kinds, phase : {"sent", "ok", "refused"},
                    mine : BOOLEAN])
  /\ Len(calls) <= MaxCalls
  /\ loads \in Seq([force : BOOLEAN, by : {"boot", "open", "tick"},
                    phase : Phases \cup {"exporter"}, answer : Configs])
  /\ Len(loads) <= MaxLoads + 1

(* "Stopping. Will NOT re-enroll": after a terminal 401 no answer still in   *)
(* flight, no load and no bootstrap brings a timer or the channel back.      *)
FatalIsQuiet ==
  fatal => chan = "halted" /\ report = 0 /\ ~capsTimer /\ ~refreshTimer

(* "The bootstrap timer keeps its old cadence unless restarted": whichever   *)
(* load changed the interval last, an armed report timer runs at the one of  *)
(* the configuration in force.                                              *)
CadenceMatches == report # 0 => report = Interval[monitorConfig]

(* Config loads run one at a time: with none under way, the exporter is the  *)
(* one the configuration in force asks for, and what the next refresh        *)
(* compares with is that configuration.                                     *)
ConfigIsWhole ==
  loads = <<>> /\ appliedKey # <<>> =>
    /\ exporter = (monitorConfig \in WantsExporter)
    /\ appliedKey = <<monitorConfig>>

(* A bootstrapped agent that is neither paused nor stopped measures,         *)
(* reports and refreshes: every way out of a pause puts all of it back.      *)
RunsUnlessPaused ==
  boot = "over" /\ ~authPaused /\ ~fatal =>
    capsTimer /\ refreshTimer /\ report = Interval[monitorConfig]

(* "A token the server starts accepting again brings the agent back by       *)
(* itself", as far as the code does: once the token is good for good, a       *)
(* channel that drops again takes the agent out of its pause.               *)
ReconnectResumes ==
  (<>[]token /\ []<>(chan = "down") /\ []~fatal) =>
    <>[](~authPaused /\ capsTimer /\ refreshTimer)

(* The same without the help of a dropped connection.                       *)
ComesBackByItself == (<>[]token /\ []~fatal) => <>[]~authPaused

(* A configuration the server settles on is in force in the end on an agent  *)
(* whose connection simply holds.                                           *)
ConfigLands ==
  \A c \in Configs :
    ([]token /\ <>[](chan = "open") /\ <>[](assigned = c)) =>
      <>[](monitorConfig = c /\ exporter = (c \in WantsExporter))

(* What was stopped or changed while the agent could not hear of it is put   *)
(* right, without a restart of the process.                                 *)
Recovers == ReconnectResumes /\ ConfigLands
=============================================================================
