-------------------------- MODULE AgentRuntimeProofs --------------------------
(* What AgentRuntime keeps for every set of configurations, with or without  *)
(* a retry interval and for any number of calls and loads in flight.  Each   *)
(* safety invariant of the model is strengthened by what the bootstrap and    *)
(* the chain of config loads guarantee on the way.  And what a sweep of       *)
(* Discovery keeps, for every number of addresses, ports and workers.        *)
EXTENDS AgentRuntime, Discovery, SequenceTheorems, TLAPS

Cadenced == CadenceMatches /\ (~reportingStarted => report = 0)

(* Once the bootstrap has loaded a configuration an agent that is neither    *)
(* paused nor stopped reports; once it is over the other timers run too.     *)
Armed ==
  boot \in {"binding", "over"} /\ ~fatal =>
    /\ reportingStarted
    /\ ~authPaused => report = Interval[monitorConfig]
    /\ ~authPaused /\ boot = "over" => capsTimer /\ refreshTimer

RInv == FatalIsQuiet /\ Cadenced /\ Armed

LEMMA InitHolds == Init => RInv
BY DEF Init, RInv, FatalIsQuiet, Cadenced, CadenceMatches, Armed

(* A terminal 401 or an unpinnable socket: nothing comes back.              *)
LEMMA QuietNext ==
  ASSUME FatalIsQuiet, [Next]_vars PROVE FatalIsQuiet'
<1> USE DEF FatalIsQuiet, server, channel, flags, timers, applied
<1>1. CASE Start
  BY <1>1 DEF Start
<1>2. CASE BootEnds
  BY <1>2 DEF BootEnds
<1>3. CASE ReportTick
  BY <1>3 DEF ReportTick, Tick
<1>4. CASE ProbeTick
  BY <1>4 DEF ProbeTick, Tick
<1>5. CASE CapsTick
  BY <1>5 DEF CapsTick, Tick
<1>6. CASE RefreshTick
  BY <1>6 DEF RefreshTick
<1>7. ASSUME NEW i \in Nat, CallServed(i) PROVE FatalIsQuiet'
  BY <1>7 DEF CallServed
<1>8. ASSUME NEW i \in Nat, CallAnswered(i) PROVE FatalIsQuiet'
  BY <1>8 DEF CallAnswered, CapsReported, HandleTokenRejected, HandleFatal,
       Pauses, StopTimers
<1>9. ASSUME NEW i \in Nat, LoadServed(i) PROVE FatalIsQuiet'
  BY <1>9 DEF LoadServed
<1>10. ASSUME NEW i \in Nat, ConfigApplied(i) PROVE FatalIsQuiet'
  BY <1>10 DEF ConfigApplied, Recadence
<1>11. ASSUME NEW i \in Nat, ExporterReconciled(i) PROVE FatalIsQuiet'
  BY <1>11 DEF ExporterReconciled, LoadResolves, ReportingStarts, Cadence
<1>12. ASSUME NEW i \in Nat, LoadIsMoot(i) PROVE FatalIsQuiet'
  BY <1>12 DEF LoadIsMoot, LoadResolves, ReportingStarts, Cadence
<1>13. ASSUME NEW i \in Nat, LoadRefused(i) PROVE FatalIsQuiet'
  BY <1>13 DEF LoadRefused, ReportingStarts, Cadence, HandleTokenRejected,
       HandleFatal, Pauses, StopTimers
<1>14. CASE ChannelOpens
  BY <1>14 DEF ChannelOpens, ResumeAfterAuth, Cadence, Live!Opened
<1>15. CASE ChannelRefused
  BY <1>15 DEF ChannelRefused, Live!Refused, HandleTokenRejected, HandleFatal,
       Pauses, StopTimers
<1>16. CASE ChannelFails
  BY <1>16 DEF ChannelFails, Live!Halted, HandleTokenRejected, HandleFatal,
       Pauses, StopTimers
<1>17. CASE ChannelDrops
  BY <1>17 DEF ChannelDrops, Live!Dropped
<1>18. CASE TokenChanges
  BY <1>18 DEF TokenChanges
<1>19. CASE ConfigAssigned
  BY <1>19 DEF ConfigAssigned
<1>20. CASE UNCHANGED vars
  BY <1>20 DEF vars
<1> QED
  BY <1>1, <1>2, <1>3, <1>4, <1>5, <1>6, <1>7, <1>8, <1>9, <1>10, <1>11, <1>12,
       <1>13, <1>14, <1>15, <1>16, <1>17, <1>18, <1>19, <1>20 DEF Next,
       CallStep, LoadStep

LEMMA CadenceNext ==
  ASSUME Cadenced, [Next]_vars PROVE Cadenced'
<1> USE DEF Cadenced, CadenceMatches, server, channel, flags, timers, applied
<1>1. CASE Start
  BY <1>1 DEF Start
<1>2. CASE BootEnds
  BY <1>2 DEF BootEnds
<1>3. CASE ReportTick
  BY <1>3 DEF ReportTick, Tick
<1>4. CASE ProbeTick
  BY <1>4 DEF ProbeTick, Tick
<1>5. CASE CapsTick
  BY <1>5 DEF CapsTick, Tick
<1>6. CASE RefreshTick
  BY <1>6 DEF RefreshTick
<1>7. ASSUME NEW i \in Nat, CallServed(i) PROVE Cadenced'
  BY <1>7 DEF CallServed
<1>8. ASSUME NEW i \in Nat, CallAnswered(i) PROVE Cadenced'
  BY <1>8 DEF CallAnswered, CapsReported, HandleTokenRejected, HandleFatal,
       Pauses, StopTimers
<1>9. ASSUME NEW i \in Nat, LoadServed(i) PROVE Cadenced'
  BY <1>9 DEF LoadServed
<1>10. ASSUME NEW i \in Nat, ConfigApplied(i) PROVE Cadenced'
  BY <1>10 DEF ConfigApplied, Recadence
<1>11. ASSUME NEW i \in Nat, ExporterReconciled(i) PROVE Cadenced'
  BY <1>11 DEF ExporterReconciled, LoadResolves, ReportingStarts, Cadence
<1>12. ASSUME NEW i \in Nat, LoadIsMoot(i) PROVE Cadenced'
  BY <1>12 DEF LoadIsMoot, LoadResolves, ReportingStarts, Cadence
<1>13. ASSUME NEW i \in Nat, LoadRefused(i) PROVE Cadenced'
  BY <1>13 DEF LoadRefused, ReportingStarts, Cadence, HandleTokenRejected,
       HandleFatal, Pauses, StopTimers
<1>14. CASE ChannelOpens
  BY <1>14 DEF ChannelOpens, ResumeAfterAuth, Cadence, Live!Opened
<1>15. CASE ChannelRefused
  BY <1>15 DEF ChannelRefused, Live!Refused, HandleTokenRejected, HandleFatal,
       Pauses, StopTimers
<1>16. CASE ChannelFails
  BY <1>16 DEF ChannelFails, Live!Halted, HandleTokenRejected, HandleFatal,
       Pauses, StopTimers
<1>17. CASE ChannelDrops
  BY <1>17 DEF ChannelDrops, Live!Dropped
<1>18. CASE TokenChanges
  BY <1>18 DEF TokenChanges
<1>19. CASE ConfigAssigned
  BY <1>19 DEF ConfigAssigned
<1>20. CASE UNCHANGED vars
  BY <1>20 DEF vars
<1> QED
  BY <1>1, <1>2, <1>3, <1>4, <1>5, <1>6, <1>7, <1>8, <1>9, <1>10, <1>11, <1>12,
       <1>13, <1>14, <1>15, <1>16, <1>17, <1>18, <1>19, <1>20 DEF Next,
       CallStep, LoadStep

LEMMA ArmedNext ==
  ASSUME RInv, [Next]_vars PROVE Armed'
<1> USE DEF RInv, FatalIsQuiet, Cadenced, CadenceMatches, Armed, server,
     channel, flags, timers, applied
<1>1. CASE Start
  BY <1>1 DEF Start
<1>2. CASE BootEnds
  BY <1>2 DEF BootEnds
<1>3. CASE ReportTick
  BY <1>3 DEF ReportTick, Tick
<1>4. CASE ProbeTick
  BY <1>4 DEF ProbeTick, Tick
<1>5. CASE CapsTick
  BY <1>5 DEF CapsTick, Tick
<1>6. CASE RefreshTick
  BY <1>6 DEF RefreshTick
<1>7. ASSUME NEW i \in Nat, CallServed(i) PROVE Armed'
  BY <1>7 DEF CallServed
<1>8. ASSUME NEW i \in Nat, CallAnswered(i) PROVE Armed'
  BY <1>8 DEF CallAnswered, CapsReported, HandleTokenRejected, HandleFatal,
       Pauses, StopTimers
<1>9. ASSUME NEW i \in Nat, LoadServed(i) PROVE Armed'
  BY <1>9 DEF LoadServed
<1>10. ASSUME NEW i \in Nat, ConfigApplied(i) PROVE Armed'
  BY <1>10 DEF ConfigApplied, Recadence
<1>11. ASSUME NEW i \in Nat, ExporterReconciled(i) PROVE Armed'
  BY <1>11 DEF ExporterReconciled, LoadResolves, ReportingStarts, Cadence
<1>12. ASSUME NEW i \in Nat, LoadIsMoot(i) PROVE Armed'
  BY <1>12 DEF LoadIsMoot, LoadResolves, ReportingStarts, Cadence
<1>13. ASSUME NEW i \in Nat, LoadRefused(i) PROVE Armed'
  BY <1>13 DEF LoadRefused, ReportingStarts, Cadence, HandleTokenRejected,
       HandleFatal, Pauses, StopTimers
<1>14. CASE ChannelOpens
  BY <1>14 DEF ChannelOpens, ResumeAfterAuth, Cadence, Live!Opened
<1>15. CASE ChannelRefused
  BY <1>15 DEF ChannelRefused, Live!Refused, HandleTokenRejected, HandleFatal,
       Pauses, StopTimers
<1>16. CASE ChannelFails
  BY <1>16 DEF ChannelFails, Live!Halted, HandleTokenRejected, HandleFatal,
       Pauses, StopTimers
<1>17. CASE ChannelDrops
  BY <1>17 DEF ChannelDrops, Live!Dropped
<1>18. CASE TokenChanges
  BY <1>18 DEF TokenChanges
<1>19. CASE ConfigAssigned
  BY <1>19 DEF ConfigAssigned
<1>20. CASE UNCHANGED vars
  BY <1>20 DEF vars
<1> QED
  BY <1>1, <1>2, <1>3, <1>4, <1>5, <1>6, <1>7, <1>8, <1>9, <1>10, <1>11, <1>12,
       <1>13, <1>14, <1>15, <1>16, <1>17, <1>18, <1>19, <1>20 DEF Next,
       CallStep, LoadStep

-----------------------------------------------------------------------------
(* The queues of calls and of config loads.                                 *)
CallSet == [kind : Kinds, phase : {"sent", "ok", "refused"}, mine : BOOLEAN]
LoadSet == [force : BOOLEAN, by : {"boot", "open", "tick"},
            phase : Phases \cup {"exporter"}, answer : Configs]

LEMMA RecordsKeep ==
  /\ \A r \in CallSet : [r EXCEPT !.mine = FALSE] \in CallSet
  /\ \A r \in CallSet, p \in {"ok", "refused"} : [r EXCEPT !.phase = p] \in CallSet
  /\ \A r \in LoadSet : [r EXCEPT !.by = "open"] \in LoadSet
  /\ \A r \in LoadSet, p \in Phases \cup {"exporter"} : [r EXCEPT !.phase = p] \in LoadSet
  /\ \A r \in LoadSet, c \in Configs : [r EXCEPT !.answer = c] \in LoadSet
BY DEF CallSet, LoadSet

LEMMA ReplacedSeq ==
  ASSUME NEW S, NEW q \in Seq(S), NEW i \in DOMAIN q, NEW e \in S
  PROVE  [q EXCEPT ![i] = e] \in Seq(S) /\ Len([q EXCEPT ![i] = e]) = Len(q)
OBVIOUS

LEMMA WithoutSeq ==
  ASSUME NEW S, NEW q \in Seq(S), NEW i \in DOMAIN q
  PROVE  /\ Without(q, i) \in Seq(S)
         /\ Len(Without(q, i)) = Len(q) - 1
         /\ \A j \in 1..(Len(q) - 1) :
              Without(q, i)[j] = IF j < i THEN q[j] ELSE q[j + 1]
<1>1. i \in 1..Len(q) /\ Len(q) \in Nat /\ Len(q) - 1 \in Nat
  OBVIOUS
<1>2. \A j \in 1..(Len(q) - 1) : (IF j < i THEN q[j] ELSE q[j + 1]) \in S
  BY <1>1
<1>3. Without(q, i) \in [1..(Len(q) - 1) -> S]
  BY <1>2 DEF Without
<1>4. Without(q, i) \in Seq(S)
  BY <1>1, <1>3
<1>5. Len(Without(q, i)) = Len(q) - 1
  BY <1>1, <1>3, <1>4
<1> QED
  BY <1>4, <1>5 DEF Without

LEMMA ForgetSeq ==
  ASSUME NEW cs \in Seq(CallSet), NEW kind \in Kinds
  PROVE  /\ Forget(cs, kind) \in Seq(CallSet) /\ Len(Forget(cs, kind)) = Len(cs)
         /\ \A i \in 1..Len(cs) : Forget(cs, kind)[i].kind = cs[i].kind
<1>1. Len(cs) \in Nat /\ DOMAIN cs = 1..Len(cs)
  OBVIOUS
<1>2. \A i \in 1..Len(cs) :
        (IF cs[i].kind = kind THEN [cs[i] EXCEPT !.mine = FALSE] ELSE cs[i]) \in CallSet
  <2>1. \A i \in 1..Len(cs) : cs[i] \in CallSet
    OBVIOUS
  <2> QED
    BY <2>1, RecordsKeep
<1>3. Forget(cs, kind) \in [1..Len(cs) -> CallSet]
  BY <1>1, <1>2 DEF Forget
<1>4. Forget(cs, kind) \in Seq(CallSet)
  BY <1>1, <1>3
<1>5. Len(Forget(cs, kind)) = Len(cs)
  BY <1>1, <1>3, <1>4
<1>6. \A i \in 1..Len(cs) : Forget(cs, kind)[i].kind = cs[i].kind
  BY <1>1 DEF Forget, CallSet
<1> QED
  BY <1>4, <1>5, <1>6

LEMMA ForgetTickSeq ==
  ASSUME NEW ls \in Seq(LoadSet)
  PROVE  /\ ForgetTick(ls) \in Seq(LoadSet) /\ Len(ForgetTick(ls)) = Len(ls)
         /\ \A i \in 1..Len(ls) :
              /\ ForgetTick(ls)[i].phase = ls[i].phase
              /\ ForgetTick(ls)[i].answer = ls[i].answer
              /\ ForgetTick(ls)[i].by = "boot" => ls[i].by = "boot"
<1>1. Len(ls) \in Nat /\ DOMAIN ls = 1..Len(ls)
  OBVIOUS
<1>2. \A i \in 1..Len(ls) :
        (IF ls[i].by = "tick" THEN [ls[i] EXCEPT !.by = "open"] ELSE ls[i]) \in LoadSet
  <2>1. \A i \in 1..Len(ls) : ls[i] \in LoadSet
    OBVIOUS
  <2> QED
    BY <2>1, RecordsKeep
<1>3. ForgetTick(ls) \in [1..Len(ls) -> LoadSet]
  BY <1>1, <1>2 DEF ForgetTick
<1>4. ForgetTick(ls) \in Seq(LoadSet)
  BY <1>1, <1>3
<1>5. Len(ForgetTick(ls)) = Len(ls)
  BY <1>1, <1>3, <1>4
<1>6. \A i \in 1..Len(ls) :
        /\ ForgetTick(ls)[i].phase = ls[i].phase
        /\ ForgetTick(ls)[i].answer = ls[i].answer
        /\ ForgetTick(ls)[i].by = "boot" => ls[i].by = "boot"
  BY <1>1 DEF ForgetTick, LoadSet
<1> QED
  BY <1>4, <1>5, <1>6

(* The answer of a load, its phase or its place in the queue change; the     *)
(* queues keep their types and their bounds.                                *)
Queues ==
  /\ calls \in Seq(CallSet) /\ Len(calls) <= MaxCalls
  /\ loads \in Seq(LoadSet)

LEMMA SentSeq ==
  ASSUME NEW cs \in Seq(CallSet), Len(cs) <= MaxCalls, NEW kind \in Kinds,
         NEW mine \in BOOLEAN
  PROVE  Sent(cs, kind, mine) \in Seq(CallSet) /\ Len(Sent(cs, kind, mine)) <= MaxCalls
<1>1. [kind |-> kind, phase |-> "sent", mine |-> mine] \in CallSet
  BY DEF CallSet
<1> QED
  BY <1>1, RuntimeAssumption DEF Sent

LEMMA EnqueuedSeq ==
  ASSUME NEW ls \in Seq(LoadSet), NEW force \in BOOLEAN, NEW by \in {"open", "tick", "boot"}
  PROVE  /\ Append(ls, Load(force, by)) \in Seq(LoadSet)
         /\ Enqueued(ls, force, by) \in Seq(LoadSet)
<1>1. Load(force, by) \in LoadSet
  BY RuntimeAssumption DEF Load, LoadSet, Phases
<1> QED
  BY <1>1 DEF Enqueued

LEMMA QueuesNext == ASSUME Queues, assigned \in Configs, [Next]_vars PROVE Queues'
<1> USE RuntimeAssumption DEF Queues, server, channel, flags, timers, applied
<1>1. CASE Start
  BY <1>1, SentSeq DEF Start, Kinds
<1>2. CASE BootEnds
  BY <1>2, ForgetSeq, ForgetTickSeq DEF BootEnds, Kinds
<1>3. ASSUME NEW kind \in Kinds, Tick(kind) PROVE Queues'
  BY <1>3, SentSeq DEF Tick
<1>4. CASE RefreshTick
  BY <1>4, EnqueuedSeq DEF RefreshTick
<1>5. ASSUME NEW i \in Nat, CallServed(i) PROVE Queues'
  <2>1. PICK p \in {"ok", "refused"} : calls' = [calls EXCEPT ![i].phase = p]
    BY <1>5 DEF CallServed
  <2>2. i \in DOMAIN calls /\ calls[i] \in CallSet
    BY <1>5 DEF CallServed
  <2>3. [calls[i] EXCEPT !.phase = p] \in CallSet
    BY <2>2, RecordsKeep
  <2>4. calls' \in Seq(CallSet) /\ Len(calls') = Len(calls)
    BY <2>1, <2>2, <2>3, ReplacedSeq
  <2> QED
    BY <1>5, <2>4 DEF CallServed
<1>6. ASSUME NEW i \in Nat, CallAnswered(i) PROVE Queues'
  <2>1. calls' \in Seq(CallSet) /\ Len(calls') <= MaxCalls
    BY <1>6, WithoutSeq DEF CallAnswered
  <2>2. loads' = loads \/ loads' = Append(loads, Load(TRUE, "boot"))
    BY <1>6 DEF CallAnswered, CapsReported
  <2> QED
    BY <2>1, <2>2, EnqueuedSeq
<1>7. ASSUME NEW i \in Nat, LoadServed(i) PROVE Queues'
  <2>1. PICK p \in {"ok", "refused", "failed"} :
           loads' = [loads EXCEPT ![i].phase = p, ![i].answer = assigned]
    BY <1>7 DEF LoadServed
  <2>2. i \in DOMAIN loads /\ loads[i] \in LoadSet
    BY <1>7 DEF LoadServed, Running
  <2>3. [loads[i] EXCEPT !.phase = p] \in LoadSet
    BY <2>2, RecordsKeep DEF Phases
  <2>4. [loads[i] EXCEPT !.phase = p, !.answer = assigned] \in LoadSet
    BY <2>3, RecordsKeep
  <2>5. loads' \in Seq(LoadSet)
    BY <2>1, <2>2, <2>4, ReplacedSeq
  <2> QED
    BY <1>7, <2>5 DEF LoadServed
<1>8. ASSUME NEW i \in Nat, ConfigApplied(i) PROVE Queues'
  <2>1. i \in DOMAIN loads /\ loads[i] \in LoadSet
    BY <1>8 DEF ConfigApplied, Running
  <2>2. [loads[i] EXCEPT !.phase = "exporter"] \in LoadSet
    BY <2>1, RecordsKeep
  <2>3. loads' \in Seq(LoadSet)
    BY <1>8, <2>1, <2>2, ReplacedSeq DEF ConfigApplied
  <2>4. calls' = calls \/ calls' = Forget(calls, "report")
    BY <1>8 DEF ConfigApplied, Recadence
  <2> QED
    BY <2>3, <2>4, ForgetSeq DEF Kinds
<1>9. ASSUME NEW i \in Nat, loads' = Without(loads, i), i \in Running,
             calls' = calls
      PROVE  Queues'
  BY <1>9, WithoutSeq DEF Running
<1>10. CASE ChannelOpens
  <2>1. calls' \in Seq(CallSet) /\ Len(calls') <= MaxCalls
    <3> DEFINE cs == IF authPaused /\ ~fatal THEN Forget(Forget(calls, "caps"), "report") ELSE calls
    <3>1. cs \in Seq(CallSet) /\ Len(cs) <= MaxCalls
      BY ForgetSeq DEF Kinds
    <3>2. calls' = IF fatal THEN cs ELSE Sent(cs, "caps", FALSE)
      BY <1>10 DEF ChannelOpens
    <3> HIDE DEF cs
    <3> QED
      BY <3>1, <3>2, SentSeq DEF Kinds
  <2>2. loads' \in Seq(LoadSet)
    <3> DEFINE ls == IF authPaused /\ ~fatal THEN ForgetTick(loads) ELSE loads
    <3>1. ls \in Seq(LoadSet)
      BY ForgetTickSeq
    <3>2. loads' = IF fatal THEN ls ELSE Enqueued(ls, TRUE, "open")
      BY <1>10 DEF ChannelOpens
    <3> HIDE DEF ls
    <3> QED
      BY <3>1, <3>2, EnqueuedSeq
  <2> QED
    BY <2>1, <2>2
<1>11. CASE UNCHANGED <<calls, loads>>
  BY <1>11
<1> QED
  BY <1>1, <1>2, <1>3, <1>4, <1>5, <1>6, <1>7, <1>8, <1>9, <1>10, <1>11
  DEF Next, CallStep, LoadStep, ReportTick, ProbeTick, CapsTick, Kinds,
      ExporterReconciled, LoadIsMoot, LoadRefused, LoadResolves, ChannelRefused,
      ChannelFails, ChannelDrops, TokenChanges, ConfigAssigned, vars

-----------------------------------------------------------------------------
(* The chain: only its head is under way, and while the head is not          *)
(* reconciling the exporter, the exporter and the key compared by the next   *)
(* refresh are those of the configuration in force.                         *)
Reconciling == 1 \in DOMAIN loads /\ loads[1].phase = "exporter"

Chain ==
  /\ \A i \in DOMAIN loads : i # 1 => loads[i].phase = "sent"
  /\ appliedKey # <<>> => appliedKey = <<monitorConfig>>
  /\ Reconciling => appliedKey = <<loads[1].answer>>
  /\ appliedKey # <<>> /\ ~Reconciling =>
       exporter = (monitorConfig \in WantsExporter)

(* The chain grows at its end.                                              *)
LEMMA ChainGrows ==
  ASSUME Queues, Queues', Chain, UNCHANGED applied, Len(loads) <= Len(loads'),
         \A i \in 1..Len(loads) : /\ loads'[i].phase = loads[i].phase
                                  /\ loads'[i].answer = loads[i].answer,
         \A i \in 1..Len(loads') : i > Len(loads) => loads'[i].phase = "sent"
  PROVE  Chain'
<1>1. /\ Len(loads) \in Nat /\ Len(loads') \in Nat
      /\ DOMAIN loads = 1..Len(loads) /\ DOMAIN loads' = 1..Len(loads')
  BY DEF Queues
<1>2. Reconciling' <=> Reconciling
  BY <1>1 DEF Reconciling
<1>3. Reconciling => loads'[1].answer = loads[1].answer
  BY <1>1 DEF Reconciling
<1>4. \A i \in DOMAIN loads' : i # 1 => loads'[i].phase = "sent"
  BY <1>1 DEF Chain
<1> QED
  BY <1>2, <1>3, <1>4 DEF Chain, applied

LEMMA ChainAppends ==
  ASSUME Queues, Queues', Chain, UNCHANGED applied,
         NEW ls \in Seq(LoadSet), Len(ls) = Len(loads),
         \A i \in 1..Len(ls) : /\ ls[i].phase = loads[i].phase
                               /\ ls[i].answer = loads[i].answer,
         NEW force, NEW by, loads' \in {loads, ls, Append(ls, Load(force, by))}
  PROVE  Chain'
<1>1. Len(ls) \in Nat /\ Load(force, by).phase = "sent"
  BY DEF Load
<1>2. /\ Len(loads) <= Len(loads')
      /\ \A i \in 1..Len(loads) : /\ loads'[i].phase = loads[i].phase
                                  /\ loads'[i].answer = loads[i].answer
      /\ \A i \in 1..Len(loads') : i > Len(loads) => loads'[i].phase = "sent"
  <2>1. CASE loads' = loads
    BY <2>1 DEF Queues
  <2>2. CASE loads' = ls
    BY <1>1, <2>2
  <2>3. CASE loads' = Append(ls, Load(force, by))
    <3> DEFINE e == Load(force, by)
    <3>1. e.phase = "sent" /\ loads' = Append(ls, e)
      BY <1>1, <2>3
    <3> HIDE DEF e
    <3>2. /\ Len(loads') = Len(ls) + 1
          /\ \A i \in 1..Len(ls) : loads'[i] = ls[i]
          /\ loads'[Len(ls) + 1] = e
      BY <1>1, <3>1
    <3> QED
      BY <1>1, <3>1, <3>2
  <2> QED
    BY <2>1, <2>2, <2>3
<1> QED
  BY <1>2, ChainGrows

(* The head leaves the chain.                                               *)
LEMMA HeadLeaves ==
  ASSUME Queues, Chain, 1 \in DOMAIN loads, loads' = Without(loads, 1)
  PROVE  /\ \A i \in DOMAIN loads' : loads'[i].phase = "sent"
         /\ ~Reconciling'
<1>1. /\ loads' \in Seq(LoadSet) /\ Len(loads') = Len(loads) - 1
      /\ \A j \in 1..(Len(loads) - 1) : loads'[j] = loads[j + 1]
  BY WithoutSeq DEF Queues
<1>2. \A i \in DOMAIN loads' : loads'[i].phase = "sent"
  <2>1. Len(loads) \in Nat /\ DOMAIN loads = 1..Len(loads) /\ DOMAIN loads' = 1..(Len(loads) - 1)
    BY <1>1 DEF Queues
  <2>2. \A j \in 1..(Len(loads) - 1) : loads[j + 1].phase = "sent"
    BY <2>1 DEF Chain
  <2> QED
    BY <1>1, <2>1, <2>2
<1> QED
  BY <1>2 DEF Reconciling

LEMMA ChainNext ==
  ASSUME Queues, Queues', Chain, assigned \in Configs, [Next]_vars PROVE Chain'
<1> USE DEF server, channel, flags, timers
<1>1. CASE UNCHANGED <<applied, loads>>
  BY <1>1 DEF Chain, Reconciling, applied
<1>2. ASSUME UNCHANGED applied, NEW force \in BOOLEAN, NEW by \in {"boot", "open", "tick"},
             \/ loads' = loads
             \/ loads' = ForgetTick(loads)
             \/ loads' = Append(loads, Load(force, by))
             \/ loads' = Append(ForgetTick(loads), Load(force, by))
      PROVE  Chain'
  <2>1. CASE loads' = loads \/ loads' = Append(loads, Load(force, by))
    BY <1>2, <2>1, ChainAppends DEF Queues
  <2>2. CASE \/ loads' = ForgetTick(loads)
             \/ loads' = Append(ForgetTick(loads), Load(force, by))
    <3> DEFINE ls == ForgetTick(loads)
    <3>1. /\ ls \in Seq(LoadSet) /\ Len(ls) = Len(loads)
          /\ \A i \in 1..Len(ls) : /\ ls[i].phase = loads[i].phase
                                   /\ ls[i].answer = loads[i].answer
      BY ForgetTickSeq DEF Queues
    <3>2. loads' \in {loads, ls, Append(ls, Load(force, by))}
      BY <2>2
    <3> HIDE DEF ls
    <3> QED
      BY <1>2, <3>1, <3>2, ChainAppends
  <2> QED
    BY <1>2, <2>1, <2>2
<1>3. CASE BootEnds
  BY <1>2, <1>3 DEF BootEnds
<1>4. CASE RefreshTick
  <2>1. loads' = loads \/ loads' = Append(loads, Load(FALSE, "tick"))
    BY <1>4 DEF RefreshTick, Enqueued
  <2>2. UNCHANGED applied
    BY <1>4 DEF RefreshTick
  <2> QED
    BY <1>2, <2>1, <2>2
<1>5. CASE ChannelOpens
  <2>1. \/ loads' = loads
        \/ loads' = ForgetTick(loads)
        \/ loads' = Append(loads, Load(TRUE, "open"))
        \/ loads' = Append(ForgetTick(loads), Load(TRUE, "open"))
    BY <1>5 DEF ChannelOpens, Enqueued
  <2>2. UNCHANGED applied
    BY <1>5 DEF ChannelOpens
  <2> QED
    BY <1>2, <2>1, <2>2
<1>6. ASSUME NEW i \in Nat, CallAnswered(i) PROVE Chain'
  <2>1. loads' = loads \/ loads' = Append(loads, Load(TRUE, "boot"))
    BY <1>6 DEF CallAnswered, CapsReported
  <2>2. UNCHANGED applied
    BY <1>6 DEF CallAnswered
  <2> QED
    BY <1>2, <2>1, <2>2
<1>7. ASSUME NEW i \in Nat, LoadServed(i) PROVE Chain'
  <2>1. PICK q \in {"ok", "refused", "failed"} :
           loads' = [loads EXCEPT ![1].phase = q, ![1].answer = assigned]
    BY <1>7 DEF LoadServed, Running
  <2>2. 1 \in DOMAIN loads /\ loads[1] \in LoadSet /\ loads[1].phase = "sent" /\ UNCHANGED applied
    BY <1>7 DEF LoadServed, Running, Queues
  <2>3. /\ DOMAIN loads' = DOMAIN loads /\ loads'[1].phase = q
        /\ \A j \in DOMAIN loads : j # 1 => loads'[j] = loads[j]
    BY <2>1, <2>2 DEF LoadSet
  <2>4. ~Reconciling /\ ~Reconciling'
    BY <2>2, <2>3 DEF Reconciling
  <2> QED
    BY <2>2, <2>3, <2>4 DEF Chain, applied
<1>8. ASSUME NEW i \in Nat, ConfigApplied(i) PROVE Chain'
  <2>1. /\ loads' = [loads EXCEPT ![1].phase = "exporter"]
        /\ monitorConfig' = loads[1].answer /\ appliedKey' = <<loads[1].answer>>
    BY <1>8 DEF ConfigApplied, Running
  <2>2. 1 \in DOMAIN loads /\ loads[1] \in LoadSet
    BY <1>8 DEF ConfigApplied, Running, Queues
  <2>3. /\ DOMAIN loads' = DOMAIN loads /\ loads'[1].phase = "exporter"
        /\ loads'[1].answer = loads[1].answer
        /\ \A j \in DOMAIN loads : j # 1 => loads'[j] = loads[j]
    BY <2>1, <2>2 DEF LoadSet
  <2>4. Reconciling'
    BY <2>2, <2>3 DEF Reconciling
  <2> QED
    BY <2>1, <2>3, <2>4 DEF Chain
<1>9. ASSUME NEW i \in Nat, ExporterReconciled(i) PROVE Chain'
  <2>1. /\ 1 \in DOMAIN loads /\ Reconciling /\ loads' = Without(loads, 1)
        /\ exporter' = (loads[1].answer \in WantsExporter)
        /\ UNCHANGED <<monitorConfig, appliedKey>>
    BY <1>9 DEF ExporterReconciled, LoadResolves, Running, Reconciling
  <2>2. monitorConfig = loads[1].answer
    BY <2>1 DEF Chain
  <2> QED
    BY <2>1, <2>2, HeadLeaves DEF Chain
<1>10. ASSUME NEW i \in Nat, LoadIsMoot(i) \/ LoadRefused(i) PROVE Chain'
  <2>1. /\ 1 \in DOMAIN loads /\ ~Reconciling /\ loads' = Without(loads, 1)
        /\ UNCHANGED applied
    BY <1>10 DEF LoadIsMoot, LoadRefused, LoadResolves, Running, Reconciling
  <2> QED
    BY <2>1, HeadLeaves DEF Chain, applied
<1>11. CASE Start \/ ReportTick \/ ProbeTick \/ CapsTick
  BY <1>1, <1>11 DEF Start, ReportTick, ProbeTick, CapsTick, Tick
<1>12. CASE \E i \in Nat : CallServed(i)
  BY <1>1, <1>12 DEF CallServed
<1>13. CASE ChannelRefused \/ ChannelFails \/ ChannelDrops \/ TokenChanges \/ ConfigAssigned
  BY <1>1, <1>13 DEF ChannelRefused, ChannelFails, ChannelDrops, TokenChanges,
       ConfigAssigned
<1>14. CASE UNCHANGED vars
  BY <1>1, <1>14 DEF vars
<1> QED
  BY <1>3, <1>4, <1>5, <1>6, <1>7, <1>8, <1>9, <1>10, <1>11, <1>12, <1>13,
       <1>14
  DEF Next, CallStep, LoadStep

-----------------------------------------------------------------------------
(* Types: what TypeOK says of everything but the two queues.                *)
Reports ==
  /\ assigned \in Configs /\ monitorConfig \in Configs
  /\ report \in {Interval[c] : c \in Configs} \cup {0}
  /\ appliedKey \in {<<>>} \cup {<<c>> : c \in Configs}

Phased ==
  /\ chan \in {"down", "open", "halted"}
  /\ boot \in {"off", "caps", "config", "binding", "over"}

Flagged ==
  /\ refused \in BOOLEAN /\ token \in BOOLEAN
  /\ fatal \in BOOLEAN /\ authPaused \in BOOLEAN /\ reportingStarted \in BOOLEAN
  /\ capsTimer \in BOOLEAN /\ refreshTimer \in BOOLEAN /\ probeTimer \in BOOLEAN
  /\ exporter \in BOOLEAN

LEMMA HeadAnswer ==
  ASSUME Queues, NEW i \in Running PROVE loads[i].answer \in Configs
<1>1. loads[i] \in LoadSet
  BY DEF Queues, Running
<1> QED
  BY <1>1 DEF LoadSet

LEMMA ReportsNext ==
  ASSUME Reports, Queues, [Next]_vars PROVE Reports'
<1> USE RuntimeAssumption DEF Reports, server, channel, flags, timers, applied
<1>1. CASE Start
  BY <1>1 DEF Start
<1>2. CASE BootEnds
  BY <1>2 DEF BootEnds
<1>3. CASE ReportTick
  BY <1>3 DEF ReportTick, Tick
<1>4. CASE ProbeTick
  BY <1>4 DEF ProbeTick, Tick
<1>5. CASE CapsTick
  BY <1>5 DEF CapsTick, Tick
<1>6. CASE RefreshTick
  BY <1>6 DEF RefreshTick
<1>7. ASSUME NEW i \in Nat, CallServed(i) PROVE Reports'
  BY <1>7 DEF CallServed
<1>8. ASSUME NEW i \in Nat, CallAnswered(i) PROVE Reports'
  BY <1>8 DEF CallAnswered, CapsReported, HandleTokenRejected, HandleFatal,
       Pauses, StopTimers
<1>9. ASSUME NEW i \in Nat, LoadServed(i) PROVE Reports'
  BY <1>9 DEF LoadServed
<1>10. ASSUME NEW i \in Nat, ConfigApplied(i) PROVE Reports'
  <2>1. loads[i].answer \in Configs
    BY <1>10, HeadAnswer DEF ConfigApplied
  <2>2. /\ monitorConfig' = loads[i].answer /\ appliedKey' = <<loads[i].answer>>
        /\ assigned' = assigned
        /\ report' = Interval[loads[i].answer] \/ report' = report
    BY <1>10 DEF ConfigApplied, Recadence
  <2> QED
    BY <2>1, <2>2
<1>11. ASSUME NEW i \in Nat, ExporterReconciled(i) PROVE Reports'
  BY <1>11 DEF ExporterReconciled, LoadResolves, ReportingStarts, Cadence
<1>12. ASSUME NEW i \in Nat, LoadIsMoot(i) PROVE Reports'
  BY <1>12 DEF LoadIsMoot, LoadResolves, ReportingStarts, Cadence
<1>13. ASSUME NEW i \in Nat, LoadRefused(i) PROVE Reports'
  BY <1>13 DEF LoadRefused, ReportingStarts, Cadence, HandleTokenRejected,
       HandleFatal, Pauses, StopTimers
<1>14. CASE ChannelOpens
  BY <1>14 DEF ChannelOpens, ResumeAfterAuth, Cadence, Live!Opened
<1>15. CASE ChannelRefused
  BY <1>15 DEF ChannelRefused, Live!Refused, HandleTokenRejected, HandleFatal,
       Pauses, StopTimers
<1>16. CASE ChannelFails
  BY <1>16 DEF ChannelFails, Live!Halted, HandleTokenRejected, HandleFatal,
       Pauses, StopTimers
<1>17. CASE ChannelDrops
  BY <1>17 DEF ChannelDrops, Live!Dropped
<1>18. CASE TokenChanges
  BY <1>18 DEF TokenChanges
<1>19. CASE ConfigAssigned
  BY <1>19 DEF ConfigAssigned
<1>20. CASE UNCHANGED vars
  BY <1>20 DEF vars
<1> QED
  BY <1>1, <1>2, <1>3, <1>4, <1>5, <1>6, <1>7, <1>8, <1>9, <1>10, <1>11, <1>12,
       <1>13, <1>14, <1>15, <1>16, <1>17, <1>18, <1>19, <1>20 DEF Next,
       CallStep, LoadStep

LEMMA PhasedNext ==
  ASSUME Phased, [Next]_vars PROVE Phased'
<1> USE DEF Phased, server, channel, flags, timers, applied
<1>1. CASE Start
  BY <1>1 DEF Start
<1>2. CASE BootEnds
  BY <1>2 DEF BootEnds
<1>3. CASE ReportTick
  BY <1>3 DEF ReportTick, Tick
<1>4. CASE ProbeTick
  BY <1>4 DEF ProbeTick, Tick
<1>5. CASE CapsTick
  BY <1>5 DEF CapsTick, Tick
<1>6. CASE RefreshTick
  BY <1>6 DEF RefreshTick
<1>7. ASSUME NEW i \in Nat, CallServed(i) PROVE Phased'
  BY <1>7 DEF CallServed
<1>8. ASSUME NEW i \in Nat, CallAnswered(i) PROVE Phased'
  BY <1>8 DEF CallAnswered, CapsReported, HandleTokenRejected, HandleFatal,
       Pauses, StopTimers
<1>9. ASSUME NEW i \in Nat, LoadServed(i) PROVE Phased'
  BY <1>9 DEF LoadServed
<1>10. ASSUME NEW i \in Nat, ConfigApplied(i) PROVE Phased'
  BY <1>10 DEF ConfigApplied, Recadence
<1>11. ASSUME NEW i \in Nat, ExporterReconciled(i) PROVE Phased'
  BY <1>11 DEF ExporterReconciled, LoadResolves, ReportingStarts, Cadence
<1>12. ASSUME NEW i \in Nat, LoadIsMoot(i) PROVE Phased'
  BY <1>12 DEF LoadIsMoot, LoadResolves, ReportingStarts, Cadence
<1>13. ASSUME NEW i \in Nat, LoadRefused(i) PROVE Phased'
  BY <1>13 DEF LoadRefused, ReportingStarts, Cadence, HandleTokenRejected,
       HandleFatal, Pauses, StopTimers
<1>14. CASE ChannelOpens
  BY <1>14 DEF ChannelOpens, ResumeAfterAuth, Cadence, Live!Opened
<1>15. CASE ChannelRefused
  BY <1>15 DEF ChannelRefused, Live!Refused, HandleTokenRejected, HandleFatal,
       Pauses, StopTimers
<1>16. CASE ChannelFails
  BY <1>16 DEF ChannelFails, Live!Halted, HandleTokenRejected, HandleFatal,
       Pauses, StopTimers
<1>17. CASE ChannelDrops
  BY <1>17 DEF ChannelDrops, Live!Dropped
<1>18. CASE TokenChanges
  BY <1>18 DEF TokenChanges
<1>19. CASE ConfigAssigned
  BY <1>19 DEF ConfigAssigned
<1>20. CASE UNCHANGED vars
  BY <1>20 DEF vars
<1> QED
  BY <1>1, <1>2, <1>3, <1>4, <1>5, <1>6, <1>7, <1>8, <1>9, <1>10, <1>11, <1>12,
       <1>13, <1>14, <1>15, <1>16, <1>17, <1>18, <1>19, <1>20 DEF Next,
       CallStep, LoadStep

LEMMA FlaggedNext ==
  ASSUME Flagged, [Next]_vars PROVE Flagged'
<1> USE RuntimeAssumption DEF Flagged, server, channel, flags, timers, applied
<1>1. CASE Start
  BY <1>1 DEF Start
<1>2. CASE BootEnds
  BY <1>2 DEF BootEnds
<1>3. CASE ReportTick
  BY <1>3 DEF ReportTick, Tick
<1>4. CASE ProbeTick
  BY <1>4 DEF ProbeTick, Tick
<1>5. CASE CapsTick
  BY <1>5 DEF CapsTick, Tick
<1>6. CASE RefreshTick
  BY <1>6 DEF RefreshTick
<1>7. ASSUME NEW i \in Nat, CallServed(i) PROVE Flagged'
  BY <1>7 DEF CallServed
<1>8. ASSUME NEW i \in Nat, CallAnswered(i) PROVE Flagged'
  BY <1>8 DEF CallAnswered, CapsReported, HandleTokenRejected, HandleFatal,
       Pauses, StopTimers
<1>9. ASSUME NEW i \in Nat, LoadServed(i) PROVE Flagged'
  BY <1>9 DEF LoadServed
<1>10. ASSUME NEW i \in Nat, ConfigApplied(i) PROVE Flagged'
  BY <1>10 DEF ConfigApplied, Recadence
<1>11. ASSUME NEW i \in Nat, ExporterReconciled(i) PROVE Flagged'
  <2>1. exporter' = (loads[i].answer \in WantsExporter)
    BY <1>11 DEF ExporterReconciled
  <2>2. exporter' \in BOOLEAN
    <3>1. CASE loads[i].answer \in WantsExporter
      BY <2>1, <3>1
    <3>2. CASE loads[i].answer \notin WantsExporter
      BY <2>1, <3>2
    <3> QED
      BY <3>1, <3>2
  <2>3. /\ UNCHANGED <<refused, token, fatal, authPaused, capsTimer, refreshTimer>>
        /\ reportingStarted' = reportingStarted \/ reportingStarted' = TRUE
        /\ probeTimer' = probeTimer \/ probeTimer' = Probes
    BY <1>11 DEF ExporterReconciled, LoadResolves, ReportingStarts
  <2> QED
    BY <2>2, <2>3
<1>12. ASSUME NEW i \in Nat, LoadIsMoot(i) PROVE Flagged'
  BY <1>12 DEF LoadIsMoot, LoadResolves, ReportingStarts, Cadence
<1>13. ASSUME NEW i \in Nat, LoadRefused(i) PROVE Flagged'
  BY <1>13 DEF LoadRefused, ReportingStarts, Cadence, HandleTokenRejected,
       HandleFatal, Pauses, StopTimers
<1>14. CASE ChannelOpens
  BY <1>14 DEF ChannelOpens, ResumeAfterAuth, Cadence, Live!Opened
<1>15. CASE ChannelRefused
  BY <1>15 DEF ChannelRefused, Live!Refused, HandleTokenRejected, HandleFatal,
       Pauses, StopTimers
<1>16. CASE ChannelFails
  BY <1>16 DEF ChannelFails, Live!Halted, HandleTokenRejected, HandleFatal,
       Pauses, StopTimers
<1>17. CASE ChannelDrops
  BY <1>17 DEF ChannelDrops, Live!Dropped
<1>18. CASE TokenChanges
  BY <1>18 DEF TokenChanges
<1>19. CASE ConfigAssigned
  BY <1>19 DEF ConfigAssigned
<1>20. CASE UNCHANGED vars
  BY <1>20 DEF vars
<1> QED
  BY <1>1, <1>2, <1>3, <1>4, <1>5, <1>6, <1>7, <1>8, <1>9, <1>10, <1>11, <1>12,
       <1>13, <1>14, <1>15, <1>16, <1>17, <1>18, <1>19, <1>20 DEF Next,
       CallStep, LoadStep

-----------------------------------------------------------------------------
(* The bound on the chain: the bootstrap's own call is answered once, so its *)
(* own load is the only one beyond MaxLoads.                                *)
BootCall ==
  \A i \in DOMAIN calls :
    calls[i].kind = "boot" =>
      boot = "caps" /\ \A j \in DOMAIN calls : calls[j].kind = "boot" => j = i

BootLoad ==
  \A i \in DOMAIN loads : loads[i].by = "boot" => boot \notin {"off", "caps"}

Bounded ==
  /\ Len(loads) <= MaxLoads + 1
  /\ boot \in {"off", "caps"} => Len(loads) <= MaxLoads

(* Calls of the same kinds in the same places: nothing changes for BootCall. *)
LEMMA SameKinds ==
  ASSUME Queues, Queues', BootCall, Len(calls') = Len(calls),
         \A i \in 1..Len(calls) : calls'[i].kind = calls[i].kind,
         boot' = boot
  PROVE  BootCall'
<1>1. DOMAIN calls = 1..Len(calls) /\ DOMAIN calls' = 1..Len(calls)
  BY DEF Queues
<1> QED
  BY <1>1 DEF BootCall

(* A call of another kind is sent.                                          *)
LEMMA OtherKindSent ==
  ASSUME Queues, NEW cs \in Seq(CallSet), Len(cs) = Len(calls),
         \A i \in 1..Len(calls) : cs[i].kind = calls[i].kind,
         NEW kind \in Kinds \ {"boot"}, NEW mine \in BOOLEAN,
         calls' = Sent(cs, kind, mine), BootCall, boot' = boot
  PROVE  BootCall'
<1> DEFINE e == [kind |-> kind, phase |-> "sent", mine |-> mine]
<1>1. e.kind # "boot"
  OBVIOUS
<1>2. calls' = cs \/ calls' = Append(cs, e)
  BY DEF Sent
<1> HIDE DEF e
<1>3. \A i \in DOMAIN calls' : calls'[i].kind = "boot" =>
        i \in DOMAIN calls /\ calls[i].kind = "boot"
  <2>1. CASE calls' = cs
    BY <2>1 DEF Queues
  <2>2. CASE calls' = Append(cs, e)
    <3>1. \A i \in DOMAIN calls' : i = Len(cs) + 1 \/ i \in 1..Len(cs)
      BY <2>2
    <3>2. /\ calls'[Len(cs) + 1] = e
          /\ \A i \in 1..Len(cs) : calls'[i] = cs[i]
      BY <2>2
    <3> QED
      BY <1>1, <3>1, <3>2 DEF Queues
  <2> QED
    BY <1>2, <2>1, <2>2
<1> QED
  BY <1>3 DEF BootCall

LEMMA BootCallNext ==
  ASSUME Queues, Queues', BootCall, BootLoad, [Next]_vars PROVE BootCall'
<1>1. CASE UNCHANGED <<calls, boot>>
  BY <1>1 DEF BootCall
<1>2. CASE Start
  <2>1. \A i \in DOMAIN calls : calls[i].kind # "boot"
    BY <1>2 DEF Start, BootCall
  <2> DEFINE e == [kind |-> "boot", phase |-> "sent", mine |-> FALSE]
  <2>2. calls' = calls \/ calls' = Append(calls, e)
    BY <1>2 DEF Start, Sent
  <2> HIDE DEF e
  <2>3. \A i \in DOMAIN calls' : calls'[i].kind = "boot" => i = Len(calls) + 1
    <3>1. CASE calls' = calls
      BY <2>1, <3>1
    <3>2. CASE calls' = Append(calls, e)
      <4>1. /\ DOMAIN calls = 1..Len(calls)
            /\ \A i \in DOMAIN calls' : i = Len(calls) + 1 \/ i \in 1..Len(calls)
            /\ \A i \in 1..Len(calls) : calls'[i] = calls[i]
        BY <3>2 DEF Queues
      <4> QED
        BY <2>1, <4>1
    <3> QED
      BY <2>2, <3>1, <3>2
  <2> QED
    BY <1>2, <2>3 DEF Start, BootCall
<1>3. CASE BootEnds
  <2>1. \A i \in DOMAIN calls : calls[i].kind # "boot"
    BY <1>3 DEF BootEnds, BootCall
  <2>2. calls' = calls \/ calls' = Forget(calls, "caps")
    BY <1>3 DEF BootEnds
  <2>3. \A i \in DOMAIN calls' : calls'[i].kind # "boot"
    <3>1. /\ DOMAIN calls = 1..Len(calls) /\ DOMAIN calls' = 1..Len(calls)
          /\ \A i \in 1..Len(calls) : calls'[i].kind = calls[i].kind
      BY <2>2, ForgetSeq DEF Queues, Kinds
    <3> QED
      BY <2>1, <3>1
  <2> QED
    BY <2>3 DEF BootCall
<1>4. ASSUME NEW kind \in Kinds \ {"boot"}, Tick(kind) PROVE BootCall'
  BY <1>4, OtherKindSent DEF Tick, Queues
<1>5. ASSUME NEW i \in Nat, CallServed(i) PROVE BootCall'
  <2>1. PICK q \in {"ok", "refused"} : calls' = [calls EXCEPT ![i].phase = q]
    BY <1>5 DEF CallServed
  <2>2. i \in DOMAIN calls /\ calls[i] \in CallSet
    BY <1>5 DEF CallServed, Queues
  <2>3. /\ Len(calls') = Len(calls)
        /\ \A j \in 1..Len(calls) : calls'[j].kind = calls[j].kind
    BY <2>1, <2>2 DEF Queues, CallSet
  <2> QED
    BY <1>5, <2>3, SameKinds DEF CallServed
<1>6. ASSUME NEW i \in Nat, CallAnswered(i) PROVE BootCall'
  <2>1. /\ i \in DOMAIN calls /\ calls' = Without(calls, i)
        /\ Len(calls) \in Nat /\ DOMAIN calls = 1..Len(calls)
    BY <1>6 DEF CallAnswered, Queues
  <2>2. /\ DOMAIN calls' = 1..(Len(calls) - 1)
        /\ \A j \in DOMAIN calls' : calls'[j] = IF j < i THEN calls[j] ELSE calls[j + 1]
    <3>1. calls \in Seq(CallSet) /\ calls' \in Seq(CallSet)
      BY DEF Queues
    <3>2. Len(calls') = Len(calls) - 1
      BY <2>1, <3>1, WithoutSeq
    <3>3. DOMAIN calls' = 1..(Len(calls) - 1)
      BY <3>1, <3>2
    <3>4. \A j \in 1..(Len(calls) - 1) :
            Without(calls, i)[j] = IF j < i THEN calls[j] ELSE calls[j + 1]
      BY <2>1, <3>1, WithoutSeq
    <3> QED
      BY <2>1, <3>3, <3>4
  <2>3. CASE calls[i].kind = "boot"
    <3>1. \A j \in DOMAIN calls' : calls'[j].kind # "boot"
      BY <2>1, <2>2, <2>3 DEF BootCall
    <3> QED
      BY <3>1 DEF BootCall
  <2>4. CASE calls[i].kind # "boot"
    <3>1. boot' = boot
      BY <1>6, <2>4 DEF CallAnswered
    <3> QED
      BY <2>1, <2>2, <3>1 DEF BootCall
  <2> QED
    BY <2>3, <2>4
<1>7. ASSUME NEW i \in Nat, ConfigApplied(i) PROVE BootCall'
  <2>1. calls' = calls \/ calls' = Forget(calls, "report")
    BY <1>7 DEF ConfigApplied, Recadence
  <2>2. /\ Len(calls') = Len(calls)
        /\ \A j \in 1..Len(calls) : calls'[j].kind = calls[j].kind
    BY <2>1, ForgetSeq DEF Queues, Kinds
  <2> QED
    BY <1>7, <2>2, SameKinds DEF ConfigApplied
<1>8. ASSUME NEW i \in Nat,
             ExporterReconciled(i) \/ LoadIsMoot(i) \/ LoadRefused(i)
      PROVE  BootCall'
  <2>1. i \in DOMAIN loads /\ calls' = calls
    BY <1>8 DEF ExporterReconciled, LoadIsMoot, LoadRefused, Running
  <2>2. loads[i].by # "boot" => boot' = boot
    BY <1>8 DEF ExporterReconciled, LoadIsMoot, LoadRefused, LoadResolves
  <2>3. boot # "caps" \/ boot' = boot
    BY <2>1, <2>2 DEF BootLoad
  <2> QED
    BY <2>1, <2>3 DEF BootCall
<1>9. CASE ChannelOpens
  <2> DEFINE cs == IF authPaused /\ ~fatal THEN Forget(Forget(calls, "caps"), "report") ELSE calls
  <2>1. /\ cs \in Seq(CallSet) /\ Len(cs) = Len(calls)
        /\ \A i \in 1..Len(calls) : cs[i].kind = calls[i].kind
    BY ForgetSeq DEF Queues, Kinds
  <2>2. calls' = IF fatal THEN cs ELSE Sent(cs, "caps", FALSE)
    BY <1>9 DEF ChannelOpens
  <2>3. boot' = boot
    BY <1>9 DEF ChannelOpens
  <2> HIDE DEF cs
  <2>4. CASE calls' = cs
    BY <2>1, <2>3, <2>4, SameKinds
  <2>5. CASE calls' = Sent(cs, "caps", FALSE)
    BY <2>1, <2>3, <2>5, OtherKindSent DEF Kinds
  <2> QED
    BY <2>2, <2>4, <2>5
<1>10. CASE RefreshTick \/ ChannelRefused \/ ChannelFails \/ ChannelDrops \/ TokenChanges
            \/ ConfigAssigned
  BY <1>1, <1>10 DEF RefreshTick, ChannelRefused, ChannelFails, ChannelDrops,
       TokenChanges,
     ConfigAssigned
<1>11. CASE \E i \in Nat : LoadServed(i)
  BY <1>1, <1>11 DEF LoadServed
<1>12. CASE UNCHANGED vars
  BY <1>1, <1>12 DEF vars
<1> QED
  BY <1>2, <1>3, <1>4, <1>5, <1>6, <1>7, <1>8, <1>9, <1>10, <1>11, <1>12
  DEF Next, CallStep, LoadStep, ReportTick, ProbeTick, CapsTick, Kinds

LEMMA BootLoadNext ==
  ASSUME Queues, Queues', BootLoad, Phased, [Next]_vars PROVE BootLoad'
<1>1. CASE loads' = loads /\ (boot' \in {"off", "caps"} => boot \in {"off", "caps"})
  BY <1>1 DEF BootLoad
<1>2. ASSUME NEW ls \in Seq(LoadSet), ls = loads \/ ls = ForgetTick(loads),
             NEW by \in {"open", "tick"}, NEW force \in BOOLEAN,
             loads' = ls \/ loads' = Append(ls, Load(force, by)),
             boot' \in {"off", "caps"} => boot \in {"off", "caps"}
      PROVE  BootLoad'
  <2>1. /\ Len(ls) = Len(loads) /\ DOMAIN loads = 1..Len(loads)
        /\ \A i \in 1..Len(loads) : ls[i].by = "boot" => loads[i].by = "boot"
    BY <1>2, ForgetTickSeq DEF Queues
  <2> DEFINE e == Load(force, by)
  <2>2. e.by # "boot" /\ (loads' = ls \/ loads' = Append(ls, e))
    BY <1>2 DEF Load
  <2> HIDE DEF e
  <2>3. \A i \in DOMAIN loads' : loads'[i].by = "boot" => i \in DOMAIN loads /\ loads[i].by = "boot"
    <3>1. CASE loads' = ls
      BY <2>1, <3>1
    <3>2. CASE loads' = Append(ls, e)
      <4>1. /\ \A i \in DOMAIN loads' : i = Len(ls) + 1 \/ i \in 1..Len(ls)
            /\ loads'[Len(ls) + 1] = e
            /\ \A i \in 1..Len(ls) : loads'[i] = ls[i]
        BY <3>2
      <4> QED
        BY <2>1, <2>2, <4>1
    <3> QED
      BY <2>2, <3>1, <3>2
  <2> QED
    BY <1>2, <2>3 DEF BootLoad
<1>3. CASE BootEnds
  <2>1. (loads' = loads \/ loads' = ForgetTick(loads)) /\ boot' = "over"
    BY <1>3 DEF BootEnds
  <2> QED
    BY <2>1 DEF BootLoad
<1>4. CASE RefreshTick
  <2>1. boot' = boot /\ (loads' = loads \/ loads' = Append(loads, Load(FALSE, "tick")))
    BY <1>4 DEF RefreshTick, Enqueued
  <2> QED
    BY <1>2, <2>1 DEF Queues
<1>5. CASE ChannelOpens
  <2> DEFINE ls == IF authPaused /\ ~fatal THEN ForgetTick(loads) ELSE loads
  <2>1. boot' = boot /\ (loads' = ls \/ loads' = Append(ls, Load(TRUE, "open")))
    BY <1>5 DEF ChannelOpens, Enqueued
  <2>2. ls \in Seq(LoadSet) /\ (ls = loads \/ ls = ForgetTick(loads))
    BY ForgetTickSeq DEF Queues
  <2> HIDE DEF ls
  <2> QED
    BY <1>2, <2>1, <2>2
<1>6. ASSUME NEW i \in Nat, CallAnswered(i) PROVE BootLoad'
  <2>1. boot' \in {"config", "over"} \/ (boot' = boot /\ loads' = loads)
    BY <1>6 DEF CallAnswered, CapsReported
  <2> QED
    BY <2>1 DEF BootLoad
<1>7. ASSUME NEW i \in Nat, LoadServed(i) \/ ConfigApplied(i) PROVE BootLoad'
  <2>1. /\ boot' = boot /\ i \in DOMAIN loads /\ loads[i] \in LoadSet
        /\ \/ \E q : loads' = [loads EXCEPT ![i].phase = q, ![i].answer = assigned]
           \/ loads' = [loads EXCEPT ![i].phase = "exporter"]
    <3>1. CASE LoadServed(i)
      <4>1. /\ boot' = boot /\ i \in DOMAIN loads
            /\ \E q : loads' = [loads EXCEPT ![i].phase = q, ![i].answer = assigned]
        BY <3>1 DEF LoadServed, Running
      <4>2. loads[i] \in LoadSet
        BY <4>1 DEF Queues
      <4> QED
        BY <4>1, <4>2
    <3>2. CASE ConfigApplied(i)
      BY <3>2 DEF ConfigApplied, Running, Queues
    <3> QED
      BY <1>7, <3>1, <3>2
  <2>2. DOMAIN loads' = DOMAIN loads /\ \A j \in DOMAIN loads : loads'[j].by = loads[j].by
    BY <2>1 DEF LoadSet, Queues
  <2> QED
    BY <2>1, <2>2 DEF BootLoad
<1>8. ASSUME NEW i \in Nat,
             ExporterReconciled(i) \/ LoadIsMoot(i) \/ LoadRefused(i)
      PROVE  BootLoad'
  <2>1. /\ 1 \in DOMAIN loads /\ loads' = Without(loads, 1)
        /\ boot' \in {"binding", "over", boot}
    BY <1>8 DEF ExporterReconciled, LoadIsMoot, LoadRefused, LoadResolves,
         Running
  <2>2. \A j \in DOMAIN loads' : j + 1 \in DOMAIN loads /\ loads'[j] = loads[j + 1]
    <3>1. /\ Len(loads') = Len(loads) - 1 /\ Len(loads) \in Nat
          /\ DOMAIN loads' = 1..Len(loads') /\ DOMAIN loads = 1..Len(loads)
      BY <2>1, WithoutSeq DEF Queues
    <3>2. \A j \in 1..(Len(loads) - 1) : Without(loads, 1)[j] = loads[j + 1]
      <4>1. \A j \in 1..(Len(loads) - 1) :
              Without(loads, 1)[j] = IF j < 1 THEN loads[j] ELSE loads[j + 1]
        BY <2>1, WithoutSeq DEF Queues
      <4> QED
        BY <3>1, <4>1
    <3> QED
      BY <2>1, <3>1, <3>2
  <2> QED
    BY <2>1, <2>2 DEF BootLoad
<1>9. CASE Start \/ ReportTick \/ ProbeTick \/ CapsTick \/ \E i \in Nat : CallServed(i)
  BY <1>1, <1>9 DEF Start, ReportTick, ProbeTick, CapsTick, Tick, CallServed
<1>10. CASE ChannelRefused \/ ChannelFails \/ ChannelDrops \/ TokenChanges \/ ConfigAssigned
  BY <1>1, <1>10 DEF ChannelRefused, ChannelFails, ChannelDrops, TokenChanges,
       ConfigAssigned
<1>11. CASE UNCHANGED vars
  BY <1>1, <1>11 DEF vars
<1> QED
  BY <1>3, <1>4, <1>5, <1>6, <1>7, <1>8, <1>9, <1>10, <1>11 DEF Next, CallStep,
       LoadStep

LEMMA BoundedNext ==
  ASSUME Queues, Queues', BootCall, Bounded, Phased, [Next]_vars PROVE Bounded'
<1> USE RuntimeAssumption DEF Queues, Bounded
<1>1. CASE loads' = loads /\ (boot' \in {"off", "caps"} => boot \in {"off", "caps"})
  BY <1>1
<1>2. ASSUME NEW ls \in Seq(LoadSet), Len(ls) = Len(loads), NEW by, NEW force,
             boot' = boot,
             loads' = ls \/ loads' = Enqueued(ls, force, by)
      PROVE  Bounded'
  BY <1>2 DEF Enqueued
<1>3. CASE BootEnds
  <2>1. Len(loads') = Len(loads) /\ boot' = "over"
    BY <1>3, ForgetTickSeq DEF BootEnds
  <2> QED
    BY <2>1
<1>4. CASE RefreshTick
  BY <1>2, <1>4 DEF RefreshTick
<1>5. CASE ChannelOpens
  <2> DEFINE ls == IF authPaused /\ ~fatal THEN ForgetTick(loads) ELSE loads
  <2>1. boot' = boot /\ (loads' = ls \/ loads' = Enqueued(ls, TRUE, "open"))
    BY <1>5 DEF ChannelOpens
  <2>2. ls \in Seq(LoadSet) /\ Len(ls) = Len(loads)
    BY ForgetTickSeq
  <2> HIDE DEF ls
  <2> QED
    BY <1>2, <2>1, <2>2
<1>6. ASSUME NEW i \in Nat, CallAnswered(i) PROVE Bounded'
  <2>1. CASE calls[i].kind = "boot"
    <3>1. boot = "caps" /\ Len(loads) <= MaxLoads
      BY <1>6, <2>1 DEF CallAnswered, BootCall
    <3>2. /\ boot' \in {"config", "over"}
          /\ loads' = loads \/ loads' = Append(loads, Load(TRUE, "boot"))
      BY <1>6, <2>1 DEF CallAnswered, CapsReported
    <3>3. Len(loads') <= Len(loads) + 1
      <4> DEFINE e == Load(TRUE, "boot")
      <4>1. loads' = loads \/ loads' = Append(loads, e)
        BY <3>2
      <4> HIDE DEF e
      <4> QED
        BY <4>1
    <3> QED
      BY <3>1, <3>2, <3>3
  <2>2. CASE calls[i].kind # "boot"
    BY <1>1, <1>6, <2>2 DEF CallAnswered
  <2> QED
    BY <2>1, <2>2
<1>7. ASSUME NEW i \in Nat, LoadServed(i) \/ ConfigApplied(i) PROVE Bounded'
  <2>1. boot' = boot /\ Len(loads') = Len(loads)
    BY <1>7 DEF LoadServed, ConfigApplied, Running
  <2> QED
    BY <2>1
<1>8. ASSUME NEW i \in Nat,
             ExporterReconciled(i) \/ LoadIsMoot(i) \/ LoadRefused(i)
      PROVE  Bounded'
  <2>1. i \in DOMAIN loads /\ loads' = Without(loads, i)
    BY <1>8 DEF ExporterReconciled, LoadIsMoot, LoadRefused, LoadResolves,
         Running
  <2>2. Len(loads') = Len(loads) - 1 /\ Len(loads) \in Nat
    BY <2>1, WithoutSeq
  <2> QED
    BY <2>2
<1>9. CASE Start \/ ReportTick \/ ProbeTick \/ CapsTick \/ \E i \in Nat : CallServed(i)
  BY <1>1, <1>9 DEF Start, ReportTick, ProbeTick, CapsTick, Tick, CallServed
<1>10. CASE ChannelRefused \/ ChannelFails \/ ChannelDrops \/ TokenChanges \/ ConfigAssigned
  BY <1>1, <1>10 DEF ChannelRefused, ChannelFails, ChannelDrops, TokenChanges,
       ConfigAssigned
<1>11. CASE UNCHANGED vars
  BY <1>1, <1>11 DEF vars
<1> QED
  BY <1>3, <1>4, <1>5, <1>6, <1>7, <1>8, <1>9, <1>10, <1>11 DEF Next, CallStep,
       LoadStep

-----------------------------------------------------------------------------
IInv == /\ RInv /\ Chain
        /\ Reports /\ Phased /\ Flagged
        /\ Queues /\ BootCall /\ BootLoad /\ Bounded

LEMMA IInvInit == Init => IInv
<1> SUFFICES ASSUME Init PROVE IInv
  OBVIOUS
<1> USE RuntimeAssumption DEF Init, Live!Init
<1>1. Reports /\ Phased /\ Flagged
  BY DEF Reports, Phased, Flagged
<1>2. Queues /\ BootCall /\ BootLoad /\ Bounded
  BY DEF Queues, BootCall, BootLoad, Bounded
<1>3. Chain
  BY DEF Chain, Reconciling
<1> QED
  BY <1>1, <1>2, <1>3, InitHolds DEF IInv

LEMMA IInvNext == IInv /\ [Next]_vars => IInv'
<1> SUFFICES ASSUME IInv, [Next]_vars PROVE IInv'
  OBVIOUS
<1> USE DEF IInv
<1>1. Queues' /\ assigned \in Configs
  BY QueuesNext DEF Reports
<1>2. FatalIsQuiet' /\ Cadenced' /\ Armed'
  BY QuietNext, CadenceNext, ArmedNext DEF RInv
<1>3. Reports' /\ Phased' /\ Flagged'
  BY ReportsNext, PhasedNext, FlaggedNext
<1>4. Chain'
  BY <1>1, ChainNext
<1>5. BootCall' /\ BootLoad' /\ Bounded'
  BY <1>1, BootCallNext, BootLoadNext, BoundedNext
<1> QED
  BY <1>1, <1>2, <1>3, <1>4, <1>5 DEF RInv

LEMMA IInvHolds == Spec => []IInv
BY IInvInit, IInvNext, PTL DEF Spec

(* Every variable keeps its type, and the chain holds at most the            *)
(* bootstrap's own load beyond the bound.                                   *)
THEOREM RuntimeTypes == Spec => []TypeOK
<1>1. IInv => TypeOK
  BY DEF IInv, Reports, Phased, Flagged, Queues, Bounded, TypeOK, CallSet,
       LoadSet
<1> QED
  BY <1>1, IInvHolds, PTL

(* "Stopping. Will NOT re-enroll": whatever was in flight when the agent     *)
(* went fatal, no timer and no channel comes back.                          *)
THEOREM RuntimeFatalIsQuiet == Spec => []FatalIsQuiet
<1>1. IInv => FatalIsQuiet
  BY DEF IInv, RInv
<1> QED
  BY <1>1, IInvHolds, PTL

(* Whichever load changed the interval last, an armed report timer runs at   *)
(* the cadence of the configuration in force.                               *)
THEOREM RuntimeCadence == Spec => []CadenceMatches
<1>1. IInv => CadenceMatches
  BY DEF IInv, RInv, Cadenced
<1> QED
  BY <1>1, IInvHolds, PTL

(* Whatever interleaving of pauses, resumes, loads and bootstrap steps: a    *)
(* bootstrapped agent that is neither paused nor stopped runs its timers.    *)
THEOREM RuntimeRuns == Spec => []RunsUnlessPaused
<1>1. IInv => RunsUnlessPaused
  BY DEF IInv, RInv, Armed, RunsUnlessPaused
<1> QED
  BY <1>1, IInvHolds, PTL

(* With no load under way the exporter is the one of the configuration in    *)
(* force, for any number of loads that were chained before.                 *)
THEOREM RuntimeConfigIsWhole == Spec => []ConfigIsWhole
<1>1. IInv => ConfigIsWhole
  <2> SUFFICES ASSUME IInv, loads = <<>>, appliedKey # <<>>
               PROVE  /\ exporter = (monitorConfig \in WantsExporter)
                      /\ appliedKey = <<monitorConfig>>
    BY DEF ConfigIsWhole
  <2>1. ~Reconciling
    BY DEF Reconciling
  <2> QED
    BY <2>1 DEF IInv, Chain
<1> QED
  BY <1>1, IInvHolds, PTL

-----------------------------------------------------------------------------
(* Discovery.  While an address has its ports tried, the line holds the      *)
(* workers that queue, with the ports that follow those tried already; a     *)
(* worker that is done found no port left.                                   *)
LineInOrder ==
  sweep = "ports" =>
    /\ next = Len(tried) + Len(line) + 1
    /\ \A k \in 1..Len(line) :
         /\ line[k] \in Workers
         /\ worker[line[k]] = [at |-> "queued", port |-> Len(tried) + k]
    /\ (\E w \in Workers : worker[w].at = "done") => next = NumPorts + 1
PortsAreListed == \A w \in Workers : worker[w].at # "done" => worker[w].port > 0
WorkersRest == sweep # "ports" => \A w \in Workers : worker[w].at = "done"

PastTypeOK ==
  /\ began \in Int /\ granted \in Nat /\ last \in Int \X Int
  /\ tried \in Seq(Nat) /\ heard \subseteq 1..NumPorts

(* A slot is claimed after the last grant and at least one interval after    *)
(* the slot before, which is no earlier than the grant before that.          *)
SlotsApart ==
  /\ began = Never => granted = 0 /\ wake = Never /\ nextAt = Never /\ last = <<Never, Never>>
  /\ began # Never => nextAt >= began + granted * Gap
  /\ wake # Never => /\ began # Never /\ wake >= began + granted * Gap /\ nextAt = wake + Gap
                     /\ last[1] # Never => wake >= last[1] + Gap
                     /\ last[2] # Never => wake >= last[2]
  /\ wake = Never /\ last[1] # Never => nextAt >= last[1] + Gap
  /\ last[2] <= clock

SweepInv ==
  /\ DiscoveryTypeOK /\ EveryPortOnce /\ PastTypeOK
  /\ LineInOrder /\ PortsAreListed /\ WorkersRest /\ SlotsApart

(* What the proofs use of a sequence.                                       *)
LEMMA LineFacts ==
  ASSUME NEW T, NEW s \in Seq(T)
  PROVE  /\ Len(s) \in Nat /\ DOMAIN s = 1..Len(s)
         /\ \A k \in 1..Len(s) : s[k] \in T
         /\ s # << >> => Len(s) > 0 /\ Head(s) = s[1]
BY LenProperties, EmptySeq

LEMMA AppendFacts ==
  ASSUME NEW T, NEW s \in Seq(T), NEW e \in T
  PROVE  /\ Append(s, e) \in Seq(T) /\ Len(Append(s, e)) = Len(s) + 1
         /\ \A k \in 1..Len(s) : Append(s, e)[k] = s[k]
         /\ Append(s, e)[Len(s) + 1] = e
OBVIOUS

LEMMA TailFacts ==
  ASSUME NEW T, NEW s \in Seq(T), s # << >>
  PROVE  /\ Tail(s) \in Seq(T) /\ Len(Tail(s)) = Len(s) - 1
         /\ \A k \in 1..Len(s) - 1 : Tail(s)[k] = s[k + 1]
BY HeadTailProperties

(* The line of one sweeper.                                                 *)
LEMMA SweeperAlone == <<Sweeper>> \in Seq(0..Width) /\ <<>> \in Seq(0..Width)
BY DiscoveryAssumption DEF Sweeper

LEMMA SweepStart == DiscoveryInit => SweepInv
<1> SUFFICES ASSUME DiscoveryInit PROVE SweepInv OBVIOUS
<1> USE DiscoveryAssumption DEF DiscoveryInit
<1>1. DiscoveryTypeOK BY SweeperAlone DEF DiscoveryTypeOK, Idle, Never
<1>2. EveryPortOnce BY DEF EveryPortOnce
<1>3. PastTypeOK BY DEF PastTypeOK, Never
<1>4. LineInOrder /\ WorkersRest /\ PortsAreListed
  BY DEF LineInOrder, WorkersRest, PortsAreListed, Idle
<1>5. SlotsApart BY DEF SlotsApart, Never
<1> QED BY <1>1, <1>2, <1>3, <1>4, <1>5 DEF SweepInv

(* The pace: what a claim and a grant do to the slots.                      *)
LEMMA ClaimIsApart ==
  ASSUME SweepInv, Claims
  PROVE  SlotsApart' /\ wake' \in Int /\ nextAt' \in Int /\ began' \in Int
<1> DEFINE G == granted * Gap
<1>1. clock \in Nat /\ nextAt \in Int /\ wake = Never /\ began \in Int /\ granted \in Nat
      /\ last \in Int \X Int /\ Gap \in Nat
  BY DiscoveryAssumption DEF SweepInv, DiscoveryTypeOK, PastTypeOK, Claims
<1>2. /\ wake' = IF nextAt > clock THEN nextAt ELSE clock
      /\ nextAt' = wake' + Gap
      /\ began' = IF began = Never THEN clock ELSE began
      /\ granted' = granted /\ last' = last /\ clock' = clock
  BY DEF Claims, NextSlot
<1>3. wake' \in Nat /\ wake' >= clock /\ wake' >= nextAt BY <1>1, <1>2
<1>4. G \in Int /\ granted' * Gap = G BY <1>1, <1>2
<1>5. began' \in Int /\ began' # Never BY <1>1, <1>2 DEF Never
<1>6. wake' >= began' + G
  <2>1. CASE began = Never
    <3>1. granted = 0 BY <2>1 DEF SweepInv, SlotsApart
    <3>2. G = 0 BY <3>1, <1>1
    <3> HIDE DEF G
    <3> QED BY <2>1, <3>2, <1>1, <1>2, <1>3
  <2>2. CASE began # Never
    <3>1. nextAt >= began + G BY <2>2 DEF SweepInv, SlotsApart
    <3> HIDE DEF G
    <3> QED BY <2>2, <3>1, <1>1, <1>2, <1>3, <1>4
  <2> QED BY <2>1, <2>2
<1>7. /\ last[1] # Never => nextAt >= last[1] + Gap
      /\ last[2] <= clock
  BY <1>1 DEF SweepInv, SlotsApart
<1> HIDE DEF G
<1>8. nextAt' >= began' + G BY <1>1, <1>2, <1>3, <1>4, <1>5, <1>6
<1>9. /\ last'[1] # Never => wake' >= last'[1] + Gap
      /\ last'[2] # Never => wake' >= last'[2]
      /\ last'[2] <= clock'
  BY <1>1, <1>2, <1>3, <1>7
<1>10. wake' # Never BY <1>3 DEF Never
<1> QED BY <1>2, <1>3, <1>4, <1>5, <1>6, <1>8, <1>9, <1>10, <1>1 DEF SlotsApart

LEMMA GrantIsApart ==
  ASSUME SweepInv, NEW who, Granted(who), clock' = clock
  PROVE  /\ SlotsApart' /\ wake' \in Int /\ nextAt' \in Int /\ began' \in Int
         /\ granted' \in Nat /\ last' \in Int \X Int
         /\ clock >= began + granted * Gap
         /\ last[1] # Never => clock >= last[1] + Gap
<1> DEFINE G == granted * Gap
<1>1. clock \in Nat /\ nextAt \in Int /\ wake \in Int /\ began \in Int /\ granted \in Nat
      /\ last \in Int \X Int /\ Gap \in Nat
  BY DiscoveryAssumption DEF SweepInv, DiscoveryTypeOK, PastTypeOK
<1>2. /\ wake # Never /\ wake <= clock
      /\ wake' = Never /\ nextAt' = nextAt /\ began' = began
      /\ granted' = granted + 1 /\ last' = <<last[2], clock>>
  BY DEF Granted
<1>3. /\ began # Never /\ wake >= began + G /\ nextAt = wake + Gap
      /\ last[1] # Never => wake >= last[1] + Gap
      /\ last[2] # Never => wake >= last[2]
  BY <1>2 DEF SweepInv, SlotsApart
<1>4. G \in Int /\ granted' * Gap = G + Gap BY <1>1, <1>2
<1>5. last[1] \in Int /\ last[2] \in Int /\ last'[1] = last[2] /\ last'[2] = clock BY <1>1, <1>2
<1> HIDE DEF G
<1>6. nextAt' >= began' + granted' * Gap BY <1>1, <1>2, <1>3, <1>4
<1>7. last'[1] # Never => nextAt' >= last'[1] + Gap BY <1>1, <1>2, <1>3, <1>5
<1>8. clock >= began + G /\ (last[1] # Never => clock >= last[1] + Gap)
  BY <1>1, <1>2, <1>3, <1>4, <1>5
<1>9. last'[2] <= clock' BY <1>1, <1>5
<1>10. SlotsApart' BY <1>2, <1>3, <1>6, <1>7, <1>9 DEF SlotsApart
<1> QED BY <1>1, <1>2, <1>5, <1>8, <1>10 DEF Never, G

(* Steps that leave the limiter alone, whoever joins or leaves the line.     *)
LEMMA SlotsRest ==
  ASSUME SlotsApart, UNCHANGED <<nextAt, wake, began, granted, last>>, clock \in Int,
         last \in Int \X Int, clock' \in Int, clock' >= clock
  PROVE  SlotsApart'
<1>1. last[2] <= clock' BY DEF SlotsApart
<1> QED BY <1>1 DEF SlotsApart

(* The steps that touch no port: the asking, the echo, a claim, the name of  *)
(* an address, and the end.                                                  *)
LEMMA PortsRest ==
  ASSUME SweepInv, UNCHANGED <<next, worker, open, tried, heard>>,
         DiscoveryTypeOK', PastTypeOK', SlotsApart',
         UNCHANGED <<sweep, line>> \/ (sweep # "ports" /\ sweep' \notin {"ports", "naming"})
  PROVE  SweepInv'
<1> USE DEF SweepInv
<1>1. EveryPortOnce' BY DEF EveryPortOnce
<1>2. LineInOrder' BY DEF LineInOrder
<1>3. WorkersRest' /\ PortsAreListed' BY DEF WorkersRest, PortsAreListed
<1> QED BY <1>1, <1>2, <1>3

LEMMA BeginsKeeps ==
  ASSUME SweepInv, AddressBegins
  PROVE  SweepInv'
<1> USE DEF AddressBegins
<1>0. NumPorts \in Nat /\ Width \in Nat \ {0} /\ Started \in 0..Width /\ Started <= NumPorts
  BY DiscoveryAssumption DEF Started
<1>1. /\ SlotsApart' /\ wake' \in Int /\ nextAt' \in Int /\ began' \in Int
      /\ granted' \in Nat /\ last' \in Int \X Int
  BY GrantIsApart
<1>2. line' \in Seq(0..Width) /\ Len(line') = Started /\ \A k \in 1..Started : line'[k] = k
  <2>1. \A k \in 1..Started : k \in 0..Width BY <1>0
  <2>2. [k \in 1..Started |-> k] \in Seq(0..Width) BY <1>0, <2>1, SeqDef
  <2>3. line' \in Seq(0..Width) BY <2>2
  <2>4. DOMAIN line' = 1..Started OBVIOUS
  <2>5. Len(line') \in Nat /\ DOMAIN line' = 1..Len(line') BY <2>3, LineFacts
  <2> DEFINE l == Len(line')
  <2>6. l \in Nat /\ 1..l = 1..Started BY <2>4, <2>5
  <2> HIDE DEF l
  <2>7. l = Started BY <2>6, <1>0
  <2> QED BY <2>3, <2>7 DEF l
<1>3. \A w \in Workers : worker'[w] = IF w <= Started THEN [at |-> "queued", port |-> w] ELSE Idle
  OBVIOUS
<1>4. DiscoveryTypeOK'
  <2>1. worker' \in [Workers -> [at : {"done", "queued", "trying"}, port : 0..NumPorts]]
    <3>1. \A w \in Workers : w <= Started => w \in 0..NumPorts BY <1>0 DEF Workers
    <3>2. \A w \in Workers :
            worker'[w] \in [at : {"done", "queued", "trying"}, port : 0..NumPorts]
      BY <3>1, <1>3, <1>0 DEF Idle
    <3> QED BY <3>2
  <2>2. next' \in 1..NumPorts + 1 BY <1>0
  <2> QED BY <1>0, <1>1, <1>2, <2>1, <2>2 DEF SweepInv, DiscoveryTypeOK
<1>5. tried' = <<>> /\ Len(tried') = 0 /\ tried' \in Seq(Nat) BY EmptySeq
<1>6. PastTypeOK' BY <1>1, <1>5 DEF PastTypeOK
<1>7. EveryPortOnce' BY <1>5 DEF EveryPortOnce
<1>8. LineInOrder'
  <2>1. next' = Len(tried') + Len(line') + 1 BY <1>0, <1>2, <1>5
  <2>2. ASSUME NEW k \in 1..Started
        PROVE  line'[k] \in Workers /\ worker'[line'[k]] = [at |-> "queued", port |-> Len(tried') + k]
    <3>1. k \in Workers /\ k <= Started /\ Len(tried') + k = k BY <1>0, <1>5 DEF Workers
    <3> QED BY <3>1, <1>2, <1>3
  <2>3. ASSUME NEW w \in Workers, worker'[w].at = "done" PROVE next' = NumPorts + 1
    <3>1. ~ (w <= Started) BY <2>3, <1>3
    <3>2. Started < Width BY <3>1, <1>0 DEF Workers
    <3> QED BY <3>2, <1>0 DEF Started
  <2> QED BY <2>1, <2>2, <2>3, <1>2 DEF LineInOrder
<1>9. WorkersRest' BY DEF WorkersRest
<1>10. PortsAreListed' BY <1>3 DEF PortsAreListed, Workers, Idle
<1> QED BY <1>10, <1>1, <1>4, <1>6, <1>7, <1>8, <1>9 DEF SweepInv

(* The workers in the line queue for different ports.                       *)
LEMMA QueuedIsInOrder ==
  ASSUME SweepInv, sweep = "ports"
  PROVE  /\ Len(tried) \in Nat /\ Len(line) \in Nat /\ next \in 1..NumPorts + 1
         /\ NumPorts \in Nat /\ next = Len(tried) + Len(line) + 1
         /\ \A k \in 1..Len(line) :
              /\ line[k] \in Workers
              /\ worker[line[k]] = [at |-> "queued", port |-> Len(tried) + k]
              /\ worker[line[k]].at = "queued" /\ worker[line[k]].port = Len(tried) + k
         /\ \A j, k \in 1..Len(line) : line[j] = line[k] => j = k
<1>1. line \in Seq(0..Width) /\ tried \in Seq(Nat) BY DEF SweepInv, DiscoveryTypeOK, PastTypeOK
<1>2. Len(tried) \in Nat /\ Len(line) \in Nat BY <1>1, LineFacts
<1>3. \A k \in 1..Len(line) :
        /\ line[k] \in Workers
        /\ worker[line[k]] = [at |-> "queued", port |-> Len(tried) + k]
  BY DEF SweepInv, LineInOrder
<1>4. \A j, k \in 1..Len(line) : line[j] = line[k] => Len(tried) + j = Len(tried) + k
  <2> TAKE j, k \in 1..Len(line)
  <2> HAVE line[j] = line[k]
  <2>1. [at |-> "queued", port |-> Len(tried) + j] = [at |-> "queued", port |-> Len(tried) + k]
    BY <1>3
  <2> QED BY <2>1
<1>5. \A j, k \in 1..Len(line) : line[j] = line[k] => j = k
  <2> DEFINE t == Len(tried)
             l == Len(line)
  <2>1. t \in Nat /\ l \in Nat BY <1>2
  <2>2. \A j, k \in 1..l : line[j] = line[k] => t + j = t + k BY <1>4
  <2> HIDE DEF t, l
  <2>3. \A j, k \in 1..l : t + j = t + k => j = k BY <2>1
  <2> QED BY <2>2, <2>3 DEF l
<1> QED BY <1>2, <1>3, <1>5, DiscoveryAssumption DEF SweepInv, LineInOrder, DiscoveryTypeOK

LEMMA ConnectsKeeps ==
  ASSUME SweepInv, NEW w \in Workers, Connects(w)
  PROVE  SweepInv'
<1> USE DEF Connects
<1>1. /\ SlotsApart' /\ wake' \in Int /\ nextAt' \in Int /\ began' \in Int
      /\ granted' \in Nat /\ last' \in Int \X Int
  BY GrantIsApart
<1>2. sweep = "ports" BY DEF SweepInv, WorkersRest
<1>3. /\ line \in Seq(0..Width) /\ line # << >> /\ tried \in Seq(Nat) /\ Head(line) = w
      /\ worker \in [Workers -> [at : {"done", "queued", "trying"}, port : 0..NumPorts]]
  BY DEF Granted, SweepInv, DiscoveryTypeOK, PastTypeOK
<1> DEFINE t == Len(tried)
           l == Len(line)
<1>4. /\ t \in Nat /\ l \in Nat /\ next \in 1..NumPorts + 1 /\ next = t + l + 1 /\ NumPorts \in Nat
      /\ \A k \in 1..l :
           /\ line[k] \in Workers
           /\ worker[line[k]] = [at |-> "queued", port |-> t + k]
           /\ worker[line[k]].port = t + k
      /\ \A j, k \in 1..l : line[j] = line[k] => j = k
  BY <1>2, QueuedIsInOrder
<1>5. l > 0 /\ line[1] = w BY <1>3, LineFacts
<1>6. worker[w].port = t + 1
  <2>1. 1 \in 1..l BY <1>4, <1>5
  <2> HIDE DEF t, l
  <2> QED BY <2>1, <1>4, <1>5
<1>7. line' \in Seq(0..Width) /\ Len(line') = l - 1 /\ \A k \in 1..l - 1 : line'[k] = line[k + 1]
  BY <1>3, TailFacts
<1>8. /\ tried' \in Seq(Nat) /\ Len(tried') = t + 1 /\ tried'[t + 1] = t + 1
      /\ \A k \in 1..t : tried'[k] = tried[k]
  <2>1. t + 1 \in Nat BY <1>4
  <2>2. tried' = Append(tried, t + 1) BY <1>6
  <2> QED BY <2>1, <2>2, <1>3, AppendFacts
<1>9. /\ worker' \in [Workers -> [at : {"done", "queued", "trying"}, port : 0..NumPorts]]
      /\ worker'[w].at = "trying" /\ worker'[w].port = worker[w].port
      /\ \A x \in Workers : x # w => worker'[x] = worker[x]
  BY <1>3
<1>10. DiscoveryTypeOK' BY <1>1, <1>7, <1>9 DEF SweepInv, DiscoveryTypeOK
<1>11. PastTypeOK' BY <1>1, <1>8 DEF SweepInv, PastTypeOK
<1>12. EveryPortOnce'
  <2>1. DOMAIN tried = 1..t /\ DOMAIN tried' = 1..t + 1 BY <1>3, <1>8, LineFacts
  <2>2. \A k \in 1..t : tried[k] = k BY <2>1 DEF SweepInv, EveryPortOnce
  <2> HIDE DEF t
  <2>3. \A k \in 1..t + 1 : k \in 1..t \/ k = t + 1 BY <1>4
  <2>4. \A k \in DOMAIN tried' : tried'[k] = k BY <2>1, <2>2, <2>3, <1>8
  <2> QED BY <2>4, <1>2 DEF SweepInv, EveryPortOnce
<1> HIDE DEF t, l
<1>13. LineInOrder'
  <2>1. next' = Len(tried') + Len(line') + 1 BY <1>4, <1>7, <1>8
  <2>2. ASSUME NEW k \in 1..Len(line')
        PROVE  line'[k] \in Workers /\ worker'[line'[k]] = [at |-> "queued", port |-> Len(tried') + k]
    <3>1. k + 1 \in 1..l /\ k \in 1..l - 1 /\ 1 \in 1..l /\ k + 1 # 1 BY <1>4, <1>7
    <3>2. line'[k] = line[k + 1] /\ line[k + 1] # w BY <3>1, <1>4, <1>5, <1>7
    <3>3. worker'[line'[k]] = [at |-> "queued", port |-> t + (k + 1)]
      BY <3>1, <3>2, <1>4, <1>9
    <3>4. t + (k + 1) = Len(tried') + k BY <1>4, <1>8, <3>1
    <3> QED BY <3>1, <3>2, <3>3, <3>4, <1>4
  <2>3. ASSUME NEW x \in Workers, worker'[x].at = "done" PROVE next' = NumPorts + 1
    <3>1. x # w BY <2>3, <1>9
    <3>2. worker[x].at = "done" BY <2>3, <3>1, <1>9
    <3> QED BY <3>2, <1>2 DEF SweepInv, LineInOrder
  <2> QED BY <2>1, <2>2, <2>3 DEF LineInOrder
<1>14. WorkersRest' BY <1>2 DEF WorkersRest
<1>15. PortsAreListed'
  <2>1. worker'[w].port > 0 BY <1>4, <1>6, <1>9
  <2> QED BY <2>1, <1>9 DEF SweepInv, PortsAreListed
<1> QED BY <1>15, <1>1, <1>10, <1>11, <1>12, <1>13, <1>14 DEF SweepInv

LEMMA ConnectOverKeeps ==
  ASSUME SweepInv, NEW w \in Workers, ConnectOver(w)
  PROVE  SweepInv'
<1> USE DEF ConnectOver, OutcomeOf
<1>1. sweep = "ports" BY DEF SweepInv, WorkersRest
<1>2. /\ line \in Seq(0..Width) /\ tried \in Seq(Nat) /\ NumPorts \in Nat
      /\ worker \in [Workers -> [at : {"done", "queued", "trying"}, port : 0..NumPorts]]
      /\ w \in 0..Width /\ w \in Workers
  BY DiscoveryAssumption DEF SweepInv, DiscoveryTypeOK, PastTypeOK, Workers
<1> DEFINE t == Len(tried)
           l == Len(line)
<1>3. /\ t \in Nat /\ l \in Nat /\ next \in 1..NumPorts + 1 /\ next = t + l + 1
      /\ \A k \in 1..l :
           /\ line[k] \in Workers
           /\ worker[line[k]] = [at |-> "queued", port |-> t + k]
           /\ worker[line[k]].at = "queued"
  BY <1>1, QueuedIsInOrder
<1>4. worker[w].at = "trying" /\ \A k \in 1..l : line[k] # w BY <1>3
<1>5. SlotsApart'
  <2>1. clock \in Int /\ last \in Int \X Int BY DEF SweepInv, DiscoveryTypeOK, PastTypeOK
  <2> QED BY <2>1, SlotsRest DEF SweepInv
<1>6. WorkersRest' BY <1>1 DEF WorkersRest
<1>7. open' = heard'
  BY DEF SweepInv, EveryPortOnce
<1>8. EveryPortOnce' BY <1>1, <1>7 DEF SweepInv, EveryPortOnce
<1>9. open' \subseteq 1..NumPorts
  <2>1. worker[w].port \in 1..NumPorts BY <1>2, <1>4 DEF SweepInv, PortsAreListed
  <2> QED BY <2>1 DEF SweepInv, DiscoveryTypeOK
<1> HIDE DEF t, l
<1>10. /\ LineInOrder' /\ PortsAreListed' /\ line' \in Seq(0..Width) /\ next' \in 1..NumPorts + 1
       /\ worker' \in [Workers -> [at : {"done", "queued", "trying"}, port : 0..NumPorts]]
  <2>1. CASE next <= NumPorts
    <3>1. /\ worker' = [worker EXCEPT ![w] = [at |-> "queued", port |-> next]]
          /\ next' = next + 1 /\ line' = Append(line, w)
      BY <2>1 DEF Took
    <3>2. /\ line' \in Seq(0..Width) /\ Len(line') = l + 1 /\ line'[l + 1] = w
          /\ \A k \in 1..l : line'[k] = line[k]
      BY <3>1, <1>2, AppendFacts DEF l
    <3>3. next' \in 1..NumPorts + 1 /\ next' = t + (l + 1) + 1 BY <3>1, <2>1, <1>2, <1>3
    <3>4. /\ worker' \in [Workers -> [at : {"done", "queued", "trying"}, port : 0..NumPorts]]
          /\ worker'[w] = [at |-> "queued", port |-> t + (l + 1)]
          /\ \A x \in Workers : x # w => worker'[x] = worker[x]
      <4>1. next \in 0..NumPorts /\ next = t + (l + 1) BY <2>1, <1>2, <1>3
      <4> QED BY <4>1, <3>1, <1>2
    <3>5. ASSUME NEW k \in 1..l + 1
          PROVE  line'[k] \in Workers /\ worker'[line'[k]] = [at |-> "queued", port |-> t + k]
      <4>1. CASE k = l + 1 BY <4>1, <3>2, <3>4
      <4>2. CASE k # l + 1
        <5>1. k \in 1..l BY <4>2, <1>3
        <5> QED BY <5>1, <3>2, <3>4, <1>3, <1>4
      <4> QED BY <4>1, <4>2
    <3>6. ASSUME NEW x \in Workers, worker'[x].at = "done" PROVE FALSE
      <4>1. x # w BY <3>6, <3>4
      <4>2. worker[x].at = "done" BY <3>6, <4>1, <3>4
      <4>3. next = NumPorts + 1 BY <4>2, <1>1 DEF SweepInv, LineInOrder
      <4> QED BY <4>3, <2>1, <1>2
    <3>7. Len(tried') = t BY DEF t
    <3>8. LineInOrder' BY <3>2, <3>3, <3>5, <3>6, <3>7 DEF LineInOrder
    <3>9. PortsAreListed'
      <4>1. worker'[w].port > 0 BY <3>4, <1>3
      <4> QED BY <4>1, <3>4 DEF SweepInv, PortsAreListed
    <3> QED BY <3>2, <3>3, <3>4, <3>8, <3>9
  <2>2. CASE ~ (next <= NumPorts)
    <3>1. worker' = [worker EXCEPT ![w] = Idle] /\ next' = next /\ line' = line
      BY <2>2 DEF Took
    <3>2. next = NumPorts + 1 BY <2>2, <1>2, <1>3
    <3>3. /\ worker' \in [Workers -> [at : {"done", "queued", "trying"}, port : 0..NumPorts]]
          /\ \A x \in Workers : x # w => worker'[x] = worker[x]
      BY <3>1, <1>2 DEF Idle
    <3>4. Len(tried') = t /\ Len(line') = l BY <3>1 DEF t, l
    <3>5. \A k \in 1..l :
            line'[k] \in Workers /\ worker'[line'[k]] = [at |-> "queued", port |-> t + k]
      BY <3>1, <3>3, <1>3, <1>4
    <3>6. LineInOrder' BY <3>1, <3>2, <3>4, <3>5, <1>3 DEF LineInOrder
    <3>7. PortsAreListed'
      <4>1. worker'[w].at = "done" BY <3>1, <1>2 DEF Idle
      <4> QED BY <4>1, <3>3 DEF SweepInv, PortsAreListed
    <3> QED BY <3>1, <3>3, <3>6, <3>7, <1>2, <1>3
  <2> QED BY <2>1, <2>2
<1>11. DiscoveryTypeOK'
  BY <1>9, <1>10 DEF SweepInv, DiscoveryTypeOK
<1>12. PastTypeOK' BY <1>7, <1>9 DEF SweepInv, PastTypeOK
<1> QED BY <1>5, <1>6, <1>8, <1>10, <1>11, <1>12 DEF SweepInv

(* Moving on to the next address, or to the end, comes with a line of its   *)
(* own.                                                                      *)
LEMMA MovesOnTypes ==
  ASSUME SweepInv, MovesOn
  PROVE  /\ host' \in 1..NumHosts /\ line' \in Seq(0..Width) /\ sweep' \in {"address", "over"}
<1>1. host \in 1..NumHosts /\ NumHosts \in Nat
  BY DiscoveryAssumption DEF SweepInv, DiscoveryTypeOK
<1>2. CASE host < NumHosts
  <2>1. host' = host + 1 /\ sweep' = "address" /\ line' = <<Sweeper>>
    BY <1>2 DEF MovesOn
  <2>2. host + 1 \in 1..NumHosts BY <1>1, <1>2
  <2> QED BY <2>1, <2>2, SweeperAlone
<1>3. CASE ~ (host < NumHosts)
  <2>1. host' = host /\ sweep' = "over" /\ line' = <<>> BY <1>3 DEF MovesOn
  <2> QED BY <2>1, <1>1, SweeperAlone
<1> QED BY <1>2, <1>3

LEMMA AddressOverKeeps ==
  ASSUME SweepInv, AddressOver
  PROVE  SweepInv'
<1> USE DEF AddressOver
<1>1. /\ sweep' \in {"naming", "address", "over"} /\ host' \in 1..NumHosts
      /\ line' \in Seq(0..Width)
  BY MovesOnTypes, SweeperAlone DEF SweepInv, DiscoveryTypeOK
<1>2. DiscoveryTypeOK' BY <1>1 DEF SweepInv, DiscoveryTypeOK
<1>3. PastTypeOK' BY DEF SweepInv, PastTypeOK, past
<1>4. SlotsApart'
  <2>1. clock \in Int /\ last \in Int \X Int BY DEF SweepInv, DiscoveryTypeOK, PastTypeOK
  <2> QED BY <2>1, SlotsRest DEF SweepInv, past
<1>5. Len(tried) = NumPorts
  <2>1. /\ Len(tried) \in Nat /\ Len(line) \in Nat /\ next = Len(tried) + Len(line) + 1
        /\ \A k \in 1..Len(line) : line[k] \in Workers /\ worker[line[k]].at = "queued"
    BY QueuedIsInOrder
  <2> DEFINE t == Len(tried)
             l == Len(line)
  <2>2. l = 0
    <3> SUFFICES ASSUME l # 0 PROVE FALSE OBVIOUS
    <3>1. 1 \in 1..l BY <2>1
    <3>2. line[1] \in Workers /\ worker[line[1]].at = "queued"
      <4> HIDE DEF l
      <4> QED BY <3>1, <2>1 DEF l
    <3> QED BY <3>2
  <2>3. 1 \in Workers BY DiscoveryAssumption DEF Workers
  <2>4. next = NumPorts + 1 BY <2>3 DEF SweepInv, LineInOrder
  <2>5. NumPorts \in Nat BY DiscoveryAssumption
  <2>6. next = t + l + 1 /\ t \in Nat BY <2>1
  <2> HIDE DEF t, l
  <2>7. t = NumPorts BY <2>2, <2>4, <2>5, <2>6
  <2> QED BY <2>7 DEF t
<1>6. EveryPortOnce' BY <1>5 DEF SweepInv, EveryPortOnce, past
<1>7. LineInOrder' BY <1>1 DEF LineInOrder
<1>8. WorkersRest' /\ PortsAreListed' BY DEF SweepInv, WorkersRest, PortsAreListed
<1> QED BY <1>2, <1>3, <1>4, <1>6, <1>7, <1>8 DEF SweepInv

LEMMA NamedKeeps ==
  ASSUME SweepInv, Named
  PROVE  SweepInv'
<1> USE DEF Named
<1>1. /\ SlotsApart' /\ wake' \in Int /\ nextAt' \in Int /\ began' \in Int
      /\ granted' \in Nat /\ last' \in Int \X Int
  BY GrantIsApart
<1>2. host' \in 1..NumHosts /\ line' \in Seq(0..Width) /\ sweep' \in {"address", "over"}
  BY MovesOnTypes
<1>3. DiscoveryTypeOK' BY <1>1, <1>2 DEF SweepInv, DiscoveryTypeOK
<1>4. PastTypeOK' BY <1>1 DEF SweepInv, PastTypeOK
<1> QED BY <1>1, <1>2, <1>3, <1>4, PortsRest

LEMMA SweepStep == SweepInv /\ [DiscoveryNext]_discoveryVars => SweepInv'
<1> SUFFICES ASSUME SweepInv, [DiscoveryNext]_discoveryVars PROVE SweepInv' OBVIOUS
<1>0. /\ DiscoveryTypeOK /\ PastTypeOK /\ SlotsApart
      /\ clock \in Int /\ last \in Int \X Int
  BY DEF SweepInv, DiscoveryTypeOK, PastTypeOK
<1>1. CASE Asked
  <2> USE <1>1 DEF Asked, Queue, gate, past
  <2>1. line' \in Seq(0..Width) /\ sweep' \in {"refused", "address"} /\ UNCHANGED <<nextAt, wake>>
    <3>1. line \in Seq(0..Width) /\ Sweeper \in 0..Width
      BY <1>0, DiscoveryAssumption DEF DiscoveryTypeOK, Sweeper
    <3>2. Append(line, Sweeper) \in Seq(0..Width) BY <3>1, AppendFacts
    <3> QED BY <3>1, <3>2
  <2>2. DiscoveryTypeOK' BY <1>0, <2>1 DEF DiscoveryTypeOK
  <2>3. PastTypeOK' BY <1>0 DEF PastTypeOK
  <2>4. SlotsApart' BY <1>0, <2>1, SlotsRest
  <2> QED BY <2>1, <2>2, <2>3, <2>4, PortsRest
<1>2. CASE Ticks
  <2> USE <1>2 DEF Ticks, gate, past
  <2>1. clock \in Nat /\ MaxClock \in Nat /\ clock' = clock + 1 /\ clock' \in 0..MaxClock
    BY <1>0, DiscoveryAssumption DEF DiscoveryTypeOK
  <2>2. DiscoveryTypeOK' BY <1>0, <2>1 DEF DiscoveryTypeOK
  <2>3. PastTypeOK' BY <1>0 DEF PastTypeOK
  <2>4. SlotsApart' BY <1>0, <2>1, SlotsRest
  <2> QED BY <2>2, <2>3, <2>4, PortsRest
<1>3. CASE Claims
  <2> USE <1>3 DEF Claims
  <2>1. SlotsApart' /\ wake' \in Int /\ nextAt' \in Int /\ began' \in Int BY ClaimIsApart
  <2>2. DiscoveryTypeOK' BY <1>0, <2>1 DEF DiscoveryTypeOK
  <2>3. PastTypeOK' BY <1>0, <2>1 DEF PastTypeOK
  <2> QED BY <2>1, <2>2, <2>3, PortsRest
<1>4. CASE EchoOver \/ Posted
  <2> USE <1>4 DEF EchoOver, Posted, gate, past
  <2>1. DiscoveryTypeOK' BY <1>0 DEF DiscoveryTypeOK
  <2>2. PastTypeOK' BY <1>0 DEF PastTypeOK
  <2>3. SlotsApart' BY <1>0, SlotsRest
  <2> QED BY <2>1, <2>2, <2>3, PortsRest
<1>5. CASE AddressBegins BY <1>5, BeginsKeeps
<1>6. CASE AddressOver BY <1>6, AddressOverKeeps
<1>7. CASE Named BY <1>7, NamedKeeps
<1>8. CASE \E w \in Workers : Connects(w) \/ ConnectOver(w)
  BY <1>8, ConnectsKeeps, ConnectOverKeeps
<1>9. CASE UNCHANGED discoveryVars
  <2> USE <1>9 DEF discoveryVars, gate, past
  <2>1. DiscoveryTypeOK' BY <1>0 DEF DiscoveryTypeOK
  <2>2. PastTypeOK' BY <1>0 DEF PastTypeOK
  <2>3. SlotsApart' BY <1>0, SlotsRest
  <2> QED BY <2>1, <2>2, <2>3, PortsRest
<1> QED BY <1>1, <1>2, <1>3, <1>4, <1>5, <1>6, <1>7, <1>8, <1>9 DEF DiscoveryNext, DiscoveryStep

(* A grant is given no sooner than the pace allows.                         *)
LEMMA GrantsArePaced ==
  ASSUME SweepInv, DiscoveryNext, granted' # granted
  PROVE  /\ clock >= began + granted * Gap
         /\ last[1] # Never => clock >= last[1] + Gap
<1>1. \E who \in {Sweeper} \cup Workers : Granted(who) /\ clock' = clock
  BY DEF DiscoveryNext, DiscoveryStep, Asked, Ticks, Claims, AddressBegins, EchoOver, AddressOver,
     Named, Posted, Connects, ConnectOver, past
<1> QED BY <1>1, GrantIsApart

(* For any number of addresses, ports and workers and any pace: every port of *)
(* an address is tried once, in order, what answered is what is reported open, *)
(* and no grant comes before its time.                                        *)
THEOREM SweepIsKept == DiscoverySpec => SweepKept
<1> DEFINE Paced == granted' # granted =>
                      /\ clock >= began + granted * Gap
                      /\ last[1] # Never => clock >= last[1] + Gap
<1>1. SweepInv => DiscoveryTypeOK /\ EveryPortOnce BY DEF SweepInv
<1>2. SweepInv /\ [DiscoveryNext]_discoveryVars => [Paced]_discoveryVars BY GrantsArePaced
<1>3. DiscoverySpec => []SweepInv BY SweepStart, SweepStep, PTL DEF DiscoverySpec
<1>4. DiscoverySpec => [](DiscoveryTypeOK /\ EveryPortOnce) BY <1>1, <1>3, PTL
<1>5. DiscoverySpec => [][Paced]_discoveryVars BY <1>2, <1>3, PTL DEF DiscoverySpec
<1> QED BY <1>4, <1>5, PTL DEF SweepKept, SweepPaced
=============================================================================
