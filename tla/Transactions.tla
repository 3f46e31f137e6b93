----------------------------- MODULE Transactions -----------------------------
(***************************************************************************)
(* The transaction manager (src/transactions/manager.js) with its stored     *)
(* configuration, its result buffer and the header captures around its runs  *)
(* (HeaderCapture).                                                          *)
(*                                                                           *)
(* A lane is one place a test can run in: lane 0 of a test is its on-demand  *)
(* run (the `running` set allows one), lane n > 0 is one chain of its timer, *)
(* the closure of one scheduleTest call.  `timers` holds a chain's latest    *)
(* handle exactly if it holds the chain, so the model keeps the chain.       *)
(*                                                                           *)
(* Not modelled: what an executor does (it answers in the end), intervals    *)
(* and jitter (an armed timer fires at some time), the encryption of stored  *)
(* secrets, rows handed to a socket whose peer is gone.                      *)
(***************************************************************************)
EXTENDS Naturals, Sequences, FiniteSets

CONSTANTS
  Tests,       (* test ids                                                    *)
  Defs,        (* definitions a test may be given                             *)
  Enabled,     (* those not disabled                                          *)
  Captured,    (* those with a capture mode                                   *)
  Orders,      (* what the server may push: a definition, or Absent, per test *)
  Absent,      (* in place of a definition: the agent is not given the test   *)
  NoLane,
  BufferMax,   (* createResultBuffer's max                                    *)
  MaxChains,   (* bound: chains of one test at the same time                  *)
  MaxRuns,     (* bound: runs in progress at the same time                    *)
  MaxResults   (* bound: results followed; later ones are forgotten           *)

ASSUME TransactionsAssumption ==
  /\ Enabled \subseteq Defs /\ Captured \subseteq Defs
  /\ Absent \notin Defs
  /\ Orders \subseteq [Tests -> Defs \cup {Absent}]
  /\ IsFiniteSet(Tests)
  /\ BufferMax \in Nat /\ MaxChains \in Nat \ {0}
  /\ MaxRuns \in Nat \ {0} /\ MaxResults \in Nat

Chains == 1..MaxChains
Lanes  == Tests \X (0..MaxChains)
Nothing == [t \in Tests |-> Absent]

ASSUME CaptureAssumption == NoLane \notin Lanes

VARIABLES
  phase,      (* of the manager: "booting", "started" or "stopped"            *)
  connected,  (* the channel is open: send() returns true                     *)
  tests,      (* the definitions in force                                     *)
  stored,     (* those in the file                                            *)
  pushed,     (* history: those the server sent last                          *)
  torn,       (* history: the last save did not reach the file as meant       *)
  timers,     (* per test: the chain its timer belongs to, 0 if none          *)
  job,        (* per lane: what it does, and with which definition            *)
  buffer, dropped,
  results,    (* number of results pushed into the buffer                     *)
  accepted,   (* those a send() took                                          *)
  stage, tcpdump, active, cancelling  (* the captures                         *)

config  == <<tests, stored, pushed, torn>>
rows    == <<buffer, dropped, results, accepted>>
capture == <<stage, tcpdump, active, cancelling>>
vars == <<phase, connected, config, timers, job, rows, capture>>

Capture == INSTANCE HeaderCapture

Idle  == [at |-> "idle", def |-> Absent]
InRun == {"capturing", "executing", "ending"}

Job(at, d) == [at |-> at, def |-> d]
Moves(l, at) == job' = [job EXCEPT ![l].at = at]
RunsNow == {l \in Lanes : job[l].at \in InRun}

Fresh ==
  /\ phase = "booting" /\ connected = FALSE
  /\ tests = Nothing
  /\ timers = [t \in Tests |-> 0]
  /\ job = [l \in Lanes |-> Idle]
  /\ buffer = << >> /\ dropped = 0 /\ results = 0 /\ accepted = {}
  /\ Capture!Init

Init ==
  /\ Fresh
  /\ stored = Nothing /\ pushed = Nothing /\ torn = FALSE

-----------------------------------------------------------------------------
(* Scheduling.                                                              *)

ToSchedule(order) == {t \in Tests : order[t] \in Enabled}

(* The chain a scheduleTest call starts: a chain whose timer is armed is     *)
(* given up for it; one whose run is in progress lives on beside it.        *)
Free(t, n)  == job[<<t, n>>].at \in {"idle", "armed"}
NewChain(t) == CHOOSE n \in Chains : Free(t, n)

CanSchedule(ts) == \A t \in ts : \E n \in Chains : Free(t, n)

(* Mutant: only tests without a timer get one.                               *)
AddsMissing(order, gone) ==
  /\ timers' = [t \in Tests |-> IF t \in gone THEN 0
                                ELSE IF t \in ToSchedule(order) /\ timers[t] = 0
                                THEN NewChain(t) ELSE timers[t]]
  /\ job' = [l \in Lanes |->
       IF l[2] = 0 \/ job[l].at \in InRun THEN job[l]
       ELSE IF timers'[l[1]] # l[2] THEN Idle
       ELSE IF timers[l[1]] = l[2] THEN job[l]
       ELSE Job("armed", order[l[1]])]

(* scheduleTest for every test of `ts`, after the timers of `gone` were      *)
(* cleared.  Clearing disarms a timer; it does not end a run.                *)
Reschedules(order, gone) ==
  LET ts == ToSchedule(order) IN
  /\ CanSchedule(ts)
  /\ timers' = [t \in Tests |-> IF t \in ts THEN NewChain(t)
                                ELSE IF t \in gone THEN 0 ELSE timers[t]]
  /\ job' = [l \in Lanes |->
       IF l[2] = 0 \/ job[l].at \in InRun THEN job[l]
       ELSE IF l[1] \in ts /\ timers'[l[1]] = l[2] THEN Job("armed", order[l[1]])
       ELSE Idle]

(* clearAllTimers.                                                           *)
ClearsAll ==
  /\ timers' = [t \in Tests |-> 0]
  /\ job' = [l \in Lanes |-> IF job[l].at = "armed" THEN Idle ELSE job[l]]

(* configStore.save()                                                        *)
Saved(order) == stored' = order /\ torn' = FALSE

(* client 'transaction-config': applyConfig.  The save may fail, which is    *)
(* only logged.                                                              *)
ConfigPushed(order) ==
  /\ connected
  /\ pushed' = order /\ tests' = order
  /\ \/ Saved(order)
     \/ stored' = stored /\ torn' = (stored # order)
  /\ LET gone == Tests \ ToSchedule(order) IN
     IF phase = "started" THEN Reschedules(order, gone)
     ELSE UNCHANGED <<timers, job>>
  /\ UNCHANGED <<phase, connected, rows, capture>>

(* start(): without a pushed configuration the stored one is used.           *)
Start ==
  /\ phase = "booting" /\ phase' = "started"
  /\ tests' = IF tests = Nothing THEN stored ELSE tests
  /\ Reschedules(tests', {})
  /\ UNCHANGED <<connected, stored, pushed, torn, rows, capture>>

(* stop(): the timers go, and the session that is active by now.             *)
Stop ==
  /\ phase = "started" /\ phase' = "stopped"
  /\ ClearsAll
  /\ Capture!CancelBegins
  /\ UNCHANGED <<connected, config, rows>>

(* The process ends, with all it held and its tcpdumps, and starts again;    *)
(* it may die while the file is being written.                               *)
Restart ==
  /\ \/ UNCHANGED <<stored, pushed, torn>>
     \/ /\ connected
        /\ \E order \in Orders : pushed' = order
        /\ stored' = Nothing /\ torn' = TRUE
  /\ phase' = "booting" /\ connected' = FALSE
  /\ tests' = Nothing
  /\ timers' = [t \in Tests |-> 0]
  /\ job' = [l \in Lanes |-> Idle]
  /\ buffer' = << >> /\ dropped' = 0 /\ results' = 0 /\ accepted' = {}
  /\ stage' = [l \in Lanes |-> "idle"] /\ tcpdump' = [l \in Lanes |-> "none"]
  /\ active' = NoLane /\ cancelling' = NoLane

-----------------------------------------------------------------------------
(* The result buffer.                                                       *)

(* Mutant: while (items.length > max + 1)                                    *)
LateOverflow(q) == IF Len(q) > BufferMax + 1 THEN Len(q) - BufferMax - 1 ELSE 0

Overflow(q) == IF Len(q) > BufferMax THEN Len(q) - BufferMax ELSE 0

(* Mutant: what could not be sent is gone.                                   *)
ClearsAnyway(q, up) ==
  /\ buffer' = << >>
  /\ accepted' = IF up THEN accepted \cup {q[i] : i \in DOMAIN q} ELSE accepted

(* flush(): everything in one frame, put back if the frame was not taken.    *)
Flushes(q, up) ==
  IF up /\ q # << >>
  THEN buffer' = << >> /\ accepted' = accepted \cup {q[i] : i \in DOMAIN q}
  ELSE buffer' = q /\ accepted' = accepted

(* buffer.push(result); flush().                                             *)
Records ==
  IF results = MaxResults
  THEN UNCHANGED rows
  ELSE LET q == Append(buffer, results + 1) IN
       /\ results' = results + 1
       /\ dropped' = dropped + Overflow(q)
       /\ Flushes(SubSeq(q, Overflow(q) + 1, Len(q)), connected)

-----------------------------------------------------------------------------
(* The runs.                                                                 *)

(* runOnce up to its first await.                                            *)
RunBegins(l, d, force) ==
  IF force \/ d \in Captured
  THEN \/ Capture!Begins(l) /\ job' = [job EXCEPT ![l] = Job("capturing", d)]
       \/ Capture!Refused(l) /\ job' = [job EXCEPT ![l] = Job("executing", d)]
  ELSE UNCHANGED capture /\ job' = [job EXCEPT ![l] = Job("executing", d)]

(* Mutant: scheduled runs wait for the channel.                              *)
FiresOnline(l) ==
  /\ l[2] # 0 /\ job[l].at = "armed" /\ connected
  /\ Cardinality(RunsNow) < MaxRuns
  /\ RunBegins(l, job[l].def, FALSE)
  /\ UNCHANGED <<phase, connected, config, timers, rows>>

TimerFires(l) ==
  /\ l[2] # 0 /\ job[l].at = "armed"
  /\ Cardinality(RunsNow) < MaxRuns
  /\ RunBegins(l, job[l].def, FALSE)
  /\ UNCHANGED <<phase, connected, config, timers, rows>>

(* A run-transaction command: refused for a test the agent is not given, or  *)
(* whose on-demand run is still going.                                       *)
RunNow(l, force) ==
  /\ connected /\ l[2] = 0
  /\ tests[l[1]] # Absent /\ job[l].at = "idle"
  /\ Cardinality(RunsNow) < MaxRuns
  /\ RunBegins(l, tests[l[1]], force)
  /\ UNCHANGED <<phase, connected, config, timers, rows>>

CaptureOpens(l) ==
  /\ job[l].at = "capturing" /\ Capture!Spawns(l)
  /\ UNCHANGED <<phase, connected, config, timers, job, rows>>

CaptureStarted(l) ==
  /\ job[l].at = "capturing"
  /\ Capture!Ready(l) \/ Capture!Unresolved(l) \/ Capture!NotReady(l)
  /\ Moves(l, "executing")
  /\ UNCHANGED <<phase, connected, config, timers, rows>>

(* Mutant: every chain arms itself again.                                    *)
AlwaysOwned(l) == phase = "started"

(* started && timers.get(id) === handle                                      *)
Owns(l) == phase = "started" /\ timers[l[1]] = l[2]

(* The run is over: its result is pushed and flushed, and the chain arms its *)
(* timer again if it is still the one that owns the test.                    *)
Finishes(l) ==
  /\ Records
  /\ job' = [job EXCEPT ![l] = IF l[2] # 0 /\ Owns(l) THEN Job("armed", @.def)
                               ELSE Idle]

ExecutorAnswers(l) ==
  /\ job[l].at = "executing"
  /\ IF stage[l] = "live"
     THEN Capture!StopBegins(l) /\ Moves(l, "ending") /\ UNCHANGED rows
     ELSE Finishes(l) /\ UNCHANGED capture
  /\ UNCHANGED <<phase, connected, config, timers>>

CaptureStops(l) ==
  /\ job[l].at = "ending" /\ Capture!StopEnds(l)
  /\ Finishes(l)
  /\ UNCHANGED <<phase, connected, config, timers>>

-----------------------------------------------------------------------------
(* The rest of the world.                                                    *)

ProcessStep(l) ==
  /\ Capture!Exits(l) \/ Capture!DeadlineFires(l)
  /\ UNCHANGED <<phase, connected, config, timers, job, rows>>

CancelEnds ==
  /\ Capture!CancelEnds
  /\ UNCHANGED <<phase, connected, config, timers, job, rows>>

(* client 'open' flushes what the outage held back.                          *)
ChannelOpens ==
  /\ ~connected /\ connected' = TRUE
  /\ Flushes(buffer, TRUE)
  /\ UNCHANGED <<phase, config, timers, job, dropped, results, capture>>

ChannelDrops ==
  /\ connected /\ connected' = FALSE
  /\ UNCHANGED <<phase, config, timers, job, rows, capture>>

LaneStep(l) ==
  \/ TimerFires(l) \/ CaptureOpens(l) \/ CaptureStarted(l)
  \/ ExecutorAnswers(l) \/ CaptureStops(l)

Next ==
  \/ Start \/ Stop \/ Restart \/ CancelEnds
  \/ ChannelOpens \/ ChannelDrops
  \/ \E order \in Orders : ConfigPushed(order)
  \/ \E l \in Lanes : \/ LaneStep(l) \/ ProcessStep(l)
                      \/ \E force \in BOOLEAN : RunNow(l, force)

(* Executors answer (each has a timeout), the awaits of a capture end, and a  *)
(* timer that is due again and again, whatever the bound on runs postpones,   *)
(* fires.                                                                     *)
Fairness ==
  /\ \A l \in Lanes : WF_vars(job[l].at # "armed" /\ LaneStep(l))
  /\ \A t \in Tests : SF_vars(\E n \in Chains : TimerFires(<<t, n>>))

Spec == Init /\ [][Next]_vars
FairSpec == Spec /\ Fairness

-----------------------------------------------------------------------------
TypeOK ==
  /\ phase \in {"booting", "started", "stopped"} /\ connected \in BOOLEAN
  /\ {tests, stored, pushed} \subseteq Orders \cup {Nothing}
  /\ torn \in BOOLEAN
  /\ timers \in [Tests -> 0..MaxChains]
  /\ job \in [Lanes -> [at : {"idle", "armed"} \cup InRun,
                        def : Defs \cup {Absent}]]
  /\ results \in 0..MaxResults /\ dropped \in 0..MaxResults
  /\ buffer \in Seq(1..MaxResults) /\ Len(buffer) <= BufferMax
  /\ accepted \subseteq 1..MaxResults
  /\ Capture!TypeOK

(* "Rescheduling here would leave two live timer chains racing for one id"   *)
(* (manager.js:141): however pushes, runs and stops interleave, a test in    *)
(* force has exactly one chain, armed or in the run it will be re-armed      *)
(* after; any other test has none, and no timer is armed behind the back of  *)
(* the map.                                                                  *)
OneChain ==
  /\ \A t \in Tests :
       (timers[t] # 0) <=> (phase = "started" /\ tests[t] \in Enabled)
  /\ \A t \in Tests : timers[t] # 0 =>
       job[<<t, timers[t]>>].at \in {"armed"} \cup InRun
  /\ \A l \in Lanes : job[l].at = "armed" => timers[l[1]] = l[2]

(* "... the stale test definition kept alive": whatever was pushed while a   *)
(* run was awaited, the next scheduled run of a test uses the definition in  *)
(* force.                                                                    *)
DefinitionIsCurrent ==
  \A l \in Lanes : job[l].at = "armed" => job[l].def = tests[l[1]]

(* What runs is what the server pushed last, across restarts and without     *)
(* the server, unless the file could not be written.                         *)
PushSurvives == phase = "started" /\ ~torn => tests = pushed

(* "Results survive an outage": each is with the socket, in the buffer or    *)
(* counted as dropped, and none waits behind an open channel.                *)
ResultsAccounted ==
  LET held == {buffer[i] : i \in DOMAIN buffer} IN
  /\ TypeOK
  /\ dropped = Cardinality(1..results \ (held \cup accepted))
  /\ accepted \cap held = {}
  /\ connected => buffer = << >>

(* "A capture that outlives its run is a capture nobody asked for": every    *)
(* tcpdump belongs to a run in progress, even one that ignores a SIGTERM.    *)
NoStrayCapture ==
  \A l \in Lanes : tcpdump[l] # "none" => job[l].at \in InRun

(* The session that keeps others from capturing is that of a run that is     *)
(* executing: it never stays behind and refuses every later capture.         *)
ActiveIsInUse ==
  active # NoLane => stage[active] = "live" /\ job[active].at = "executing"

(* A test the server leaves in force keeps being run.                        *)
KeepsRunning ==
  \A t \in Tests :
    <>[](phase = "started" /\ tests[t] \in Enabled) =>
      []<>(\E n \in Chains : job[<<t, n>>].at = "executing")
=============================================================================
