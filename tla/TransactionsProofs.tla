------------------------- MODULE TransactionsProofs -------------------------
(* What Transactions keeps for every set of tests, definitions and orders    *)
(* and every bound on chains, runs and results.  The invariant has three     *)
(* parts: Owned, that the timer map and the chains tell the same story;      *)
(* Remembered, that the file and the definitions in force are those pushed   *)
(* last; Scoped, in which stage of its run each capture and tcpdump is.      *)
EXTENDS Transactions, FiniteSetTheorems, SequenceTheorems, TLAPS

Given == Defs \cup {Absent}
Jobs  == [at : {"idle", "armed"} \cup InRun, def : Given]

Shape ==
  /\ phase \in {"booting", "started", "stopped"}
  /\ tests \in [Tests -> Given] /\ stored \in [Tests -> Given]
  /\ pushed \in [Tests -> Given] /\ torn \in BOOLEAN
  /\ timers \in [Tests -> 0..MaxChains]
  /\ job \in [Lanes -> Jobs]

(* A test in force owns the chain its timer names, armed or in its run, with *)
(* the definition in force; nothing else is armed.                           *)
Owned ==
  /\ \A t \in Tests :
       /\ (timers[t] # 0) <=> (phase = "started" /\ tests[t] \in Enabled)
       /\ timers[t] # 0 => /\ job[<<t, timers[t]>>].at \in {"armed"} \cup InRun
                           /\ job[<<t, timers[t]>>].def = tests[t]
  /\ \A l \in Lanes : job[l].at = "armed" => l[2] # 0 /\ timers[l[1]] = l[2]

Remembered ==
  ~torn => /\ stored = pushed
           /\ tests = pushed \/ (phase = "booting" /\ tests = Nothing)

(* A run waits for its capture while it opens or stops; a tcpdump runs from   *)
(* the first of these waits to the last, and the active session is live.     *)
Fits(at, s, p) ==
  /\ s \in {"idle", "resolving", "opening", "live", "stopping"}
  /\ p \in {"none", "alive", "termed"}
  /\ s \in {"resolving", "opening"} <=> at = "capturing"
  /\ s = "live" => at = "executing"
  /\ s = "stopping" <=> at = "ending"
  /\ p # "none" => s \in {"opening", "live", "stopping"}

Scoped ==
  /\ stage = [l \in Lanes |-> stage[l]] /\ tcpdump = [l \in Lanes |-> tcpdump[l]]
  /\ active \in Lanes \cup {NoLane} /\ cancelling \in Lanes \cup {NoLane}
  /\ \A l \in Lanes : Fits(job[l].at, stage[l], tcpdump[l])
  /\ active # NoLane => stage[active] = "live"

IInv == Shape /\ Owned /\ Remembered /\ Scoped

-----------------------------------------------------------------------------
(* The operators of scheduling.                                              *)

LEMMA OrdersAreGiven ==
  /\ \A order \in Orders : order \in [Tests -> Given]
  /\ Nothing \in [Tests -> Given]
  /\ Enabled \subseteq Given /\ Absent \notin Enabled
BY TransactionsAssumption DEF Given, Nothing

LEMMA BoundFits == MaxChains \in Nat \ {0}
BY TransactionsAssumption

(* The chain a schedule takes is not the one of a run in progress.           *)
LEMMA NewChainIsFree ==
  ASSUME NEW ts, CanSchedule(ts), NEW t \in ts
  PROVE  NewChain(t) \in Chains /\ Free(t, NewChain(t))
<1>1. \E n \in Chains : Free(t, n)
  BY DEF CanSchedule
<1> QED
  BY <1>1 DEF NewChain

(* A new schedule arms every enabled test with its new definition, whatever  *)
(* its runs in progress go on with, and leaves nothing else armed.           *)
LEMMA RescheduleEffect ==
  ASSUME Shape, NEW order \in [Tests -> Given], NEW gone,
         Reschedules(order, gone),
         \A t \in Tests : t \in gone \/ timers[t] = 0 \/ order[t] \in Enabled,
         \A l \in Lanes : job[l].at = "armed" => l[2] # 0
  PROVE  /\ timers' \in [Tests -> 0..MaxChains]
         /\ job' \in [Lanes -> Jobs]
         /\ \A t \in Tests :
              /\ timers'[t] # 0 <=> order[t] \in Enabled
              /\ timers'[t] # 0 =>
                   job'[<<t, timers'[t]>>] = Job("armed", order[t])
         /\ \A l \in Lanes :
              /\ job'[l].at = "armed" => l[2] # 0 /\ timers'[l[1]] = l[2]
              /\ job[l].at \in InRun => job'[l] = job[l]
              /\ job[l].at \notin InRun => job'[l].at \notin InRun
<1> DEFINE ts == ToSchedule(order)
<1>0. ASSUME NEW t \in ts
      PROVE  /\ timers'[t] \in 1..MaxChains
             /\ Free(t, timers'[t])
  <2>1. NewChain(t) \in Chains /\ Free(t, NewChain(t))
    BY NewChainIsFree DEF Reschedules
  <2>2. timers'[t] = NewChain(t)
    BY DEF Reschedules, ToSchedule
  <2> QED
    BY <2>1, <2>2 DEF Chains
<1>1. \A t \in ts : timers'[t] \in 1..MaxChains
  BY <1>0
<1>2. \A t \in Tests : t \notin ts => timers'[t] = 0
  BY OrdersAreGiven DEF Reschedules, ToSchedule, Shape
<1> HIDE DEF ts
<1>3. timers' \in [Tests -> 0..MaxChains]
  <2>1. timers' = [t \in Tests |-> timers'[t]]
    BY DEF Reschedules
  <2>2. ASSUME NEW t \in Tests PROVE timers'[t] \in 0..MaxChains
    <3>1. CASE t \in ts
      BY <1>1, <3>1, BoundFits
    <3>2. CASE t \notin ts
      BY <1>2, <3>2, BoundFits
    <3> QED
      BY <3>1, <3>2
  <2> QED
    BY <2>1, <2>2
<1>4. ASSUME NEW t \in Tests PROVE timers'[t] # 0 <=> order[t] \in Enabled
  <2>1. CASE t \in ts
    BY <1>1, <2>1, BoundFits DEF ts, ToSchedule
  <2>2. CASE t \notin ts
    BY <1>2, <2>2 DEF ts, ToSchedule
  <2> QED
    BY <2>1, <2>2
<1>5. ASSUME NEW l \in Lanes
      PROVE  job'[l] = IF l[2] = 0 \/ job[l].at \in InRun THEN job[l]
                       ELSE IF l[1] \in ts /\ timers'[l[1]] = l[2]
                       THEN Job("armed", order[l[1]]) ELSE Idle
  BY DEF Reschedules, ts
<1>6. ASSUME NEW l \in Lanes PROVE l[1] \in Tests /\ l[2] \in 0..MaxChains
  BY DEF Lanes
<1>7. ASSUME NEW l \in Lanes PROVE job[l] \in Jobs
  BY DEF Shape
<1>8. ASSUME NEW l \in Lanes PROVE job'[l] \in Jobs
  <2>1. Idle \in Jobs /\ Job("armed", order[l[1]]) \in Jobs
    BY <1>6 DEF Jobs, Job, Idle, Given
  <2> QED
    BY <1>5, <1>7, <2>1
<1>9. job' \in [Lanes -> Jobs]
  <2>1. job' = [l \in Lanes |-> job'[l]]
    BY DEF Reschedules
  <2> QED
    BY <1>8, <2>1
<1>10. ASSUME NEW t \in Tests, timers'[t] # 0
       PROVE  job'[<<t, timers'[t]>>] = Job("armed", order[t])
  <2>1. t \in ts
    BY <1>2, <1>10
  <2>2. <<t, timers'[t]>> \in Lanes /\ timers'[t] # 0
    BY <1>3, <1>10 DEF Lanes
  <2>3. job[<<t, timers'[t]>>].at \notin InRun
    BY <1>0, <2>1 DEF InRun, Free
  <2> QED
    BY <1>1, <1>5, <2>1, <2>2, <2>3
<1>11. ASSUME NEW l \in Lanes
       PROVE  /\ job'[l].at = "armed" => l[2] # 0 /\ timers'[l[1]] = l[2]
              /\ job[l].at \in InRun => job'[l] = job[l]
              /\ job[l].at \notin InRun => job'[l].at \notin InRun
  <2>1. /\ job[l].at = "armed" => l[2] # 0
        /\ Idle.at = "idle" /\ Job("armed", order[l[1]]).at = "armed"
    BY DEF Idle, Job
  <2>2. CASE l[2] = 0 \/ job[l].at \in InRun
    BY <1>5, <2>1, <2>2 DEF InRun
  <2>3. CASE ~(l[2] = 0 \/ job[l].at \in InRun)
    BY <1>5, <2>1, <2>3 DEF InRun
  <2> QED
    BY <2>2, <2>3
<1> QED
  BY <1>3, <1>4, <1>9, <1>10, <1>11

(* What a schedule leaves behind is owned.                                   *)
LEMMA ScheduledIsOwned ==
  ASSUME NEW order, phase' = "started", tests' = order,
         \A t \in Tests :
           /\ timers'[t] # 0 <=> order[t] \in Enabled
           /\ timers'[t] # 0 => job'[<<t, timers'[t]>>] = Job("armed", order[t]),
         \A l \in Lanes : job'[l].at = "armed" => l[2] # 0 /\ timers'[l[1]] = l[2]
  PROVE  Owned'
<1>1. ASSUME NEW d PROVE Job("armed", d).at = "armed" /\ Job("armed", d).def = d
  BY DEF Job
<1>2. ASSUME NEW t \in Tests, timers'[t] # 0
      PROVE  /\ job'[<<t, timers'[t]>>].at \in {"armed"} \cup InRun
             /\ job'[<<t, timers'[t]>>].def = tests'[t]
  <2> DEFINE x == <<t, timers'[t]>>
  <2>1. job'[x] = Job("armed", order[t])
    BY <1>2
  <2> HIDE DEF x
  <2>2. job'[x].at \in {"armed"} \cup InRun /\ job'[x].def = tests'[t]
    BY <2>1, <1>1
  <2> QED
    BY <2>2 DEF x
<1>3. \A t \in Tests : timers'[t] # 0 <=> phase' = "started" /\ tests'[t] \in Enabled
  OBVIOUS
<1> QED
  BY <1>2, <1>3, Zenon DEF Owned

(* A step of one lane keeps every other chain as it was.                     *)
LEMMA LaneEffect ==
  ASSUME Shape, Owned, NEW l \in Lanes, NEW j \in Jobs,
         job' = [job EXCEPT ![l] = j], UNCHANGED <<phase, tests, timers>>,
         l[2] # 0 /\ timers[l[1]] = l[2] =>
           j.at \in {"armed"} \cup InRun /\ j.def = tests[l[1]],
         j.at = "armed" => l[2] # 0 /\ timers[l[1]] = l[2]
  PROVE  job' \in [Lanes -> Jobs] /\ Owned'
<1>1. job' \in [Lanes -> Jobs]
  BY DEF Shape
<1>2. /\ job'[l] = j
      /\ \A x \in Lanes : x # l => job'[x] = job[x]
  BY DEF Shape
<1>3. ASSUME NEW t \in Tests, timers[t] # 0
      PROVE  /\ job'[<<t, timers[t]>>].at \in {"armed"} \cup InRun
             /\ job'[<<t, timers[t]>>].def = tests[t]
  <2> DEFINE x == <<t, timers[t]>>
  <2>1. x \in Lanes /\ x[1] = t /\ x[2] = timers[t]
    BY DEF Shape, Lanes
  <2>2. job[x].at \in {"armed"} \cup InRun /\ job[x].def = tests[t]
    BY <1>3 DEF Owned
  <2> HIDE DEF x
  <2>3. job'[x].at \in {"armed"} \cup InRun /\ job'[x].def = tests[t]
    <3>1. CASE x = l
      BY <1>2, <1>3, <2>1, <3>1
    <3>2. CASE x # l
      BY <1>2, <2>1, <2>2, <3>2
    <3> QED
      BY <3>1, <3>2
  <2> QED
    BY <2>3 DEF x
<1>4. ASSUME NEW x \in Lanes, job'[x].at = "armed"
      PROVE  x[2] # 0 /\ timers[x[1]] = x[2]
  BY <1>2, <1>4 DEF Owned
<1> QED
  BY <1>1, <1>3, <1>4 DEF Owned

(* The steps that leave the chains alone.                                    *)
LEMMA ChainsKept ==
  ASSUME Owned, UNCHANGED <<phase, tests, timers, job>> PROVE Owned'
BY DEF Owned

LEMMA RunBeginsEffect ==
  ASSUME Shape, NEW l \in Lanes, NEW d, NEW force, RunBegins(l, d, force)
  PROVE  \E at \in {"capturing", "executing"} :
           job' = [job EXCEPT ![l] = Job(at, d)]
BY DEF RunBegins

LEMMA FinishesEffect ==
  ASSUME Shape, Owned, NEW l \in Lanes, job[l].at \in InRun, Finishes(l),
         UNCHANGED <<phase, tests, timers>>
  PROVE  job' \in [Lanes -> Jobs] /\ Owned'
<1> DEFINE j == IF l[2] # 0 /\ Owns(l) THEN Job("armed", job[l].def) ELSE Idle
<1>1. job' = [job EXCEPT ![l] = j]
  BY DEF Finishes, Shape
<1>2. job[l] \in Jobs /\ l[1] \in Tests /\ l = <<l[1], l[2]>>
  BY DEF Shape, Lanes
<1>3. j \in Jobs
  BY <1>2 DEF Jobs, Job, Idle, Given
<1>4. ASSUME l[2] # 0, timers[l[1]] = l[2]
      PROVE  Owns(l) /\ job[l].def = tests[l[1]]
  BY <1>2, <1>4 DEF Owned, Owns
<1>5. l[2] # 0 /\ timers[l[1]] = l[2] =>
        j.at \in {"armed"} \cup InRun /\ j.def = tests[l[1]]
  BY <1>4 DEF Job
<1>6. j.at = "armed" => l[2] # 0 /\ timers[l[1]] = l[2]
  BY DEF Job, Idle, Owns
<1> HIDE DEF j
<1> QED
  BY <1>1, <1>3, <1>5, <1>6, LaneEffect

-----------------------------------------------------------------------------
(* The steps.                                                                *)

Chained == Shape /\ Owned

LEMMA PushKeepsChains ==
  ASSUME Chained, NEW order \in Orders, ConfigPushed(order) PROVE Chained'
<1> USE DEF Chained
<1>1. order \in [Tests -> Given]
  BY OrdersAreGiven
<1>2. /\ tests' = order /\ pushed' = order /\ phase' = phase
      /\ stored' \in [Tests -> Given] /\ torn' \in BOOLEAN
  BY <1>1 DEF ConfigPushed, Saved, Shape
<1>3. CASE phase = "started"
  <2> DEFINE gone == Tests \ ToSchedule(order)
  <2>1. Reschedules(order, gone)
    BY <1>3 DEF ConfigPushed
  <2>2. \A t \in Tests : t \in gone \/ timers[t] = 0 \/ order[t] \in Enabled
    BY DEF ToSchedule
  <2>3. \A l \in Lanes : job[l].at = "armed" => l[2] # 0
    BY DEF Owned
  <2> HIDE DEF gone
  <2>4. /\ timers' \in [Tests -> 0..MaxChains]
        /\ job' \in [Lanes -> Jobs]
        /\ \A t \in Tests :
             /\ timers'[t] # 0 <=> order[t] \in Enabled
             /\ timers'[t] # 0 =>
                  job'[<<t, timers'[t]>>] = Job("armed", order[t])
        /\ \A l \in Lanes :
             job'[l].at = "armed" => l[2] # 0 /\ timers'[l[1]] = l[2]
    BY <1>1, <2>1, <2>2, <2>3, RescheduleEffect
  <2>5. Shape'
    BY <1>1, <1>2, <2>4 DEF Shape
  <2>6. Owned'
    BY <1>2, <1>3, <2>4, ScheduledIsOwned, Zenon
  <2> QED
    BY <2>5, <2>6
<1>4. CASE phase # "started"
  <2>1. UNCHANGED <<timers, job>>
    BY <1>4 DEF ConfigPushed
  <2>2. Shape'
    BY <1>1, <1>2, <2>1 DEF Shape
  <2>3. \A t \in Tests : timers[t] = 0
    BY <1>4 DEF Owned
  <2>4. Owned'
    BY <1>2, <1>4, <2>1, <2>3 DEF Owned
  <2> QED
    BY <2>2, <2>4
<1> QED
  BY <1>3, <1>4

LEMMA StartKeepsChains == ASSUME Chained, Start PROVE Chained'
<1> USE DEF Chained
<1>1. tests' \in [Tests -> Given]
  BY DEF Start, Shape
<1>2. Reschedules(tests', {}) /\ phase' = "started" /\ phase = "booting"
  BY DEF Start
<1>3. \A t \in Tests : timers[t] = 0
  BY <1>2 DEF Owned
<1>4. \A l \in Lanes : job[l].at = "armed" => l[2] # 0
  BY DEF Owned
<1> DEFINE order == tests'
<1>5. order \in [Tests -> Given] /\ Reschedules(order, {})
  BY <1>1, <1>2
<1> HIDE DEF order
<1>6. /\ timers' \in [Tests -> 0..MaxChains]
      /\ job' \in [Lanes -> Jobs]
      /\ \A t \in Tests :
           /\ timers'[t] # 0 <=> order[t] \in Enabled
           /\ timers'[t] # 0 =>
                job'[<<t, timers'[t]>>] = Job("armed", order[t])
      /\ \A l \in Lanes :
           job'[l].at = "armed" => l[2] # 0 /\ timers'[l[1]] = l[2]
  BY <1>3, <1>4, <1>5, RescheduleEffect
<1>7. Shape'
  BY <1>1, <1>2, <1>6 DEF Shape, Start
<1>8. tests' = order
  BY DEF order
<1>9. Owned'
  BY <1>2, <1>6, <1>8, ScheduledIsOwned, Zenon
<1> QED
  BY <1>7, <1>9

LEMMA StopKeepsChains == ASSUME Chained, Stop PROVE Chained'
<1> USE DEF Chained
<1>1. /\ timers' = [t \in Tests |-> 0]
      /\ job' = [l \in Lanes |-> IF job[l].at = "armed" THEN Idle ELSE job[l]]
      /\ phase' = "stopped" /\ UNCHANGED config
  BY DEF Stop, ClearsAll
<1>2. Idle \in Jobs /\ Idle.at = "idle"
  BY DEF Idle, Jobs, Given
<1>3. job' \in [Lanes -> Jobs] /\ timers' \in [Tests -> 0..MaxChains]
  BY <1>1, <1>2, BoundFits DEF Shape
<1>4. Shape'
  BY <1>1, <1>3 DEF Shape, config
<1>5. \A l \in Lanes : job'[l].at # "armed"
  BY <1>1, <1>2
<1> QED
  BY <1>1, <1>4, <1>5 DEF Owned

LEMMA RestartKeepsChains == ASSUME Chained, Restart PROVE Chained'
<1> USE DEF Chained
<1>1. /\ timers' = [t \in Tests |-> 0]
      /\ job' = [l \in Lanes |-> Idle]
      /\ phase' = "booting" /\ tests' = Nothing
  BY DEF Restart
<1>2. /\ stored' \in [Tests -> Given] /\ pushed' \in [Tests -> Given]
      /\ torn' \in BOOLEAN
  BY OrdersAreGiven DEF Restart, Shape
<1>3. Idle \in Jobs /\ Idle.at = "idle"
  BY DEF Idle, Jobs, Given
<1>4. job' \in [Lanes -> Jobs] /\ timers' \in [Tests -> 0..MaxChains]
  BY <1>1, <1>3, BoundFits
<1>5. Shape'
  BY <1>1, <1>2, <1>4, OrdersAreGiven DEF Shape
<1> QED
  BY <1>1, <1>3, <1>5 DEF Owned

(* A step of the run of one lane.                                            *)
LEMMA LaneKeepsChains ==
  ASSUME Chained, NEW l \in Lanes,
         LaneStep(l) \/ ProcessStep(l) \/ (\E force \in BOOLEAN : RunNow(l, force))
  PROVE  Chained'
<1> USE DEF Chained
<1>1. UNCHANGED <<phase, tests, stored, pushed, torn, timers>>
  BY DEF LaneStep, TimerFires, CaptureOpens, CaptureStarted, ExecutorAnswers,
     CaptureStops, ProcessStep, RunNow, config
<1>2. /\ l[1] \in Tests /\ l[2] \in 0..MaxChains /\ l = <<l[1], l[2]>>
      /\ job[l] \in Jobs
  BY DEF Lanes, Shape
<1>3. l[2] # 0 /\ timers[l[1]] = l[2] => job[l].def = tests[l[1]]
  BY <1>2 DEF Owned
<1>4. job[l].at = "armed" => l[2] # 0 /\ timers[l[1]] = l[2]
  BY DEF Owned
<1>5. SUFFICES job' \in [Lanes -> Jobs] /\ Owned'
  BY <1>1 DEF Shape
<1>6. ASSUME NEW at \in InRun, NEW d \in Given, job' = [job EXCEPT ![l] = Job(at, d)],
             l[2] = 0 \/ d = job[l].def
      PROVE  job' \in [Lanes -> Jobs] /\ Owned'
  <2>1. Job(at, d) \in Jobs /\ Job(at, d).at = at /\ Job(at, d).def = d
    BY <1>6 DEF Job, Jobs
  <2>2. at # "armed"
    BY DEF InRun
  <2> QED
    BY <1>1, <1>3, <1>6, <2>1, <2>2, LaneEffect
<1>7. ASSUME NEW at \in InRun, Moves(l, at)
      PROVE  job' \in [Lanes -> Jobs] /\ Owned'
  <2>1. [job[l] EXCEPT !.at = at] = Job(at, job[l].def) /\ job[l].def \in Given
    BY <1>2 DEF Jobs, Job
  <2>2. job' = [job EXCEPT ![l] = Job(at, job[l].def)]
    BY <1>7, <2>1 DEF Moves
  <2> QED
    BY <1>6, <2>1, <2>2
<1>8. CASE UNCHANGED job
  BY <1>1, <1>8, ChainsKept DEF Shape
<1>9. CASE TimerFires(l)
  <2>1. /\ job[l].def \in Given
        /\ RunBegins(l, job[l].def, FALSE)
    BY <1>2, <1>9 DEF TimerFires, Jobs
  <2>2. PICK at \in {"capturing", "executing"} :
          job' = [job EXCEPT ![l] = Job(at, job[l].def)]
    BY <2>1, RunBeginsEffect
  <2> QED
    BY <1>6, <2>1, <2>2 DEF InRun
<1>10. ASSUME NEW force \in BOOLEAN, RunNow(l, force)
       PROVE  job' \in [Lanes -> Jobs] /\ Owned'
  <2>1. /\ tests[l[1]] \in Given /\ l[2] = 0
        /\ RunBegins(l, tests[l[1]], force)
    BY <1>2, <1>10 DEF RunNow, Shape
  <2>2. PICK at \in {"capturing", "executing"} :
          job' = [job EXCEPT ![l] = Job(at, tests[l[1]])]
    BY <2>1, RunBeginsEffect
  <2> QED
    BY <1>6, <2>1, <2>2 DEF InRun
<1>11. CASE CaptureStarted(l)
  BY <1>7, <1>11 DEF CaptureStarted, InRun
<1>12. CASE ExecutorAnswers(l)
  <2>1. CASE stage[l] = "live"
    BY <1>7, <1>12, <2>1 DEF ExecutorAnswers, InRun
  <2>2. CASE stage[l] # "live"
    BY <1>1, <1>12, <2>2, FinishesEffect DEF ExecutorAnswers, InRun
  <2> QED
    BY <2>1, <2>2
<1>13. CASE CaptureStops(l)
  BY <1>1, <1>13, FinishesEffect DEF CaptureStops, InRun
<1> QED
  BY <1>8, <1>9, <1>10, <1>11, <1>12, <1>13
     DEF LaneStep, CaptureOpens, ProcessStep

LEMMA ChainsNext == ASSUME Chained, [Next]_vars PROVE Chained'
<1>1. CASE CancelEnds \/ ChannelOpens \/ ChannelDrops \/ UNCHANGED vars
  <2>1. UNCHANGED <<phase, tests, stored, pushed, torn, timers, job>>
    BY <1>1 DEF CancelEnds, ChannelOpens, ChannelDrops, vars, config
  <2> QED
    BY <2>1, ChainsKept DEF Chained, Shape
<1> QED
  BY <1>1, PushKeepsChains, StartKeepsChains, StopKeepsChains,
     RestartKeepsChains, LaneKeepsChains DEF Next

-----------------------------------------------------------------------------
(* The definitions in force, in the file and in the server's last push.      *)

LEMMA RememberedNext == ASSUME Remembered, [Next]_vars PROVE Remembered'
<1>1. ASSUME NEW order \in Orders, ConfigPushed(order) PROVE Remembered'
  <2>1. tests' = order /\ pushed' = order
    BY <1>1 DEF ConfigPushed
  <2>2. ~torn' => stored' = order
    BY <1>1, Zenon DEF ConfigPushed, Saved
  <2> QED
    BY <2>1, <2>2 DEF Remembered
<1>2. CASE Start
  BY <1>2 DEF Start, Remembered
<1>3. CASE Restart
  BY <1>3 DEF Restart, Remembered
<1>4. CASE Stop
  BY <1>4 DEF Stop, Remembered, config
<1>5. ASSUME NEW l \in Lanes,
             LaneStep(l) \/ ProcessStep(l) \/ (\E force \in BOOLEAN : RunNow(l, force))
      PROVE  Remembered'
  BY <1>5 DEF LaneStep, TimerFires, CaptureOpens, CaptureStarted,
     ExecutorAnswers, CaptureStops, ProcessStep, RunNow, config, Remembered
<1>6. CASE CancelEnds \/ ChannelOpens \/ ChannelDrops \/ UNCHANGED vars
  BY <1>6 DEF CancelEnds, ChannelOpens, ChannelDrops, vars, config, Remembered
<1> QED
  BY <1>1, <1>2, <1>3, <1>4, <1>5, <1>6 DEF Next

-----------------------------------------------------------------------------
(* The captures.                                                             *)

(* The lanes a step leaves alone keep their stage.                           *)
LEMMA OneLaneScoped ==
  ASSUME Scoped, NEW l \in Lanes,
         stage' = [stage EXCEPT ![l] = stage'[l]],
         tcpdump' = [tcpdump EXCEPT ![l] = tcpdump'[l]],
         \A x \in Lanes : x # l => job'[x].at = job[x].at,
         Fits(job'[l].at, stage'[l], tcpdump'[l]),
         active' \in {active, NoLane, l}, cancelling' \in {cancelling, active, NoLane},
         active' = l => stage'[l] = "live"
  PROVE  Scoped'
<1>1. ASSUME NEW x \in Lanes PROVE Fits(job'[x].at, stage'[x], tcpdump'[x])
  <2>1. CASE x = l
    BY <2>1
  <2>2. CASE x # l
    <3>1. stage'[x] = stage[x] /\ tcpdump'[x] = tcpdump[x]
      BY <2>2 DEF Scoped
    <3>2. Fits(job[x].at, stage[x], tcpdump[x])
      BY DEF Scoped
    <3> QED
      BY <2>2, <3>1, <3>2
  <2> QED
    BY <2>1, <2>2
<1>2. /\ stage' = [x \in Lanes |-> stage'[x]]
      /\ tcpdump' = [x \in Lanes |-> tcpdump'[x]]
  BY DEF Scoped
<1>3. active' \in Lanes \cup {NoLane} /\ cancelling' \in Lanes \cup {NoLane}
  BY DEF Scoped
<1>4. ASSUME active' # NoLane PROVE stage'[active'] = "live"
  <2>1. CASE active' = l
    BY <2>1
  <2>2. CASE active' # l
    BY <1>3, <1>4, <2>2 DEF Scoped
  <2> QED
    BY <2>1, <2>2
<1> QED
  BY <1>1, <1>2, <1>3, <1>4 DEF Scoped

(* A job that changes at one lane, while the captures stay as they are.      *)
LEMMA JobScoped ==
  ASSUME Scoped, NEW l \in Lanes, UNCHANGED capture,
         \A x \in Lanes : x # l => job'[x].at = job[x].at,
         stage[l] = "idle", job'[l].at \in {"idle", "armed", "executing"}
  PROVE  Scoped'
<1>1. Fits(job[l].at, stage[l], tcpdump[l])
  BY DEF Scoped
<1>2. Fits(job'[l].at, stage'[l], tcpdump'[l])
  BY <1>1 DEF Fits, capture
<1>3. /\ stage' = [stage EXCEPT ![l] = stage'[l]]
      /\ tcpdump' = [tcpdump EXCEPT ![l] = tcpdump'[l]]
  BY DEF capture, Scoped
<1>4. active' = active /\ cancelling' = cancelling /\ stage'[l] = "idle"
  BY DEF capture
<1>5. active' # l
  BY <1>4, CaptureAssumption DEF Scoped
<1> QED
  BY <1>2, <1>3, <1>4, <1>5, OneLaneScoped

(* Jobs that change at any lane outside a run.                               *)
LEMMA ScheduleScoped ==
  ASSUME Scoped, UNCHANGED capture,
         \A l \in Lanes : \/ job'[l] = job[l]
                          \/ job[l].at \notin InRun /\ job'[l].at \notin InRun
  PROVE  Scoped'
<1>1. ASSUME NEW l \in Lanes PROVE Fits(job'[l].at, stage[l], tcpdump[l])
  <2>1. Fits(job[l].at, stage[l], tcpdump[l])
    BY DEF Scoped
  <2> QED
    BY <2>1 DEF Fits, InRun
<1> QED
  BY <1>1 DEF Scoped, capture

(* A run begins where no capture is.                                         *)
LEMMA BeginScoped ==
  ASSUME Shape, Scoped, NEW l \in Lanes, job[l].at \in {"idle", "armed"},
         NEW d, NEW force, RunBegins(l, d, force)
  PROVE  Scoped'
<1>1. Fits(job[l].at, stage[l], tcpdump[l])
  BY DEF Scoped
<1>2. stage[l] = "idle" /\ tcpdump[l] = "none"
  BY <1>1 DEF Fits
<1>3. CASE Capture!Begins(l) /\ job' = [job EXCEPT ![l] = Job("capturing", d)]
  <2>1. /\ stage' = [stage EXCEPT ![l] = "resolving"] /\ tcpdump' = tcpdump
        /\ active = NoLane /\ UNCHANGED <<active, cancelling>>
    BY <1>3 DEF Capture!Begins, Capture!Moves
  <2>2. /\ stage' = [stage EXCEPT ![l] = stage'[l]] /\ stage'[l] = "resolving"
        /\ tcpdump' = [tcpdump EXCEPT ![l] = tcpdump'[l]]
    BY <2>1 DEF Scoped
  <2>3. /\ job'[l].at = "capturing"
        /\ \A x \in Lanes : x # l => job'[x].at = job[x].at
    BY <1>3 DEF Shape, Job
  <2>4. Fits(job'[l].at, stage'[l], tcpdump'[l])
    BY <1>2, <2>1, <2>2, <2>3 DEF Fits
  <2> QED
    BY <2>1, <2>2, <2>3, <2>4, CaptureAssumption, OneLaneScoped
<1>4. CASE UNCHANGED capture /\ job' = [job EXCEPT ![l] = Job("executing", d)]
  <2>1. /\ job'[l].at = "executing"
        /\ \A x \in Lanes : x # l => job'[x].at = job[x].at
    BY <1>4 DEF Shape, Job
  <2> QED
    BY <1>2, <1>4, <2>1, JobScoped
<1> QED
  BY <1>3, <1>4 DEF RunBegins, Capture!Refused, Capture!vars, capture

(* The run is over, and so is its capture.                                   *)
LEMMA FinishEffect ==
  ASSUME Shape, NEW l \in Lanes, Finishes(l)
  PROVE  /\ job'[l].at \in {"idle", "armed"}
         /\ \A x \in Lanes : x # l => job'[x] = job[x]
<1>1. job' = [job EXCEPT ![l] = IF l[2] # 0 /\ Owns(l)
                                THEN Job("armed", job[l].def) ELSE Idle]
  BY DEF Finishes, Shape
<1>2. Job("armed", job[l].def).at = "armed" /\ Idle.at = "idle"
  BY DEF Job, Idle
<1> QED
  BY <1>1, <1>2 DEF Shape

LEMMA MoveEffect ==
  ASSUME Shape, NEW l \in Lanes, NEW at, Moves(l, at)
  PROVE  /\ job'[l].at = at
         /\ \A x \in Lanes : x # l => job'[x] = job[x]
BY DEF Moves, Shape, Jobs

LEMMA CaptureStartScoped ==
  ASSUME Shape, Scoped, NEW l \in Lanes, CaptureStarted(l)
  PROVE  Scoped'
<1>1. Fits(job[l].at, stage[l], tcpdump[l]) /\ job[l].at = "capturing"
  BY DEF Scoped, CaptureStarted
<1>2. job'[l].at = "executing" /\ \A x \in Lanes : x # l => job'[x] = job[x]
  BY MoveEffect DEF CaptureStarted
<1>3. active = l => stage[l] = "live"
  BY CaptureAssumption DEF Scoped
<1>4. CASE Capture!Ready(l)
  <2>1. /\ stage' = [stage EXCEPT ![l] = "live"] /\ tcpdump' = tcpdump
        /\ active' = l /\ cancelling' = cancelling /\ stage[l] = "opening"
    BY <1>4 DEF Capture!Ready, Capture!Moves
  <2>2. /\ stage' = [stage EXCEPT ![l] = stage'[l]] /\ stage'[l] = "live"
        /\ tcpdump' = [tcpdump EXCEPT ![l] = tcpdump'[l]]
    BY <2>1 DEF Scoped
  <2>3. Fits(job'[l].at, stage'[l], tcpdump'[l])
    BY <1>1, <1>2, <2>1, <2>2 DEF Fits
  <2> QED
    BY <1>2, <2>1, <2>2, <2>3, OneLaneScoped
<1>5. CASE Capture!Unresolved(l) \/ Capture!NotReady(l)
  <2>1. /\ stage' = [stage EXCEPT ![l] = "idle"] /\ UNCHANGED <<active, cancelling>>
        /\ stage[l] \in {"resolving", "opening"}
        /\ \/ tcpdump' = tcpdump /\ stage[l] = "resolving"
           \/ tcpdump' = [tcpdump EXCEPT ![l] = "none"]
    BY <1>5 DEF Capture!Unresolved, Capture!NotReady, Capture!Moves, Capture!Killed
  <2>2. /\ stage' = [stage EXCEPT ![l] = stage'[l]] /\ stage'[l] = "idle"
        /\ tcpdump' = [tcpdump EXCEPT ![l] = tcpdump'[l]]
    BY <2>1 DEF Scoped
  <2>3. tcpdump'[l] = "none"
    <3>1. CASE tcpdump' = tcpdump /\ stage[l] = "resolving"
      BY <1>1, <3>1 DEF Fits
    <3>2. CASE tcpdump' = [tcpdump EXCEPT ![l] = "none"]
      BY <3>2 DEF Scoped
    <3> QED
      BY <2>1, <3>1, <3>2
  <2>4. Fits(job'[l].at, stage'[l], tcpdump'[l])
    BY <1>2, <2>2, <2>3 DEF Fits
  <2>5. active' # l
    BY <1>3, <2>1
  <2> QED
    BY <1>2, <2>1, <2>2, <2>4, <2>5, OneLaneScoped
<1> QED
  BY <1>4, <1>5 DEF CaptureStarted

LEMMA StopSessionScoped ==
  ASSUME Shape, Scoped, NEW l \in Lanes, ExecutorAnswers(l) \/ CaptureStops(l)
  PROVE  Scoped'
<1>1. Fits(job[l].at, stage[l], tcpdump[l])
  BY DEF Scoped
<1>2. active = l => stage[l] = "live"
  BY CaptureAssumption DEF Scoped
<1>3. CASE ExecutorAnswers(l) /\ stage[l] = "live"
  <2>1. /\ stage' = [stage EXCEPT ![l] = "stopping"] /\ active' = Capture!NoLonger(l)
        /\ tcpdump' = [tcpdump EXCEPT ![l] = Capture!Termed(tcpdump[l])]
        /\ cancelling' = cancelling
    BY <1>3 DEF ExecutorAnswers, Capture!StopBegins, Capture!Moves, Scoped
  <2>2. /\ stage' = [stage EXCEPT ![l] = stage'[l]] /\ stage'[l] = "stopping"
        /\ tcpdump' = [tcpdump EXCEPT ![l] = tcpdump'[l]]
        /\ tcpdump'[l] = Capture!Termed(tcpdump[l])
    BY <2>1 DEF Scoped
  <2>3. job'[l].at = "ending" /\ \A x \in Lanes : x # l => job'[x] = job[x]
    BY <1>3, MoveEffect DEF ExecutorAnswers
  <2>4. Fits(job'[l].at, stage'[l], tcpdump'[l])
    BY <1>1, <2>2, <2>3 DEF Fits, Capture!Termed
  <2>5. active' # l /\ active' \in {active, NoLane}
    BY <2>1, CaptureAssumption DEF Capture!NoLonger
  <2> QED
    BY <2>1, <2>2, <2>3, <2>4, <2>5, OneLaneScoped
<1>4. CASE ExecutorAnswers(l) /\ stage[l] # "live"
  <2>1. UNCHANGED capture /\ Finishes(l) /\ job[l].at = "executing"
    BY <1>4 DEF ExecutorAnswers
  <2>2. stage[l] = "idle"
    BY <1>1, <1>4, <2>1 DEF Fits
  <2> QED
    BY <2>1, <2>2, FinishEffect, JobScoped
<1>5. CASE CaptureStops(l)
  <2>1. /\ stage' = [stage EXCEPT ![l] = "idle"] /\ UNCHANGED <<active, cancelling>>
        /\ tcpdump' = [tcpdump EXCEPT ![l] = "none"]
        /\ stage[l] = "stopping"
    BY <1>5 DEF CaptureStops, Capture!StopEnds, Capture!Moves, Capture!AfterGrace,
       Capture!Killed
  <2>2. /\ stage' = [stage EXCEPT ![l] = stage'[l]] /\ stage'[l] = "idle"
        /\ tcpdump' = [tcpdump EXCEPT ![l] = tcpdump'[l]] /\ tcpdump'[l] = "none"
    BY <2>1 DEF Scoped
  <2>3. /\ job'[l].at \in {"idle", "armed"}
        /\ \A x \in Lanes : x # l => job'[x] = job[x]
    BY <1>5, FinishEffect DEF CaptureStops
  <2>4. Fits(job'[l].at, stage'[l], tcpdump'[l])
    BY <2>2, <2>3 DEF Fits
  <2>5. active' # l
    BY <1>2, <2>1
  <2> QED
    BY <2>1, <2>2, <2>3, <2>4, <2>5, OneLaneScoped
<1> QED
  BY <1>3, <1>4, <1>5

LEMMA RestScoped ==
  ASSUME Shape, Scoped, NEW l \in Lanes, CaptureOpens(l) \/ ProcessStep(l)
  PROVE  Scoped'
<1>1. Fits(job[l].at, stage[l], tcpdump[l]) /\ job' = job
  BY DEF Scoped, CaptureOpens, ProcessStep
<1>2. active = l => stage[l] = "live"
  BY CaptureAssumption DEF Scoped
<1>3. CASE CaptureOpens(l)
  <2>1. /\ stage' = [stage EXCEPT ![l] = "opening"] /\ UNCHANGED <<active, cancelling>>
        /\ tcpdump' = [tcpdump EXCEPT ![l] = "alive"]
        /\ stage[l] = "resolving"
    BY <1>3 DEF CaptureOpens, Capture!Spawns, Capture!Moves
  <2>2. /\ stage' = [stage EXCEPT ![l] = stage'[l]] /\ stage'[l] = "opening"
        /\ tcpdump' = [tcpdump EXCEPT ![l] = tcpdump'[l]] /\ tcpdump'[l] = "alive"
    BY <2>1 DEF Scoped
  <2>3. Fits(job'[l].at, stage'[l], tcpdump'[l])
    BY <1>1, <1>3, <2>2 DEF Fits, CaptureOpens
  <2>4. active' # l
    BY <1>2, <2>1
  <2> QED
    BY <1>1, <2>1, <2>2, <2>3, <2>4, OneLaneScoped
<1>4. CASE ProcessStep(l)
  <2>1. /\ UNCHANGED <<stage, active, cancelling>>
        /\ \/ tcpdump' = [tcpdump EXCEPT ![l] = "none"]
           \/ /\ tcpdump' = [tcpdump EXCEPT ![l] = Capture!Termed(tcpdump[l])]
              /\ stage[l] = "live"
    BY <1>4 DEF ProcessStep, Capture!Exits, Capture!DeadlineFires, Scoped
  <2>2. /\ stage' = [stage EXCEPT ![l] = stage'[l]] /\ stage'[l] = stage[l]
        /\ tcpdump' = [tcpdump EXCEPT ![l] = tcpdump'[l]]
        /\ \/ tcpdump'[l] = "none"
           \/ tcpdump'[l] = Capture!Termed(tcpdump[l]) /\ stage[l] = "live"
    BY <2>1 DEF Scoped
  <2>3. Fits(job'[l].at, stage'[l], tcpdump'[l])
    BY <1>1, <2>2 DEF Fits, Capture!Termed
  <2> QED
    BY <1>1, <1>2, <2>1, <2>2, <2>3, OneLaneScoped
<1> QED
  BY <1>3, <1>4

(* cancel(), at a stop and after its await.                                  *)
LEMMA CancelScoped ==
  ASSUME Shape, Scoped, Stop \/ CancelEnds PROVE Scoped'
<1>1. ASSUME NEW l \in Lanes
      PROVE  \/ job'[l].at = job[l].at
             \/ job[l].at \notin InRun /\ job'[l].at \notin InRun
  <2>1. Idle.at \notin InRun /\ "armed" \notin InRun
    BY DEF Idle, InRun
  <2> QED
    BY <2>1 DEF Stop, ClearsAll, CancelEnds
<1>2. /\ stage' = stage /\ active' = NoLane /\ cancelling' \in Lanes \cup {NoLane}
      /\ tcpdump' = [l \in Lanes |-> tcpdump'[l]]
      /\ \A l \in Lanes : \/ tcpdump'[l] \in {tcpdump[l], "none"}
                          \/ tcpdump[l] = "alive" /\ tcpdump'[l] = "termed"
  <2>1. CASE Stop
    <3>1. CASE active = NoLane
      <4>1. UNCHANGED <<stage, tcpdump, active, cancelling>>
        BY <2>1, <3>1 DEF Stop, Capture!CancelBegins, Capture!vars
      <4> QED
        BY <3>1, <4>1 DEF Scoped
    <3>2. CASE active # NoLane
      <4>1. /\ tcpdump' = [tcpdump EXCEPT ![active] = Capture!Termed(tcpdump[active])]
            /\ stage' = stage /\ active' = NoLane /\ cancelling' = active
        BY <2>1, <3>2 DEF Stop, Capture!CancelBegins, Scoped
      <4>2. tcpdump' = [l \in Lanes |-> tcpdump'[l]]
        BY <4>1 DEF Scoped
      <4>3. ASSUME NEW l \in Lanes
            PROVE  tcpdump'[l] \in {tcpdump[l], Capture!Termed(tcpdump[l])}
        BY <4>1 DEF Scoped
      <4> QED
        BY <4>1, <4>2, <4>3 DEF Capture!Termed, Scoped
    <3> QED
      BY <3>1, <3>2
  <2>2. CASE CancelEnds
    <3>1. /\ tcpdump' = [tcpdump EXCEPT ![cancelling] = "none"]
          /\ stage' = stage /\ active' = NoLane /\ cancelling' = NoLane
      BY <2>2 DEF CancelEnds, Capture!CancelEnds, Capture!AfterGrace, Capture!Killed
    <3>2. tcpdump' = [l \in Lanes |-> tcpdump'[l]]
      BY <3>1 DEF Scoped
    <3>3. ASSUME NEW l \in Lanes PROVE tcpdump'[l] \in {tcpdump[l], "none"}
      BY <3>1 DEF Scoped
    <3> QED
      BY <3>1, <3>2, <3>3
  <2> QED
    BY <2>1, <2>2
<1>3. ASSUME NEW l \in Lanes PROVE Fits(job'[l].at, stage'[l], tcpdump'[l])
  <2>1. Fits(job[l].at, stage[l], tcpdump[l])
    BY DEF Scoped
  <2>2. Fits(job[l].at, stage'[l], tcpdump'[l])
    BY <1>2, <2>1 DEF Fits
  <2> QED
    BY <1>1, <2>2 DEF Fits, InRun
<1> QED
  BY <1>2, <1>3 DEF Scoped

(* A push and the start change jobs outside a run only.                      *)
LEMMA ScheduleKeepsRuns ==
  ASSUME Scoped, UNCHANGED capture, NEW order, NEW gone, Reschedules(order, gone)
  PROVE  Scoped'
<1>1. ASSUME NEW l \in Lanes
      PROVE  \/ job'[l] = job[l]
             \/ job[l].at \notin InRun /\ job'[l].at \notin InRun
  <2>1. \/ job'[l] = job[l]
        \/ job[l].at \notin InRun /\ job'[l] \in {Job("armed", order[l[1]]), Idle}
    BY DEF Reschedules
  <2> QED
    BY <2>1 DEF Job, Idle, InRun
<1> QED
  BY <1>1, ScheduleScoped

LEMMA ScopedNext == ASSUME Chained, Scoped, [Next]_vars PROVE Scoped'
<1> USE DEF Chained
<1>1. ASSUME NEW order \in Orders, ConfigPushed(order) PROVE Scoped'
  <2>1. CASE phase = "started"
    BY <1>1, <2>1, ScheduleKeepsRuns DEF ConfigPushed
  <2>2. CASE phase # "started"
    BY <1>1, <2>2, ScheduleScoped DEF ConfigPushed
  <2> QED
    BY <2>1, <2>2
<1>2. CASE Start
  BY <1>2, ScheduleKeepsRuns DEF Start
<1>3. CASE Restart
  <2>1. /\ stage' = [l \in Lanes |-> "idle"] /\ tcpdump' = [l \in Lanes |-> "none"]
        /\ active' = NoLane /\ cancelling' = NoLane /\ job' = [l \in Lanes |-> Idle]
    BY <1>3 DEF Restart
  <2> QED
    BY <2>1 DEF Scoped, Fits, Idle
<1>4. CASE Stop \/ CancelEnds
  BY <1>4, CancelScoped
<1>5. ASSUME NEW l \in Lanes, TimerFires(l) PROVE Scoped'
  BY <1>5, BeginScoped DEF TimerFires
<1>6. ASSUME NEW l \in Lanes, NEW force \in BOOLEAN, RunNow(l, force)
      PROVE  Scoped'
  BY <1>6, BeginScoped DEF RunNow
<1>7. ASSUME NEW l \in Lanes, CaptureOpens(l) \/ ProcessStep(l) PROVE Scoped'
  BY <1>7, RestScoped
<1>8. ASSUME NEW l \in Lanes, CaptureStarted(l) PROVE Scoped'
  BY <1>8, CaptureStartScoped
<1>9. ASSUME NEW l \in Lanes, ExecutorAnswers(l) \/ CaptureStops(l) PROVE Scoped'
  BY <1>9, StopSessionScoped
<1>10. CASE ChannelOpens \/ ChannelDrops \/ UNCHANGED vars
  BY <1>10, ScheduleScoped DEF ChannelOpens, ChannelDrops, vars
<1> QED
  BY <1>1, <1>2, <1>3, <1>4, <1>5, <1>6, <1>7, <1>8, <1>9, <1>10
     DEF Next, LaneStep

-----------------------------------------------------------------------------
(* The invariant and what it implies.                                        *)

LEMMA InvariantHolds == Spec => []IInv
<1>1. Init => IInv
  <2> SUFFICES ASSUME Init PROVE IInv
    OBVIOUS
  <2>1. /\ phase = "booting" /\ tests = Nothing /\ stored = Nothing
        /\ pushed = Nothing /\ torn = FALSE
        /\ timers = [t \in Tests |-> 0] /\ job = [l \in Lanes |-> Idle]
        /\ stage = [l \in Lanes |-> "idle"] /\ tcpdump = [l \in Lanes |-> "none"]
        /\ active = NoLane /\ cancelling = NoLane
    BY DEF Init, Fresh, Capture!Init
  <2>2. Idle \in Jobs /\ Idle.at = "idle"
    BY DEF Idle, Jobs, Given
  <2>3. Shape
    <3>1. timers \in [Tests -> 0..MaxChains] /\ job \in [Lanes -> Jobs]
      BY <2>1, <2>2, BoundFits
    <3> QED
      BY <2>1, <3>1, OrdersAreGiven DEF Shape
  <2>4. Owned
    BY <2>1, <2>2 DEF Owned
  <2>5. Scoped
    BY <2>1, <2>2 DEF Scoped, Fits
  <2> QED
    BY <2>1, <2>3, <2>4, <2>5 DEF IInv, Remembered
<1>2. IInv /\ [Next]_vars => IInv'
  BY ChainsNext, RememberedNext, ScopedNext DEF IInv, Chained
<1> QED
  BY <1>1, <1>2, PTL DEF Spec

(* Whatever the server pushes while runs are awaited, a test in force has    *)
(* exactly one timer chain and no timer is armed behind the timer map        *)
(* (the ownership check of scheduleTest).                                    *)
THEOREM TransactionsOneChain == Spec => []OneChain
<1>1. IInv => OneChain
  BY DEF IInv, Owned, OneChain
<1> QED
  BY <1>1, InvariantHolds, PTL

(* The next scheduled run of a test uses the definition in force, not the    *)
(* one its timer was first armed with (scheduleTest, applyConfig).           *)
THEOREM TransactionsDefinition == Spec => []DefinitionIsCurrent
<1>1. IInv => DefinitionIsCurrent
  <2> SUFFICES ASSUME IInv, NEW l \in Lanes, job[l].at = "armed"
               PROVE  job[l].def = tests[l[1]]
    BY DEF DefinitionIsCurrent
  <2>1. l[1] \in Tests /\ l = <<l[1], l[2]>>
    BY DEF Lanes
  <2>2. l[2] # 0 /\ timers[l[1]] = l[2]
    BY DEF IInv, Owned
  <2> QED
    BY <2>1, <2>2 DEF IInv, Owned
<1> QED
  BY <1>1, InvariantHolds, PTL

(* Unless a save failed or was cut short, what a started manager runs is     *)
(* what the server pushed last, restarts included (configStore, start).      *)
THEOREM TransactionsPushSurvives == Spec => []PushSurvives
<1>1. IInv => PushSurvives
  BY DEF IInv, Remembered, PushSurvives
<1> QED
  BY <1>1, InvariantHolds, PTL

(* No tcpdump outlives the run that asked for it, even if it ignores a       *)
(* SIGTERM or two captures run at once (capture/index.js stop()).            *)
THEOREM TransactionsNoStrayCapture == Spec => []NoStrayCapture
<1>1. IInv => NoStrayCapture
  <2> SUFFICES ASSUME IInv, NEW l \in Lanes, tcpdump[l] # "none"
               PROVE  job[l].at \in InRun
    BY DEF NoStrayCapture
  <2>1. Fits(job[l].at, stage[l], tcpdump[l])
    BY DEF IInv, Scoped
  <2> QED
    BY <2>1 DEF Fits, InRun
<1> QED
  BY <1>1, InvariantHolds, PTL

(* The session that refuses other captures is live and of a run that is      *)
(* executing: none stays active after its run (stop(), cancel()).            *)
THEOREM TransactionsActiveInUse == Spec => []ActiveIsInUse
<1>1. IInv => ActiveIsInUse
  BY DEF IInv, Scoped, Fits, ActiveIsInUse
<1> QED
  BY <1>1, InvariantHolds, PTL

-----------------------------------------------------------------------------
(* The results.  Every one that was pushed is in one place: a set is counted *)
(* by `dropped`, and what is in the buffer is there once and was not sent.   *)

Held(q) == {q[i] : i \in DOMAIN q}

Tally(q, sent, lost, n) ==
  /\ n \in 0..MaxResults
  /\ q \in Seq(1..MaxResults) /\ Len(q) <= BufferMax
  /\ \A i, j \in DOMAIN q : i # j => q[i] # q[j]
  /\ Held(q) \subseteq 1..n /\ sent \subseteq 1..n /\ sent \cap Held(q) = {}
  /\ lost = Cardinality(1..n \ (Held(q) \cup sent))

Counted == Tally(buffer, accepted, dropped, results) /\ (connected => buffer = << >>)

(* A flush moves the whole buffer to the socket, or nothing.                 *)
LEMMA FlushTally ==
  ASSUME NEW q, NEW up, NEW lost, NEW n, Tally(q, accepted, lost, n), Flushes(q, up)
  PROVE  Tally(buffer', accepted', lost, n) /\ (up => buffer' = << >>)
<1>1. CASE up /\ q # << >>
  <2>1. buffer' = << >> /\ accepted' = accepted \cup Held(q)
    BY <1>1 DEF Flushes, Held
  <2>2. Held(<< >>) = {} /\ << >> \in Seq(1..MaxResults) /\ Len(<< >>) = 0
    BY DEF Held
  <2>3. BufferMax >= 0
    BY TransactionsAssumption
  <2>4. Tally(<< >>, accepted \cup Held(q), lost, n)
    <3>1. Held(<< >>) \cup (accepted \cup Held(q)) = Held(q) \cup accepted
      BY <2>2
    <3>2. accepted \cup Held(q) \subseteq 1..n /\ n \in 0..MaxResults
      BY DEF Tally
    <3>3. lost = Cardinality(1..n \ (Held(q) \cup accepted))
      BY DEF Tally
    <3> QED
      <4> DEFINE S == accepted \cup Held(q)
      <4>1. /\ Held(<< >>) \cup S = Held(q) \cup accepted /\ S \subseteq 1..n
            /\ Held(<< >>) = {} /\ << >> \in Seq(1..MaxResults) /\ Len(<< >>) <= BufferMax
            /\ DOMAIN << >> = {}
        BY <2>2, <2>3, <3>1, <3>2
      <4> HIDE DEF S
      <4>2. lost = Cardinality(1..n \ (Held(<< >>) \cup S))
        BY <3>3, <4>1
      <4>3. \A i, j \in DOMAIN << >> : i # j => << >>[i] # << >>[j]
        BY <4>1
      <4> QED
        BY <3>2, <4>1, <4>2, <4>3 DEF Tally
  <2> QED
    BY <2>1, <2>4
<1>2. CASE ~(up /\ q # << >>)
  BY <1>2 DEF Flushes
<1> QED
  BY <1>1, <1>2

(* A result joins the buffer; what it pushes out is the oldest, and counted. *)
LEMMA RecordsTally ==
  ASSUME Counted, Records, connected' = connected
  PROVE  Counted'
<1>1. CASE results = MaxResults
  BY <1>1 DEF Records, rows, Counted
<1> SUFFICES ASSUME results # MaxResults
             PROVE  Counted'
  BY <1>1
<1> DEFINE r == results + 1
           q == Append(buffer, r)
           n == Overflow(q)
           t == SubSeq(q, n + 1, Len(q))
<1>2. Tally(buffer, accepted, dropped, results)
  BY DEF Counted
<1>3. /\ results \in Nat /\ r \in 1..MaxResults /\ r \in 0..MaxResults /\ r \notin 1..results
      /\ \A x : x \in 1..r <=> x \in 1..results \/ x = r
  BY <1>2, TransactionsAssumption DEF Tally
<1>4. /\ results' = r /\ dropped' = dropped + n /\ Flushes(t, connected)
  BY DEF Records
<1> HIDE DEF r
<1>5. /\ q \in Seq(1..MaxResults) /\ Len(q) = Len(buffer) + 1 /\ Len(buffer) \in Nat
      /\ DOMAIN buffer = 1..Len(buffer) /\ DOMAIN q = 1..(Len(buffer) + 1)
      /\ \A i \in 1..Len(buffer) : q[i] = buffer[i]
      /\ q[Len(buffer) + 1] = r
  BY <1>2, <1>3, AppendProperties, LenProperties DEF Tally
<1> HIDE DEF q
<1>6. /\ n \in {0, 1} /\ n <= Len(q)
      /\ Len(q) - n <= BufferMax
  BY <1>2, <1>5, TransactionsAssumption DEF Overflow, Tally
<1> HIDE DEF n
<1>7. /\ t \in Seq(1..MaxResults) /\ Len(t) = Len(q) - n
      /\ DOMAIN t = 1..(Len(q) - n)
      /\ \A i \in 1..(Len(q) - n) : t[i] = q[i + n]
  <2>1. n + 1 \in Int /\ Len(q) \in Int /\ n + 1 >= 1
    BY <1>5, <1>6
  <2>2. \A i \in (n + 1)..Len(q) : q[i] \in 1..MaxResults
    <3>1. \A i \in 1..Len(q) : q[i] \in 1..MaxResults
      BY <1>5, ElementOfSeq
    <3>2. \A i \in (n + 1)..Len(q) : i \in 1..Len(q)
      BY <1>5, <1>6
    <3> QED
      BY <3>1, <3>2
  <2>3. /\ t \in Seq(1..MaxResults)
        /\ Len(t) = IF n + 1 <= Len(q) THEN Len(q) - (n + 1) + 1 ELSE 0
        /\ \A i \in 1..(Len(q) - (n + 1) + 1) : t[i] = q[(n + 1) + i - 1]
    BY <2>1, <2>2, SubSeqProperties
  <2> HIDE DEF t
  <2>4. Len(t) = Len(q) - n /\ Len(q) - (n + 1) + 1 = Len(q) - n
    BY <1>5, <1>6, <2>3
  <2>5. \A i \in 1..(Len(q) - n) : (n + 1) + i - 1 = i + n
    BY <1>6
  <2> QED
    BY <2>3, <2>4, <2>5, LenProperties
<1> HIDE DEF t
<1>8. \A i, j \in DOMAIN q : i # j => q[i] # q[j]
  <2> SUFFICES ASSUME NEW i \in DOMAIN q, NEW j \in DOMAIN q, i # j PROVE q[i] # q[j]
    OBVIOUS
  <2>1. \A m \in DOMAIN q : m \in DOMAIN buffer \/ m = Len(buffer) + 1
    BY <1>5
  <2>2. \A m \in DOMAIN buffer : q[m] = buffer[m] /\ buffer[m] \in 1..results
    BY <1>2, <1>5 DEF Tally, Held
  <2>3. \A m \in DOMAIN buffer : q[m] # r
    BY <1>3, <2>2
  <2> QED
    BY <1>2, <1>5, <2>1, <2>2, <2>3 DEF Tally
<1>9. Held(q) = Held(buffer) \cup {r}
  <2>1. \A m \in DOMAIN q : m \in DOMAIN buffer \/ m = Len(buffer) + 1
    BY <1>5
  <2>2. DOMAIN buffer \subseteq DOMAIN q /\ Len(buffer) + 1 \in DOMAIN q
    BY <1>5
  <2> QED
    BY <1>5, <2>1, <2>2 DEF Held
<1>10. /\ \A i, j \in DOMAIN t : i # j => t[i] # t[j]
       /\ n = 0 => Held(t) = Held(q)
       /\ n = 1 => Held(t) = Held(q) \ {q[1]} /\ q[1] \in Held(q)
  <2>1. \A i \in DOMAIN t : i + n \in DOMAIN q /\ t[i] = q[i + n] /\ i \in Nat
    BY <1>5, <1>6, <1>7
  <2>2. \A i, j \in DOMAIN t : i # j => t[i] # t[j]
    <3> SUFFICES ASSUME NEW i \in DOMAIN t, NEW j \in DOMAIN t, i # j PROVE t[i] # t[j]
      OBVIOUS
    <3>1. i + n # j + n
      BY <1>6, <2>1
    <3> QED
      BY <1>8, <2>1, <3>1
  <2>3. ASSUME n = 0 PROVE Held(t) = Held(q)
    <3>1. DOMAIN t = DOMAIN q /\ \A i \in DOMAIN q : t[i] = q[i]
      BY <1>5, <1>7, <2>3
    <3> QED
      BY <3>1 DEF Held
  <2>4. ASSUME n = 1 PROVE Held(t) = Held(q) \ {q[1]} /\ q[1] \in Held(q)
    <3>1. 1 \in DOMAIN q /\ \A i \in DOMAIN t : i + 1 # 1
      BY <1>5, <1>7
    <3>2. \A m \in DOMAIN q : m # 1 => m - 1 \in DOMAIN t /\ t[m - 1] = q[m]
      <4> SUFFICES ASSUME NEW m \in DOMAIN q, m # 1
                   PROVE  m - 1 \in DOMAIN t /\ t[m - 1] = q[m]
        OBVIOUS
      <4>1. m - 1 \in 1..(Len(q) - n) /\ (m - 1) + n = m
        BY <1>5, <2>4
      <4> QED
        BY <1>7, <4>1
    <3>3. \A x \in Held(t) : x \in Held(q) /\ x # q[1]
      <4> SUFFICES ASSUME NEW i \in DOMAIN t PROVE t[i] \in Held(q) /\ t[i] # q[1]
        BY DEF Held
      <4> QED
        BY <1>8, <2>1, <2>4, <3>1 DEF Held
    <3>4. \A x \in Held(q) : x # q[1] => x \in Held(t)
      BY <3>2 DEF Held
    <3> QED
      BY <3>1, <3>3, <3>4 DEF Held
  <2> QED
    BY <2>2, <2>3, <2>4
<1>11. /\ Held(t) \subseteq 1..r /\ accepted \subseteq 1..r /\ accepted \cap Held(t) = {}
  BY <1>2, <1>3, <1>6, <1>9, <1>10 DEF Tally
<1>12. dropped + n = Cardinality(1..r \ (Held(t) \cup accepted))
  <2> DEFINE old == 1..results \ (Held(buffer) \cup accepted)
             new == 1..r \ (Held(t) \cup accepted)
  <2>1. dropped = Cardinality(old)
    BY <1>2 DEF Tally
  <2>2. IsFiniteSet(old) /\ Cardinality(old) \in Nat
    <3>1. IsFiniteSet(1..results)
      BY <1>3, FS_Interval
    <3> QED
      BY <3>1, FS_Subset, FS_CardinalityType
  <2>3. CASE n = 0
    <3>1. new = old
      BY <1>3, <1>9, <1>10, <2>3
    <3> HIDE DEF old, new
    <3>2. dropped + n = Cardinality(new)
      BY <2>1, <2>2, <2>3, <3>1
    <3> QED
      BY <3>2 DEF new
  <2>4. CASE n = 1
    <3>1. q[1] \notin old
      BY <1>3, <1>9, <1>10, <2>4
    <3>2. q[1] \notin accepted /\ q[1] \in 1..r
      BY <1>2, <1>3, <1>9, <1>10, <2>4 DEF Tally
    <3>3. new = old \cup {q[1]}
      BY <1>3, <1>9, <1>10, <2>4, <3>2
    <3> HIDE DEF old, new
    <3>4. Cardinality(new) = Cardinality(old) + 1
      BY <2>2, <3>1, <3>3, FS_AddElement
    <3> QED
      BY <2>1, <2>4, <3>4 DEF new
  <2> QED
    BY <1>6, <2>3, <2>4
<1>13. Tally(t, accepted, dropped + n, r)
  BY <1>3, <1>6, <1>7, <1>10, <1>11, <1>12 DEF Tally
<1>14. Tally(buffer', accepted', dropped + n, r) /\ (connected => buffer' = << >>)
  BY <1>4, <1>13, FlushTally
<1> QED
  BY <1>4, <1>14 DEF Counted

LEMMA NothingCounted ==
  ASSUME NEW c
  PROVE  Tally(<< >>, {}, 0, 0) /\ (c => << >> = << >>)
<1>1. << >> \in Seq(1..MaxResults) /\ Len(<< >>) = 0 /\ DOMAIN << >> = {}
  OBVIOUS
<1>2. 0 \in 0..MaxResults /\ 0 <= BufferMax /\ 1..0 = {}
  BY TransactionsAssumption
<1>3. Held(<< >>) = {}
  BY <1>1 DEF Held
<1>4. 1..0 \ (Held(<< >>) \cup {}) = {}
  BY <1>2
<1> QED
  BY <1>1, <1>2, <1>3, <1>4, FS_EmptySet DEF Tally

LEMMA CountedNext == ASSUME Counted, [Next]_vars PROVE Counted'
<1>1. CASE Restart
  BY <1>1, NothingCounted DEF Restart, Counted
<1>2. CASE ChannelOpens
  <2>1. Flushes(buffer, TRUE) /\ dropped' = dropped /\ results' = results
    BY <1>2 DEF ChannelOpens
  <2> QED
    BY <2>1, FlushTally DEF Counted
<1>3. CASE ChannelDrops
  BY <1>3 DEF ChannelDrops, rows, Counted
<1>4. ASSUME UNCHANGED rows, UNCHANGED connected PROVE Counted'
  BY <1>4 DEF rows, Counted
<1>5. CASE Start \/ Stop \/ CancelEnds \/ UNCHANGED vars \/ \E order \in Orders : ConfigPushed(order)
  BY <1>4, <1>5 DEF Start, Stop, CancelEnds, ConfigPushed, vars
<1>6. ASSUME NEW l \in Lanes, ProcessStep(l) \/ (\E force \in BOOLEAN : RunNow(l, force))
      PROVE  Counted'
  BY <1>4, <1>6 DEF ProcessStep, RunNow
<1>7. ASSUME NEW l \in Lanes, LaneStep(l) PROVE Counted'
  <2>1. \/ UNCHANGED rows /\ UNCHANGED connected
        \/ Records /\ connected' = connected
    BY <1>7 DEF LaneStep, TimerFires, CaptureOpens, CaptureStarted, ExecutorAnswers,
       CaptureStops, Finishes
  <2> QED
    BY <1>4, <2>1, RecordsTally
<1> QED
  BY <1>1, <1>2, <1>3, <1>5, <1>6, <1>7 DEF Next

(* What is in force, in the file or pushed last is an order, or nothing.     *)
Ordered ==
  connected \in BOOLEAN /\ {tests, stored, pushed} \subseteq Orders \cup {Nothing}

LEMMA OrderedNext == ASSUME Ordered, [Next]_vars PROVE Ordered'
<1>1. ASSUME NEW order \in Orders, ConfigPushed(order) PROVE Ordered'
  BY <1>1, Zenon DEF ConfigPushed, Saved, Ordered
<1>2. CASE Start
  BY <1>2 DEF Start, Ordered
<1>3. CASE Restart
  BY <1>3 DEF Restart, Ordered
<1>4. CASE Stop
  BY <1>4 DEF Stop, Ordered, config
<1>5. ASSUME NEW l \in Lanes,
             LaneStep(l) \/ ProcessStep(l) \/ (\E force \in BOOLEAN : RunNow(l, force))
      PROVE  Ordered'
  BY <1>5 DEF LaneStep, TimerFires, CaptureOpens, CaptureStarted,
     ExecutorAnswers, CaptureStops, ProcessStep, RunNow, config, Ordered
<1>6. CASE CancelEnds \/ ChannelOpens \/ ChannelDrops \/ UNCHANGED vars
  BY <1>6 DEF CancelEnds, ChannelOpens, ChannelDrops, vars, config, Ordered
<1> QED
  BY <1>1, <1>2, <1>3, <1>4, <1>5, <1>6 DEF Next

LEMMA TypesFollow ==
  ASSUME IInv, Counted, Ordered
  PROVE  TypeOK
<1>1. Capture!TypeOK
  <2>1. \A l \in Lanes : stage[l] \in Capture!Stages /\ tcpdump[l] \in Capture!Processes
    BY DEF IInv, Scoped, Fits, Capture!Stages, Capture!Processes
  <2>2. stage \in [Lanes -> Capture!Stages] /\ tcpdump \in [Lanes -> Capture!Processes]
    BY <2>1 DEF IInv, Scoped
  <2> QED
    BY <2>2 DEF IInv, Scoped, Capture!TypeOK
<1>2. dropped \in 0..MaxResults
  <2>1. results \in Nat /\ results <= MaxResults /\ IsFiniteSet(1..results)
        /\ Cardinality(1..results) = results
    <3>1. results \in 0..MaxResults /\ MaxResults \in Nat
      BY TransactionsAssumption DEF Counted, Tally
    <3>2. 1 \in Int /\ results \in Int
      BY <3>1
    <3>3. /\ IsFiniteSet(1..results)
          /\ Cardinality(1..results) = IF 1 > results THEN 0 ELSE results - 1 + 1
      BY <3>2, FS_Interval
    <3> QED
      BY <3>1, <3>3
  <2>2. dropped \in Nat /\ dropped <= results
    BY <2>1, FS_Subset, FS_CardinalityType DEF Counted, Tally
  <2> QED
    BY <2>1, <2>2, TransactionsAssumption
<1>3. accepted \subseteq 1..MaxResults
  BY TransactionsAssumption DEF Counted, Tally
<1> QED
  BY <1>1, <1>2, <1>3 DEF TypeOK, IInv, Shape, Jobs, Given, Counted, Tally, Ordered

(* "Results survive an outage": whatever the channel does while runs end,     *)
(* every result is with the socket, waiting in the buffer or counted as       *)
(* dropped, once, and none waits behind an open channel (push and flush of    *)
(* src/transactions/manager.js, createResultBuffer).                         *)
THEOREM TransactionsAccounted == Spec => []ResultsAccounted
<1>1. Init => Counted /\ Ordered
  BY NothingCounted DEF Init, Fresh, Counted, Ordered
<1>2. Counted /\ Ordered /\ [Next]_vars => (Counted /\ Ordered)'
  BY CountedNext, OrderedNext
<1>3. IInv /\ Counted /\ Ordered => ResultsAccounted
  <2> SUFFICES ASSUME IInv, Counted, Ordered
               PROVE  ResultsAccounted
    OBVIOUS
  <2>1. TypeOK
    BY TypesFollow
  <2> QED
    BY <2>1 DEF ResultsAccounted, Counted, Tally, Held
<1> QED
  BY <1>1, <1>2, <1>3, InvariantHolds, PTL DEF Spec
=============================================================================
