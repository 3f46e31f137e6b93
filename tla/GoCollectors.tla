----------------------------- MODULE GoCollectors -----------------------------
(***************************************************************************)
(* The Go rewrite: its collector definitions, the loops that run them and    *)
(* the traffic they report (blueeye-agent-go/internal/collector/store.go and *)
(* engine.go, internal/report/report.go, cmd/blueeye-agent/main.go).         *)
(*                                                                         *)
(* The goroutines are: the reader of the live channel, which installs a      *)
(* frame of definitions and reloads the engine; the engine, which reloads    *)
(* once when it starts; and a loop for each collector.  A step is what one   *)
(* of them does between taking and releasing a lock, or one system call.     *)
(*                                                                         *)
(* A definition is its version, 0 if there is none.  What a collector reads  *)
(* is one counter of the host.  Not modelled: the parser, the metrics other  *)
(* than the counters, the tickers' periods.                                 *)
(***************************************************************************)
EXTENDS Naturals, Sequences, FiniteSets, FiniteSetsExt

CONSTANTS
  Ids,
  Bundled,     (* the versions built into the binary                         *)
  MaxVersion,
  ForHere,     (* [id, version] that target this host (AppliesHere)          *)
  MaxCount     (* bound: how far a counter of the host grows                 *)

ASSUME CollectorsAssumption ==
  /\ MaxVersion \in Nat /\ MaxCount \in Nat
  /\ Bundled \in [Ids -> 0..MaxVersion]
  /\ ForHere \subseteq Ids \X (1..MaxVersion)

Versions == 0..MaxVersion
NoReading == MaxCount + 1
Callers == {"engine", "reader"}
Quiet == [at |-> "idle", want |-> {}]

VARIABLES
  up,       (* the process runs                                              *)
  defs,     (* Store.defs                                                    *)
  cache,    (* the definitions on the disk                                   *)
  frame,    (* what is left of a definitions frame: <<id, version>>, and how *)
            (* far its first is                                              *)
  reload,   (* of each caller of Reload                                      *)
  loops,    (* the goroutines; live: not cancelled                           *)
  raw, grown,    (* each counter of the host, and how much it counted in all *)
  prev,     (* Assembler.prev                                                *)
  sent,     (* history: the deltas the server has accepted                   *)
  overlap   (* history: ids that two loops ran at the same time              *)

storeVars == <<defs, cache, frame>>
engineVars == <<reload, loops, overlap>>
countVars == <<raw, grown>>
reportVars == <<prev, sent>>
collectorVars == <<up, storeVars, engineVars, countVars, reportVars>>

NoFrame == [todo |-> <<>>, stored |-> FALSE, changed |-> FALSE]

GoInit ==
  /\ up = FALSE
  /\ defs = [i \in Ids |-> 0] /\ cache = [i \in Ids |-> 0]
  /\ frame = NoFrame
  /\ reload = [c \in Callers |-> Quiet]
  /\ loops = {} /\ overlap = {}
  /\ raw = [i \in Ids |-> 0] /\ grown = [i \in Ids |-> 0]
  /\ prev = [i \in Ids |-> NoReading] /\ sent = [i \in Ids |-> 0]

(* putIfNewer                                                                *)
Newer(v, w) == IF w > v THEN w ELSE v

(* main: the bundled definitions, then the cache; then the engine and the    *)
(* live channel run.                                                        *)
GoStarts ==
  /\ ~up /\ up' = TRUE
  /\ defs' = [i \in Ids |-> Newer(Bundled[i], cache[i])]
  /\ reload' = [reload EXCEPT !["engine"].at = "due"]
  /\ UNCHANGED <<cache, frame, loops, overlap, countVars, reportVars>>

GoDies ==
  /\ up /\ up' = FALSE
  /\ frame' = NoFrame
  /\ reload' = [c \in Callers |-> Quiet]
  /\ loops' = {}
  /\ prev' = [i \in Ids |-> NoReading]
  /\ UNCHANGED <<defs, cache, overlap, countVars, sent>>

-----------------------------------------------------------------------------
(* The reader: a frame, one definition after the other, in memory and then   *)
(* on the disk, where a failure is only recorded.                            *)
FrameArrives(todo) ==
  /\ up /\ frame = NoFrame /\ reload["reader"] = Quiet
  /\ frame' = [NoFrame EXCEPT !.todo = todo]
  /\ UNCHANGED <<up, defs, cache, engineVars, countVars, reportVars>>

Installs ==
  /\ up /\ frame.todo # <<>> /\ ~frame.stored
  /\ LET d == Head(frame.todo) IN
       IF d[2] > defs[d[1]]
       THEN /\ defs' = [defs EXCEPT ![d[1]] = d[2]]
            /\ frame' = [frame EXCEPT !.stored = TRUE, !.changed = TRUE]
       ELSE /\ frame' = [frame EXCEPT !.todo = Tail(@)]
            /\ UNCHANGED defs
  /\ UNCHANGED <<up, cache, engineVars, countVars, reportVars>>

Persists ==
  /\ up /\ frame.stored
  /\ LET d == Head(frame.todo) IN cache' \in {cache, [cache EXCEPT ![d[1]] = d[2]]}
  /\ frame' = [frame EXCEPT !.todo = Tail(@), !.stored = FALSE]
  /\ UNCHANGED <<up, defs, engineVars, countVars, reportVars>>

FrameDone ==
  /\ up /\ frame # NoFrame /\ frame.todo = <<>>
  /\ frame' = NoFrame
  /\ reload' = IF frame.changed THEN [reload EXCEPT !["reader"].at = "due"] ELSE reload
  /\ UNCHANGED <<up, defs, cache, loops, overlap, countVars, reportVars>>

-----------------------------------------------------------------------------
(* Reload: the list is taken before the lock of the engine is.               *)
Lists(c) ==
  /\ reload[c].at = "due"
  /\ reload' = [reload EXCEPT ![c] =
       [at |-> "listed", want |-> {d \in ForHere : defs[d[1]] = d[2]}]]
  /\ UNCHANGED <<up, storeVars, loops, overlap, countVars, reportVars>>

Wanted(c) == {d[1] : d \in reload[c].want}
Live == {l \in loops : l.live}
LoopOf(i) == {l \in Live : l.id = i}

(* What is no longer wanted is cancelled; what is wanted and runs is left as *)
(* it is; what does not run is started.                                      *)
Syncs(c) ==
  /\ reload[c].at = "listed"
  /\ LET kept == {IF l.live /\ l.id \notin Wanted(c) THEN [l EXCEPT !.live = FALSE] ELSE l :
                    l \in loops}
         new  == {d \in reload[c].want : LoopOf(d[1]) = {}}
     IN  /\ loops' = kept \cup {[id |-> d[1], version |-> d[2], live |-> TRUE,
                                  at |-> "begins", value |-> NoReading] : d \in new}
         /\ overlap' = overlap \cup {d[1] : d \in {d \in new : \E l \in kept : l.id = d[1]}}
  /\ reload' = [reload EXCEPT ![c] = Quiet]
  /\ UNCHANGED <<up, storeVars, countVars, reportVars>>

Becomes(l, next) == loops' = (loops \ {l}) \cup next
Turns(l, at) == Becomes(l, {[l EXCEPT !.at = at]})

(* A tick: the collector is executed, the first time at once.  A cancelled   *)
(* loop ends, or is started by its ticker once more (select takes either).   *)
Ticks(l) ==
  /\ l \in loops /\ l.at \in {"begins", "waits"}
  /\ \/ Turns(l, "executes")
     \/ l.at = "waits" /\ ~l.live /\ Becomes(l, {})
  /\ UNCHANGED <<up, storeVars, reload, overlap, countVars, reportVars>>

(* The command ends with a reading, or it fails, is timed out or cancelled.  *)
Executed(l) ==
  /\ l \in loops /\ l.at = "executes"
  /\ \/ Becomes(l, {[l EXCEPT !.at = "reads", !.value = raw[l.id]]})
     \/ Turns(l, "waits")
  /\ UNCHANGED <<up, storeVars, reload, overlap, countVars, reportVars>>

LastReading(i, v) == v
Delta(i, v) == IF prev[i] # NoReading /\ v > prev[i] THEN v - prev[i] ELSE 0

(* Report: the difference to the previous reading is taken under the lock of *)
(* the assembler and posted; what cannot be posted is lost.                  *)
Reported(l) ==
  /\ l \in loops /\ l.at = "reads"
  /\ prev' = [prev EXCEPT ![l.id] = LastReading(l.id, l.value)]
  /\ sent' \in {sent, [sent EXCEPT ![l.id] = @ + Delta(l.id, l.value)]}
  /\ Becomes(l, {[l EXCEPT !.at = "waits", !.value = NoReading]})
  /\ UNCHANGED <<up, storeVars, reload, overlap, countVars>>

(* The host.                                                                *)
Counts(i) ==
  /\ grown[i] < MaxCount
  /\ raw' = [raw EXCEPT ![i] = @ + 1] /\ grown' = [grown EXCEPT ![i] = @ + 1]
  /\ UNCHANGED <<up, storeVars, engineVars, reportVars>>
CounterResets(i) ==
  /\ raw[i] > 0 /\ raw' = [raw EXCEPT ![i] = 0]
  /\ UNCHANGED <<up, storeVars, engineVars, grown, reportVars>>

Frames == {<<d>> : d \in Ids \X (1..MaxVersion)}

CollectorsNext ==
  \/ GoStarts \/ GoDies
  \/ \E todo \in Frames : FrameArrives(todo)
  \/ Installs \/ Persists \/ FrameDone
  \/ \E c \in Callers : Lists(c) \/ Syncs(c)
  \/ \E l \in loops : Ticks(l) \/ Executed(l) \/ Reported(l)
  \/ \E i \in Ids : Counts(i) \/ CounterResets(i)

CollectorsSpec == GoInit /\ [][CollectorsNext]_collectorVars

-----------------------------------------------------------------------------
CollectorsTypeOK ==
  /\ up \in BOOLEAN
  /\ defs \in [Ids -> Versions] /\ cache \in [Ids -> Versions]
  /\ frame.todo \in Seq(Ids \X (1..MaxVersion))
  /\ reload \in [Callers -> [at : {"idle", "due", "listed"}, want : SUBSET ForHere]]
  /\ loops \subseteq [id : Ids, version : 1..MaxVersion, live : BOOLEAN,
                      at : {"begins", "waits", "executes", "reads"}, value : 0..NoReading]
  /\ raw \in [Ids -> 0..MaxCount] /\ grown \in [Ids -> 0..MaxCount]
  /\ prev \in [Ids -> 0..NoReading] /\ overlap \subseteq Ids

(* What the server is told an interface carried is never more than it did,   *)
(* through counters that start over, deaths of the agent and definitions     *)
(* that change, as long as no two loops ran the same collector: that takes   *)
(* a definition that left this host and came back while a reading of the old *)
(* loop was still on its way.                                                *)
CountedOnce == \A i \in Ids \ overlap : sent[i] <= grown[i]
=============================================================================
