-------------------------- MODULE TrafficSampling --------------------------
(***************************************************************************)
(* The interface-rate samplers: two readings of cumulative counters, an    *)
(* interval apart, and their difference (src/src/trafficMonitor.js,        *)
(* trafficMonitorDarwin.js, trafficMonitorWin.js, snmpMonitor.js, chosen   *)
(* by monitor.js).                                                         *)
(*                                                                         *)
(* On Linux and macOS the sampler reads the host's counters itself; over   *)
(* SNMP it walks a device's columns, any optional one of which may be      *)
(* lost; on Windows a powershell process that outlives the samples prints  *)
(* a reading a tick, and a sample waits for the readings it needs, up to a *)
(* deadline.  Interfaces come, go and start their counters over, the       *)
(* process dies and is started again, the wall clock is set back and the   *)
(* sampler is replaced while it measures.                                  *)
(*                                                                         *)
(* Of an interface's columns one of each kind is kept: "core" (octets),    *)
(* "health" (errors, for which a missing value is read as zero) and        *)
(* "detail" (late collisions and the like, for which missing stays         *)
(* missing).  All of them count the same events here.  Left out: link      *)
(* state and speed, the loopback interface (never reported), the rates     *)
(* (the difference over the elapsed time), and the buffer of up to 120     *)
(* readings behind the newest, which nothing reads.                        *)
(***************************************************************************)
EXTENDS Integers, FiniteSets, FiniteSetsExt

CONSTANTS
    Sources,          \* samplers tried, of AllSources
    InterfacesOf,     \* interfaces of the host or device of each
    SampleInterval,   \* ticks between the two readings
    Grace,            \* ticks waited beyond what was asked (Windows)
    MaxInterfaces,    \* interfaces a snapshot lists
    MaxMoved,         \* bound: events over all interfaces, for each source
    MaxSampleClock    \* bound: the clock

AllSources == {"proc", "darwin", "win", "snmp"}

(* One tick of powershell is the unit of time. *)
Longest == (1 + Grace) + (SampleInterval + Grace)

ASSUME SamplingAssumption ==
    /\ Sources \subseteq AllSources
    /\ SampleInterval \in Nat \ {0} /\ Grace \in Nat /\ MaxInterfaces \in Nat \ {0}
    /\ \A s \in Sources : IsFiniteSet(InterfacesOf[s]) /\ MaxMoved[s] \in Nat
    /\ MaxSampleClock \in Nat /\ MaxSampleClock > Longest

Missing == -1                    \* null
Nothing == [at |-> -1]

VARIABLES
    source,       \* the sampler in use
    ticks,        \* time that has passed
    behind,       \* ticks the wall clock was set back by
    moved,        \* events on an interface so far: what really happened
    counter,      \* the interface's counter, from zero when it returns
    here,         \* interfaces that exist
    newest,       \* the last line powershell printed
    child,        \* powershell: "up", "exited" (a respawn is due), "broken",
                  \* or "stopped" with the sampler
    sample,       \* the sample in progress
    snapshot      \* the snapshot being returned

samplingVars == <<source, ticks, behind, moved, counter, here, newest, child, sample, snapshot>>

Interfaces == InterfacesOf[source]

world == <<source, ticks, behind, moved, counter, here>>

----------------------------------------------------------------------------
(* Readings.  "moved" in a reading is what really had happened then; the   *)
(* code does not have it.                                                  *)

wall == ticks - behind

Reading(seen, lost) ==
    [at |-> wall, moved |-> moved, lost |-> lost,
     rows |-> [i \in seen |->
                 [core   |-> counter[i],
                  health |-> IF "health" \in lost THEN 0 ELSE counter[i],
                  detail |-> IF "detail" \in lost THEN Missing ELSE counter[i]]]]

(* What reading the counters can give: on Linux /proc/net/dev, on macOS     *)
(* netstat, whose failure reads as no interface at all; over SNMP any       *)
(* optional walk may be lost.                                               *)
Readings ==
    CASE source = "proc"   -> {Reading(here, {}), Reading({}, {})}
      [] source = "darwin" -> {Reading(here, {"detail"}), Reading({}, {})}
      [] source = "snmp"   -> {Reading(here, lost) : lost \in SUBSET {"health", "detail"}}
      [] OTHER             -> {}

(* A row of the newest Windows reading has no detail columns. *)
Line == Reading(here, {"detail"})

----------------------------------------------------------------------------
(* The difference of two readings; each of the Linux, macOS and SNMP files   *)
(* has a copy of this computation, and Windows uses that of Linux.           *)

Since(later, earlier) == IF later > earlier THEN later - earlier ELSE 0

SinceDetail(later, earlier) ==
    IF Missing \in {later, earlier} THEN Missing ELSE Since(later, earlier)

Compared(first, second) == DOMAIN first.rows \cap DOMAIN second.rows

RowOf(first, second, i) ==
    [core   |-> Since(second.rows[i].core, first.rows[i].core),
     health |-> Since(second.rows[i].health, first.rows[i].health),
     detail |-> SinceDetail(second.rows[i].detail, first.rows[i].detail)]

(* The busiest interfaces, at most MaxInterfaces of them. *)
Listed(first, second) ==
    LET both == Compared(first, second)
        core(i) == RowOf(first, second, i).core
    IN  {kept \in SUBSET both :
            /\ Cardinality(kept) = IF Cardinality(both) > MaxInterfaces
                                   THEN MaxInterfaces ELSE Cardinality(both)
            /\ \A i \in kept, o \in both \ kept : core(i) >= core(o)}

TotalOf(first, second) ==
    MapThenSumSet(LAMBDA i : RowOf(first, second, i).core, Compared(first, second))

Snapshot(first, second, kept) ==
    [rows    |-> [i \in kept |-> RowOf(first, second, i)],
     omitted |-> Cardinality(Compared(first, second)) - Cardinality(kept),
     total   |-> TotalOf(first, second),
     first   |-> first,
     second  |-> second]

----------------------------------------------------------------------------
NotSampling == [phase |-> "idle"]

SamplingInit ==
    /\ source \in Sources
    /\ ticks = 0 /\ behind = 0
    /\ moved = [i \in Interfaces |-> 0]
    /\ counter = [i \in Interfaces |-> 0]
    /\ here = Interfaces
    /\ newest = Nothing
    /\ child = IF source = "win" THEN "exited" ELSE "none"
    /\ sample = NotSampling
    /\ snapshot = Nothing

(* sample() is called: the report loop, a command, a burst. *)
BeginSample ==
    /\ sample.phase = "idle"
    /\ child # "stopped"
    /\ ticks + Longest < MaxSampleClock
    /\ sample' = [phase |-> "first", until |-> wall + 1 + Grace]
    /\ UNCHANGED <<world, newest, child, snapshot>>

(* Linux, macOS and SNMP read, sleep the interval and read again. *)
ReadFirst ==
    /\ sample.phase = "first"
    /\ \E r \in Readings :
         sample' = [phase |-> "second", first |-> r, due |-> ticks + SampleInterval]
    /\ UNCHANGED <<world, newest, child, snapshot>>

ReadSecond ==
    /\ source # "win"
    /\ sample.phase = "second"
    /\ ticks >= sample.due
    /\ \E r \in Readings : \E kept \in Listed(sample.first, r) :
         snapshot' = Snapshot(sample.first, r, kept)
    /\ sample' = NotSampling
    /\ UNCHANGED <<world, newest, child>>

(* A core column that cannot be walked fails the whole SNMP sample. *)
WalkFails ==
    /\ source = "snmp"
    /\ \/ sample.phase = "first"
       \/ sample.phase = "second" /\ ticks >= sample.due
    /\ sample' = NotSampling
    /\ UNCHANGED <<world, newest, child, snapshot>>

(* Windows waits for a reading that will do, or for the deadline, and then  *)
(* takes the newest there is; one reading twice is no sample.               *)
(* Mutant: only a reading ends the wait. *)
OnlyReadings == FALSE

Expired == wall >= sample.until

TakeFirst ==
    /\ source = "win"
    /\ sample.phase = "first"
    /\ IF newest # Nothing
       THEN sample' = [phase |-> "second", first |-> newest, until |-> wall + SampleInterval + Grace]
       ELSE Expired /\ sample' = NotSampling
    /\ UNCHANGED <<world, newest, child, snapshot>>

LateEnough(r, first) == r.at >= first.at + SampleInterval

Comparable(first, second) == second.at > first.at

TakeSecond ==
    /\ source = "win"
    /\ sample.phase = "second"
    /\ LateEnough(newest, sample.first) \/ Expired
    /\ IF Comparable(sample.first, newest)
       THEN \E kept \in Listed(sample.first, newest) :
              snapshot' = Snapshot(sample.first, newest, kept)
       ELSE UNCHANGED snapshot
    /\ sample' = NotSampling
    /\ UNCHANGED <<world, newest, child>>

(* The caller has the snapshot. *)
Hand ==
    /\ snapshot # Nothing
    /\ snapshot' = Nothing
    /\ UNCHANGED <<world, newest, child, sample>>

(* powershell prints a line a tick, dies, and is started again after a      *)
(* delay; a start that throws leaves the respawn due.                       *)
Prints ==
    /\ child = "up"
    /\ newest.at # wall
    /\ newest' = Line
    /\ UNCHANGED <<world, child, sample, snapshot>>

Exit ==
    /\ child = "up"
    /\ child' = "exited"
    /\ UNCHANGED <<world, newest, sample, snapshot>>

Spawn ==
    /\ child = "exited"
    /\ child' = "up"
    /\ UNCHANGED <<world, newest, sample, snapshot>>

(* A start that fails after spawn() returned emits "error" and no "exit":   *)
(* it is logged, and nothing starts the process again.                      *)
SpawnBreaks ==
    /\ child = "exited"
    /\ child' = "broken"
    /\ UNCHANGED <<world, newest, sample, snapshot>>

(* The runtime replaces the sampler: powershell is killed and no respawn is  *)
(* due any more; a sample in progress goes on.                              *)
Stop ==
    /\ source = "win" /\ child # "stopped"
    /\ child' = "stopped"
    /\ UNCHANGED <<world, newest, sample, snapshot>>

----------------------------------------------------------------------------
(* The world. *)

AllMoved == MapThenSumSet(LAMBDA j : moved[j], Interfaces)

Move(i) ==
    /\ i \in here
    /\ AllMoved < MaxMoved[source]
    /\ moved' = [moved EXCEPT ![i] = @ + 1]
    /\ counter' = [counter EXCEPT ![i] = @ + 1]
    /\ UNCHANGED <<source, ticks, behind, here, newest, child, sample, snapshot>>

Leave(i) ==
    /\ i \in here
    /\ here' = here \ {i}
    /\ counter' = [counter EXCEPT ![i] = 0]
    /\ UNCHANGED <<source, ticks, behind, moved, newest, child, sample, snapshot>>

Return(i) ==
    /\ i \notin here
    /\ here' = here \cup {i}
    /\ UNCHANGED <<source, ticks, behind, moved, counter, newest, child, sample, snapshot>>

(* Steps of the sampler are short against a tick: time passes only when it  *)
(* waits.                                                                   *)
Waiting ==
    CASE sample.phase = "idle"  -> TRUE
      [] sample.phase = "first" -> source = "win" /\ newest = Nothing /\ ~Expired
      [] OTHER -> IF source = "win" THEN ~LateEnough(newest, sample.first) /\ ~Expired
                                    ELSE ticks < sample.due

Pass ==
    /\ ticks < MaxSampleClock
    /\ Waiting
    /\ ticks' = ticks + 1
    /\ UNCHANGED <<source, behind, moved, counter, here, newest, child, sample, snapshot>>

(* Bound: once, and where it matters most. *)
SetBack ==
    /\ source = "win" /\ behind = 0 /\ ticks > 0 /\ sample.phase = "second"
    /\ behind' = 1
    /\ UNCHANGED <<source, ticks, moved, counter, here, newest, child, sample, snapshot>>

(* Bound: what happens when no further sample fits before MaxSampleClock is *)
(* not followed.                                                            *)
Followed == sample.phase # "idle" \/ ticks + Longest < MaxSampleClock

(* Handing a snapshot over takes no time: nothing else happens meanwhile.   *)
SamplingNext ==
    \/ Hand
    \/ snapshot = Nothing /\ Followed /\
         \/ BeginSample \/ ReadFirst \/ ReadSecond \/ WalkFails \/ TakeFirst \/ TakeSecond
         \/ Prints \/ Exit \/ Spawn \/ SpawnBreaks \/ Stop
         \/ \E i \in Interfaces : Move(i) \/ Leave(i) \/ Return(i)
         \/ Pass \/ SetBack

SamplingSpec == SamplingInit /\ [][SamplingNext]_samplingVars

----------------------------------------------------------------------------
(* Properties. *)

SamplingTypeOK ==
    /\ source \in Sources /\ here \subseteq Interfaces
    /\ ticks \in 0..MaxSampleClock /\ behind \in 0..1 /\ wall >= 0
    /\ moved \in [Interfaces -> 0..MaxMoved[source]] /\ counter \in [Interfaces -> 0..MaxMoved[source]]
    /\ child \in {"none", "up", "exited", "broken", "stopped"}
    /\ sample.phase \in {"idle", "first", "second"}

(* What had been counted when an interface last returned: it differs between *)
(* two readings exactly when a restart lost something.                      *)
Offset(r, i) == r.moved[i] - r.rows[i].core

(* A row reports what crossed its interface between the two readings: all   *)
(* of it if the counter was not started over, and never more than there     *)
(* was.  A detail column says so only if both readings had it, and an error *)
(* column may say more only after the first reading's walk was lost.        *)
RowIsTrue(s, i) ==
    LET crossed == s.second.moved[i] - s.first.moved[i]
        row == s.rows[i]
    IN  /\ row.core <= crossed
        /\ Offset(s.first, i) = Offset(s.second, i) => row.core = crossed
        /\ row.detail # Missing => row.detail <= crossed
        /\ row.health <= crossed \/ "health" \in s.first.lost

CrossedAll(first, second) ==
    MapThenSumSet(LAMBDA i : second.moved[i] - first.moved[i], Compared(first, second))

(* The totals cover the interfaces the list leaves out.                      *)
TotalIsTrue(s) ==
    LET crossed == CrossedAll(s.first, s.second)
        both == Compared(s.first, s.second)
    IN  /\ s.total <= crossed
        /\ (\A i \in both : Offset(s.first, i) = Offset(s.second, i)) => s.total = crossed
        /\ s.omitted = 0 <=> DOMAIN s.rows = both
        /\ s.second.at > s.first.at

(* A snapshot is the truth about the time between its readings, whatever    *)
(* came, went, restarted or was lost meanwhile (trafficMonitor.js:88,       *)
(* snmpMonitor.js:81: "Absent is not zero").                                *)
SnapshotIsTrue ==
    snapshot # Nothing =>
      /\ \A i \in DOMAIN snapshot.rows : RowIsTrue(snapshot, i)
      /\ TotalIsTrue(snapshot)

(* No sample outlives its deadlines, although the source has died for good  *)
(* or the clock was set back ("instead of hanging the report loop forever", *)
(* trafficMonitorWin.js:61).                                                *)
SampleIsBounded ==
    source = "win" /\ sample.phase # "idle" => wall <= sample.until

(* What a caller of the sampler is promised. *)
SamplesKept == SamplingTypeOK /\ SnapshotIsTrue /\ SampleIsBounded
============================================================================
