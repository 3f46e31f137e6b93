---------------------------- MODULE CounterReading ----------------------------
(***************************************************************************)
(* One snapshot of a switch's interface counters (src/snmp/counters.js), and *)
(* the one after it.  The agent sends snapshots, not rates: whoever gets two *)
(* of them subtracts, provided that the uptimes do not tell of a restart and  *)
(* the counters are equally wide (src/snmp/counters.js:8-25, 94-96).          *)
(*                                                                         *)
(* A reading asks for the device's uptime, then walks the columns group by    *)
(* group, the walks of a group at the same time.  Any walk may fail, and the  *)
(* device may restart between any two.  A counter is abstracted to where it   *)
(* comes from: the life of the device it was counted in, and its width.       *)
(* The columns of one width are walked in two groups, of one here.  Not       *)
(* modelled: wide columns without a fallback, names, duplex, the values.     *)
(***************************************************************************)
EXTENDS Integers, FiniteSets

CONSTANTS
  Interfaces,     (* ifIndexes                                              *)
  MaxInterfaces,
  Counted32,      (* the columns with a narrow fallback                      *)
  Single,         (* the columns of one width: errors, EtherLike             *)
  Switchboards,   (* the devices read: which rows each has of each walk      *)
  MaxRestarts,    (* bound                                                  *)
  MaxReadings     (* bound                                                  *)

(* inOctets decides whether the device has 64-bit counters, and with          *)
(* inErrors which interfaces there are.                                      *)
InOctets == "inOctets"
InErrors == "inErrors"
Columns == Counted32 \cup Single
Groups == {"hc", "narrow", "single"}
Walks == ({"hc", "narrow"} \X Counted32) \cup ({"single"} \X Single)

ASSUME CountersAssumption ==
  /\ Interfaces \subseteq Nat \ {0} /\ IsFiniteSet(Interfaces) /\ MaxInterfaces \in Nat
  /\ InOctets \in Counted32 /\ InErrors \in Single /\ Counted32 \cap Single = {}
  /\ Switchboards \subseteq [Walks -> SUBSET Interfaces]
  /\ MaxRestarts \in Nat /\ MaxReadings \in Nat

VARIABLES
  board,     (* the rows the device has                                     *)
  life,      (* how often it restarted                                      *)
  group,     (* of walks in progress; or idle, or read                       *)
  walking,   (* the columns still walked                                    *)
  uptime,    (* the life sysUpTime told of, or Untold                        *)
  got,       (* what each walk brought: rows, and when                       *)
  restarted, (* the device restarted since sysUpTime was read                *)
  before, latest, (* the snapshots sent                                     *)
  readings   (* bound                                                       *)

readingVars == <<board, life, group, walking, uptime, got, restarted, before, latest,
                 readings>>

Untold == -1
Empty == [rows |-> {}, life |-> 0]
NoWalks == [w \in Walks |-> Empty]
Absent == [life |-> Untold, width |-> 0]
NoSnapshot == [uptime |-> Untold, hc |-> FALSE, seen |-> {}, counters |-> <<>>,
               torn |-> FALSE]

CountersInit ==
  /\ board \in Switchboards /\ life = 0
  /\ group = "idle" /\ walking = {} /\ uptime = Untold /\ got = NoWalks
  /\ restarted = FALSE
  /\ before = NoSnapshot /\ latest = NoSnapshot /\ readings = 0

-----------------------------------------------------------------------------
(* getScalars([sysUpTime]): a failure leaves it untold.                      *)
ClockRead ==
  /\ group = "idle" /\ readings < MaxReadings
  /\ readings' = readings + 1
  /\ uptime' \in {life, Untold}
  /\ restarted' = FALSE
  /\ group' = "hc" /\ walking' = Counted32 /\ got' = NoWalks
  /\ UNCHANGED <<board, life, before, latest>>

HaveHc(g) == g[<<"hc", InOctets>>].rows # {}

AfterGroup(g) ==
  IF group = "single" THEN "read"
  ELSE IF group = "hc" /\ ~HaveHc(g) THEN "narrow" ELSE "single"

ColumnsOf(g) == IF g = "narrow" THEN Counted32 ELSE IF g = "single" THEN Single ELSE {}

(* safe(oid): a walk that fails is a walk without rows.                      *)
Walked(c) ==
  /\ c \in walking
  /\ \E rows \in {board[<<group, c>>], {}} :
       LET g == [got EXCEPT ![<<group, c>>] = [rows |-> rows, life |-> life]]
           last == walking = {c}
       IN  /\ got' = g
           /\ group' = IF last THEN AfterGroup(g) ELSE group
           /\ walking' = IF last THEN ColumnsOf(group') ELSE walking \ {c}
  /\ UNCHANGED <<board, life, uptime, restarted, before, latest, readings>>

-----------------------------------------------------------------------------
(* Building the snapshot.                                                    *)

SourceOf(c) ==
  IF c \in Single THEN <<"single", c>>
  ELSE IF HaveHc(got) THEN <<"hc", c>> ELSE <<"narrow", c>>

(* pick: absent is not zero.                                                 *)
Pick(c, i) ==
  LET w == SourceOf(c) IN
  IF i \notin got[w].rows THEN Absent
  ELSE [life |-> got[w].life, width |-> IF w[1] = "hc" THEN 64 ELSE 32]

Indexes == got[SourceOf(InOctets)].rows \cup got[SourceOf(InErrors)].rows
Shown ==
  {i \in Indexes : Cardinality({j \in Indexes : j < i}) < MaxInterfaces}

SnapshotTaken ==
  /\ group = "read"
  /\ before' = latest
  /\ latest' = [uptime |-> uptime, hc |-> HaveHc(got), seen |-> Shown,
                counters |-> [i \in Shown |-> [c \in Columns |-> Pick(c, i)]],
                torn |-> restarted]
  /\ group' = "idle" /\ uptime' = Untold /\ got' = NoWalks /\ restarted' = FALSE
  /\ UNCHANGED <<board, life, walking, readings>>

(* The poller gives a reading up: nothing is sent.                           *)
ReadingAbandoned ==
  /\ group # "idle"
  /\ group' = "idle" /\ walking' = {} /\ uptime' = Untold /\ got' = NoWalks
  /\ restarted' = FALSE
  /\ UNCHANGED <<board, life, before, latest, readings>>

DeviceRestarts ==
  /\ life < MaxRestarts
  /\ life' = life + 1
  /\ restarted' = (group # "idle")
  /\ UNCHANGED <<board, group, walking, uptime, got, before, latest, readings>>

CountersNext ==
  \/ ClockRead \/ SnapshotTaken \/ ReadingAbandoned \/ DeviceRestarts
  \/ \E c \in Columns : Walked(c)

CountersSpec == CountersInit /\ [][CountersNext]_readingVars

-----------------------------------------------------------------------------
CountersTypeOK ==
  /\ board \in Switchboards /\ life \in 0..MaxRestarts
  /\ group \in Groups \cup {"idle", "read"} /\ walking \subseteq Columns
  /\ uptime \in Untold..MaxRestarts
  /\ got \in [Walks -> [rows : SUBSET Interfaces, life : 0..MaxRestarts]]
  /\ restarted \in BOOLEAN /\ readings \in 0..MaxReadings
  /\ \A s \in {before, latest} : s.seen \subseteq Interfaces /\ Cardinality(s.seen) <= MaxInterfaces

(* What a server that has both snapshots subtracts.                          *)
Subtracted(c) ==
  {i \in before.seen \cap latest.seen :
     /\ before.uptime # Untold /\ before.uptime = latest.uptime
     /\ c \in Counted32 => before.hc = latest.hc
     /\ Absent \notin {before.counters[i][c], latest.counters[i][c]}}

(* Two counters that are subtracted were counted in one life of the device,   *)
(* to one width, whichever walks failed in between.  The uptime is read first *)
(* (src/snmp/counters.js:103): a device that restarts while the later         *)
(* snapshot is read is the exception.                                        *)
DifferencesHold ==
  \A c \in Columns : \A i \in Subtracted(c) :
    LET a == before.counters[i][c]
        b == latest.counters[i][c]
    IN  a.width = b.width /\ (a.life = b.life \/ latest.torn)

(* A snapshot can be subtracted from the one before it.                      *)
SnapshotsCompare == CountersTypeOK /\ DifferencesHold
=============================================================================
