----------------------------- MODULE SnmpTopology -----------------------------
(***************************************************************************)
(* The topology of a switch (src/snmpTopology.js): how its tables are read   *)
(* (defaultReadTables) poll after poll, and what becomes of them             *)
(* (buildTopology).                                                         *)
(*                                                                         *)
(* Reading: the core walks first, the optional ones in the time that is      *)
(* left, and the forwarding tables of the VLANs of a Catalyst in rotation, a *)
(* few at a time.  The switch is one that has what it is asked for.  A step  *)
(* is the end of a walk, or what a worker does between two walks.  CDP       *)
(* stands for the inventory too: both count as a whole or not at all, where  *)
(* of the address table (ARP) the rows that were read are kept.  Not         *)
(* modelled: the core walks (one that fails is an empty table), the bound on *)
(* the number of rows, the MIB objects.                                     *)
(*                                                                         *)
(* Building, for the forwarding table and the names of the ports: the switch *)
(* is the reference; it knows where each address is, and answers the tables  *)
(* from that.  A forwarding table names bridge ports, which are numbered     *)
(* anew in every instance (the default one, and one per VLAN on a Catalyst), *)
(* and a table of its own maps them to interfaces.  The ports, the status    *)
(* and the map of an instance are three walks, each of which fails or is cut *)
(* by itself; an address whose status was not read is taken for a learned    *)
(* one.  Not modelled: the decoding of rows, neighbours, addresses and       *)
(* inventory.                                                                *)
(***************************************************************************)
EXTENDS Naturals, Sequences, FiniteSets, FiniteSetsExt, SequencesExt

CONSTANTS
  Rotating,       (* VLANs besides the first; they are numbered from 0       *)
  MaxVlanWalks,   (* MAX_VLAN_FDB_WALKS, the first among them                *)
  VlanWorkers,    (* VLAN_FDB_CONCURRENCY                                    *)
  GiveUpAfter     (* VLAN_FDB_GIVE_UP_AFTER                                  *)

ASSUME SweepAssumption ==
  /\ Rotating \in Nat \ {0} /\ MaxVlanWalks \in Nat \ {0, 1}
  /\ VlanWorkers \in Nat \ {0} /\ GiveUpAfter \in Nat \ {0}

Optional == {"cdp", "arp"}
FirstVlan == Rotating
Vlans == 0..Rotating

VARIABLES
  polling,   (* "idle", "core" or "optional"                                 *)
  timely,    (* the time budget of the optional walks is not spent           *)
  walks,     (* of each kind, how its walk stands                            *)
  ids, taken,        (* the VLANs of this poll, and how many were taken      *)
  inFlight, answered, failed, inARow,   (* of the VLAN workers               *)
  cursor,    (* vlanFdbCursor of this device                                 *)
  known,     (* lastSupported                                                *)
  report,    (* of the last poll: what it calls partial, and (history) what  *)
             (* was not read to its end                                      *)
  turns,     (* history: how often each rotating VLAN was taken, less the    *)
             (* least of them                                                *)
  readOnce   (* history: kinds this process has read as a whole             *)

workVars == <<polling, timely, walks, ids, taken, inFlight, answered, failed, inARow>>
keptVars == <<cursor, known, report, turns, readOnce>>
sweepVars == <<workVars, keptVars>>

NoReport == [partial |-> {}, missing |-> {}]

Rests ==
  /\ polling' = "idle" /\ timely' = TRUE
  /\ walks' = [k \in Optional |-> "out"]
  /\ ids' = <<>> /\ taken' = 0
  /\ inFlight' = {} /\ answered' = {} /\ failed' = {} /\ inARow' = 0

SweepInit ==
  /\ polling = "idle" /\ timely = TRUE
  /\ walks = [k \in Optional |-> "out"]
  /\ ids = <<>> /\ taken = 0
  /\ inFlight = {} /\ answered = {} /\ failed = {} /\ inARow = 0
  /\ cursor = 0 /\ known = {} /\ report = NoReport /\ readOnce = {}
  /\ turns = [v \in 0..(Rotating - 1) |-> 0]

PollBegins ==
  /\ polling = "idle"
  /\ polling' = "core" /\ timely' = TRUE
  /\ report' = NoReport
  /\ UNCHANGED <<walks, ids, taken, inFlight, answered, failed, inARow,
                 cursor, known, turns, readOnce>>

(* The time of the optional walks is over: what is under way is abandoned    *)
(* with what it has, what is not is never issued.                            *)
DeadlinePasses ==
  /\ polling # "idle" /\ timely
  /\ timely' = FALSE
  /\ walks' = [k \in Optional |->
                IF walks[k] = "running" THEN "timeout" ELSE walks[k]]
  /\ failed' = failed \cup inFlight /\ inFlight' = {}
  /\ inARow' = inARow + Cardinality(inFlight)
  /\ UNCHANGED <<polling, ids, taken, answered, keptVars>>

(* The poller's own timeout: nothing of this poll is reported.               *)
PollAbandoned ==
  /\ polling = "core" /\ ~timely
  /\ Rests
  /\ UNCHANGED keptVars

(* The first VLAN at every poll, the others from where the last poll of this *)
(* device stopped.                                                          *)
Rotated == [i \in 1..Rotating |-> (cursor + i - 1) % Rotating]
VlansOfThisPoll == <<FirstVlan>> \o SubSeq(Rotated, 1, Min({MaxVlanWalks - 1, Rotating}))

OptionalBegins ==
  /\ polling = "core" /\ polling' = "optional"
  /\ walks' = [k \in Optional |-> IF timely THEN "running" ELSE "skipped"]
  /\ ids' = VlansOfThisPoll
  /\ UNCHANGED <<timely, taken, inFlight, answered, failed, inARow, keptVars>>

OptionalWalked(k, how) ==
  /\ polling = "optional" /\ walks[k] = "running" /\ k \in Optional
  /\ how \in {"whole", "error"}
  /\ walks' = [walks EXCEPT ![k] = how]
  /\ UNCHANGED <<polling, timely, ids, taken, inFlight, answered, failed, inARow, keptVars>>

WorkersGoOn ==
  polling = "optional" /\ taken < Len(ids) /\ inARow < GiveUpAfter /\ timely

WorkerTakes ==
  /\ WorkersGoOn /\ Cardinality(inFlight) < VlanWorkers
  /\ taken' = taken + 1 /\ inFlight' = inFlight \cup {ids[taken + 1]}
  /\ LET v == ids[taken + 1]
         more == [turns EXCEPT ![v] = @ + 1]
         least == Min({more[u] : u \in DOMAIN turns})
     IN  turns' = IF v = FirstVlan THEN turns ELSE [u \in DOMAIN turns |-> more[u] - least]
  /\ UNCHANGED <<polling, timely, walks, ids, answered, failed, inARow,
                 cursor, known, report, readOnce>>

VlanWalked(v, ok) ==
  /\ v \in inFlight
  /\ inFlight' = inFlight \ {v}
  /\ IF ok THEN answered' = answered \cup {v} /\ inARow' = 0 /\ UNCHANGED failed
           ELSE failed' = failed \cup {v} /\ inARow' = inARow + 1 /\ UNCHANGED answered
  /\ UNCHANGED <<polling, timely, walks, ids, taken, keptVars>>

(* Past the VLANs this poll took.                                            *)
(* Mutant: past those it had in mind.                                       *)
PastAll(n) == (cursor + Len(ids) - 1) % Rotating
PastTaken(n) == (cursor + n) % Rotating

(* The kinds of which not everything was read.                               *)
(* Mutant: a VLAN that was never taken is not missed.                        *)
WalksCut == {k \in Optional : walks[k] # "whole"} \cup (IF failed # {} THEN {"fdb"} ELSE {})
NotWalked == Cardinality(Vlans) - (Cardinality(answered) + Cardinality(failed))
NotWhole == WalksCut \cup (IF NotWalked > 0 THEN {"fdb"} ELSE {})

(* keepSupportedHonest: a kind whose walk was cut short has not said that it *)
(* is unsupported.  Of the address table the rows that were read count.      *)
KeptHonest(got, partial) == got \cup (known \cap partial)

SweepReported ==
  /\ polling = "optional" /\ ~WorkersGoOn /\ inFlight = {}
  /\ \A k \in Optional : walks[k] # "running"
  /\ \E got \in SUBSET Optional :
       /\ {k \in Optional : walks[k] = "whole"} \subseteq got
       /\ got \subseteq {k \in Optional : walks[k] = "whole" \/ (k = "arp" /\ walks[k] # "skipped")}
       /\ known' = KeptHonest(got, NotWhole)
  /\ report' = [partial |-> NotWhole,
                missing |-> {k \in Optional : walks[k] # "whole"}
                              \cup (IF Vlans \subseteq answered THEN {} ELSE {"fdb"})]
  /\ readOnce' = readOnce \cup {k \in Optional : walks[k] = "whole"}
  /\ cursor' = IF taken > 1 THEN PastTaken(taken - 1) ELSE cursor
  /\ Rests
  /\ UNCHANGED turns

(* The cursor and what was supported live as long as the process.            *)
AgentRestarts ==
  /\ Rests /\ cursor' = 0 /\ known' = {} /\ report' = NoReport /\ readOnce' = {}
  /\ turns' = [v \in DOMAIN turns |-> 0]

SweepNext ==
  \/ PollBegins \/ DeadlinePasses \/ PollAbandoned \/ OptionalBegins
  \/ \E k \in Optional, how \in {"whole", "error"} : OptionalWalked(k, how)
  \/ WorkerTakes
  \/ \E v \in inFlight, ok \in BOOLEAN : VlanWalked(v, ok)
  \/ SweepReported \/ AgentRestarts

SweepSpec == SweepInit /\ [][SweepNext]_sweepVars

-----------------------------------------------------------------------------
SweepTypeOK ==
  /\ polling \in {"idle", "core", "optional"} /\ timely \in BOOLEAN
  /\ walks \in [Optional -> {"out", "running", "whole", "error", "timeout", "skipped"}]
  /\ taken \in 0..Len(ids) /\ inFlight \subseteq Vlans /\ answered \subseteq Vlans
  /\ failed \subseteq Vlans /\ cursor \in 0..(Rotating - 1)
  /\ known \subseteq Optional

(* The rotation passes no VLAN over: none is read twice before every other   *)
(* has had its turn, whatever the polls before were cut short by.  (A turn   *)
(* that ends in the deadline is a turn.)                                    *)
RotationFair == \A v \in DOMAIN turns : turns[v] <= 1

(* A report that does not say so is whole: every kind that was asked for and *)
(* every VLAN has been read to its end.                                     *)
HonestSweep == report.missing \subseteq report.partial

(* What this process has read from a switch it goes on calling supported,    *)
(* however its later walks fail.                                            *)
SupportedIsHonest == readOnce \subseteq known

(* A poll that has to leave something out says so, leaves out another part   *)
(* the next time, and takes back nothing of what it knows.                   *)
SweepIsHonest == SweepTypeOK /\ RotationFair /\ HonestSweep /\ SupportedIsHonest

-----------------------------------------------------------------------------
(* What becomes of the tables.                                               *)

CONSTANTS
  Macs, Ports,
  SwitchVlans,
  DefaultVlan,    (* the one whose table the default instance holds         *)
  MaxFdb,         (* maxFdb                                                 *)
  Switches        (* the switches, and how far each was read                *)

ASSUME ReportAssumption ==
  /\ Ports \subseteq Nat \ {0} /\ SwitchVlans \subseteq Nat \ {0}
  /\ DefaultVlan \in SwitchVlans /\ MaxFdb \in Nat /\ IsFiniteSet(Macs)
  /\ \A s \in Switches :
       /\ s.at \in [Macs -> [vlan : Nat, port : Ports, status : {"learned", "self", "invalid"}]]
       /\ \A v \in SwitchVlans :
            /\ s.numbers[v] \in [Ports -> Nat \ {0}]
            /\ \A p, q \in Ports : s.numbers[v][p] = s.numbers[v][q] => p = q

Untagged == 0
NoPort == 0

(* The instances of the tables: the default one, and those of the VLANs.     *)
Instances == {Untagged} \cup SwitchVlans
VlanOf(i) == IF i = Untagged THEN DefaultVlan ELSE i

VARIABLES
  switch,   (* at: where each address is, with its status; numbers: the      *)
            (* bridge port of each interface in each VLAN's instance; qBridge: *)
            (* one table for all VLANs was answered; read, stated: of each instance, the  *)
            (* addresses whose port and whose status were read; mapped: the  *)
            (* instances whose port map was; named: how each interface is    *)
            (* named                                                         *)
  fdb,      (* the rows of the report                                       *)
  built

buildVars == <<switch, fdb, built>>

BuildInit == switch \in Switches /\ fdb = <<>> /\ built = FALSE

On(v) == {m \in Macs : switch.at[m].vlan = v}
Number(i, m) == switch.numbers[VlanOf(i)][switch.at[m].port]

(* The tables as they were read: what an instance says of a VLAN, rows of a  *)
(* bridge port and a status.                                                 *)
StatusBy(i, m) == IF m \in switch.stated[i] THEN switch.at[m].status ELSE "learned"
RowsOf(i, v) ==
  {[mac |-> m, port |-> Number(i, m), status |-> StatusBy(i, m)] : m \in On(v) \cap switch.read[i]}
MapOf(i) ==
  IF i \in switch.mapped
  THEN {<<switch.numbers[VlanOf(i)][p], p>> : p \in Ports} ELSE {}

(* The interface of a bridge port, by a map; none, rather than an invented   *)
(* one, if the map does not say.                                            *)
PortBy(map, n) == IF \E e \in map : e[1] = n THEN (CHOOSE e \in map : e[1] = n)[2] ELSE NoPort

Usable(r) == r.port # NoPort /\ r.status \notin {"self", "invalid"}

Resolved(rows, vlan, map) ==
  {[mac |-> r.mac, vlan |-> vlan, bridgePort |-> r.port, port |-> PortBy(map, r.port)] :
     r \in {r \in rows : Usable(r)}}

(* collectFdb for one table of all VLANs, where the map of the default       *)
(* instance serves for all.                                                  *)
QRows == UNION {Resolved(RowsOf(Untagged, v), v, MapOf(Untagged)) : v \in SwitchVlans}

(* ... for the tables of the VLANs, each through its own map, and then for   *)
(* the default one, of which only the addresses are new that no VLAN had.    *)
(* Mutant: every table goes through the default map.                        *)
DefaultMap(v) == MapOf(Untagged)
OwnMap(v) == MapOf(v)
Tagged == UNION {Resolved(RowsOf(v, v), v, OwnMap(v)) : v \in SwitchVlans}

NewOf(rows) == {r \in rows : \A t \in Tagged : t.mac # r.mac}
VlanRows == Tagged \cup NewOf(Resolved(RowsOf(Untagged, DefaultVlan), Untagged, MapOf(Untagged)))

Rows == IF switch.qBridge THEN QRows ELSE VlanRows

(* How crowded a port is: by interface where it resolved, by bridge port     *)
(* where it did not; counted before the cap.                                *)
Crowd(r) ==
  Cardinality({s \in Rows : IF r.port # NoPort THEN s.port = r.port
                            ELSE s.port = NoPort /\ s.bridgePort = r.bridgePort})

(* Mutant: the rows as they come.                                           *)
AnyOrder(r, s) == FALSE
Sooner(r, s) == Crowd(r) < Crowd(s)

Orders == {o \in SetToSeqs(Rows) : \A i, j \in DOMAIN o : Sooner(o[i], o[j]) => i < j}

(* The name the device gave a port; ifIndex.<n> is the agent's invention.    *)
NameOf(p) == IF p # NoPort /\ switch.named[p] # "ifIndex" THEN switch.named[p] ELSE "null"

RowReported(r) ==
  [mac |-> r.mac, vlan |-> r.vlan, bridgePort |-> r.bridgePort, port |-> r.port,
   name |-> NameOf(r.port), crowd |-> Crowd(r)]

BuildsReport ==
  /\ ~built /\ built' = TRUE
  /\ \E o \in Orders :
       fdb' = [i \in 1..Min({Len(o), MaxFdb}) |-> RowReported(o[i])]
  /\ UNCHANGED switch

BuildNext == BuildsReport
BuildSpec == BuildInit /\ [][BuildNext]_buildVars

-----------------------------------------------------------------------------
ReportedRows == ToSet(fdb)

(* The instance whose table a row is from.                                   *)
TableOf(vlan) == IF switch.qBridge THEN Untagged ELSE vlan

(* A row that names an interface names the one behind which the switch has   *)
(* the address, in the VLAN the switch has it in or in none, and no address  *)
(* has two rows, whichever walks failed.  What the switch has itself or is   *)
(* forgetting ("must never be reported", snmpTopology.js:81-83) has a row    *)
(* only where the walk of the status did not get to it.                      *)
RowsAreTrue ==
  /\ \A r \in ReportedRows :
       /\ r.port \in {switch.at[r.mac].port, NoPort}
       /\ r.vlan = switch.at[r.mac].vlan
            \/ (r.vlan = Untagged /\ switch.at[r.mac].vlan = DefaultVlan)
       /\ r.mac \in switch.stated[TableOf(r.vlan)] => switch.at[r.mac].status = "learned"
       /\ r.name # "ifIndex"
  /\ \A i, j \in DOMAIN fdb : fdb[i].mac = fdb[j].mac => i = j

(* The cap takes rows of the most crowded ports: no port that is left out    *)
(* has fewer addresses than one that is reported, and the count that says so *)
(* is of all that was read.                                                 *)
CrowdedGoFirst ==
  built =>
    /\ \A r \in ReportedRows, s \in Rows :
         s.mac \notin {t.mac : t \in ReportedRows} => r.crowd <= Crowd(s)
    /\ Len(fdb) = Min({Cardinality(Rows), MaxFdb})

(* The forwarding table as it is reported, under the cap or not.             *)
TableIsTrue == RowsAreTrue /\ CrowdedGoFirst
=============================================================================
