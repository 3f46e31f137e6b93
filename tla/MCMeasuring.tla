----------------------------- MODULE MCMeasuring -----------------------------
(* What the agent measures with: the switches it polls (SnmpPolling), what   *)
(* it remembers of them (PolledDevices), how it reads their tables and what  *)
(* becomes of them (SnmpTopology), and how it reads their counters           *)
(* (CounterReading); the exporter on its own host (LocalExporter); the probes *)
(* that search a path (PathMtu), look at a certificate (CertificateProbe)    *)
(* and ask a segment for its DHCP servers (DhcpProbe); and how the Go        *)
(* rewrite does: its collectors (GoCollectors), their interpreter (GoStream) *)
(* and its self-update (GoUpgrade).  They share no state, so a behaviour is  *)
(* of one of them, and `part` says of which.                                 *)
EXTENDS SnmpPolling, PolledDevices, SnmpTopology, CounterReading,
        LocalExporter, PathMtu, CertificateProbe, DhcpProbe,
        GoCollectors, GoStream, GoUpgrade, TLC

CONSTANTS d1, d2, h1, p1, b1, b2, n1, n2, a1, a2, w1, w2, c1, m1, m2, m3, s1, s2, l1, l2

MCDevices == {d1, d2}
MCCounted == {d1}
MCInterval == [k \in {"topology", "counters"} |-> IF k = "topology" THEN 2 ELSE 1]
MCAddressesOf ==
  [n \in {n1, n2, NoName} |->
     IF n = n1 THEN {a1} ELSE IF n = n2 THEN {a1, a2} ELSE {}]

(* Three addresses on two ports in two VLANs; the first is learned on port 1,*)
(* the second may be nowhere, the third the switch's own.                  *)
Places == [vlan : {1, 2}, port : {1, 2}, status : {"learned"}]
Nowhere == [vlan |-> 0, port |-> 1, status |-> "learned"]
OwnPlaces == [vlan : {1}, port : {1}, status : {"self", "invalid"}]
Straight == (1 :> 1) @@ (2 :> 2)
Crossed == (1 :> 2) @@ (2 :> 1)
(* What a poll may have lost: nothing; of one instance the map, a status (of  *)
(* the third address) or a row (of the first); or all maps, or every status. *)
Lost == {{}, {"map"} \X (0..2), {"status"} \X (0..2)}
          \cup {{<<k, i>>} : k \in {"map", "status", "row"}, i \in 0..2}
(* How the first port is named makes a difference to its name alone.         *)
MCReads == {<<x, "ifName">> : x \in Lost} \cup {<<{}, "ifIndex">>}
MCSwitches ==
  {[at |-> (m1 :> a) @@ (m2 :> b) @@ (m3 :> c), numbers |-> <<Straight, o>>,
    qBridge |-> q,
    read |-> [i \in 0..2 |-> IF i # 0 /\ (q \/ i \notin w) THEN {}
                             ELSE IF <<"row", i>> \in x[1] THEN {m2, m3} ELSE {m1, m2, m3}],
    stated |-> [i \in 0..2 |-> IF <<"status", i>> \in x[1] THEN {m1, m2} ELSE {m1, m2, m3}],
    mapped |-> {i \in 0..2 : <<"map", i>> \notin x[1]},
    named |-> (1 :> x[2]) @@ (2 :> "ifName")] :
     a \in {p \in Places : p.port = 1}, b \in Places \cup {Nowhere}, c \in Places \cup OwnPlaces,
     o \in {Straight, Crossed}, q \in BOOLEAN, w \in SUBSET {1, 2}, x \in MCReads}

(* Three links of up to the full size, the first at least one below it.      *)
MCPaths ==
  {[mtu |-> <<a, b, c>>, tells |-> t, names |-> n, answers |-> {1, 2, 3} \ x, listed |-> l] :
     a \in {3, 4}, b \in 2..4, c \in 2..4, t \in SUBSET {2, 3}, n \in BOOLEAN,
     x \in {{}, {1}, {2}, {3}}, l \in {0, 2, 3, 4}}

(* A device with 64-bit counters, one without, and of each one that has only  *)
(* the first of two columns.                                                 *)
MCBoards ==
  {[w \in Walks |-> IF w[1] = "hc" /\ ~h THEN {}
                    ELSE IF w[2] = "outOctets" THEN o ELSE {1, 2}] :
     h \in BOOLEAN, o \in {{}, {1, 2}}}

(* Certificates with every fault of dates, chain and name, and every way to   *)
(* learn of a revocation or not.                                             *)
SoundOne == [from |-> 0, until |-> 9, chain |-> TRUE, name |-> "own", agrees |-> TRUE,
             issuer |-> TRUE, checkable |-> TRUE, aia |-> TRUE]
MCCertificates ==
  {[SoundOne EXCEPT !.from = f, !.until = u, !.chain = c, !.name = n[1], !.agrees = n[2]] :
     f \in {0, 1}, u \in {1, 3, 9}, c \in BOOLEAN,
     n \in {<<"own", TRUE>>, <<"other", FALSE>>, <<"open", TRUE>>, <<"open", FALSE>>}}
  \cup {[SoundOne EXCEPT !.issuer = i, !.checkable = k, !.aia = a] : i, k, a \in BOOLEAN}

(* One collector: the bundled definition is version 1, the second version is *)
(* not for this host and the third is again.                                *)
MCBundled == [i \in {c1} |-> 1]
MCForHere == {<<c1, 1>>, <<c1, 3>>}

VARIABLE part

switchVars == <<pollVars, deviceVars, sweepVars, buildVars, readingVars>>
probeVars == <<mtuVars, certVars, dhcpVars>>
hostVars == <<exporterVars, probeVars>>
goVars == <<collectorVars, streamVars, upgradeVars>>

APath == CHOOSE p \in MCPaths : TRUE
ACertificate == CHOOSE c \in MCCertificates : TRUE
ABoard == CHOOSE b \in MCBoards : TRUE
ASwitch == CHOOSE s \in MCSwitches : TRUE

MeasuringInit ==
  /\ part \in {"poll", "devices", "sweep", "report", "counters", "exporter", "mtu",
               "certificate", "dhcp", "go collectors", "go stream", "go upgrade"}
  /\ PollInit /\ DevicesInit /\ SweepInit /\ ExporterInit /\ GoInit /\ StreamInit /\ UpgradeInit
  /\ part = "exporter" \/ ~installed
  /\ part = "go upgrade" \/ goos = "unix"
  /\ (part = "report" \/ (part # "report" /\ switch = ASwitch)) /\ BuildInit
  /\ (part = "mtu" \/ (part # "mtu" /\ path = APath)) /\ MtuInit
  /\ (part = "counters" \/ (part # "counters" /\ board = ABoard)) /\ CountersInit
  /\ \/ part = "certificate"
     \/ part # "certificate" /\ cert = ACertificate /\ mode = "off" /\ named = TRUE
  /\ CertInit /\ DhcpInit

SwitchNext ==
  \/ part = "poll" /\ PollNext /\ UNCHANGED <<deviceVars, sweepVars, buildVars, readingVars>>
  \/ part = "devices" /\ DevicesNext /\ UNCHANGED <<pollVars, sweepVars, buildVars, readingVars>>
  \/ part = "sweep" /\ SweepNext /\ UNCHANGED <<pollVars, deviceVars, buildVars, readingVars>>
  \/ part = "report" /\ BuildNext /\ UNCHANGED <<pollVars, deviceVars, sweepVars, readingVars>>
  \/ part = "counters" /\ CountersNext /\ UNCHANGED <<pollVars, deviceVars, sweepVars, buildVars>>

HostNext ==
  \/ part = "exporter" /\ ExporterNext /\ UNCHANGED probeVars
  \/ part = "mtu" /\ MtuNext /\ UNCHANGED <<exporterVars, certVars, dhcpVars>>
  \/ part = "certificate" /\ CertNext /\ UNCHANGED <<exporterVars, mtuVars, dhcpVars>>
  \/ part = "dhcp" /\ DhcpNext /\ UNCHANGED <<exporterVars, mtuVars, certVars>>

GoNext ==
  \/ part = "go collectors" /\ CollectorsNext /\ UNCHANGED <<streamVars, upgradeVars>>
  \/ part = "go stream" /\ StreamNext /\ UNCHANGED <<collectorVars, upgradeVars>>
  \/ part = "go upgrade" /\ UpgradeNext /\ UNCHANGED <<collectorVars, streamVars>>

MeasuringNext ==
  \/ SwitchNext /\ UNCHANGED <<part, hostVars, goVars>>
  \/ HostNext /\ UNCHANGED <<part, switchVars, goVars>>
  \/ GoNext /\ UNCHANGED <<part, switchVars, hostVars>>

MeasuringSpec ==
  /\ MeasuringInit /\ [][MeasuringNext]_<<part, switchVars, hostVars, goVars>>
  /\ PollFair /\ DevicesFair

(* What is reported of a switch is so: its forwarding table, and counters that *)
(* can be subtracted.                                                        *)
ReportIsTrue == TableIsTrue /\ SnapshotsCompare

(* The verdicts of the probes hold: on a path's MTU, on a certificate, on the  *)
(* DHCP servers of a segment.                                                *)
VerdictsHold == PathVerdicts /\ CertificateVerdicts /\ SegmentVerdicts

(* The Go agent counts once, gives a body its own output and always leaves a *)
(* binary to start.                                                         *)
GoIsHonest ==
  /\ CollectorsTypeOK /\ StreamTypeOK /\ UpgradeTypeOK
  /\ CountedOnce /\ OwnOutput /\ BinaryWhole
=============================================================================
