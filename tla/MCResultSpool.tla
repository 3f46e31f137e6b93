--------------------------- MODULE MCResultSpool ---------------------------
(* What must survive an outage and a crash: the results the server could not *)
(* take (ResultSpool), by who may be inside deliver at the same time, what   *)
(* the server knows the agent by (Enrollment) and whom it obeys              *)
(* (TrustAnchor); and the calls that carry them (RestCalls), to a server with *)
(* an http and an https URL or with an http URL alone.                       *)
EXTENDS ResultSpool, TrustAnchor, Enrollment, RestCalls, TLC

CONSTANTS traffic, probe, timer, command, k1, k2, k3, lic1, lic2, i1, i2, r1, r2, r3

BothKinds == {traffic, probe}
TwoLanes  == {timer, command}

(* A run-test command delivers traffic while the reporting timer does.     *)
AnyKind == [l \in TwoLanes |-> BothKinds]

(* The reporting timer delivers traffic while commands deliver probes.     *)
PerKind == (timer :> {traffic}) @@ (command :> {probe})

MCKeys == {k1, k2, k3}
MCLicences == {lic1, lic2}
MCIds == {i1, i2}
MCConfigured == {<<"http", "https">>, <<"http">>}

Plain == [rekey |-> FALSE, signer |-> NoKey, proper |-> TRUE, id |-> NoId,
          issued |-> 0, expires |-> None, offer |-> NoKey, purpose |-> "release",
          proof |-> NoProof]
Rekey(key, purpose) ==
  [Plain EXCEPT !.rekey = TRUE, !.offer = key, !.purpose = purpose]
By(order, n, licence) ==
  [order EXCEPT !.proof = [sequence |-> n, licence |-> licence, genuine |-> TRUE]]

(* Unsigned, signed, a rekey          the old way with and without a   *)
(* signature, and the vendor's authorisations: of one key, of the next, of  *)
(* a command key, and for another customer.                                 *)
MCCommands ==
  {Plain,
   [Plain EXCEPT !.signer = k1, !.id = i1],
   Rekey(k2, "release"),
   [Rekey(k3, "release") EXCEPT !.signer = k1, !.id = i2, !.issued = 1],
   By(Rekey(k1, "release"), 0, lic1),
   By(Rekey(k2, "release"), 1, lic1),
   By(Rekey(k3, "command"), 1, lic1),
   By(Rekey(k3, "command"), 1, lic2)}

-----------------------------------------------------------------------------
(* Four worlds, which share no state: one of deliveries; one of commands and  *)
(* keys; one of codes and tokens; and one of REST calls.                     *)
VARIABLE world

mcvars == <<world, vars, trustVars, enrolVars, restVars>>

MCInit ==
  /\ Init /\ TrustInit /\ EnrolInit /\ RestInit
  /\ world \in {"spool", "trust", "enrolment", "rest"}
MCNext ==
  /\ UNCHANGED world
  /\ \/ world = "spool" /\ Next /\ UNCHANGED <<trustVars, enrolVars, restVars>>
     \/ world = "trust" /\ TrustNext /\ UNCHANGED <<vars, enrolVars, restVars>>
     \/ world = "enrolment" /\ EnrolNext /\ UNCHANGED <<vars, trustVars, restVars>>
     \/ world = "rest" /\ RestNext /\ UNCHANGED <<vars, trustVars, enrolVars>>
MCSpec == MCInit /\ [][MCNext]_mcvars /\ EnrolFair

(* The last world by itself.                                                *)
RestOnly == MCInit /\ world = "rest" /\ [][MCNext]_mcvars /\ RestFair
=============================================================================
