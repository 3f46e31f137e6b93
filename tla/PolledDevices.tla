---------------------------- MODULE PolledDevices ----------------------------
(***************************************************************************)
(* What the runtime remembers of the devices it polls, so that a trap can   *)
(* be told apart from noise and shown with an interface name (src/runtime.js *)
(* from rememberInterfaces to expectedTrapCommunity, applySnmpTargets and   *)
(* resolveTargetHosts).                                                    *)
(*                                                                         *)
(* Three things happen at their own pace: an assignment is applied, the     *)
(* host names of an assignment are looked up, and a poll of a device comes  *)
(* back with the names of its interfaces.  Each may have begun under an     *)
(* assignment that is no longer in force.                                  *)
(*                                                                         *)
(* The names of a device's interfaces are named by the host they were read  *)
(* from.  A host has the community it is polled with, so the map of         *)
(* communities is as current as the map of hosts and left out.             *)
(***************************************************************************)
EXTENDS Naturals, FiniteSets

CONSTANTS
  Boxes,           (* deviceIds                                              *)
  Names, NoName,   (* the hosts an assignment may give; not assigned         *)
  Literals,        (* the hosts that are addresses already                   *)
  Addresses,
  AddressesOf      (* every address a host has ever stood for                *)

ASSUME DevicesAssumption ==
  /\ NoName \notin Names /\ Literals \subseteq Names
  /\ AddressesOf \in [Names \cup {NoName} -> SUBSET Addresses]
  /\ AddressesOf[NoName] = {}

VARIABLES
  hostOf,    (* hostByDeviceId                                               *)
  addrs,     (* addressesByDeviceId                                          *)
  ifNames,   (* ifNamesByDeviceId: the host the names were read from         *)
  lookups,   (* resolveTargetHosts in flight; fresh: of the last generation  *)
  walk       (* the poll in progress: <<device, host>> or NoWalk             *)

deviceVars == <<hostOf, addrs, ifNames, lookups, walk>>

NoWalk == <<>>

DevicesInit ==
  /\ hostOf = [b \in Boxes |-> NoName]
  /\ addrs = [b \in Boxes |-> {}]
  /\ ifNames = [b \in Boxes |-> NoName]
  /\ lookups = {}
  /\ walk = NoWalk

(* applySnmpTargets: a literal address is in force at once, a name keeps    *)
(* what it stood for if it did not change, and every name is looked up.     *)
(* What earlier lookups find no longer counts (the generation).             *)
Kept(b, next) == IF hostOf[b] = next[b] THEN addrs[b] ELSE {}

Applies(next) ==
  /\ hostOf' = next
  /\ addrs' = [b \in Boxes |->
       IF next[b] \in Literals THEN AddressesOf[next[b]]
       ELSE IF next[b] = NoName THEN {} ELSE Kept(b, next)]
  /\ ifNames' = [b \in Boxes |-> IF next[b] = NoName THEN NoName ELSE ifNames[b]]
  /\ lookups' = {[l EXCEPT !.fresh = FALSE] : l \in lookups}
       \cup {[box |-> b, host |-> next[b], fresh |-> TRUE] :
               b \in {b \in Boxes : next[b] \notin Literals \cup {NoName}}}
  /\ UNCHANGED walk

(* Mutant: an answer is stored whatever was applied since it was asked for. *)
StillWanted(l) == TRUE
InForce(l) == l.fresh /\ hostOf[l.box] = l.host

LookupAnswers(l, answer) ==
  /\ l \in lookups
  /\ lookups' = lookups \ {l}
  /\ addrs' = IF InForce(l) /\ answer # {}
              THEN [addrs EXCEPT ![l.box] = answer] ELSE addrs
  /\ UNCHANGED <<hostOf, ifNames, walk>>

(* A lookup that fails leaves what the device had.                          *)
LookupFails(l) ==
  /\ l \in lookups
  /\ lookups' = lookups \ {l}
  /\ UNCHANGED <<hostOf, addrs, ifNames, walk>>

(* The topology cycle polls one device at a time.                           *)
WalkStarts(b) ==
  /\ walk = NoWalk /\ hostOf[b] # NoName
  /\ walk' = <<b, hostOf[b]>>
  /\ UNCHANGED <<hostOf, addrs, ifNames, lookups>>

(* rememberInterfaces                                                       *)
NewNames(b, h) == h

WalkRemembered ==
  /\ walk # NoWalk
  /\ LET b == walk[1] IN
       ifNames' = IF hostOf[b] = NoName THEN ifNames
                  ELSE [ifNames EXCEPT ![b] = NewNames(b, walk[2])]
  /\ walk' = NoWalk
  /\ UNCHANGED <<hostOf, addrs, lookups>>

(* The poll failed, or read no interface with a name.                       *)
WalkFails ==
  /\ walk # NoWalk
  /\ walk' = NoWalk
  /\ UNCHANGED <<hostOf, addrs, ifNames, lookups>>

DevicesNext ==
  \/ \E next \in [Boxes -> Names \cup {NoName}] : Applies(next)
  \/ \E l \in lookups :
       \/ LookupFails(l)
       \/ \E answer \in SUBSET AddressesOf[l.host] : LookupAnswers(l, answer)
  \/ \E b \in Boxes : WalkStarts(b)
  \/ WalkRemembered \/ WalkFails

DevicesFair == WF_deviceVars(WalkRemembered \/ WalkFails)

DevicesSpec == DevicesInit /\ [][DevicesNext]_deviceVars /\ DevicesFair

-----------------------------------------------------------------------------
DevicesTypeOK ==
  /\ hostOf \in [Boxes -> Names \cup {NoName}]
  /\ addrs \in [Boxes -> SUBSET Addresses]
  /\ ifNames \in [Boxes -> Names \cup {NoName}]
  /\ lookups \subseteq [box : Boxes, host : Names, fresh : BOOLEAN]
  /\ walk \in {NoWalk} \cup (Boxes \X Names)

(* deviceIdForAddress: the devices a trap from an address may be taken for. *)
SendersOf(a) == {b \in Boxes : a \in addrs[b]}

(* A trap is taken for a device, and shown with that device's interface     *)
(* names, only if the host it is assigned by NOW has stood for the address  *)
(* the trap came from; a device that is no longer assigned sends none.      *)
TrapsAreOurs == \A a \in Addresses : \A b \in SendersOf(a) : a \in AddressesOf[hostOf[b]]

(* The names settle: between a move to another host and the next successful *)
(* poll a device goes on showing the interface names of the old box, but a  *)
(* host that stays assigned and keeps answering ends up with its own.       *)
NamesSettle ==
  \A b \in Boxes, h \in Names :
    (/\ <>[](hostOf[b] = h)
     /\ []<>(walk = <<b, h>>)
     /\ []<><<walk # NoWalk /\ walk[1] = b /\ WalkRemembered>>_deviceVars)
    => <>[](ifNames[b] = h)

(* What is remembered of a device is of the host it is polled at.            *)
DevicesKnown == [](DevicesTypeOK /\ TrapsAreOurs) /\ NamesSettle
=============================================================================
