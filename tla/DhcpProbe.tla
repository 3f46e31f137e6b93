------------------------------ MODULE DhcpProbe ------------------------------
(***************************************************************************)
(* The DHCP probe (src/probes/dhcp.js): one DHCPDISCOVER on the segment, and  *)
(* every offer that answers it until the time is up.  It asks whether there   *)
(* is a server, and whether there is only one.                               *)
(*                                                                         *)
(* The port is the host's own client's, so it is bound alone, and if taken    *)
(* shared.  On a shared port and a broadcast segment the probe also hears     *)
(* what others are offered, its own offers twice (through two relays, or      *)
(* again), and whatever comes after it has ended.  Not modelled: the options, *)
(* the round-trip times, the choice of the interface beyond its failing.      *)
(***************************************************************************)
EXTENDS Naturals, Sequences, FiniteSets, SequencesExt

CONSTANTS
  OfferServers, NoServerId,  (* server identifiers; an offer without option 54 *)
  Leases,                    (* offered addresses, each by one relay           *)
  MaxOffers,
  MaxHeard                   (* bound: datagrams that reach the port           *)

ASSUME DhcpAssumption ==
  NoServerId \notin OfferServers /\ MaxOffers \in Nat \ {0} /\ MaxHeard \in Nat

Offers == [server : OfferServers \cup {NoServerId}, lease : Leases]

VARIABLES
  exchange, (* choosing, binding, sharing, open, over                        *)
  onAir,    (* the DISCOVER: no, unsure, sent, refused                        *)
  offers,   (* kept, in the order they came                                  *)
  outcome,  (* of the probe: an error, or a measurement                       *)
  heard,    (* history: every server that answered this DISCOVER in time      *)
  datagrams (* bound                                                        *)

dhcpVars == <<exchange, onAir, offers, outcome, heard, datagrams>>

DhcpInit ==
  /\ exchange = "choosing" /\ onAir = "no" /\ offers = <<>> /\ outcome = "none"
  /\ heard = {} /\ datagrams = 0

GivesUp == /\ exchange' = "over" /\ outcome' = "error"
           /\ UNCHANGED <<onAir, offers, heard, datagrams>>
Proceeds(p) == exchange' = p /\ UNCHANGED <<onAir, offers, outcome, heard, datagrams>>

(* chooseInterface                                                          *)
Chooses == exchange = "choosing" /\ (Proceeds("binding") \/ GivesUp)

(* openSocket: alone, and if the port is in use, shared.  Binding, setting    *)
(* the broadcast flag and handing the packet over are one callback.          *)
Opens == /\ exchange' = "open" /\ onAir' = "unsure"
         /\ UNCHANGED <<offers, outcome, heard, datagrams>>
Binds == exchange = "binding" /\ (Opens \/ Proceeds("sharing") \/ GivesUp)
Shares == exchange = "sharing" /\ (Opens \/ GivesUp)

(* The callback of send.  An offer may be read before it is called; nobody    *)
(* answers a packet that was refused.                                        *)
Sent ==
  /\ exchange = "open" /\ onAir = "unsure"
  /\ onAir' = "sent"
  /\ UNCHANGED <<exchange, offers, outcome, heard, datagrams>>

SendFails ==
  /\ exchange = "open" /\ onAir = "unsure" /\ heard = {}
  /\ exchange' = "over" /\ outcome' = "error" /\ onAir' = "refused"
  /\ UNCHANGED <<offers, heard, datagrams>>

OffersHeld == ToSet(offers)
(* The same offer again is one offer.                                        *)
NewOffer(o) == o \notin OffersHeld /\ Len(offers) < MaxOffers

(* isOfferFor: the same xid, type and hardware address.                      *)
IsOfferFor(d) == d.xid /\ d.offer /\ d.mac

(* What comes to the port, and whether it answers this DISCOVER.  An xid is   *)
(* drawn at random: another client's may be the same.                        *)
Answering == [xid |-> TRUE, offer |-> TRUE, mac |-> TRUE]
Datagrams == {Answering} \cup {[Answering EXCEPT ![f] = FALSE] : f \in {"xid", "offer", "mac"}}

Hears(o, d) ==
  /\ exchange = "open" /\ onAir # "refused" /\ datagrams < MaxHeard
  /\ datagrams' = datagrams + 1
  /\ heard' = heard \cup (IF d = Answering THEN {o.server} ELSE {})
  /\ offers' = IF IsOfferFor(d) /\ NewOffer(o) THEN Append(offers, o) ELSE offers
  /\ UNCHANGED <<exchange, onAir, outcome>>

(* A socket that fails after offers came still leaves a measurement.         *)
SocketFails ==
  /\ exchange = "open"
  /\ exchange' = "over"
  /\ outcome' = IF offers # <<>> THEN "measured" ELSE "error"
  /\ UNCHANGED <<onAir, offers, heard, datagrams>>

TimeIsUp ==
  /\ exchange = "open"
  /\ exchange' = "over" /\ outcome' = "measured"
  /\ UNCHANGED <<onAir, offers, heard, datagrams>>

DhcpNext ==
  \/ Chooses \/ Binds \/ Shares \/ Sent \/ SendFails \/ SocketFails \/ TimeIsUp
  \/ \E o \in Offers, d \in Datagrams : Hears(o, d)

DhcpSpec == DhcpInit /\ [][DhcpNext]_dhcpVars

-----------------------------------------------------------------------------
(* The result: distinct server identifiers, those without one counting once. *)
ServerCount == Cardinality({o.server : o \in OffersHeld})
DhcpOk == offers # <<>>

DhcpTypeOK ==
  /\ exchange \in {"choosing", "binding", "sharing", "open", "over"}
  /\ onAir \in {"no", "unsure", "sent", "refused"}
  /\ offers \in Seq(Offers) /\ Len(offers) <= MaxOffers
  /\ outcome \in {"none", "measured", "error"}
  /\ heard \subseteq OfferServers \cup {NoServerId} /\ datagrams \in 0..MaxHeard

(* Every server that answered in time is counted, and none twice, unless so   *)
(* many different offers came that there was no room for one of its own; and  *)
(* an error is never what a segment with a server is reported as.             *)
ServersCounted ==
  exchange = "over" =>
    /\ ServerCount = Cardinality(heard) \/ Cardinality(OffersHeld) = MaxOffers
    /\ DhcpOk <=> heard # {}
    /\ outcome = "error" => heard = {}

(* What the DHCP probe says of a segment holds.                              *)
SegmentVerdicts == DhcpTypeOK /\ ServersCounted
=============================================================================
