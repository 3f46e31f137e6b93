---------------------------- MODULE UpdateOffers ----------------------------
(* How an agent comes by an update: the server states in the configuration   *)
(* what it offers, the agent decides whether to ask for it, the server       *)
(* orders it and the process is replaced by one of the new release           *)
(* (considerSelfUpdate in src/src/runtime.js, updateWindow.js, version.js).  *)
(*                                                                           *)
(* A configuration is read some time before it is considered, so the offer   *)
(* may have changed meanwhile; the channel may drop with the request on it;  *)
(* the order may fail without a restart, or end in the old release again     *)
(* (SelfUpdate says how).  A day has DayLength minutes.  What the server does *)
(* is external: it orders what was asked for if that is still its offer.     *)
EXTENDS Integers, FiniteSets

CONSTANTS
  Newest,        (* releases are 1..Newest, in their order                   *)
  DayLength,     (* minutes of a day                                         *)
  Offers,        (* what the server may offer: [version, auto, window]       *)
  MaxOffers      (* bound: how often the server changes its offer            *)

(* A version that is absent or cannot be read; a window nobody set.          *)
NoVersion == 0
Garbled == -1
AnyTime == <<0, 0>>

Windows == {AnyTime} \cup {w \in (0..DayLength - 1) \X (0..DayLength - 1) : w[1] # w[2]}

ASSUME OffersAssumption ==
  /\ Newest \in Nat \ {0} /\ DayLength \in Nat \ {0} /\ MaxOffers \in Nat
  /\ \A o \in Offers :
       /\ o.version \in 1..Newest \cup {NoVersion, Garbled}
       /\ o.auto \in BOOLEAN /\ o.window \in Windows

VARIABLES
  offer,         (* what the server offers now                               *)
  changes,       (* how often it has changed that                            *)
  consent,       (* the host lets itself be updated, and can restart         *)
  release,       (* the running release                                      *)
  requestedUpdateFor,
  line,          (* the live channel is open                                 *)
  body,          (* the configuration that is being read, or NoBody          *)
  minute,        (* the host's local time                                    *)
  asked,         (* requests on their way                                    *)
  order,         (* the update being carried out, or NoVersion               *)
  lost,          (* a request of this process went down with the channel     *)
  askings        (* requests this process sent since it went to ask for      *)
                 (* another release, at most 2                               *)

offerVars == <<offer, changes, consent, release, requestedUpdateFor, line, body,
               minute, asked, order, lost, askings>>
process == <<release, requestedUpdateFor, body, lost, askings>>

NoBody == [version |-> NoVersion, auto |-> FALSE, window |-> AnyTime, read |-> FALSE]
BodyOf(o) == [version |-> o.version, auto |-> o.auto, window |-> o.window, read |-> TRUE]

(* A window of no length is none; one that ends before it starts goes over   *)
(* midnight.                                                                 *)
Within(w, m) ==
  IF w[1] <= w[2] THEN w[1] = w[2] \/ (m >= w[1] /\ m < w[2])
                  ELSE m >= w[1] \/ m < w[2]

Newer(candidate, current) == candidate \in 1..Newest /\ candidate > current

Wanted(o) ==
  /\ o.version # NoVersion /\ consent /\ o.auto
  /\ Newer(o.version, release)

-----------------------------------------------------------------------------
OffersInit ==
  /\ offer \in Offers /\ changes = 0
  /\ consent \in BOOLEAN
  /\ release = 1 /\ requestedUpdateFor = NoVersion
  /\ line = FALSE /\ body = NoBody /\ minute = 0
  /\ asked = {} /\ order = NoVersion /\ lost = FALSE /\ askings = 0

(* A read is started by the bootstrap, the open channel, the refresh timer   *)
(* or poll-snmp; the chain runs one at a time.                               *)
ReadOffer ==
  /\ ~body.read
  /\ body' = BodyOf(offer)
  /\ UNCHANGED <<offer, changes, consent, release, requestedUpdateFor, line, minute, asked,
                 order, lost, askings>>

(* The mutant remembers nothing.                                             *)
Forgetting(v) == FALSE
AskedBefore(v) == requestedUpdateFor = v

AsksFor(v) ==
  /\ requestedUpdateFor' = v
  /\ asked' = asked \cup {v}
  /\ askings' = IF requestedUpdateFor # v THEN 1 ELSE 2

(* considerSelfUpdate: nothing, unless everything speaks for asking; a       *)
(* request that could not be sent is not remembered.                         *)
Consider ==
  /\ body.read
  /\ body' = NoBody
  /\ IF Wanted(body) /\ Within(body.window, minute) /\ ~AskedBefore(body.version)
     THEN IF line THEN AsksFor(body.version)
          ELSE requestedUpdateFor' = NoVersion /\ UNCHANGED <<asked, askings>>
     ELSE UNCHANGED <<requestedUpdateFor, asked, askings>>
  /\ UNCHANGED <<offer, changes, consent, release, line, minute, order, lost>>

(* The read failed: nothing is considered.                                   *)
ReadFails ==
  /\ body.read
  /\ body' = NoBody
  /\ UNCHANGED <<offer, changes, consent, release, requestedUpdateFor, line, minute, asked,
                 order, lost, askings>>

Opens ==
  /\ ~line
  /\ line' = TRUE
  /\ UNCHANGED <<offer, changes, consent, process, minute, asked, order>>

Closes ==
  /\ line
  /\ line' = FALSE /\ asked' = {} /\ lost' = (lost \/ asked # {})
  /\ UNCHANGED <<offer, changes, consent, release, requestedUpdateFor, body, minute, order,
                 askings>>

-----------------------------------------------------------------------------
(* The server, and the update it orders.                                     *)
Answers(v) ==
  /\ v \in asked /\ line /\ order = NoVersion
  /\ asked' = asked \ {v}
  /\ order' = IF offer.version = v THEN v ELSE NoVersion
  /\ UNCHANGED <<offer, changes, consent, process, line, minute>>

(* The order is refused or fails, and the process goes on.                   *)
OrderFails ==
  /\ order # NoVersion
  /\ order' = NoVersion
  /\ UNCHANGED <<offer, changes, consent, process, line, minute, asked>>

(* The process is replaced: by the release it ordered, or by the old one     *)
(* after a rollback, and for other reasons by the same.                      *)
Restarts(v) ==
  /\ v \in {release, order} \ {NoVersion}
  /\ release' = v /\ requestedUpdateFor' = NoVersion
  /\ line' = FALSE /\ body' = NoBody /\ asked' = {} /\ order' = NoVersion
  /\ lost' = FALSE /\ askings' = 0
  /\ UNCHANGED <<offer, changes, consent, minute>>

Offered(o) ==
  /\ changes < MaxOffers
  /\ offer' = o /\ changes' = changes + 1
  /\ UNCHANGED <<consent, process, line, minute, asked, order>>

MinutePasses ==
  /\ minute' = (minute + 1) % DayLength
  /\ UNCHANGED <<offer, changes, consent, process, line, asked, order>>

OffersNext ==
  \/ ReadOffer \/ Consider \/ ReadFails
  \/ Opens \/ Closes \/ MinutePasses
  \/ OrderFails
  \/ \E v \in 1..Newest : Answers(v) \/ Restarts(v)
  \/ \E o \in Offers : Offered(o)

(* While an offer is wanted time passes, and of the reads that a window      *)
(* which keeps coming back has room for, one is made and considered in it:   *)
(* the reads are minutes apart, a window lasts longer, and a server that is  *)
(* up does not fail every one.                                               *)
OffersFairness ==
  /\ WF_offerVars(Wanted(offer) /\ MinutePasses)
  /\ SF_offerVars(Wanted(offer) /\ ReadOffer /\ Within(offer.window, minute))
  /\ SF_offerVars(Consider /\ Within(body.window, minute))

OffersSpec == OffersInit /\ [][OffersNext]_offerVars /\ OffersFairness

-----------------------------------------------------------------------------
OffersTypeOK ==
  /\ offer \in Offers /\ changes \in 0..MaxOffers /\ consent \in BOOLEAN
  /\ release \in 1..Newest /\ requestedUpdateFor \in {NoVersion} \cup 1..Newest
  /\ line \in BOOLEAN /\ body.read \in BOOLEAN /\ minute \in 0..DayLength - 1
  /\ asked \subseteq 1..Newest /\ order \in {NoVersion} \cup 1..Newest
  /\ lost \in BOOLEAN /\ askings \in 0..2

(* "once per offered version. A reconnect loop must not become an update     *)
(* loop" (runtime.js:810): a process asks twice for a release only if it     *)
(* went to ask for another in between, however often it reconnects and reads. *)
AsksOnce == askings <= 1

(* Nothing is asked for that is not newer than what runs, nor by a host that *)
(* does not want it, whatever offers come and go while one is read.          *)
AsksForward == \A v \in asked : v > release /\ consent

(* An offer that stays, on a channel that stays, is asked for and heard, or  *)
(* the agent has become that release: once the window comes round, unless an *)
(* earlier request of this process was lost with its channel.                *)
Stays(o) == [](offer = o /\ line)
OfferIsHeard ==
  \A o \in Offers :
    <>Stays(o) => <>[](lost \/ ~Wanted(o) \/ requestedUpdateFor = o.version)

(* What an offer may lead to, and what it must.                              *)
OffersKept == [](OffersTypeOK /\ AsksOnce /\ AsksForward) /\ OfferIsHeard
=============================================================================
