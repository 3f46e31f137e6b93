--------------------------- MODULE CertificateProbe ---------------------------
(***************************************************************************)
(* The certificate probe (src/probes/tls.js) with its revocation check       *)
(* (src/probes/ocsp.js): one handshake with a port, which may bring the       *)
(* issuer's status along (the staple), perhaps one question to the issuer's   *)
(* responder, and a verdict.                                                 *)
(*                                                                         *)
(* The truth is beside it: the clock goes on, and the issuer may revoke the   *)
(* certificate at any moment, before, between or after.  A response says      *)
(* what the issuer knew when it was made; it may be old, about another        *)
(* certificate, unreadable, or not signed by whom it should be.              *)
(* Not modelled: DER, the request's bytes, names and wildcards (a name        *)
(* matches, does not, or leaves it open), the wording of the detail line.     *)
(***************************************************************************)
EXTENDS Integers

CONSTANTS
  Certificates,  (* what may stand at the port                              *)
  Window,        (* nextUpdate - thisUpdate of a response                   *)
  Grain,         (* a hundredth of a day: what round() keeps of one         *)
  MaxClock       (* bound: the clock stops here                             *)

(* from, until: its dates.  chain: it leads to the host's trust store.  name: *)
(* what matchesHost makes of it, and agrees: what the TLS library does.       *)
(* issuer: the chain has its issuer; checkable: with a key and an algorithm   *)
(* that can be used; aia: it names a responder.                              *)
Names3 == {"own", "other", "open"}
CertificateShape ==
  [from : Nat, until : Nat, chain : BOOLEAN, name : Names3, agrees : BOOLEAN,
   issuer : BOOLEAN, checkable : BOOLEAN, aia : BOOLEAN]

ASSUME CertificateAssumption ==
  /\ Certificates \subseteq CertificateShape
  /\ \A c \in Certificates : /\ c.name = "own" => c.agrees
                             /\ c.name = "other" => ~c.agrees
  /\ Window \in Nat /\ Grain \in Nat \ {0} /\ MaxClock \in Nat

Modes == {"off", "staple", "fetch"}
NotRevoked == MaxClock + 1

VARIABLES
  cert,      (* what stands at the port                                     *)
  mode,      (* ocspMode of the probe's spec                                 *)
  named,     (* there is a name to check: not a bare address                *)
  clock,
  revokedAt, (* when the issuer revoked it, or NotRevoked                    *)
  step,      (* of the probe: connecting, asking, over, failed               *)
  seenAt,    (* when the handshake ended and the dates were looked at        *)
  block      (* what is known of the revocation                             *)

certVars == <<cert, mode, named, clock, revokedAt, step, seenAt, block>>

(* unchecked({...}): told is when a verdict was reached, seen the response's  *)
(* thisUpdate, dated whether it has a nextUpdate.                            *)
Unchecked(s) == [checked |-> FALSE, status |-> s, revoked |-> FALSE, sure |-> FALSE,
                 stale |-> FALSE, dated |-> FALSE, seen |-> 0, told |-> 0]

CertInit ==
  /\ cert \in Certificates /\ mode \in Modes /\ named \in BOOLEAN
  /\ clock = 0 /\ revokedAt = NotRevoked
  /\ step = "connecting" /\ seenAt = 0 /\ block = Unchecked("unchecked")

-----------------------------------------------------------------------------
(* What the issuer, and whatever stands between, may answer by now.          *)
RevokedBy(t) == revokedAt <= t

Responses ==
  [form : {"whole"}, nonce : {"none", "ours"}, signed : {TRUE}, dated : BOOLEAN,
   at : 0..clock, status : {"good", "revoked", "unknown"}]
Spoilt ==
  [form : {"whole"}, nonce : {"none"}, signed : {FALSE}, dated : {TRUE}, at : {clock},
   status : {"good", "revoked"}]
   \cup [form : {"whole"}, nonce : {"other"}, signed : {TRUE}, dated : {TRUE}, at : {0},
         status : {"good"}]
   \cup [form : {"broken"}, nonce : {"none"}, signed : {TRUE}, dated : {TRUE}, at : {0},
         status : {"unknown"}]

Truthful(r) == r.signed => /\ r.status = "good" => ~RevokedBy(r.at)
                           /\ r.status = "revoked" => RevokedBy(r.at)
Answers == {r \in Responses \cup Spoilt : Truthful(r)}

-----------------------------------------------------------------------------
(* evaluate.  A response that cannot be read, that refuses, or that has no    *)
(* answer about this certificate: "broken".                                  *)

(* verifySignature: TRUE and FALSE, or neither.                             *)
Sure(r) == cert.checkable /\ r.signed
Wrong(r) == cert.checkable /\ ~r.signed

Believed(r, sent) ==
  /\ r.form = "whole"
  /\ ~(sent /\ r.nonce = "other")
  /\ ~Wrong(r)

Stale(r) == r.dated /\ r.at + Window < clock

Evaluated(r, sent) ==
  IF ~Believed(r, sent) THEN Unchecked("error")
  ELSE [checked |-> TRUE,
        status |-> IF r.status = "good" /\ ~Sure(r) THEN "unverified" ELSE r.status,
        revoked |-> r.status = "revoked", sure |-> Sure(r),
        stale |-> Stale(r), dated |-> r.dated, seen |-> r.at, told |-> clock]

-----------------------------------------------------------------------------
HandshakeFails ==
  /\ step = "connecting"
  /\ step' = "failed"
  /\ UNCHANGED <<cert, mode, named, clock, revokedAt, seenAt, block>>

Settles(b) == step' = "over" /\ block' = b

Asks == step' = "asking" /\ UNCHANGED block

(* checkRevocation up to its await; the staple is looked at first.           *)
Without ==
  IF mode # "fetch" \/ ~cert.aia THEN Settles(Unchecked("unchecked")) ELSE Asks

WithStaple(r) ==
  LET b == Evaluated(r, FALSE) IN
  IF b.status # "error" \/ mode # "fetch" THEN Settles(b) ELSE Without

HandshakeEnds ==
  /\ step = "connecting"
  /\ seenAt' = clock
  /\ IF mode = "off" THEN Settles(Unchecked("off"))
     ELSE IF ~cert.issuer THEN Settles(Unchecked("unchecked"))
     ELSE Without \/ \E r \in Answers : WithStaple(r)
  /\ UNCHANGED <<cert, mode, named, clock, revokedAt>>

(* The responder answers, or does not: too late, too much, another status.   *)
ResponderAnswers ==
  /\ step = "asking"
  /\ \E r \in Answers : Settles(Evaluated(r, TRUE))
  /\ UNCHANGED <<cert, mode, named, clock, revokedAt, seenAt>>

ResponderFails ==
  /\ step = "asking"
  /\ Settles(Unchecked("error"))
  /\ UNCHANGED <<cert, mode, named, clock, revokedAt, seenAt>>

CertTick ==
  /\ step \in {"connecting", "asking"} /\ clock < MaxClock
  /\ clock' = clock + 1
  /\ UNCHANGED <<cert, mode, named, revokedAt, step, seenAt, block>>

IssuerRevokes ==
  /\ step \in {"connecting", "asking"} /\ revokedAt = NotRevoked
  /\ revokedAt' = clock
  /\ UNCHANGED <<cert, mode, named, clock, step, seenAt, block>>

CertNext ==
  \/ HandshakeFails \/ HandshakeEnds \/ ResponderAnswers \/ ResponderFails
  \/ CertTick \/ IssuerRevokes

CertSpec == CertInit /\ [][CertNext]_certVars

-----------------------------------------------------------------------------
(* The verdict: five answers told apart, and ok if none is bad.              *)

(* round((validTo - now()) / day) <= 0                                      *)
Expired == 2 * (cert.until - seenAt) < Grain
NotYetValid == cert.from > seenAt

(* One flag of the TLS library for two checks, the chain first.              *)
LibraryName == IF named THEN cert.agrees ELSE cert.name = "own"
NameRejected == cert.chain /\ ~LibraryName
Authorized == cert.chain /\ LibraryName

ChainTrusted == Authorized \/ NameRejected

NameMismatch == named /\ (NameRejected \/ cert.name = "other")

Ok ==
  step = "over" /\ ChainTrusted /\ ~Expired /\ ~NotYetValid /\ ~NameMismatch
  /\ ~block.revoked

-----------------------------------------------------------------------------
CertTypeOK ==
  /\ cert \in Certificates /\ mode \in Modes /\ named \in BOOLEAN
  /\ clock \in 0..MaxClock /\ revokedAt \in 0..NotRevoked /\ seenAt \in 0..MaxClock
  /\ step \in {"connecting", "asking", "over", "failed"}
  /\ block \in [checked : BOOLEAN, status : {"off", "unchecked", "error", "good",
                "unverified", "revoked", "unknown"}, revoked : BOOLEAN, sure : BOOLEAN,
                stale : BOOLEAN, dated : BOOLEAN, seen : Nat, told : Nat]

(* A "good" that is not called stale leaves a revocation unnoticed for less   *)
(* than the response's own window; it comes from the issuer.                 *)
GoodIsRecent ==
  step = "over" /\ block.status = "good" /\ ~block.stale =>
    /\ block.sure
    /\ block.dated => revokedAt + Window > block.told

(* A revocation reported with a signature that was checked has happened.     *)
RevokedIsReal ==
  step = "over" /\ block.revoked /\ block.sure => RevokedBy(block.told)

(* The verdict is about the certificate: a sound one, inside its dates by     *)
(* more than the rounding, is ok whatever became of the revocation check; one *)
(* that is not ok has a fault of its own.  The exception is a revocation that *)
(* could not be checked, which is believed.                                  *)
Sound == /\ cert.chain /\ (named => cert.name # "other" /\ cert.agrees)
         /\ cert.from <= seenAt /\ seenAt + Grain <= cert.until
         /\ ~RevokedBy(clock)
BlamesRightly == step = "over" /\ Sound => Ok \/ (block.revoked /\ ~cert.checkable)
FaultsShow == Ok => /\ cert.chain /\ cert.from <= seenAt /\ seenAt < cert.until
                    /\ named => cert.name # "other"

(* What the certificate probe says of a certificate holds.                   *)
CertificateVerdicts ==
  CertTypeOK /\ GoodIsRecent /\ RevokedIsReal /\ BlamesRightly /\ FaultsShow
=============================================================================
