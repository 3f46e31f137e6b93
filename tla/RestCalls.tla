------------------------------ MODULE RestCalls ------------------------------
(***************************************************************************)
(* The agent's REST calls: src/apiClient.js over src/httpsClient.js or the   *)
(* platform's fetch, the probe of src/serverUrl.js before the first of them,  *)
(* the URLs as the live channel of src/agentClient.js changes them under     *)
(* them, and the chain in which runtime.js reads its configuration.          *)
(*                                                                         *)
(* Which client it is is decided once, when the runtime is made: with a pin  *)
(* and an https URL every call goes through requestJson, which verifies the  *)
(* certificate of an https peer itself and follows no redirect.              *)
(* It settles when the answer has ended, or with the request's error; Node   *)
(* reports a connection that is closed in the middle of an answer on the     *)
(* answer, where nothing listens.  A step is one event of a connection.      *)
(*                                                                         *)
(* Not modelled: what is asked and answered, the pool of idle connections    *)
(* (each was verified when it was made), the list of pins.                   *)
(***************************************************************************)
EXTENDS Naturals, Sequences

CONSTANTS
  Calls,
  Reads,           (* those that read the configuration: one at a time       *)
  Configured,      (* the lists of URLs there may be, each by its scheme     *)
  Pin              (* a certificate fingerprint is configured                *)

ASSUME RestAssumption ==
  /\ Reads \subseteq Calls /\ Pin \in BOOLEAN
  /\ Configured \subseteq Seq({"http", "https"}) \ {<<>>}

NoConnection == [at |-> "none", over |-> "none", peer |-> "ours", status |-> "none"]

VARIABLES
  urls,     (* the scheme of each URL of the server, as it is now            *)
  fetch,    (* effectiveFetch, "none" until the first URL has been probed    *)
  active,   (* the URL the live channel uses                                 *)
  rest,     (* each call's connection                                       *)
  chain,    (* configChain: the reads that have not settled                  *)
  told      (* history: calls whose token has gone out                       *)

restVars == <<urls, fetch, active, rest, chain, told>>

RestInit ==
  /\ urls \in Configured /\ fetch = "none" /\ active = 1
  /\ rest = [c \in Calls |-> NoConnection] /\ chain = <<>> /\ told = {}

(* resolveEffectiveServerUrl: an http URL that redirects to https on the same *)
(* host is replaced; every other outcome leaves it.  With what it returns the *)
(* runtime is made, and the client of its calls chosen.                      *)
Probed ==
  /\ fetch = "none"
  /\ \E s \in {urls[1], "https"} : urls' = [urls EXCEPT ![1] = s]
  /\ fetch' = IF Pin /\ \E u \in DOMAIN urls : urls'[u] = "https"
              THEN "pinned" ELSE "plain"
  /\ UNCHANGED <<active, rest, chain, told>>

(* The channel fails over, and REST follows it.                             *)
Moves ==
  /\ fetch # "none"
  /\ active' \in DOMAIN urls \ {active}
  /\ UNCHANGED <<urls, fetch, rest, chain, told>>

(* adoptUrl: the handshake of the channel is answered by a redirect to https *)
(* on the same host.  The URL in use is rewritten, and REST follows.         *)
Adopts ==
  /\ fetch # "none" /\ urls[active] = "http"
  /\ urls' = [urls EXCEPT ![active] = "https"]
  /\ UNCHANGED <<fetch, active, rest, chain, told>>

-----------------------------------------------------------------------------
Dialling(c) ==
  \E p \in {"ours", "other"} :
    rest' = [rest EXCEPT ![c] = [at |-> "dial", over |-> urls[active], peer |-> p, status |-> "none"]]

Calling(c) ==
  /\ fetch # "none" /\ rest[c].at = "none" /\ c \notin Reads
  /\ Dialling(c)
  /\ UNCHANGED <<urls, fetch, active, chain, told>>

AsksForConfig(c) ==
  /\ fetch # "none" /\ rest[c].at = "none" /\ c \in Reads
  /\ rest' = [rest EXCEPT ![c].at = "queued"] /\ chain' = Append(chain, c)
  /\ UNCHANGED <<urls, fetch, active, told>>

TurnComes(c) ==
  /\ rest[c].at = "queued" /\ Head(chain) = c
  /\ Dialling(c)
  /\ UNCHANGED <<urls, fetch, active, chain, told>>

(* The promise of the call settles, however: the next read may start.        *)
Settles(c, outcome) ==
  /\ rest' = [rest EXCEPT ![c].at = "over", ![c].status = outcome]
  /\ chain' = IF c \in Reads THEN Tail(chain) ELSE chain

Onto(c, stage) == rest' = [rest EXCEPT ![c].at = stage] /\ UNCHANGED chain

-----------------------------------------------------------------------------
(* The handshake is complete, before anything of the request has left.  To   *)
(* the platform's fetch the pin means nothing: its authorities judge an https *)
(* peer, and one they refuse is a connection that Breaks.                    *)
(* Mutant: the pin is compared once the answer is there.                     *)
TrustsFirst(c) == TRUE
Accepts(c) == fetch = "pinned" /\ rest[c].over = "https" => rest[c].peer = "ours"

Connects(c) ==
  /\ rest[c].at = "dial"
  /\ IF Accepts(c) THEN Onto(c, "secured") ELSE Settles(c, "failed")
  /\ UNCHANGED <<urls, fetch, active, told>>

Flushes(c) ==
  /\ rest[c].at = "secured"
  /\ Onto(c, "sent") /\ told' = told \cup {c}
  /\ UNCHANGED <<urls, fetch, active>>

(* fetch follows a redirect and leaves the token behind on the way.          *)
AnswerBegins(c) ==
  /\ rest[c].at = "sent"
  /\ \E s \in {"ok", "rejected", "failed", "redirected"} :
       rest' = [rest EXCEPT ![c].at = "answering",
                            ![c].status = IF s # "redirected" THEN s
                                          ELSE IF fetch = "pinned" THEN "failed" ELSE "rejected"]
  /\ UNCHANGED <<urls, fetch, active, chain, told>>

AnswerEnds(c) ==
  /\ rest[c].at = "answering"
  /\ Settles(c, rest[c].status)
  /\ UNCHANGED <<urls, fetch, active, told>>

Underway(c) == rest[c].at \in {"dial", "secured", "sent", "answering"}

(* Refused, reset, or silent for too long.                                   *)
Breaks(c) ==
  /\ Underway(c) /\ Settles(c, "failed")
  /\ UNCHANGED <<urls, fetch, active, told>>

(* The far end closes the connection in the middle of its answer.  The       *)
(* socket is gone, and the request's timeout with it.                        *)
CutShort(c) ==
  /\ rest[c].at = "answering"
  /\ IF fetch = "pinned" THEN Onto(c, "mute") ELSE Settles(c, "failed")
  /\ UNCHANGED <<urls, fetch, active, told>>

CallStep(c) == TurnComes(c) \/ Connects(c) \/ Flushes(c) \/ AnswerEnds(c) \/ Breaks(c)

RestNext ==
  \/ Probed \/ Moves \/ Adopts
  \/ \E c \in Calls :
       \/ Calling(c) \/ AsksForConfig(c) \/ AnswerBegins(c) \/ CutShort(c) \/ CallStep(c)

(* A connection goes on or is given up.                                      *)
RestFair == \A c \in Calls : WF_restVars(CallStep(c))
RestSpec == RestInit /\ [][RestNext]_restVars /\ RestFair

-----------------------------------------------------------------------------
RestTypeOK ==
  /\ urls \in Seq({"http", "https"}) /\ active \in DOMAIN urls
  /\ fetch \in {"none", "plain", "pinned"}
  /\ rest \in [Calls -> [at : {"none", "queued", "dial", "secured", "sent", "answering",
                               "mute", "over"},
                         over : {"none", "http", "https"}, peer : {"ours", "other"},
                         status : {"none", "ok", "rejected", "failed"}]]
  /\ chain \in Seq(Reads) /\ told \subseteq Calls

OursOverHttps == \A c \in told : rest[c].over = "https" => rest[c].peer = "ours"

(* "Before any request body / auth header is sent": when some URL was https   *)
(* as the runtime was made, an agent with a pin sends its token over https to *)
(* nobody but the server, whichever of its URLs is in use, whatever the      *)
(* channel moved to in the meantime and whatever it made of an http URL; and  *)
(* no more than one read of the configuration is under way.                  *)
NothingToStranger ==
  /\ RestTypeOK
  /\ fetch = "pinned" => OursOverHttps
  /\ \A c, d \in Reads : Underway(c) /\ Underway(d) => c = d

(* "Nothing moves to a host the certificate chain and the pins do not already *)
(* cover", says the comment on the adoption: with a pin the token goes to     *)
(* nobody but the server over https.  It may where every URL was http as the *)
(* runtime was made: the calls stay with the platform's fetch.               *)
PinsCover == Pin => OursOverHttps

(* "The next scheduled interval is the only retry": a read of the            *)
(* configuration that was asked for ends, well or badly.                     *)
ReadsEnd == \A c \in Reads : (rest[c].at # "none") ~> (rest[c].at = "over")
=============================================================================
