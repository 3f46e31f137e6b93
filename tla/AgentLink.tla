------------------------------ MODULE AgentLink ------------------------------
(***************************************************************************)
(* The live WebSocket to /ws/agent (src/agentClient.js): dialling through  *)
(* the configured URLs, the stale check that ends a half-open connection,  *)
(* reconnection with backoff, the 401 policy and stop().                   *)
(*                                                                         *)
(* A socket is one `new WebSocket(...)` with the `opened` and `settled`    *)
(* flags its handlers close over.  Earlier sockets may still have events   *)
(* to deliver while `ws` is already a newer one.  The timers are shared by *)
(* all of them, as in the code.                                            *)
(*                                                                         *)
(* Not modelled: the length of delays (a pending timer may fire at any     *)
(* time), log lines and redirectReported, the payload of frames.           *)
(***************************************************************************)
EXTENDS Naturals, FiniteSets

CONSTANTS
  Sockets,     (* bound: socket objects alive at the same time               *)
  NoSocket,    (* `ws` before the first dial                                 *)
  NumUrls,     (* urls.length                                                *)
  Schemes,     (* the scheme each URL is configured with                     *)
  Answers,     (* how the far end of a URL answers a dial, by scheme         *)
  AuthRetry,   (* config.authRetryMs > 0                                     *)
  StaleCheck,  (* staleConnectionMs > 0                                      *)
  MaxAttempts  (* bound: `attempts` stops counting here; computeBackoff is   *)
               (* at its cap from the sixth attempt on                       *)

Urls == 0..(NumUrls - 1)

(* "serve": the agent's server, which accepts or refuses the token;        *)
(* "redirect": a 3xx to https on the same host; "status": any other HTTP   *)
(* answer, or a redirect elsewhere; "error": refused, unresolvable, reset, *)
(* or a certificate that does not match its pin; "unpinnable": no verifier *)
(* can be attached to the socket.  A far end with no answer stays mute.    *)
Outcomes == {"serve", "redirect", "status", "error", "unpinnable"}

ASSUME LinkAssumption ==
  /\ NumUrls \in Nat \ {0}
  /\ NoSocket \notin Sockets
  /\ Schemes \in [Urls -> {"http", "https"}]
  /\ Answers \in [Urls -> [{"http", "https"} -> SUBSET Outcomes]]
  /\ AuthRetry \in BOOLEAN /\ StaleCheck \in BOOLEAN
  /\ MaxAttempts \in Nat \ {0}

VARIABLES
  sock,       (* per socket: phase, opened, settled, and whether the peer is *)
              (* still there                                                 *)
  ws,         (* the socket dialled last                                     *)
  heartbeat,  (* heartbeatTimer # null                                       *)
  stale,      (* staleTimer # null                                           *)
  reconnect,  (* what the reconnect timer waits for, or "none"               *)
  attempts,
  started, stopped, fatal,
  urlIndex,
  scheme,     (* the scheme of each entry of `urls`, after adoptUrl          *)
  token,      (* does the server accept this agent's token                   *)
  refused     (* the last answer to a dial was a 401                         *)

timers == <<heartbeat, stale, reconnect>>
life   == <<started, stopped, fatal>>
urlVars == <<urlIndex, scheme>>
vars == <<sock, ws, timers, attempts, life, urlVars, token, refused>>

(* "closing": destroyed, only its 'close' is still to come; "leaving":     *)
(* close() was called and the closing handshake is under way, so frames may *)
(* still arrive; "rejected": an HTTP answer ended the handshake.           *)
Phases == {"unused", "dialing", "open", "rejected", "closing", "leaving",
           "closed"}
Fresh  == [phase |-> "unused", opened |-> FALSE, settled |-> FALSE,
           peer |-> TRUE]

Bump(n) == IF n < MaxAttempts THEN n + 1 ELSE n

Init ==
  /\ sock = [s \in Sockets |-> Fresh]
  /\ ws = NoSocket
  /\ heartbeat = FALSE /\ stale = FALSE /\ reconnect = "none"
  /\ attempts = 0
  /\ started = FALSE /\ stopped = FALSE /\ fatal = FALSE
  /\ urlIndex = 0
  /\ scheme = Schemes
  /\ token \in BOOLEAN
  /\ refused = FALSE

-----------------------------------------------------------------------------
(* The shared tail of every handler that ends an attempt.                  *)

Rotated(i) == (i + 1) % NumUrls

(* Mutant of ended: handled on every call.                                 *)
EndedTwice(s, opened, again, tries) ==
  /\ heartbeat' = FALSE
  /\ stale' = FALSE
  /\ urlIndex' = IF opened THEN urlIndex ELSE Rotated(urlIndex)
  /\ IF again # "none" /\ ~stopped /\ ~fatal
     THEN reconnect' = again /\ attempts' = Bump(tries)
     ELSE reconnect' = reconnect /\ attempts' = tries

(* ended(shouldReconnect, delayMs) on socket s, whose `opened` flag is     *)
(* `opened` by now: the first call settles the attempt, stops the timers,  *)
(* rotates if the attempt never reached a socket that answered, and        *)
(* schedules the next dial; the second call does nothing.                  *)
Ended(s, opened, again, tries) ==
  IF sock[s].settled
  THEN UNCHANGED <<timers, attempts, urlIndex>>
  ELSE /\ heartbeat' = FALSE
       /\ stale' = FALSE
       /\ urlIndex' = IF opened THEN urlIndex ELSE Rotated(urlIndex)
       /\ IF again # "none" /\ ~stopped /\ ~fatal
          THEN reconnect' = again /\ attempts' = Bump(tries)
          ELSE reconnect' = reconnect /\ attempts' = tries

SetSock(s, phase, opened) ==
  sock' = [sock EXCEPT ![s] = [phase |-> phase, opened |-> opened,
                               settled |-> TRUE, peer |-> @.peer]]

(* Mutant of the 401 policy.                                               *)
AlwaysTerminal == TRUE

(* A 401 is terminal: authRetryMs <= 0.                                    *)
Terminal401 == ~AuthRetry

(* failFatal(): every timer is cleared.                                    *)
FailFatal ==
  /\ fatal' = TRUE
  /\ heartbeat' = FALSE /\ stale' = FALSE /\ reconnect' = "none"
  /\ UNCHANGED <<attempts, urlIndex>>

(* connect(): a fresh socket on the active URL.                            *)
Connect(s) ==
  /\ sock[s].phase \in {"unused", "rejected", "closed"}
  /\ sock' = [sock EXCEPT ![s] = [Fresh EXCEPT !.phase = "dialing"]]
  /\ ws' = s

-----------------------------------------------------------------------------
(* The owner's calls.                                                      *)

Start ==
  /\ ~started
  /\ started' = TRUE
  /\ \E s \in Sockets : Connect(s)
  /\ UNCHANGED <<timers, attempts, stopped, fatal, urlVars, token, refused>>

(* ws.terminate() (to = "closing") or ws.close() (to = "leaving") on        *)
(* whatever `ws` is now; a dial is aborted either way.                     *)
Hangup(to) ==
  sock' = CASE ws # NoSocket /\ sock[ws].phase = "open" ->
                 [sock EXCEPT ![ws].phase = to]
            [] ws # NoSocket /\ sock[ws].phase \in {"dialing", "rejected"} ->
                 [sock EXCEPT ![ws].phase = "closing"]
            [] OTHER -> sock

Stop ==
  /\ started
  /\ ~stopped
  /\ stopped' = TRUE
  /\ heartbeat' = FALSE /\ stale' = FALSE /\ reconnect' = "none"
  /\ Hangup("leaving")
  /\ UNCHANGED <<ws, attempts, started, fatal, urlVars, token, refused>>

-----------------------------------------------------------------------------
(* The timers.                                                             *)

ReconnectFires ==
  /\ reconnect # "none"
  /\ reconnect' = "none"
  /\ IF stopped \/ fatal
     THEN UNCHANGED <<sock, ws>>
     ELSE \E s \in Sockets : Connect(s)
  /\ UNCHANGED <<heartbeat, stale, attempts, life, urlVars, token, refused>>

(* Nothing heard for staleMs: terminate whatever `ws` is now.              *)
StaleFires ==
  /\ stale
  /\ stale' = FALSE
  /\ Hangup("closing")
  /\ UNCHANGED <<ws, heartbeat, reconnect, attempts, life, urlVars, token,
                 refused>>

(* Mutant: never armed.                                                     *)
MarkAliveNever  == UNCHANGED stale

(* markAlive(), called by every frame, ping or pong of a socket.           *)
MarkAlive == stale' = IF StaleCheck /\ ~stopped /\ ~fatal THEN TRUE ELSE stale

-----------------------------------------------------------------------------
(* The socket's events.                                                    *)

Answer(s, o) ==
  /\ sock[s].phase = "dialing"
  /\ o \in Answers[urlIndex][scheme[urlIndex]]

(* 'open'                                                                  *)
SocketOpens(s) ==
  /\ Answer(s, "serve")
  /\ token
  /\ sock' = [sock EXCEPT ![s].phase = "open", ![s].opened = TRUE]
  /\ attempts' = 0
  /\ heartbeat' = TRUE
  /\ MarkAlive
  /\ refused' = FALSE
  /\ UNCHANGED <<ws, reconnect, life, urlVars, token>>

(* 'unexpected-response' with a 401: rejectAuth, terminal without a retry  *)
(* interval (failFatal), otherwise a long quiet timer.                     *)
TokenRefused(s) ==
  /\ Answer(s, "serve")
  /\ ~token
  /\ refused' = TRUE
  /\ SetSock(s, IF Terminal401 THEN "closing" ELSE "rejected", TRUE)
  /\ IF Terminal401
     THEN FailFatal
     ELSE Ended(s, TRUE, "auth", attempts) /\ UNCHANGED fatal
  /\ UNCHANGED <<ws, started, stopped, scheme, token>>

(* 'unexpected-response' with a redirect the agent answers itself: the same *)
(* host over https, adopted in place and dialled at once.                  *)
AdoptsHttps(s) ==
  /\ Answer(s, "redirect")
  /\ scheme[urlIndex] = "http"
  /\ scheme' = [scheme EXCEPT ![urlIndex] = "https"]
  /\ SetSock(s, "rejected", TRUE)
  /\ Ended(s, TRUE, "now", 0)
  /\ UNCHANGED <<ws, life, token, refused>>

(* 'unexpected-response' with any other status: this URL reaches a server. *)
OtherStatus(s) ==
  /\ \/ Answer(s, "status")
     \/ Answer(s, "redirect") /\ scheme[urlIndex] = "https"
  /\ SetSock(s, "rejected", TRUE)
  /\ Ended(s, TRUE, "backoff", attempts)
  /\ UNCHANGED <<ws, life, scheme, token, refused>>

(* 'error' before the socket opened.                                       *)
DialFails(s) ==
  /\ Answer(s, "error")
  /\ SetSock(s, "closing", FALSE)
  /\ Ended(s, FALSE, "backoff", attempts)
  /\ UNCHANGED <<ws, life, scheme, token, refused>>

(* The certificate verifier cannot be attached: failFatal inside connect,  *)
(* before any handler is registered.                                       *)
Unpinnable(s) ==
  /\ Answer(s, "unpinnable")
  /\ SetSock(s, "closed", FALSE)
  /\ FailFatal
  /\ UNCHANGED <<ws, started, stopped, scheme, token, refused>>

(* A frame, ping or pong.                                                  *)
PeerSpeaks(s) ==
  /\ sock[s].phase \in {"open", "leaving"}
  /\ sock[s].peer
  /\ MarkAlive
  /\ UNCHANGED <<sock, ws, heartbeat, reconnect, attempts, life, urlVars,
                 token, refused>>

(* 'error' on an open socket; its 'close' follows.                         *)
OpenSocketErrs(s) ==
  /\ sock[s].phase = "open"
  /\ SetSock(s, "closing", TRUE)
  /\ Ended(s, TRUE, "backoff", attempts)
  /\ UNCHANGED <<ws, life, scheme, token, refused>>

(* 'close', from the peer or after an error, a terminate() or a close().   *)
SocketCloses(s) ==
  /\ \/ sock[s].phase \in {"closing", "leaving"}
     \/ sock[s].phase = "open" /\ sock[s].peer
  /\ SetSock(s, "closed", sock[s].opened)
  /\ Ended(s, sock[s].opened, "backoff", attempts)
  /\ UNCHANGED <<ws, life, scheme, token, refused>>

-----------------------------------------------------------------------------
(* The world: a path that dies without a word, a server that changes its   *)
(* mind about the token.                                                   *)

PeerVanishes(s) ==
  /\ sock[s].phase = "open" /\ sock[s].peer
  /\ sock' = [sock EXCEPT ![s].peer = FALSE]
  /\ UNCHANGED <<ws, timers, attempts, life, urlVars, token, refused>>

TokenChanges ==
  /\ token' = ~token
  /\ UNCHANGED <<sock, ws, timers, attempts, life, urlVars, refused>>

SocketStep(s) ==
  \/ SocketOpens(s) \/ TokenRefused(s) \/ AdoptsHttps(s) \/ OtherStatus(s)
  \/ DialFails(s) \/ Unpinnable(s) \/ SocketCloses(s)

Next ==
  \/ Start \/ Stop \/ ReconnectFires \/ StaleFires \/ TokenChanges
  \/ \E s \in Sockets : \/ SocketStep(s) \/ PeerSpeaks(s)
                        \/ OpenSocketErrs(s) \/ PeerVanishes(s)

(* Timers fire, a socket that was hung up is reported closed, and a far end *)
(* that answers at all answers in the end.  Nothing else is promised: the  *)
(* client sets no handshake timeout, so a mute far end may stay mute.      *)
Fairness ==
  /\ WF_vars(Start)
  /\ WF_vars(ReconnectFires)
  /\ WF_vars(StaleFires)
  /\ \A s \in Sockets : WF_vars(SocketStep(s) /\ sock[s].phase # "open")

Spec == Init /\ [][Next]_vars
FairSpec == Spec /\ Fairness

-----------------------------------------------------------------------------

TypeOK ==
  /\ sock \in [Sockets -> [phase : Phases, opened : BOOLEAN,
                           settled : BOOLEAN, peer : BOOLEAN]]
  /\ ws \in Sockets \cup {NoSocket}
  /\ heartbeat \in BOOLEAN /\ stale \in BOOLEAN
  /\ reconnect \in {"none", "backoff", "auth", "now"}
  /\ attempts \in 0..MaxAttempts
  /\ started \in BOOLEAN /\ stopped \in BOOLEAN /\ fatal \in BOOLEAN
  /\ urlIndex \in Urls
  /\ scheme \in [Urls -> {"http", "https"}]
  /\ token \in BOOLEAN /\ refused \in BOOLEAN

Running   == started /\ ~stopped /\ ~fatal
Unsettled == {s \in Sockets : /\ ~sock[s].settled
                              /\ sock[s].phase # "unused"}
Connected == ws # NoSocket /\ sock[ws].phase = "open"

(* A running client is always after exactly one connection: either one     *)
(* socket whose end has not been handled yet, and it is `ws`, or the        *)
(* reconnect timer.  Never both (two sockets would share the timers), never *)
(* neither (the agent would be lost), although an attempt may report its    *)
(* end twice, as an 'error' or an answer and then as a 'close'.             *)
OnePursuit ==
  Running => IF reconnect = "none" THEN Unsettled = {ws} ELSE Unsettled = {}

(* An open connection of a running client is watched by an armed stale      *)
(* timer, and the timers never outlive the connection they watch.           *)
OpenIsWatched ==
  /\ (Running /\ StaleCheck /\ Connected) => stale
  /\ stale => Connected /\ ~sock[ws].settled
  /\ heartbeat => sock[ws].opened /\ ~sock[ws].settled

(* "The agent will NOT reconnect": after stop() or a terminal error nothing *)
(* is dialled, open or scheduled any more.                                  *)
HaltedIsQuiet ==
  stopped \/ fatal =>
    /\ reconnect = "none" /\ ~heartbeat /\ ~stale
    /\ \A s \in Sockets : sock[s].phase \notin {"dialing", "open"}

(* "A URL that worked is kept until it stops working": only an attempt that *)
(* never got an answer moves the client to the next URL, and by one.        *)
StickyUrl ==
  [][urlIndex' # urlIndex =>
       /\ urlIndex' = Rotated(urlIndex)
       /\ ~sock[ws].opened]_vars

(* The rest of the agent sees a channel that is down, open or halted.       *)
Channel == INSTANCE LiveChannel WITH
  chan <- IF stopped \/ fatal THEN "halted"
          ELSE IF Connected THEN "open" ELSE "down"

ImplementsChannel == Channel!Spec

(* "One dead DNS name or proxy is not the end of it": once the token is     *)
(* good for good, some URL has stopped failing and nothing answers with a   *)
(* status that means "reached, but no", a client nobody stops keeps getting *)
(* its connection back, also from under a peer that vanished without a word. *)
ComesBack ==
  (/\ <>[]token /\ []~stopped /\ []~fatal
   /\ <>[][\A s \in Sockets : ~OtherStatus(s)]_vars
   /\ \E u \in Urls :
        <>[][\A s \in Sockets : DialFails(s) => urlIndex # u]_vars)
  => []<>(Connected /\ sock[ws].peer)

(* "What stops an https server that still redirects from bouncing us in a   *)
(* loop": immediate re-dials come to an end.                                *)
NoHotLoop == <>[](reconnect # "now")

=============================================================================
