-------------------------------- MODULE GoLink --------------------------------
(***************************************************************************)
(* The live channel of the Go rewrite: internal/wsclient/wsclient.go, the     *)
(* delays of internal/backoff/backoff.go and what main.go does on connect.   *)
(*                                                                         *)
(* The goroutines are Run with its read loop, a heartbeat for each           *)
(* connection, which its context stops at its next turn, and one for each    *)
(* greeting that reports the capabilities, fetches the configuration and     *)
(* asks for the definitions.  A step is what one of them does between two    *)
(* waits.  Only heartbeats and requests are written, and a write blocks at   *)
(* worst until the system gives the connection up: it is one step.          *)
(*                                                                         *)
(* A connection has no deadline for reading: a peer that vanished without a  *)
(* word is noticed by what was written and never acknowledged.  A connection *)
(* left is not closed but dropped.  Not modelled: the pin, which makes a     *)
(* dial fail; the frames that arrive (GoCollectors, GoUpgrade).             *)
(***************************************************************************)
EXTENDS Naturals

CONSTANTS
  Conns,         (* connections; one that nothing holds is used again       *)
  NoConn,
  MaxDelay       (* bound: the attempt from which the delay no longer grows  *)

ASSUME GoLinkAssumption == NoConn \notin Conns /\ MaxDelay \in Nat \ {0}

VARIABLES
  process,  (* "ready", "up", "stopping" (context cancelled) or "over"           *)
  rejected,
  runAt,    (* Run: "dial", "serve", "wait" or "returned"                 *)
  attempt,
  conn,     (* the connection writes go to: Client.conn                     *)
  wire,     (* of each connection: "none", "open", "gone" (peer vanished) or *)
            (* "dead"                                                        *)
  beat,     (* the heartbeat of each: "none", "on" or "cancelled"            *)
  unacked,  (* connections with something written their peer never saw       *)
  greeting, (* of each connection: its goroutine's next call                 *)
  asked,    (* connections over which the definitions were requested         *)
  unauthorised   (* history: the last dial was answered with a 401            *)

wireVars == <<wire, beat, unacked, greeting, asked>>
goLinkVars == <<process, rejected, runAt, attempt, conn, wireVars, unauthorised>>

GoLinkInit ==
  /\ process = "ready" /\ rejected = FALSE /\ runAt = "dial" /\ attempt = 0 /\ conn = NoConn
  /\ wire = [c \in Conns |-> "none"] /\ beat = [c \in Conns |-> "none"]
  /\ unacked = {} /\ greeting = [c \in Conns |-> "none"] /\ asked = {}
  /\ unauthorised = FALSE

Lives == process \in {"up", "stopping"}

-----------------------------------------------------------------------------
(* A dial has been answered.                                                *)
Unheld == {c \in Conns : c # conn /\ beat[c] = "none" /\ greeting[c] = "none"}

DialOpens ==
  /\ Lives /\ runAt = "dial"
  /\ \E c \in Unheld :
       /\ conn' = c
       /\ wire' = [wire EXCEPT ![c] = "open"] /\ beat' = [beat EXCEPT ![c] = "on"]
       /\ unacked' = unacked \ {c} /\ asked' = asked \ {c}
  /\ runAt' = "serve" /\ unauthorised' = FALSE
  /\ UNCHANGED <<process, rejected, attempt, greeting>>

(* Mutant: the client tries again, the agent being what gives up.            *)
GivesNothingUp == runAt' = "wait" /\ attempt' = attempt
GivesUp == runAt' = "returned" /\ UNCHANGED attempt

Dial401 ==
  /\ Lives /\ runAt = "dial"
  /\ rejected' = TRUE /\ unauthorised' = TRUE
  /\ process' = "stopping"          (* OnFatal cancels the context           *)
  /\ GivesUp
  /\ UNCHANGED <<conn, wireVars>>

(* The delay is not reset by a connection.                                  *)
BacksOff ==
  IF process = "stopping" THEN runAt' = "returned" /\ UNCHANGED attempt
  ELSE runAt' = "wait" /\ attempt' = IF attempt = MaxDelay THEN MaxDelay ELSE attempt + 1

DialRefused ==
  /\ Lives /\ runAt = "dial"
  /\ BacksOff
  /\ UNCHANGED <<process, rejected, conn, wireVars, unauthorised>>

DelayOver ==
  /\ Lives /\ runAt = "wait"
  /\ runAt' = IF process = "stopping" THEN "returned" ELSE "dial"
  /\ UNCHANGED <<process, rejected, attempt, conn, wireVars, unauthorised>>

(* The read fails; the connection's context is cancelled on the way out.     *)
ReadEnds ==
  /\ Lives /\ runAt = "serve" /\ wire[conn] = "dead"
  /\ beat' = [beat EXCEPT ![conn] = IF @ = "on" THEN "cancelled" ELSE @]
  /\ BacksOff
  /\ UNCHANGED <<process, rejected, conn, wire, unacked, greeting, asked, unauthorised>>

-----------------------------------------------------------------------------
(* What is written goes to the connection there is.                          *)
WrittenTo ==
  IF conn # NoConn /\ wire[conn] = "gone" THEN unacked' = unacked \cup {conn}
  ELSE UNCHANGED unacked

(* Mutant: the heartbeat is over with the function that started it.          *)
BeatOnce(c) == beat[c] # "none" /\ WrittenTo /\ beat' = [beat EXCEPT ![c] = "none"]
Beats(c) ==
  /\ beat[c] # "none"        (* a cancelled one may find its ticker first     *)
  /\ WrittenTo /\ UNCHANGED beat

Heartbeat(c) ==
  /\ Lives /\ Beats(c)
  /\ UNCHANGED <<process, rejected, runAt, attempt, conn, wire, greeting, asked, unauthorised>>

HeartbeatEnds(c) ==
  /\ Lives /\ (beat[c] = "cancelled" \/ (beat[c] = "on" /\ process = "stopping"))
  /\ beat' = [beat EXCEPT ![c] = "none"]
  /\ UNCHANGED <<process, rejected, runAt, attempt, conn, wire, unacked, greeting, asked,
                 unauthorised>>

(* The server's greeting.  Each greeting has its goroutine; here a second    *)
(* one for a connection waits for the first.                                 *)
Greeted ==
  /\ Lives /\ runAt = "serve" /\ wire[conn] = "open" /\ greeting[conn] = "none"
  /\ conn \notin asked
  /\ greeting' = [greeting EXCEPT ![conn] = "capabilities"]
  /\ UNCHANGED <<process, rejected, runAt, attempt, conn, wire, beat, unacked, asked,
                 unauthorised>>

Onwards(c) ==
  greeting' = [greeting EXCEPT ![c] = IF @ = "capabilities" THEN "config" ELSE "request"]

CallOver(c) ==
  /\ Lives /\ greeting[c] \in {"capabilities", "config"}
  /\ Onwards(c)
  /\ UNCHANGED <<process, rejected, runAt, attempt, conn, wire, beat, unacked, asked,
                 unauthorised>>

Requests(c) ==
  /\ Lives /\ greeting[c] = "request"
  /\ greeting' = [greeting EXCEPT ![c] = "none"]
  /\ asked' = IF wire[conn] = "open" THEN asked \cup {conn} ELSE asked
  /\ WrittenTo
  /\ UNCHANGED <<process, rejected, runAt, attempt, conn, wire, beat, unauthorised>>

-----------------------------------------------------------------------------
(* The network: a peer closes or vanishes; the system gives up what it never *)
(* acknowledged.                                                            *)
PeerCloses(c) ==
  /\ wire[c] \in {"open", "gone"}
  /\ wire' = [wire EXCEPT ![c] = "dead"]
  /\ UNCHANGED <<process, rejected, runAt, attempt, conn, beat, unacked, greeting, asked,
                 unauthorised>>
PeerGone(c) ==
  /\ wire[c] = "open"
  /\ wire' = [wire EXCEPT ![c] = "gone"]
  /\ UNCHANGED <<process, rejected, runAt, attempt, conn, beat, unacked, greeting, asked,
                 unauthorised>>
GivenUp(c) ==
  /\ wire[c] = "gone" /\ c \in unacked
  /\ wire' = [wire EXCEPT ![c] = "dead"]
  /\ UNCHANGED <<process, rejected, runAt, attempt, conn, beat, unacked, greeting, asked,
                 unauthorised>>

MainRuns ==
  /\ process = "ready" /\ process' = "up"
  /\ UNCHANGED <<rejected, runAt, attempt, conn, wireVars, unauthorised>>

Signalled ==
  /\ process = "up" /\ process' = "stopping"
  /\ UNCHANGED <<rejected, runAt, attempt, conn, wireVars, unauthorised>>

(* main returns, and everything is over.                                     *)
MainReturns ==
  /\ process = "stopping" /\ process' = "over"
  /\ wire' = [c \in Conns |-> IF wire[c] = "none" THEN "none" ELSE "dead"]
  /\ runAt' = "returned"
  /\ UNCHANGED <<rejected, attempt, conn, beat, unacked, greeting, asked, unauthorised>>

GoLinkNext ==
  \/ DialOpens \/ Dial401 \/ DialRefused \/ DelayOver \/ ReadEnds \/ Greeted
  \/ \E c \in Conns :
       \/ Heartbeat(c) \/ HeartbeatEnds(c) \/ CallOver(c) \/ Requests(c)
       \/ PeerCloses(c) \/ PeerGone(c) \/ GivenUp(c)
  \/ MainRuns \/ Signalled \/ MainReturns

(* A handshake and a call have a timeout, a ticker ticks, a cancelled context *)
(* is seen in the end, and the system gives up what is never acknowledged.    *)
GoLinkFair ==
  /\ WF_goLinkVars(DialOpens \/ Dial401 \/ DialRefused)
  /\ WF_goLinkVars(DelayOver) /\ WF_goLinkVars(ReadEnds)
  /\ \A c \in Conns :
       /\ WF_goLinkVars(Heartbeat(c)) /\ SF_goLinkVars(HeartbeatEnds(c))
       /\ WF_goLinkVars(CallOver(c) \/ Requests(c)) /\ WF_goLinkVars(GivenUp(c))
GoLinkSpec == GoLinkInit /\ [][GoLinkNext]_goLinkVars /\ GoLinkFair

-----------------------------------------------------------------------------
GoLinkTypeOK ==
  /\ process \in {"ready", "up", "stopping", "over"} /\ rejected \in BOOLEAN
  /\ runAt \in {"dial", "serve", "wait", "returned"} /\ attempt \in 0..MaxDelay
  /\ conn \in Conns \cup {NoConn} /\ unacked \subseteq Conns /\ asked \subseteq Conns
  /\ wire \in [Conns -> {"none", "open", "gone", "dead"}]
  /\ beat \in [Conns -> {"none", "on", "cancelled"}]
  /\ greeting \in [Conns -> {"none", "capabilities", "config", "request"}]
  /\ unauthorised \in BOOLEAN

(* The rewrite keeps the promise of the JavaScript agent's channel: a 401 is  *)
(* the end of it, and nothing else but the end of the process is.            *)
GoChannel == INSTANCE LiveChannel WITH
  AuthRetry <- FALSE,
  chan <- IF runAt = "serve" THEN "open"
          ELSE IF runAt = "returned" THEN "halted" ELSE "down",
  refused <- unauthorised
GoImplementsChannel == []GoLinkTypeOK /\ GoChannel!Spec

(* While the process lasts and a server takes it in the end, the agent is     *)
(* connected to a peer that is there again and again, although nothing times  *)
(* a read out; and a connection that greeted it and lasts is asked for the    *)
(* definitions, whatever became of the calls before.                         *)
Endures(c) == conn = c /\ runAt = "serve" /\ wire[c] = "open" /\ process = "up"
GoComesBack ==
  /\ (/\ []~rejected /\ <>[](process = "up")
      /\ <>[][~(runAt = "dial" /\ runAt' = "wait")]_goLinkVars)
     => []<>(\E c \in Conns : Endures(c))
  /\ \A c \in Conns : (greeting[c] # "none" /\ Endures(c)) ~> (c \in asked \/ ~Endures(c))
=============================================================================
