---------------------------- MODULE MCAgentLink ----------------------------
(* The live channel (AgentLink), with what the far ends of two URLs may       *)
(* answer, the commands that come over it (CommandDispatch), and the channel  *)
(* of the Go rewrite (GoLink).  They share no state, so a behaviour is of one *)
(* of them, and `part` says of which.                                        *)
EXTENDS AgentLink, GoLink, CommandDispatch, TLC

CONSTANTS s1, s2, s3, o1, o2, o3, o4, o5, o6

ThreeSockets == {s1, s2, s3}

FirstHttp == [u \in 0..1 |-> IF u = 0 THEN "http" ELSE "https"]

Far(answers) == [c \in {"http", "https"} |-> answers]

(* The http URL redirects or is broken, its https form may do anything; the *)
(* second URL is the server, refuses or cannot be pinned.                  *)
Anything ==
  (0 :> [http |-> {"redirect", "status", "error"},
         https |-> {"serve", "redirect", "status", "error"}])
  @@ (1 :> Far({"serve", "error", "unpinnable"}))

(* Two bursts and a stop, and a command of each of the other slow kinds.    *)
MCKindOf ==
  (o1 :> "burst") @@ (o2 :> "burst") @@ (o3 :> "stop")
  @@ (o4 :> "evidence") @@ (o5 :> "install") @@ (o6 :> "delete")

VARIABLE part

otherVars == <<goLinkVars, dispatchVars>>

ChannelsInit ==
  /\ part \in {"agent", "rewrite", "commands"}
  /\ Init /\ GoLinkInit /\ DispatchInit
  /\ part = "agent" \/ token

ChannelsNext ==
  /\ UNCHANGED part
  /\ \/ part = "agent" /\ Next /\ UNCHANGED otherVars
     \/ part = "rewrite" /\ GoLinkNext /\ UNCHANGED <<vars, dispatchVars>>
     \/ part = "commands" /\ DispatchNext /\ UNCHANGED <<vars, goLinkVars>>

ChannelsSpec ==
  /\ ChannelsInit /\ [][ChannelsNext]_<<part, vars, otherVars>>
  /\ (part = "agent" => Fairness) /\ GoLinkFair /\ DispatchFair

(* The channel comes back, and does not hammer a server meanwhile.          *)
AgentComesBack == part = "agent" => ComesBack /\ NoHotLoop
=============================================================================
