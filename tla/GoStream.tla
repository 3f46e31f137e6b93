------------------------------- MODULE GoStream -------------------------------
(***************************************************************************)
(* The persistent interpreter of the Go rewrite: StreamRunner of             *)
(* blueeye-agent-go/internal/collector/stream.go.                           *)
(*                                                                         *)
(* One process reads bodies from its standard input and frames the output    *)
(* of each with an end marker that carries its token.  Run holds the mutex   *)
(* of the runner from its first line to its return, so that one body at a    *)
(* time is waited for, on behalf of whichever collector asked.  A body       *)
(* writes one line here; sizes and truncation are left out.                  *)
(***************************************************************************)
EXTENDS Naturals, Sequences, SequencesExt

CONSTANT MaxRuns      (* bound: calls of Run                                *)

ASSUME StreamAssumption == MaxRuns \in Nat

Tokens == 1..MaxRuns
Line(t) == [of |-> t, end |-> FALSE]
End(t)  == [of |-> t, end |-> TRUE]

NoSession == [on |-> FALSE, alive |-> FALSE, asked |-> <<>>, out |-> <<>>, left |-> FALSE]
StreamFresh == [NoSession EXCEPT !.on = TRUE, !.alive = TRUE]
NoRun == [token |-> 0, got |-> <<>>]

VARIABLES
  sess,    (* the session: asked, bodies the interpreter has not finished;    *)
           (* out, lines on their way; left (history): a Run left it early   *)
  seq,     (* the last token given out                                       *)
  running, (* the Run that holds the mutex                                   *)
  result   (* history: what the last Run that succeeded returned             *)

streamVars == <<sess, seq, running, result>>

Nothing == [token |-> 0, got |-> <<>>, left |-> FALSE]

StreamInit == sess = NoSession /\ seq = 0 /\ running = NoRun /\ result = Nothing

(* Run: a session is started if there is none (which may fail), the body is  *)
(* written (which fails, and ends the session, when the process is gone).    *)
Runs ==
  /\ running = NoRun /\ seq < MaxRuns
  /\ \/ /\ sess.on /\ ~sess.alive
        /\ sess' = NoSession /\ seq' = seq + 1 /\ UNCHANGED running
     \/ LET s == IF sess.on THEN sess ELSE StreamFresh IN
          /\ s.alive
          /\ sess' = [s EXCEPT !.asked = Append(@, seq + 1)]
          /\ seq' = seq + 1
          /\ running' = [token |-> seq + 1, got |-> <<>>]
  /\ UNCHANGED result

(* The interpreter: the line of the oldest body, then its end marker.        *)
Evaluates ==
  /\ sess.alive /\ sess.asked # <<>>
  /\ LET t == Head(sess.asked) IN
       \/ sess' = [sess EXCEPT !.out = @ \o <<Line(t), End(t)>>, !.asked = Tail(@)]
       \/ /\ running.token = t
          /\ sess' = [sess EXCEPT !.alive = FALSE, !.out = Append(@, Line(t))]
  /\ UNCHANGED <<seq, running, result>>

SessionDies ==
  /\ sess.alive
  /\ sess' = [sess EXCEPT !.alive = FALSE]
  /\ UNCHANGED <<seq, running, result>>

Waiting == running # NoRun

(* A line arrives: any end marker but its own is output like another.        *)
Reads ==
  /\ Waiting /\ sess.out # <<>>
  /\ LET l == Head(sess.out) IN
       IF l = End(running.token)
       THEN /\ result' = [token |-> running.token, got |-> running.got, left |-> sess.left]
            /\ running' = NoRun
       ELSE /\ running' = [running EXCEPT !.got = Append(@, l)]
            /\ UNCHANGED result
  /\ sess' = [sess EXCEPT !.out = Tail(@)]
  /\ UNCHANGED seq

(* killLocked: the next Run starts afresh.                                   *)
Killed(s) == NoSession

TimesOut ==
  /\ Waiting
  /\ sess' = Killed(sess) /\ running' = NoRun
  /\ UNCHANGED <<seq, result>>

(* The process is gone: select may see that before the lines that are left.  *)
SeesDeath ==
  /\ Waiting /\ ~sess.alive
  /\ sess' = NoSession /\ running' = NoRun
  /\ UNCHANGED <<seq, result>>

(* The collector is cancelled (its definition left this host): Run returns   *)
(* and the session stays, with what it still has to say.                     *)
Cancelled ==
  /\ Waiting
  /\ sess' = [sess EXCEPT !.left = TRUE] /\ running' = NoRun
  /\ UNCHANGED <<seq, result>>

(* Close.                                                                   *)
Closes ==
  /\ ~Waiting /\ sess.on
  /\ sess' = NoSession
  /\ UNCHANGED <<seq, running, result>>

StreamNext ==
  Runs \/ Evaluates \/ SessionDies \/ Reads \/ TimesOut \/ SeesDeath \/ Cancelled \/ Closes

StreamSpec == StreamInit /\ [][StreamNext]_streamVars

-----------------------------------------------------------------------------
StreamTypeOK ==
  /\ sess.out \in Seq([of : Tokens, end : BOOLEAN])
  /\ sess.asked \in Seq(Tokens)
  /\ seq \in 0..MaxRuns /\ running.token \in 0..MaxRuns

(* What a Run returns is the whole output of its own body and of no other,   *)
(* through processes that die and bodies that stall, unless an earlier Run   *)
(* of the session was cancelled.                                            *)
OwnOutput ==
  result.token # 0 /\ ~result.left => result.got = <<Line(result.token)>>
=============================================================================
