----------------------------- MODULE ProcessEnd -----------------------------
(* The life of the agent process, and above all its end: main() and exit()   *)
(* of src/src/index.js, lib/crashGuard.js, shutdown.js.                      *)
(*                                                                           *)
(* Nothing here forces the process to end at once: exit() sets the exit      *)
(* code, closes what it can within a cap, and arms a timer that forces the   *)
(* end if the event loop has not drained by then.  Signals, the terminal     *)
(* state, exceptions and rejections arrive at any moment, also while the     *)
(* process is already ending, and each may call exit() again.                *)
(*                                                                           *)
(* A delay is a step that fairness makes happen.  Left out: what main() does *)
(* before the runtime beyond whether it succeeds (Enrollment, RestCalls and  *)
(* SelfUpdate have that), and the help and doctor commands, which end as     *)
(* "enroll" does.                                                            *)
EXTENDS Integers, Sequences

CONSTANTS MaxExits       (* bound: calls of exit()                           *)

ASSUME EndAssumption == MaxExits \in Nat \ {0}

VARIABLES
  stage,       (* "starting", "running" (the runtime and all handlers exist),*)
               (* "ended"                                                    *)
  command,     (* what was started: "agent" or "enroll"                      *)
  exitCode,    (* process.exitCode                                           *)
  calls,       (* the calls of exit(): [code, at], at "closing" or "waiting" *)
  fatalHandled,
  teardown,    (* onFatal after an exception: "none", "running", "over"      *)
  capped,      (* the timer of that teardown is armed                        *)
  loop,        (* something keeps the event loop alive                       *)
  cause        (* what has asked for the end so far                          *)

endVars == <<stage, command, exitCode, calls, fatalHandled, teardown, capped, loop, cause>>

EndInit ==
  /\ stage = "starting" /\ command \in {"agent", "enroll"}
  /\ exitCode = 0 /\ calls = <<>>
  /\ fatalHandled = FALSE /\ teardown = "none" /\ capped = FALSE
  /\ loop = TRUE /\ cause = {}

Going == stage # "ended"

(* exit(code).  In the mutant the code is only set by the backstop.          *)
ExitsLater(code) ==
  /\ calls' = Append(calls, [code |-> code, at |-> "closing"])
  /\ UNCHANGED exitCode

CallsExit(code) ==
  /\ exitCode' = code
  /\ calls' = Append(calls, [code |-> code, at |-> "closing"])

Room == Len(calls) < MaxExits

-----------------------------------------------------------------------------
(* main(), up to the runtime.  Whatever it throws ends the process at once,  *)
(* as do a signal, an exception and a rejection before the handlers exist.   *)
MainEnds(code) ==
  /\ stage = "starting" /\ calls = <<>> /\ Room
  /\ command = "enroll" \/ code = 1
  /\ CallsExit(code)
  /\ cause' = cause \cup {IF code = 0 THEN "done" ELSE "failure"}
  /\ UNCHANGED <<stage, command, fatalHandled, teardown, capped, loop>>

MainRuns ==
  /\ stage = "starting" /\ command = "agent" /\ calls = <<>>
  /\ stage' = "running"
  /\ UNCHANGED <<command, exitCode, calls, fatalHandled, teardown, capped, loop, cause>>

MainDies(why) ==
  /\ stage = "starting" /\ why \in {"signal", "exception", "rejection"}
  /\ stage' = "ended" /\ exitCode' = 1
  /\ cause' = cause \cup {why}
  /\ UNCHANGED <<command, calls, fatalHandled, teardown, capped, loop>>

(* The runtime has stopped by itself (a rejected token), or a signal stops   *)
(* it: what kept the loop alive is let go, or most of it is.                 *)
LetsGo == loop' \in {loop, FALSE}

Fatal ==
  /\ stage = "running" /\ Room /\ "fatal" \notin cause
  /\ CallsExit(1) /\ LetsGo
  /\ cause' = cause \cup {"fatal"}
  /\ UNCHANGED <<stage, command, fatalHandled, teardown, capped>>

Signal ==
  /\ stage = "running" /\ Room
  /\ CallsExit(0) /\ LetsGo
  /\ cause' = cause \cup {"signal"}
  /\ UNCHANGED <<stage, command, fatalHandled, teardown, capped>>

(* onException: the first starts a teardown under a timer, one that comes    *)
(* meanwhile goes straight to the exit.                                      *)
FirstException ==
  /\ stage = "running" /\ ~fatalHandled
  /\ fatalHandled' = TRUE /\ teardown' = "running" /\ capped' = TRUE
  /\ cause' = cause \cup {"exception"}
  /\ UNCHANGED <<stage, command, exitCode, calls, loop>>

NextException ==
  /\ stage = "running" /\ fatalHandled /\ Room
  /\ CallsExit(1)
  /\ UNCHANGED <<stage, command, fatalHandled, teardown, capped, loop, cause>>

(* onFatal: runtime.stop(), whose own errors are swallowed; then done().     *)
TornDown ==
  /\ Going /\ teardown = "running" /\ Room
  /\ teardown' = "over" /\ CallsExit(1) /\ LetsGo
  /\ UNCHANGED <<stage, command, fatalHandled, capped, cause>>

(* The timer of the teardown is not taken back by its end.                   *)
TeardownTimesOut ==
  /\ Going /\ capped /\ Room
  /\ capped' = FALSE /\ CallsExit(1)
  /\ UNCHANGED <<stage, command, fatalHandled, teardown, loop, cause>>

-----------------------------------------------------------------------------
(* closeNetworkHandles: the dispatcher closes, or the cap passes.            *)
Closed(c) ==
  /\ Going /\ calls[c].at = "closing"
  /\ calls' = [calls EXCEPT ![c].at = "waiting"]
  /\ LetsGo
  /\ UNCHANGED <<stage, command, exitCode, fatalHandled, teardown, capped, cause>>

CapPasses(c) ==
  /\ Going /\ calls[c].at = "closing"
  /\ calls' = [calls EXCEPT ![c].at = "waiting"]
  /\ UNCHANGED <<stage, command, exitCode, fatalHandled, teardown, capped, loop, cause>>

(* The backstop of a call forces the end with the code of that call.         *)
Backstop(c) ==
  /\ Going /\ calls[c].at = "waiting"
  /\ stage' = "ended" /\ exitCode' = calls[c].code
  /\ UNCHANGED <<command, calls, fatalHandled, teardown, capped, loop, cause>>

(* With nothing left that keeps it, the loop ends: timers that are unref'd   *)
(* do not.                                                                   *)
Drains ==
  /\ Going /\ ~loop /\ teardown # "running"
  /\ stage' = "ended"
  /\ UNCHANGED <<command, exitCode, calls, fatalHandled, teardown, capped, loop, cause>>

EndNext ==
  \/ \E code \in {0, 1} : MainEnds(code)
  \/ MainRuns \/ Fatal \/ Signal
  \/ \E why \in {"signal", "exception", "rejection"} : MainDies(why)
  \/ FirstException \/ NextException \/ TornDown \/ TeardownTimesOut
  \/ \E c \in DOMAIN calls : Closed(c) \/ CapPasses(c) \/ Backstop(c)
  \/ Drains

(* The timers of the cap, of the backstop and of the teardown fire; whether  *)
(* the dispatcher ever closes and the loop ever drains is left open.         *)
EndFairness ==
  /\ \A c \in 1..MaxExits :
       /\ WF_endVars(c \in DOMAIN calls /\ CapPasses(c))
       /\ WF_endVars(c \in DOMAIN calls /\ Backstop(c))
  /\ WF_endVars(TeardownTimesOut)

EndSpec == EndInit /\ [][EndNext]_endVars /\ EndFairness

-----------------------------------------------------------------------------
EndTypeOK ==
  /\ stage \in {"starting", "running", "ended"} /\ command \in {"agent", "enroll"}
  /\ exitCode \in {0, 1} /\ Len(calls) <= MaxExits
  /\ \A c \in DOMAIN calls : calls[c].code \in {0, 1} /\ calls[c].at \in {"closing", "waiting"}
  /\ fatalHandled \in BOOLEAN /\ capped \in BOOLEAN /\ loop \in BOOLEAN
  /\ teardown \in {"none", "running", "over"}
  /\ cause \subseteq {"signal", "fatal", "exception", "rejection", "failure", "done"}

(* The exit code says how it ended, whichever of several calls, the drained  *)
(* loop or a backstop was the last: work that succeeded is no failure        *)
(* (index.js:19-33), and what failed does not look like a stop that was      *)
(* asked for.                                                                *)
CodeIsTrue ==
  stage = "ended" =>
    /\ cause \subseteq {"done"} => exitCode = 0
    /\ exitCode = 0 => cause \cap {"done", "signal"} # {}

(* A process that has been told to end, or that has lost its way, ends:      *)
(* although connections do not close, the loop does not drain and it is told *)
(* again ("may not be trusted to return -- we exit on the timeout            *)
(* regardless", crashGuard.js:45).                                           *)
EndsWhenTold == cause # {} ~> stage = "ended"

EndIsKept == [](EndTypeOK /\ CodeIsTrue) /\ EndsWhenTold
=============================================================================
