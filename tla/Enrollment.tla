------------------------------ MODULE Enrollment ------------------------------
(***************************************************************************)
(* How an agent gets, keeps and loses the token its server knows it by.    *)
(*                                                                         *)
(* Two processes share the token file and the config file: the service,    *)
(* which the service manager starts again whenever it ends (src/index.js,  *)
(* src/bootstrap.js), and the `enroll` command a person or the installer   *)
(* runs beside it (src/cli.js).  Both exchange a one-time code for a token *)
(* (src/enroll.js) and store it (src/tokenStore.js); a delete command wipes *)
(* it (src/selfDelete.js, handleDelete of src/runtime.js).  Neither file is *)
(* written atomically: between opening and writing it holds nothing usable. *)
(*                                                                         *)
(* A code mints one token, so the token is named by its code.  The server, *)
(* the person and the service manager are external.                        *)
(***************************************************************************)
EXTENDS Naturals, FiniteSets

CONSTANTS
  Codes, NoCode,   (* one-time enrolment codes                               *)
  ConfigCode,      (* the code the installer put in the config file          *)
  EnvCode,         (* the code in the unit's environment                     *)
  Docker,          (* the agent runs in a container: it cannot remove itself *)
  EnrolMishaps     (* what may go wrong: "crash", "disk", "answer", "revoke" *)

Procs == {"service", "cli"}
Empty == "empty"   (* no token file, or one that readToken makes nothing of  *)

ASSUME EnrollmentAssumption ==
  /\ NoCode \notin Codes /\ Empty \notin Codes
  /\ {ConfigCode, EnvCode} \subseteq Codes \cup {NoCode}
  /\ Docker \in BOOLEAN
  /\ EnrolMishaps \subseteq {"crash", "disk", "answer", "revoke"}

VARIABLES
  tokenFile,   (* a code, or Empty                                           *)
  conf,        (* the config file: its code and whether it parses            *)
  proc,        (* the two processes                                          *)
  unused, accepted,  (* the server: codes it would take, tokens it accepts   *)
  installed,   (* uninstall.sh has not run                                   *)
  troubles     (* history: what went wrong, and what was asked for           *)

enrolVars == <<tokenFile, conf, proc, unused, accepted, installed, troubles>>

(* found: what readToken returned when the process looked.                  *)
Resting == [at |-> "idle", code |-> NoCode, found |-> Empty, force |-> FALSE]

EnrolInit ==
  /\ tokenFile = Empty
  /\ conf = [code |-> ConfigCode, whole |-> TRUE]
  /\ proc = [p \in Procs |-> Resting]
  /\ unused = Codes /\ accepted = {}
  /\ installed = FALSE
  /\ troubles = {}

At(p, stage) == proc[p].at = stage
Goes(p, stage) == proc' = [proc EXCEPT ![p].at = stage]
Ends(p) == proc' = [proc EXCEPT ![p] = Resting]
Holds(f) == f # Empty

-----------------------------------------------------------------------------
(* The service manager starts the service: loadConfig throws on a config    *)
(* file that does not parse, and ensureToken looks for a token first.       *)
CodeOffered == IF EnvCode # NoCode THEN EnvCode ELSE conf.code

(* Mutant: the service never looks for a stored token.                      *)
StartsToEnrol ==
  /\ installed /\ At("service", "idle") /\ conf.whole
  /\ CodeOffered # NoCode
  /\ proc' = [proc EXCEPT !["service"] =
                [Resting EXCEPT !.at = "asking", !.code = CodeOffered]]
  /\ UNCHANGED <<tokenFile, conf, unused, accepted, installed, troubles>>

ServiceStarts ==
  /\ installed /\ At("service", "idle") /\ conf.whole
  /\ \/ /\ Holds(tokenFile)
        /\ proc' = [proc EXCEPT !["service"] =
                      [Resting EXCEPT !.at = "running", !.code = tokenFile]]
     \/ /\ ~Holds(tokenFile) /\ CodeOffered # NoCode
        /\ proc' = [proc EXCEPT !["service"] =
                      [Resting EXCEPT !.at = "asking", !.code = CodeOffered]]
  /\ UNCHANGED <<tokenFile, conf, unused, accepted, installed, troubles>>

(* A person runs `blueeye-agent enroll --code c`, perhaps with --force.     *)
(* What is already stored is only replaced if the server rejects it.        *)
CliStarts(c, force) ==
  /\ installed /\ At("cli", "idle") /\ conf.whole
  /\ proc' = [proc EXCEPT !["cli"] =
                [at |-> IF Holds(tokenFile) /\ ~force THEN "checking" ELSE "asking",
                 code |-> c, found |-> tokenFile, force |-> force]]
  /\ UNCHANGED <<tokenFile, conf, unused, accepted, installed, troubles>>

(* isTokenAccepted: anything but a 401 leaves the stored token alone.       *)
MayBeRejected(f) == f \notin accepted

Checks ==
  /\ At("cli", "checking")
  /\ \/ MayBeRejected(proc["cli"].found) /\ Goes("cli", "asking")
     \/ Ends("cli")
  /\ UNCHANGED <<tokenFile, conf, unused, accepted, installed, troubles>>

-----------------------------------------------------------------------------
(* POST /agents/enroll, by either process, and what becomes of it.          *)
Enrols(p) ==
  /\ At(p, "asking") /\ proc[p].code \in unused
  /\ unused' = unused \ {proc[p].code}
  /\ accepted' = accepted \cup {proc[p].code}
  /\ Goes(p, "got")
  /\ UNCHANGED <<tokenFile, conf, installed, troubles>>

(* The server enrolled the agent and the agent never hears of it.           *)
AnswerLost(p) ==
  /\ "answer" \in EnrolMishaps
  /\ At(p, "asking") /\ proc[p].code \in unused
  /\ unused' = unused \ {proc[p].code}
  /\ accepted' = accepted \cup {proc[p].code}
  /\ Ends(p)
  /\ troubles' = troubles \cup {"answer"}
  /\ UNCHANGED <<tokenFile, conf, installed>>

(* A used code, or no server in reach: the process ends, nothing is stored. *)
EnrolFails(p) ==
  /\ At(p, "asking")
  /\ Ends(p)
  /\ UNCHANGED <<tokenFile, conf, unused, accepted, installed, troubles>>

Unreached == \E p \in Procs : proc[p].code \in unused /\ EnrolFails(p)

-----------------------------------------------------------------------------
(* saveToken, then the config file: the command first keeps the server's    *)
(* address in it (writeConfigValues), then both drop the code.              *)
(* Mutant: the credentials are used and never saved.                        *)
KeepsInMemory(p) ==
  /\ At(p, "got")
  /\ Goes(p, "drop")
  /\ UNCHANGED <<tokenFile, conf, unused, accepted, installed, troubles>>

OpensToken(p) ==
  /\ At(p, "got")
  /\ tokenFile' = Empty
  /\ Goes(p, "saving")
  /\ UNCHANGED <<conf, unused, accepted, installed, troubles>>

WritesToken(p) ==
  /\ At(p, "saving")
  /\ \/ /\ tokenFile' = proc[p].code
        /\ Goes(p, IF p = "cli" THEN "keep" ELSE "drop")
        /\ UNCHANGED troubles
     \/ /\ "disk" \in EnrolMishaps
        /\ troubles' = troubles \cup {"disk"}
        /\ Ends(p) /\ UNCHANGED tokenFile
  /\ UNCHANGED <<conf, unused, accepted, installed>>

(* What the process goes on to once the config file is dealt with.          *)
Onward(p) == IF p = "service" THEN Goes(p, "running") ELSE Ends(p)

(* Nothing to write.                                                        *)
ConfigLeft(p) ==
  /\ conf.whole
  /\ \/ At(p, "keep") /\ Goes(p, "drop")
     \/ At(p, "drop") /\ conf.code = NoCode /\ Onward(p)
  /\ UNCHANGED <<tokenFile, conf, unused, accepted, installed, troubles>>

(* readConfigFile throws on a file that does not parse and ends the process. *)
OpensConfig(p) ==
  /\ At(p, "keep") \/ At(p, "drop")
  /\ \/ ~conf.whole /\ Ends(p) /\ UNCHANGED conf
     \/ /\ conf.whole /\ (At(p, "drop") => conf.code # NoCode)
        /\ conf' = [conf EXCEPT !.whole = FALSE]
        /\ Goes(p, IF At(p, "keep") THEN "keeping" ELSE "dropping")
  /\ UNCHANGED <<tokenFile, unused, accepted, installed, troubles>>

WritesConfig(p) ==
  /\ proc[p].at \in {"keeping", "dropping"}
  /\ conf' = [code |-> IF At(p, "keeping") THEN conf.code ELSE NoCode,
              whole |-> TRUE]
  /\ IF At(p, "keeping") THEN Goes(p, "drop") ELSE Onward(p)
  /\ UNCHANGED <<tokenFile, unused, accepted, installed, troubles>>

-----------------------------------------------------------------------------
(* The service ends and is started again: a signal (shutdown), an exception *)
(* (fatalExit), a token the server refuses (onFatal of the runtime).        *)
ServiceEnds ==
  /\ At("service", "running")
  /\ Ends("service")
  /\ UNCHANGED <<tokenFile, conf, unused, accepted, installed, troubles>>

(* A process dies in the middle of what it is doing.                        *)
Dies(p) ==
  /\ "crash" \in EnrolMishaps
  /\ proc[p].at \in {"got", "saving", "keeping", "dropping"}
  /\ Ends(p)
  /\ troubles' = troubles \cup {"crash"}
  /\ UNCHANGED <<tokenFile, conf, unused, accepted, installed>>

(* handleDelete: the token is overwritten and unlinked, a failure of that   *)
(* is only logged, and a detached uninstall.sh follows, if it can.          *)
Wipes ==
  /\ At("service", "running") /\ ~Docker
  /\ tokenFile' \in {Empty} \cup (IF "disk" \in EnrolMishaps THEN {tokenFile} ELSE {})
  /\ Goes("service", "leaving")
  /\ troubles' = troubles \cup {"deleted"}
  /\ UNCHANGED <<conf, unused, accepted, installed>>

(* install.sh puts the agent, its unit and its configuration in place.        *)
Installed ==
  /\ ~installed /\ "deleted" \notin troubles
  /\ installed' = TRUE
  /\ UNCHANGED <<tokenFile, conf, proc, unused, accepted, troubles>>

Removed ==
  /\ At("service", "leaving")
  /\ installed' \in {FALSE, TRUE}
  /\ Ends("service")
  /\ UNCHANGED <<tokenFile, conf, unused, accepted, troubles>>

(* The server forgets an agent.                                             *)
Revoked ==
  /\ "revoke" \in EnrolMishaps /\ accepted # {}
  /\ \E c \in accepted : accepted' = accepted \ {c}
  /\ troubles' = troubles \cup {"revoked"}
  /\ UNCHANGED <<tokenFile, conf, proc, unused, installed>>

ProcSteps(p) ==
  \/ Enrols(p) \/ AnswerLost(p) \/ EnrolFails(p)
  \/ OpensToken(p) \/ WritesToken(p)
  \/ ConfigLeft(p) \/ OpensConfig(p) \/ WritesConfig(p)
  \/ Dies(p)

EnrolNext ==
  \/ Installed \/ ServiceStarts \/ ServiceEnds \/ Wipes \/ Removed \/ Revoked
  \/ Checks
  \/ \E c \in Codes, force \in BOOLEAN : CliStarts(c, force)
  \/ \E p \in Procs : ProcSteps(p)

(* The service manager keeps starting the service (Restart=always, no start *)
(* limit) and what a process has begun it carries on with.                  *)
EnrolFair ==
  /\ WF_enrolVars(ServiceStarts)
  /\ \A p \in Procs :
       WF_enrolVars(Enrols(p) \/ EnrolFails(p) \/ OpensToken(p) \/ WritesToken(p)
                    \/ ConfigLeft(p) \/ OpensConfig(p) \/ WritesConfig(p))

EnrolSpec == EnrolInit /\ [][EnrolNext]_enrolVars /\ EnrolFair

-----------------------------------------------------------------------------
EnrolTypeOK ==
  /\ tokenFile \in Codes \cup {Empty}
  /\ conf \in [code : Codes \cup {NoCode}, whole : BOOLEAN]
  /\ proc \in [Procs -> [at : {"idle", "checking", "asking", "got", "saving",
                               "keep", "keeping", "drop", "dropping", "running",
                               "leaving"},
                         code : Codes \cup {NoCode},
                         found : Codes \cup {Empty}, force : BOOLEAN]]
  /\ unused \subseteq Codes /\ accepted \subseteq Codes
  /\ installed \in BOOLEAN
  /\ troubles \subseteq {"answer", "disk", "crash", "deleted", "revoked"}

Occupied == \E p \in Procs : proc[p].at \notin {"idle", "running", "checking", "asking"}

(* A code spent is a token kept: once the server has enrolled this agent,   *)
(* and whenever neither process is in the middle of storing it, there is a  *)
(* whole token on disk and a config file the service can start from.  Only  *)
(* a lost answer, a disk that would not take it or a death in the window    *)
(* between the two (src/bootstrap.js:42) strands the host, or a delete.     *)
SpentIsKept ==
  /\ EnrolTypeOK
  /\ unused # Codes /\ ~Occupied /\ troubles \subseteq {"revoked"}
       => Holds(tokenFile) /\ conf.whole

(* The agent gets to work by itself: with a code only it uses, a server it  *)
(* can reach in the end and nothing lost, it is running again and again.    *)
GetsToWork ==
  (/\ [](troubles = {}) /\ [](At("cli", "idle")) /\ <>installed
   /\ <>[][~Unreached]_enrolVars
   /\ CodeOffered # NoCode)
  => []<>At("service", "running")
=============================================================================
