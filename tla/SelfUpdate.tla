----------------------------- MODULE SelfUpdate -----------------------------
(***************************************************************************)
(* Blue/green self-update (src/selfUpdate.js) and the guard that rolls back *)
(* a release that never proves itself (src/release/releaseGuard.js): the    *)
(* release directories, the `current` link, `.previous` and `.pending` on   *)
(* disk; the agent process with its confirmation timer; the commands being  *)
(* served; and the service manager that starts the process again.           *)
(*                                                                          *)
(* An install is synchronous: nothing else runs in the process between its  *)
(* steps, but the host may die there.  Everything else interleaves.         *)
(*                                                                          *)
(* `mishaps` says what can go wrong on the host; each behaviour keeps the   *)
(* set it starts with.                                                      *)
(*   crash     the host dies between two steps of an install, or of the     *)
(*             guard's rollback                                             *)
(*   restart   the service manager refuses the restart after an install     *)
(*   hasty     an update is ordered while the running release is unproven   *)
(*   overlap   an update is ordered while one to another release downloads  *)
(*   twice     an update is ordered while one to the same release downloads *)
(*   reinstall an update to the very release that is current, or that a     *)
(*             pending rollback would restore, is ordered                   *)
(*   disk      a marker file cannot be written and stays as it is           *)
(*   flap      a release that cannot hold a connection survives losing it   *)
(*                                                                          *)
(* handleUpdate has no notion of an update in progress: every command        *)
(* downloads on its own and installs when its download is complete, also     *)
(* between another one's restart request and the end of the process.         *)
(*                                                                          *)
(* Not modelled: the in-place layout, the verification of the download      *)
(* (one failure stands for all), a hand edit of the release directories.    *)
(***************************************************************************)
EXTENDS Naturals, FiniteSets
LOCAL INSTANCE Functions

CONSTANTS
  Versions,      (* the releases there are; compareVersions orders them       *)
  First,         (* the release installed and running at first                *)
  Loads,         (* those whose code parses and starts                        *)
  Works,         (* those that come up and hold a connection                  *)
  Supervisors,   (* the service managers considered                           *)
  Worlds,        (* the sets of mishaps considered                            *)
  Limit,         (* DEFAULT_ATTEMPTS                                          *)
  KeepReleases,  (* keepReleases                                              *)
  MaxDownloads   (* bound: update commands that download at once              *)

NoRelease == 0
Names == Versions \union {NoRelease}
Guarded == {"systemd", "launchd", "windows-service"}
Mishaps == {"crash", "restart", "hasty", "overlap", "twice", "reinstall",
            "disk", "flap"}

ASSUME UpdateAssumption ==
  /\ Versions \subseteq Nat \ {NoRelease} /\ IsFiniteSet(Versions)
  /\ First \in Works /\ Works \subseteq Loads /\ Loads \subseteq Versions
  /\ Supervisors \subseteq Guarded \union {"scheduled-task"}
  /\ Worlds \subseteq SUBSET Mishaps
  /\ Limit \in Nat /\ KeepReleases \in Nat /\ MaxDownloads \in Nat

VARIABLES
  mishaps, supervisor,
  dirs,        (* the release directories that exist                          *)
  whole,       (* those extracted and npm-installed completely                *)
  current,     (* what the link names                                         *)
  previous,    (* the content of .previous                                    *)
  pending,     (* .pending: the version it names and the starts counted       *)
  running,     (* the release the process was started from                    *)
  connected,
  confirm,     (* confirmTimer is armed                                       *)
  held,        (* history: the connection has not closed since it was armed   *)
  downloads,   (* how many update commands are downloading each release       *)
  step,        (* how far the install has come                                *)
  target, prev,  (* its newDir and prev                                       *)
  boot         (* how far the guard's rollback has come                       *)

world   == <<mishaps, supervisor>>
trees   == <<dirs, whole>>
markers == <<previous, pending>>
session == <<connected, confirm, held>>
install == <<step, target, prev>>
vars == <<world, trees, current, markers, running, session, downloads,
          install, boot>>

Unmarked == [version |-> NoRelease, starts |-> 0]
Marked   == pending # Unmarked

NoDownloads == [v \in Versions |-> 0]
Downloading == {v \in Versions : downloads[v] > 0}

(* A best-effort write.                                                     *)
Written(old, new) == IF "disk" \in mishaps THEN {old, new} ELSE {new}

Init ==
  /\ mishaps \in Worlds /\ supervisor \in Supervisors
  /\ dirs = {First} /\ whole = {First}
  /\ current = First /\ previous = NoRelease /\ pending = Unmarked
  /\ running = First /\ connected = FALSE /\ confirm = FALSE /\ held = FALSE
  /\ downloads = NoDownloads
  /\ step = "idle" /\ target = NoRelease /\ prev = NoRelease
  /\ boot = "off"

-----------------------------------------------------------------------------
(* The service manager starts the agent, and the guard has its turn first.  *)

Starts(v) == v \in Loads \intersect whole

Launched(v) == running' = IF Starts(v) THEN v ELSE NoRelease

(* The sh guard runs before the release; the Node one inside of it.  The     *)
(* unit's working directory is the link, so nothing runs without it.         *)
Startable ==
  /\ running = NoRelease /\ boot = "off"
  /\ current # NoRelease
  /\ supervisor = "systemd" \/ Starts(current)

Judged == supervisor \in Guarded /\ Marked

OutOfStarts == pending.starts >= Limit
UsablePrevious == previous \in dirs

(* Mutant: the guard looks at the count and leaves it.                      *)
NotCounted == pending
Counted == [pending EXCEPT !.starts = @ + 1]

StartUnjudged ==
  /\ Startable /\ ~Judged
  /\ Launched(current)
  /\ UNCHANGED <<world, trees, current, markers, session, downloads, install, boot>>

StartCounted ==
  /\ Startable /\ Judged /\ ~OutOfStarts
  /\ pending' \in Written(pending, Counted)
  /\ Launched(current)
  /\ UNCHANGED <<world, trees, current, previous, session, downloads, install, boot>>

StartExhausted ==
  /\ Startable /\ Judged /\ OutOfStarts /\ ~UsablePrevious
  /\ pending' = Unmarked
  /\ Launched(current)
  /\ UNCHANGED <<world, trees, current, previous, session, downloads, install, boot>>

(* On launchd the link is replaced by a rename; sh and Windows remove it     *)
(* first.                                                                    *)
RollBack ==
  /\ Startable /\ Judged /\ OutOfStarts /\ UsablePrevious
  /\ IF supervisor = "launchd"
     THEN current' = previous /\ boot' = "relinked"
     ELSE current' = NoRelease /\ boot' = "unlinked"
  /\ UNCHANGED <<world, trees, markers, running, session, downloads, install>>

Relink ==
  /\ boot = "unlinked" /\ boot' = "relinked"
  /\ current' = previous
  /\ UNCHANGED <<world, trees, markers, running, session, downloads, install>>

(* The marker goes last.  Under systemd the restored release is started at   *)
(* once; the in-process guard exits and leaves that to the next start.       *)
RolledBack ==
  /\ boot = "relinked" /\ boot' = "off"
  /\ pending' = Unmarked
  /\ IF supervisor = "systemd" THEN Launched(current) ELSE running' = NoRelease
  /\ UNCHANGED <<world, trees, current, previous, session, downloads, install>>

-----------------------------------------------------------------------------
(* The process and its connection.                                          *)

Ends ==
  /\ running' = NoRelease
  /\ connected' = FALSE /\ confirm' = FALSE /\ held' = FALSE
  /\ downloads' = NoDownloads
  /\ step' = "idle" /\ target' = NoRelease /\ prev' = NoRelease

Up == running # NoRelease /\ step = "idle"

(* Between the restart request and the signal that ends the process, it goes *)
(* on serving.                                                               *)
Serving == running # NoRelease /\ step \in {"idle", "restart"}

(* client 'connected': armReleaseConfirmation.                               *)
Connects ==
  /\ Up /\ ~connected
  /\ connected' = TRUE
  /\ IF Marked /\ ~confirm
     THEN confirm' = TRUE /\ held' = TRUE
     ELSE UNCHANGED <<confirm, held>>
  /\ UNCHANGED <<world, trees, current, markers, running, downloads, install, boot>>

(* client 'close': the timer runs on.                                        *)
Drops ==
  /\ Up /\ connected
  /\ running \in Works \/ "flap" \in mishaps
  /\ connected' = FALSE /\ held' = FALSE
  /\ UNCHANGED <<world, trees, current, markers, running, confirm, downloads, install, boot>>

(* The timer fires: confirmRelease removes the marker, whichever release it  *)
(* names by now.                                                             *)
Confirms ==
  /\ confirm /\ Serving
  /\ held => running \in Works
  /\ confirm' = FALSE /\ held' = FALSE
  /\ pending' = Unmarked
  /\ UNCHANGED <<world, trees, current, previous, running, connected, downloads, install, boot>>

(* A release that does not work dies sooner or later.                        *)
Dies ==
  /\ Up /\ running \notin Works
  /\ Ends
  /\ UNCHANGED <<world, trees, current, markers, boot>>

(* Between these steps the disk is in neither the old nor the new state.     *)
Exposed ==
  step \in {"unlinked", "swapped", "recorded"} \/ boot # "off"

(* The host goes down and comes up again.                                    *)
Reboot ==
  /\ Exposed => "crash" \in mishaps
  /\ Ends /\ boot' = "off"
  /\ UNCHANGED <<world, trees, current, markers>>

-----------------------------------------------------------------------------
(* An update command: download, then install step by step.                  *)

CommandFits == FoldFunction(+, 0, downloads) < MaxDownloads

(* handleUpdate: acknowledged, downloading.                                  *)
Command(v) ==
  /\ Serving /\ connected
  /\ v = current \/ (Marked /\ v = previous) => "reinstall" \in mishaps
  /\ Marked => "hasty" \in mishaps
  /\ Downloading \ {v} # {} => "overlap" \in mishaps
  /\ v \in Downloading => "twice" \in mishaps
  /\ CommandFits
  /\ downloads' = [downloads EXCEPT ![v] = @ + 1]
  /\ UNCHANGED <<world, trees, current, markers, running, session, install, boot>>

(* The download fails, or does not verify.                                   *)
DownloadFails(v) ==
  /\ Serving /\ v \in Downloading
  /\ downloads' = [downloads EXCEPT ![v] = @ - 1]
  /\ UNCHANGED <<world, trees, current, markers, running, session, install, boot>>

(* atomicInstall: the directory is emptied, whether or not it is the one the  *)
(* link names by now; extracting and npm follow.                             *)
Extracts(v) ==
  /\ Serving /\ v \in Downloading
  /\ downloads' = [downloads EXCEPT ![v] = @ - 1]
  /\ dirs' = dirs \union {v} /\ whole' = whole \ {v}
  /\ step' = "extract" /\ target' = v
  /\ UNCHANGED <<world, current, markers, running, session, prev, boot>>

(* Mutant: the exit status of tar and npm is not looked at.                 *)
SwapsAnyway ==
  /\ step = "extract"
  /\ step' = "swapped" /\ current' = target /\ prev' = current
  /\ UNCHANGED <<world, trees, markers, running, session, downloads, target, boot>>

(* tar or npm fails: the error is reported and the agent goes on.            *)
InstallFails ==
  /\ step = "extract"
  /\ step' = "idle" /\ target' = NoRelease
  /\ UNCHANGED <<world, trees, current, markers, running, session, downloads, prev, boot>>

(* Mutant: the link is read after the swap.                                  *)
LinkAfter == target
LinkBefore == current

(* repointCurrent.                                                           *)
Swap ==
  /\ step = "extract"
  /\ whole' = whole \union {target}
  /\ prev' = LinkBefore
  /\ IF supervisor \in {"systemd", "launchd"}
     THEN current' = target /\ step' = "swapped"
     ELSE current' = NoRelease /\ step' = "unlinked"
  /\ UNCHANGED <<world, dirs, markers, running, session, downloads, target, boot>>

Link ==
  /\ step = "unlinked" /\ step' = "swapped"
  /\ current' = target
  /\ UNCHANGED <<world, trees, markers, running, session, downloads, target, prev, boot>>

Record ==
  /\ step = "swapped" /\ step' = "recorded"
  /\ previous' \in IF prev \in {NoRelease, target} THEN {previous}
                  ELSE Written(previous, prev)
  /\ UNCHANGED <<world, trees, current, pending, running, session, downloads, target, prev, boot>>

(* pruneReleases: the oldest beyond KeepReleases go, save the two named.     *)
Oldest(n, ds) == {v \in ds : Cardinality({w \in ds : w < v}) < n}

Kept == {target, prev}

Surplus ==
  IF Cardinality(dirs) <= KeepReleases THEN {}
  ELSE Oldest(Cardinality(dirs) - KeepReleases, dirs \ Kept)

Marker == [version |-> target, starts |-> 0]

Mark ==
  /\ step = "recorded" /\ step' = "restart"
  /\ pending' \in Written(pending, Marker)
  /\ dirs' = dirs \ Surplus /\ whole' = whole \ Surplus
  /\ UNCHANGED <<world, current, previous, running, session, downloads, target, prev, boot>>

(* The service manager ends the process, or refuses to.                      *)
RestartServed ==
  /\ step = "restart"
  /\ Ends
  /\ UNCHANGED <<world, trees, current, markers, boot>>

RestartRefused ==
  /\ step = "restart" /\ "restart" \in mishaps
  /\ step' = "idle" /\ target' = NoRelease /\ prev' = NoRelease
  /\ UNCHANGED <<world, trees, current, markers, running, session, downloads, boot>>

-----------------------------------------------------------------------------
ServiceStarts == StartUnjudged \/ StartCounted \/ StartExhausted
GuardGoesOn == RollBack \/ Relink \/ RolledBack
InstallGoesOn == Swap \/ Link \/ Record \/ Mark \/ RestartServed

Next ==
  \/ StartUnjudged \/ StartCounted \/ StartExhausted
  \/ RollBack \/ Relink \/ RolledBack
  \/ Connects \/ Drops \/ Confirms \/ Dies \/ Reboot
  \/ \E v \in Versions : Command(v) \/ DownloadFails(v) \/ Extracts(v)
  \/ InstallFails \/ Swap \/ Link \/ Record \/ Mark
  \/ RestartServed \/ RestartRefused

(* The service manager starts what is down (Restart=always), the guard and   *)
(* an install run to their end, a restart that is served ends the process,   *)
(* an armed timer fires, the client connects, and bad code dies.             *)
Fairness ==
  /\ WF_vars(ServiceStarts) /\ WF_vars(GuardGoesOn)
  /\ WF_vars(InstallGoesOn)
  /\ WF_vars(Connects) /\ WF_vars(Confirms) /\ WF_vars(Dies)

Spec == Init /\ [][Next]_vars
FairSpec == Spec /\ Fairness

-----------------------------------------------------------------------------
TypeOK ==
  /\ mishaps \in Worlds /\ supervisor \in Supervisors
  /\ dirs \subseteq Versions /\ whole \subseteq dirs
  /\ current \in Names /\ previous \in Names /\ running \in Names
  /\ target \in Names /\ prev \in Names
  /\ pending \in [version : Names, starts : 0..Limit]
  /\ connected \in BOOLEAN /\ confirm \in BOOLEAN /\ held \in BOOLEAN
  /\ downloads \in [Versions -> Nat]
  /\ step \in {"idle", "extract", "unlinked", "swapped", "recorded", "restart"}
  /\ boot \in {"off", "unlinked", "relinked"}

(* As long as .previous can be written, whatever the link names is a         *)
(* complete release, also after a crash in the middle of an update           *)
(* (selfUpdate.js:252-255), after a rollback, and when a second release      *)
(* installs before the process has restarted onto the first.  It holds where *)
(* no update is extracted into the live release itself: neither ordered for  *)
(* it ("reinstall") nor ordered twice before it was ("twice").               *)
LiveTreeWhole ==
  "disk" \notin mishaps /\ current # NoRelease => current \in whole

(* As long as .previous can be written, the release it names is on disk:     *)
(* pruning never takes away what a rollback would need.                      *)
PreviousKept ==
  "disk" \notin mishaps /\ previous # NoRelease => previous \in dirs

(* On a host without mishaps the release a rollback would restore works: an  *)
(* unproven release never becomes the fallback of the next.                  *)
KnownGood ==
  mishaps = {} /\ Marked => previous \in Works \intersect whole

(* On a host without mishaps a release that does not work is never current   *)
(* without its marker, save in the middle of the install that puts both      *)
(* there.                                                                    *)
BadIsMarked ==
  mishaps = {} /\ ~Exposed /\ ~Marked => current \in Works

(* A release that cannot come up is rolled back and the host is served       *)
(* again, as long as the guard gets its turn: always under systemd, where it *)
(* is sh; elsewhere if the release at least loads.                           *)
ComesBackUp ==
  (mishaps = {} /\ [](supervisor = "systemd" \/ Starts(current) \/ Exposed))
     => []<>(running \in Works)

(* Every update is settled: its marker does not stay for ever.               *)
Settles ==
  (mishaps = {} /\ [](supervisor = "systemd" \/ Starts(current) \/ Exposed))
     => (Marked ~> ~Marked)

(* An update ends well: in a release that works, and no longer in doubt.     *)
UpdateEnds == ComesBackUp /\ Settles
=============================================================================
