------------------------------ MODULE GoUpgrade ------------------------------
(***************************************************************************)
(* The self-update of the Go rewrite: Updater of                             *)
(* blueeye-agent-go/internal/upgrade/upgrade.go, called by handleCommand of  *)
(* cmd/blueeye-agent/main.go on the goroutine that reads the live channel,   *)
(* so that one update is in progress at a time.                              *)
(*                                                                         *)
(* A binary on the disk is the version it holds, Torn or Missing.  Windows   *)
(* lets a running binary be renamed but neither replaced nor removed; Unix   *)
(* lets its name be replaced.  Not modelled: the HTTP transfer, the          *)
(* cryptography (a download passes every check or it does not).              *)
(***************************************************************************)
EXTENDS Naturals

CONSTANTS MaxRelease   (* bound: the releases there are                      *)

ASSUME UpgradeAssumption == MaxRelease \in Nat \ {0}

Torn == 0
Missing == MaxRelease + 1
Releases == 1..MaxRelease
OnDisk == 0..Missing

VARIABLES
  goos,
  exe, old, temp,  (* the target, <target>.old and the temporary file         *)
  image,            (* where the file of the running process is               *)
  phase,              (* how far Update is                                      *)
  data,            (* the bytes that passed every check                      *)
  audit            (* what the audit log says of the last upgrade            *)

disk == <<exe, old, temp>>
upgradeVars == <<goos, disk, image, phase, data, audit>>

UpgradeInit ==
  /\ goos \in {"unix", "windows"}
  /\ exe = 1 /\ old = Missing /\ temp = Missing
  /\ image = "nowhere" /\ phase = "idle" /\ data = 1 /\ audit = "nothing"

(* The service starts what the target holds.                                 *)
ServiceStarts ==
  /\ image = "nowhere" /\ exe \in Releases
  /\ image' = "exe"
  /\ UNCHANGED <<goos, disk, phase, data, audit>>

Commanded ==
  /\ image # "nowhere" /\ phase = "idle"
  /\ phase' = "downloads" /\ audit' = "initiated"
  /\ UNCHANGED <<goos, disk, image, data>>

Ends(outcome, next) == phase' = next /\ audit' = outcome

(* verifyAndSwap up to the swap: nothing touches the disk before every check *)
(* has passed.                                                              *)
Verified(v) ==
  /\ phase = "downloads" /\ data' = v
  /\ phase' = IF goos = "unix" THEN "writes" ELSE "clears"
  /\ UNCHANGED <<goos, disk, image, audit>>
Refused ==
  /\ phase = "downloads" /\ Ends("failed", "idle")
  /\ UNCHANGED <<goos, disk, image, data>>

(* A file is created or truncated, and then its bytes are written.           *)
Written(f) == f' \in {Torn, data}

(* swapUnix: a temporary file beside the target, renamed over it; it is      *)
(* removed again when a step fails.                                         *)
WritesTemp ==
  /\ phase = "writes" /\ goos = "unix" /\ Written(temp)
  /\ phase' = IF temp' = data THEN "renames" ELSE "removes"
  /\ UNCHANGED <<goos, exe, old, image, data, audit>>
RemovesTemp ==
  /\ phase = "removes" /\ temp' = Missing /\ Ends("failed", "idle")
  /\ UNCHANGED <<goos, exe, old, image, data>>
RenamesTemp ==
  /\ phase = "renames"
  /\ \/ /\ exe' = temp /\ temp' = Missing /\ Ends("completed", "restarts")
        /\ image' = IF image = "exe" THEN "unlinked" ELSE image
     \/ UNCHANGED <<exe, temp, image, audit>> /\ phase' = "removes"
  /\ UNCHANGED <<goos, old, data>>

(* Mutant: the target is written in place.                                   *)
WritesInPlace ==
  /\ phase = "writes" /\ goos = "unix" /\ Written(exe)
  /\ IF exe' = data THEN Ends("completed", "restarts") ELSE Ends("failed", "idle")
  /\ UNCHANGED <<goos, old, temp, image, data>>
UnixSwaps == WritesTemp \/ RemovesTemp \/ RenamesTemp

(* swapWindows: the copy put aside by an earlier update is removed, unless   *)
(* it is the one that runs; the target, if there is one, is put aside, which *)
(* fails when the copy that runs is there; then the target is written.       *)
ClearsOld ==
  /\ phase = "clears" /\ phase' = "asides"
  /\ old' = IF image = "old" THEN old ELSE Missing
  /\ UNCHANGED <<goos, exe, temp, image, data, audit>>
PutsAside ==
  /\ phase = "asides"
  /\ \/ exe = Missing /\ phase' = "fills" /\ UNCHANGED <<disk, image, audit>>
     \/ /\ exe # Missing /\ image # "old"
        /\ old' = exe /\ exe' = Missing /\ phase' = "fills"
        /\ image' = "old"
        /\ UNCHANGED <<temp, audit>>
     \/ exe # Missing /\ Ends("failed", "idle") /\ UNCHANGED <<disk, image>>
  /\ UNCHANGED <<goos, data>>
FillsTarget ==
  /\ phase = "fills"
  /\ \/ Written(exe)
     \/ UNCHANGED exe
  /\ IF exe' = data THEN Ends("completed", "restarts") ELSE Ends("failed", "idle")
  /\ UNCHANGED <<goos, old, temp, image, data>>
WindowsSwaps == ClearsOld \/ PutsAside \/ FillsTarget

(* The restart is asked for; it may be refused.                              *)
Restarts ==
  /\ phase = "restarts" /\ phase' = "idle"
  /\ UNCHANGED <<goos, disk, image, data, audit>>

(* The process ends: restarted, or killed at any point.  A file that is      *)
(* being written stays as far as it came.                                   *)
ProcessEnds ==
  /\ image # "nowhere" /\ image' = "nowhere" /\ phase' = "idle"
  /\ CASE phase = "writes" -> temp' \in {temp, Torn} /\ UNCHANGED <<exe, old>>
       [] phase = "fills"  -> exe' \in {exe, Torn} /\ UNCHANGED <<old, temp>>
       [] OTHER         -> UNCHANGED disk
  /\ UNCHANGED <<goos, data, audit>>

UpgradeNext ==
  \/ ServiceStarts \/ Commanded \/ Refused \/ Restarts \/ ProcessEnds
  \/ \E v \in Releases : Verified(v)
  \/ UnixSwaps \/ WindowsSwaps

UpgradeSpec == UpgradeInit /\ [][UpgradeNext]_upgradeVars

-----------------------------------------------------------------------------
UpgradeTypeOK ==
  /\ exe \in OnDisk /\ old \in OnDisk /\ temp \in OnDisk /\ data \in Releases
  /\ image \in {"nowhere", "exe", "old", "unlinked"}
  /\ phase \in {"idle", "downloads", "writes", "renames", "removes",
             "clears", "asides", "fills", "restarts"}

(* Whatever fails and wherever the process dies: on Unix the service always  *)
(* finds a whole binary to start, and on Windows at least the copy put aside *)
(* is whole (nothing puts it back), also through updates tried again after a *)
(* failed one.  An upgrade the audit log calls completed is on the disk.     *)
BinaryWhole ==
  /\ exe \in Releases \/ (goos = "windows" /\ old \in Releases)
  /\ phase = "restarts" => audit = "completed" /\ exe = data
=============================================================================
