-------------------------- MODULE SelfUpdateProofs --------------------------
(* What SelfUpdate's disk keeps for every set of releases, every limit and   *)
(* every number of kept releases.  The invariant has four parts: Phases says *)
(* what the link names while a process or the guard is at work; Apart, that  *)
(* what is still to be extracted is neither live nor needed to roll back;    *)
(* Whole, that whatever can be started is complete; Calm, what a host        *)
(* without mishaps adds.  The last three need .previous to be writable and   *)
(* no release to be ordered that is live or is being downloaded already.     *)
(* At the end, which updates an     *)
(* agent asks for (UpdateOffers) and how its process ends (ProcessEnd).       *)
EXTENDS SelfUpdate, UpdateOffers, ProcessEnd, FiniteSetTheorems, SequenceTheorems, TLAPS

Installing == step # "idle"
Swapping == step \in {"unlinked", "swapped", "recorded"}

TypeInv ==
  /\ TypeOK
  /\ Installing => target \in dirs
  /\ Installing /\ step # "extract" => target \in whole

(* Who runs when, and what the link names meanwhile.                        *)
Phases ==
  /\ running = NoRelease => ~Installing /\ Downloading = {} /\ ~confirm
  /\ boot # "off" => running = NoRelease /\ Marked
  /\ boot = "unlinked" => current = NoRelease
  /\ boot = "relinked" => current = previous
  /\ running # NoRelease => (current = NoRelease <=> step = "unlinked")
  /\ step \in {"swapped", "recorded", "restart"} => current = target

(* What is still to be extracted is to be extracted once, and is neither     *)
(* current nor needed to roll back.                                          *)
Apart ==
  /\ \A v \in Versions : downloads[v] <= 1
  /\ Installing => target \notin Downloading
  /\ current \notin Downloading
  /\ step = "extract" => target # current
  /\ Marked => previous \notin Downloading
  /\ Marked /\ step = "extract" => target # previous
  /\ Swapping => prev \notin Downloading /\ prev # target /\ prev # NoRelease

(* Every release that may be started is complete.                           *)
Whole ==
  /\ LiveTreeWhole
  /\ Marked => previous \in whole
  /\ previous # NoRelease => previous \in dirs
  /\ Swapping => prev \in whole
  /\ step = "recorded" => previous = prev

Calm ==
  mishaps = {} =>
    /\ ~Swapping /\ boot = "off" /\ ~Marked => current \in Works
    /\ Marked => previous \in Works
    /\ Swapping => prev \in Works
    /\ Downloading # {} \/ step = "extract" \/ Swapping => ~Marked
    /\ Installing => Downloading = {}
    /\ \A v, w \in Downloading : v = w
    /\ running # NoRelease /\ step \in {"idle", "extract"} => running = current
    /\ confirm => Marked /\ ~Installing /\ (held \/ running \in Works)
    /\ step = "restart" => Marked
Careful == mishaps \intersect {"disk", "reinstall", "twice"} = {}

Sound == Phases /\ Apart /\ Whole /\ Calm
IInv == TypeInv /\ Phases /\ (Careful => Apart /\ Whole /\ Calm)

USE DEF NoRelease, Names

LEMMA ConstantsFit ==
  /\ First \in Versions /\ First \in Loads
  /\ Works \subseteq Loads /\ Loads \subseteq Versions
  /\ Limit \in Nat /\ Versions \subseteq Nat \ {NoRelease}
BY UpdateAssumption

LEMMA SurplusSparesKept ==
  Surplus \intersect {target, prev} = {} /\ Surplus \subseteq dirs
<1>1. CASE Cardinality(dirs) <= KeepReleases
  BY <1>1 DEF Surplus
<1>2. CASE ~(Cardinality(dirs) <= KeepReleases)
  BY <1>2 DEF Surplus, Oldest, Kept
<1> QED
  BY <1>1, <1>2

(* One more command, one less, and none: what is being downloaded.           *)
LEMMA OneMore ==
  ASSUME downloads \in [Versions -> Nat], NEW v \in Versions,
         downloads' = [downloads EXCEPT ![v] = @ + 1]
  PROVE  /\ downloads' \in [Versions -> Nat]
         /\ Downloading' = Downloading \union {v}
         /\ (\A w \in Versions : downloads[w] <= 1) /\ v \notin Downloading
              => \A w \in Versions : downloads'[w] <= 1
BY DEF Downloading

LEMMA OneLess ==
  ASSUME downloads \in [Versions -> Nat], NEW v \in Versions, v \in Downloading,
         downloads' = [downloads EXCEPT ![v] = @ - 1]
  PROVE  /\ downloads' \in [Versions -> Nat]
         /\ Downloading' \subseteq Downloading
         /\ (\A w \in Versions : downloads[w] <= 1)
              => /\ \A w \in Versions : downloads'[w] <= 1
                 /\ Downloading' = Downloading \ {v}
BY DEF Downloading

LEMMA NoneLeft ==
  /\ NoDownloads \in [Versions -> Nat]
  /\ downloads = NoDownloads => Downloading = {} /\ \A w \in Versions : downloads[w] <= 1
  /\ downloads' = NoDownloads => Downloading' = {} /\ \A w \in Versions : downloads'[w] <= 1
BY DEF Downloading, NoDownloads

LEMMA SameLeft == downloads' = downloads => Downloading' = Downloading
BY DEF Downloading

LEMMA TypeInvInit == Init => TypeInv
<1> SUFFICES ASSUME Init PROVE TypeInv
  OBVIOUS
<1>1. pending \in [version : Names, starts : 0..Limit]
  BY ConstantsFit DEF Init, Unmarked
<1> QED
  BY <1>1, ConstantsFit, NoneLeft DEF Init, TypeInv, TypeOK, Installing

LEMMA TypeInvNext == TypeInv /\ [Next]_vars => TypeInv'
<1> SUFFICES ASSUME TypeInv, [Next]_vars PROVE TypeInv'
  OBVIOUS
<1> USE ConstantsFit DEF TypeInv, TypeOK, Installing, world, trees, markers,
        session, install, Unmarked, Launched, Starts, Ends
<1>1. CASE StartUnjudged
  BY <1>1 DEF StartUnjudged, Startable
<1>2. CASE StartCounted
  <2>1. Counted \in [version : Names, starts : 0..Limit]
    BY <1>2 DEF StartCounted, Counted, OutOfStarts
  <2>2. pending' \in [version : Names, starts : 0..Limit]
    BY <1>2, <2>1 DEF StartCounted, Written
  <2> QED
    BY <1>2, <2>2 DEF StartCounted, Startable
<1>3. CASE StartExhausted
  <2>1. pending' \in [version : Names, starts : 0..Limit]
    BY <1>3 DEF StartExhausted
  <2> QED
    BY <1>3, <2>1 DEF StartExhausted, Startable
<1>4. CASE RollBack
  BY <1>4 DEF RollBack
<1>5. CASE Relink
  BY <1>5 DEF Relink
<1>6. CASE RolledBack
  BY <1>6 DEF RolledBack
<1>7. CASE Connects
  <2>1. /\ confirm' \in BOOLEAN /\ held' \in BOOLEAN /\ connected' \in BOOLEAN
        /\ UNCHANGED <<world, trees, current, markers, running, downloads, install, boot>>
    BY <1>7, Zenon DEF Connects
  <2> QED
    BY <2>1
<1>8. CASE Drops
  BY <1>8 DEF Drops
<1>9. CASE Confirms
  <2>1. /\ confirm' \in BOOLEAN /\ held' \in BOOLEAN /\ pending' = Unmarked
        /\ UNCHANGED <<world, trees, current, previous, running, connected, downloads,
                       install, boot>>
    BY <1>9, Zenon DEF Confirms
  <2> QED
    BY <2>1
<1>10. CASE Dies
  BY <1>10, NoneLeft DEF Dies
<1>11. CASE Reboot
  BY <1>11, NoneLeft DEF Reboot
<1>12. ASSUME NEW v \in Versions, Command(v) PROVE TypeInv'
  <2>1. downloads' \in [Versions -> Nat]
    BY <1>12, OneMore DEF Command
  <2> QED
    BY <1>12, <2>1 DEF Command
<1>13. ASSUME NEW v \in Versions, DownloadFails(v) PROVE TypeInv'
  <2>1. downloads' \in [Versions -> Nat]
    BY <1>13, OneLess DEF DownloadFails
  <2> QED
    BY <1>13, <2>1 DEF DownloadFails
<1>14. ASSUME NEW v \in Versions, Extracts(v) PROVE TypeInv'
  BY <1>14, OneLess DEF Extracts, Serving
<1>15. CASE InstallFails
  BY <1>15 DEF InstallFails
<1>16. CASE Swap
  BY <1>16 DEF Swap, LinkBefore
<1>17. CASE Link
  BY <1>17 DEF Link
<1>18. CASE Record
  BY <1>18 DEF Record, Written
<1>19. CASE Mark
  BY <1>19, SurplusSparesKept DEF Mark, Written, Marker
<1>20. CASE RestartServed
  BY <1>20, NoneLeft DEF RestartServed
<1>21. CASE RestartRefused
  BY <1>21 DEF RestartRefused
<1>22. CASE UNCHANGED vars
  BY <1>22 DEF vars
<1> QED
  BY <1>1, <1>2, <1>3, <1>4, <1>5, <1>6, <1>7, <1>8, <1>9, <1>10, <1>11,
     <1>12, <1>13, <1>14, <1>15, <1>16, <1>17, <1>18, <1>19, <1>20, <1>21,
     <1>22 DEF Next

LEMMA PhasesNext ==
  ASSUME TypeInv, TypeInv', Phases, [Next]_vars PROVE Phases'
<1> USE DEF Installing, Swapping, world, trees, markers, session, install,
     Launched, Ends, TypeInv, TypeOK, Marked, Unmarked, Phases
<1> USE SameLeft
<1>1. CASE StartUnjudged
  BY <1>1 DEF StartUnjudged, Startable
<1>2. CASE StartCounted
  BY <1>2 DEF StartCounted, Startable, Judged, Written, Counted
<1>3. CASE StartExhausted
  BY <1>3 DEF StartExhausted, Startable, Judged, UsablePrevious
<1>4. CASE RollBack
  BY <1>4 DEF RollBack, Startable, Judged, UsablePrevious
<1>5. CASE Relink
  BY <1>5 DEF Relink
<1>6. CASE RolledBack
  BY <1>6 DEF RolledBack
<1>7. CASE Connects
  BY <1>7 DEF Connects, Up
<1>8. CASE Drops
  BY <1>8 DEF Drops, Up
<1>9. CASE Confirms
  BY <1>9 DEF Confirms, Serving
<1>10. CASE Dies
  BY <1>10, NoneLeft DEF Dies, Up
<1>11. CASE Reboot
  BY <1>11, NoneLeft DEF Reboot, Exposed
<1>12. ASSUME NEW v \in Versions, Command(v) PROVE Phases'
  BY <1>12, OneMore DEF Command, Serving
<1>13. ASSUME NEW v \in Versions, DownloadFails(v) PROVE Phases'
  BY <1>13, OneLess DEF DownloadFails, Serving
<1>14. ASSUME NEW v \in Versions, Extracts(v) PROVE Phases'
  BY <1>14, OneLess DEF Extracts, Serving
<1>15. CASE InstallFails
  BY <1>15 DEF InstallFails
<1>16. CASE Swap
  BY <1>16, ConstantsFit DEF Swap, LinkBefore
<1>17. CASE Link
  BY <1>17, ConstantsFit DEF Link
<1>18. CASE Record
  BY <1>18 DEF Record, Written
<1>19. CASE Mark
  BY <1>19 DEF Mark, Written, Marker
<1>20. CASE RestartServed
  BY <1>20, NoneLeft DEF RestartServed
<1>21. CASE RestartRefused
  BY <1>21 DEF RestartRefused
<1>22. CASE UNCHANGED vars
  BY <1>22 DEF vars
<1> QED
  BY <1>1, <1>2, <1>3, <1>4, <1>5, <1>6, <1>7, <1>8, <1>9, <1>10, <1>11, <1>12,
       <1>13, <1>14, <1>15, <1>16, <1>17, <1>18, <1>19, <1>20, <1>21,
       <1>22 DEF Next

LEMMA ApartNext ==
  ASSUME Careful, TypeInv, TypeInv', Sound, [Next]_vars PROVE Apart'
<1> USE DEF Installing, Swapping, world, trees, markers, session, install,
     Launched, Ends, Sound, TypeInv, TypeOK, Marked, Unmarked, Apart, Phases,
     Careful
<1> USE SameLeft
<1>1. CASE StartUnjudged
  BY <1>1 DEF StartUnjudged, Startable
<1>2. CASE StartCounted
  BY <1>2 DEF StartCounted, Startable, Judged, Written, Counted
<1>3. CASE StartExhausted
  BY <1>3 DEF StartExhausted, Startable, Judged, UsablePrevious
<1>4. CASE RollBack
  BY <1>4 DEF RollBack, Startable, Judged, UsablePrevious
<1>5. CASE Relink
  BY <1>5 DEF Relink
<1>6. CASE RolledBack
  BY <1>6 DEF RolledBack
<1>7. CASE Connects
  BY <1>7 DEF Connects, Up
<1>8. CASE Drops
  BY <1>8 DEF Drops, Up
<1>9. CASE Confirms
  BY <1>9 DEF Confirms, Serving
<1>10. CASE Dies
  BY <1>10, NoneLeft DEF Dies, Up
<1>11. CASE Reboot
  BY <1>11, NoneLeft DEF Reboot, Exposed
<1>12. ASSUME NEW v \in Versions, Command(v) PROVE Apart'
  BY <1>12, OneMore DEF Command, Serving
<1>13. ASSUME NEW v \in Versions, DownloadFails(v) PROVE Apart'
  BY <1>13, OneLess DEF DownloadFails, Serving
<1>14. ASSUME NEW v \in Versions, Extracts(v) PROVE Apart'
  BY <1>14, OneLess DEF Extracts, Serving
<1>15. CASE InstallFails
  BY <1>15 DEF InstallFails
<1>16. CASE Swap
  <2>1. current # NoRelease /\ current \notin Downloading /\ current # target
    BY <1>16 DEF Swap
  <2>2. step' \in {"swapped", "unlinked"} /\ current' \in {target, NoRelease}
        /\ prev' = current
    BY <1>16 DEF Swap, LinkBefore
  <2>3. NoRelease \notin Downloading
    BY ConstantsFit DEF Downloading
  <2> QED
    BY <1>16, <2>1, <2>2, <2>3 DEF Swap, LinkBefore
<1>17. CASE Link
  BY <1>17 DEF Link
<1>18. CASE Record
  BY <1>18 DEF Record, Written
<1>19. CASE Mark
  <2>1. previous = prev /\ prev \notin Downloading
    BY <1>19 DEF Mark, Whole
  <2> QED
    BY <1>19, <2>1 DEF Mark, Written, Marker
<1>20. CASE RestartServed
  BY <1>20, NoneLeft DEF RestartServed
<1>21. CASE RestartRefused
  BY <1>21 DEF RestartRefused
<1>22. CASE UNCHANGED vars
  BY <1>22 DEF vars
<1> QED
  BY <1>1, <1>2, <1>3, <1>4, <1>5, <1>6, <1>7, <1>8, <1>9, <1>10, <1>11, <1>12,
       <1>13, <1>14, <1>15, <1>16, <1>17, <1>18, <1>19, <1>20, <1>21,
       <1>22 DEF Next

LEMMA WholeNext ==
  ASSUME Careful, TypeInv, TypeInv', Sound, [Next]_vars PROVE Whole'
<1> USE DEF Installing, Swapping, world, trees, markers, session, install,
     Launched, Ends, Sound, TypeInv, TypeOK, Marked, Unmarked, Whole,
     LiveTreeWhole, Apart, Phases, Careful
<1> USE SameLeft
<1>1. CASE StartUnjudged
  BY <1>1 DEF StartUnjudged, Startable
<1>2. CASE StartCounted
  BY <1>2 DEF StartCounted, Startable, Judged, Written, Counted
<1>3. CASE StartExhausted
  BY <1>3 DEF StartExhausted, Startable, Judged, UsablePrevious
<1>4. CASE RollBack
  BY <1>4 DEF RollBack, Startable, Judged, UsablePrevious
<1>5. CASE Relink
  BY <1>5 DEF Relink
<1>6. CASE RolledBack
  BY <1>6 DEF RolledBack
<1>7. CASE Connects
  BY <1>7 DEF Connects, Up
<1>8. CASE Drops
  BY <1>8 DEF Drops, Up
<1>9. CASE Confirms
  BY <1>9 DEF Confirms, Serving
<1>10. CASE Dies
  BY <1>10, NoneLeft DEF Dies, Up
<1>11. CASE Reboot
  BY <1>11, NoneLeft DEF Reboot, Exposed
<1>12. ASSUME NEW v \in Versions, Command(v) PROVE Whole'
  BY <1>12, OneMore DEF Command, Serving
<1>13. ASSUME NEW v \in Versions, DownloadFails(v) PROVE Whole'
  BY <1>13, OneLess DEF DownloadFails, Serving
<1>14. ASSUME NEW v \in Versions, Extracts(v) PROVE Whole'
  BY <1>14, OneLess DEF Extracts, Serving
<1>15. CASE InstallFails
  BY <1>15 DEF InstallFails
<1>16. CASE Swap
  BY <1>16 DEF Swap, LinkBefore
<1>17. CASE Link
  BY <1>17 DEF Link
<1>18. CASE Record
  BY <1>18 DEF Record, Written
<1>19. CASE Mark
  <2>1. previous = prev /\ prev \in whole /\ current = target
    BY <1>19 DEF Mark
  <2>2. target \in whole' /\ prev \in whole' /\ prev \in dirs'
    BY <1>19, <2>1, SurplusSparesKept DEF Mark
  <2> QED
    BY <1>19, <2>1, <2>2 DEF Mark, Written, Marker
<1>20. CASE RestartServed
  BY <1>20, NoneLeft DEF RestartServed
<1>21. CASE RestartRefused
  BY <1>21 DEF RestartRefused
<1>22. CASE UNCHANGED vars
  BY <1>22 DEF vars
<1> QED
  BY <1>1, <1>2, <1>3, <1>4, <1>5, <1>6, <1>7, <1>8, <1>9, <1>10, <1>11, <1>12,
       <1>13, <1>14, <1>15, <1>16, <1>17, <1>18, <1>19, <1>20, <1>21,
       <1>22 DEF Next

LEMMA CalmNext ==
  ASSUME Careful, TypeInv, TypeInv', Sound, [Next]_vars PROVE Calm'
<1> USE DEF Installing, Swapping, world, trees, markers, session, install,
     Launched, Ends, Sound, TypeInv, TypeOK, Marked, Unmarked, Calm, Phases,
     Starts
<1> USE SameLeft
<1>1. CASE StartUnjudged
  BY <1>1 DEF StartUnjudged, Startable
<1>2. CASE StartCounted
  BY <1>2 DEF StartCounted, Startable, Judged, Written, Counted
<1>3. CASE StartExhausted
  <2>1. FALSE
    BY <1>3 DEF StartExhausted, Startable, Judged, UsablePrevious, Whole
  <2> QED
    BY <2>1
<1>4. CASE RollBack
  BY <1>4 DEF RollBack, Startable, Judged, UsablePrevious
<1>5. CASE Relink
  BY <1>5 DEF Relink
<1>6. CASE RolledBack
  BY <1>6 DEF RolledBack
<1>7. CASE Connects
  BY <1>7 DEF Connects, Up
<1>8. CASE Drops
  BY <1>8 DEF Drops, Up
<1>9. CASE Confirms
  BY <1>9 DEF Confirms, Serving
<1>10. CASE Dies
  BY <1>10, NoneLeft DEF Dies, Up
<1>11. CASE Reboot
  BY <1>11, NoneLeft DEF Reboot, Exposed
<1>12. ASSUME NEW v \in Versions, Command(v) PROVE Calm'
  <2>1. Downloading' = Downloading \union {v}
    BY <1>12, OneMore DEF Command
  <2> QED
    BY <1>12, <2>1 DEF Command, Serving
<1>13. ASSUME NEW v \in Versions, DownloadFails(v) PROVE Calm'
  BY <1>13, OneLess DEF DownloadFails, Serving
<1>14. ASSUME NEW v \in Versions, Extracts(v) PROVE Calm'
  <2>1. Downloading' = Downloading \ {v}
    BY <1>14, OneLess DEF Extracts, Apart
  <2> QED
    BY <1>14, <2>1 DEF Extracts, Serving
<1>15. CASE InstallFails
  BY <1>15 DEF InstallFails
<1>16. CASE Swap
  BY <1>16 DEF Swap, LinkBefore
<1>17. CASE Link
  BY <1>17 DEF Link
<1>18. CASE Record
  BY <1>18 DEF Record, Written
<1>19. CASE Mark
  <2>1. mishaps = {} => pending' = Marker /\ previous = prev
    BY <1>19 DEF Mark, Written, Marker, Whole
  <2>2. Marker # Unmarked
    BY <1>19, ConstantsFit DEF Mark, Written, Marker
  <2> QED
    BY <1>19, <2>1, <2>2 DEF Mark
<1>20. CASE RestartServed
  BY <1>20, NoneLeft DEF RestartServed
<1>21. CASE RestartRefused
  BY <1>21 DEF RestartRefused
<1>22. CASE UNCHANGED vars
  BY <1>22 DEF vars
<1> QED
  BY <1>1, <1>2, <1>3, <1>4, <1>5, <1>6, <1>7, <1>8, <1>9, <1>10, <1>11, <1>12,
       <1>13, <1>14, <1>15, <1>16, <1>17, <1>18, <1>19, <1>20, <1>21,
       <1>22 DEF Next

LEMMA WorldStays == [Next]_vars => UNCHANGED mishaps
<1> SUFFICES ASSUME [Next]_vars PROVE UNCHANGED mishaps
  OBVIOUS
<1> USE DEF world
<1>1. CASE StartUnjudged \/ StartCounted \/ StartExhausted \/ RollBack
           \/ Relink \/ RolledBack
  BY <1>1 DEF StartUnjudged, StartCounted, StartExhausted, RollBack, Relink,
              RolledBack
<1>2. CASE Connects \/ Drops \/ Confirms \/ Dies \/ Reboot
  BY <1>2 DEF Connects, Drops, Confirms, Dies, Reboot
<1>3. CASE \E v \in Versions : Command(v) \/ DownloadFails(v) \/ Extracts(v)
  BY <1>3 DEF Command, DownloadFails, Extracts
<1>4. CASE InstallFails \/ Swap \/ Link \/ Record \/ Mark \/ RestartServed
           \/ RestartRefused
  BY <1>4 DEF InstallFails, Swap, Link, Record, Mark, RestartServed,
              RestartRefused
<1>5. CASE UNCHANGED vars
  BY <1>5 DEF vars
<1> QED
  BY <1>1, <1>2, <1>3, <1>4, <1>5 DEF Next

LEMMA IInvInit == Init => IInv
<1> SUFFICES ASSUME Init PROVE IInv
  OBVIOUS
<1>1. TypeInv
  BY TypeInvInit
<1>2. First \in Works /\ First # NoRelease
  BY UpdateAssumption
<1>3. Phases
  BY <1>2, NoneLeft DEF Init, Phases, Installing, Marked
<1>4. Apart /\ Whole
  BY <1>2, NoneLeft DEF Init, Apart, Whole, LiveTreeWhole, Installing, Swapping, Marked
<1>5. Calm
  BY <1>2, NoneLeft DEF Init, Calm, Installing, Swapping, Marked
<1> QED
  BY <1>1, <1>3, <1>4, <1>5 DEF IInv

LEMMA IInvNext == IInv /\ [Next]_vars => IInv'
<1> SUFFICES ASSUME IInv, [Next]_vars PROVE IInv'
  OBVIOUS
<1>1. TypeInv'
  BY TypeInvNext DEF IInv
<1>2. Phases'
  BY <1>1, PhasesNext DEF IInv
<1>3. ASSUME Careful' PROVE Apart' /\ Whole' /\ Calm'
  <2>1. Careful /\ TypeInv /\ Sound
    BY <1>3, WorldStays DEF Careful, IInv, Sound
  <2> QED
    BY <1>1, <2>1, ApartNext, WholeNext, CalmNext
<1> QED
  BY <1>1, <1>2, <1>3 DEF IInv

LEMMA IInvHolds == Spec => []IInv
BY IInvInit, IInvNext, PTL DEF Spec

(* Every variable keeps its type: in particular the guard never counts       *)
(* beyond its limit and every complete release is a directory that exists.   *)
THEOREM UpdateTypes == Spec => []TypeOK
<1>1. IInv => TypeOK
  BY DEF IInv, TypeInv
<1> QED
  BY <1>1, IInvHolds, PTL

(* A crash anywhere in an update or a rollback, hasty updates, updates to     *)
(* different releases that overlap, also while the restart onto one of them   *)
(* is awaited, refused restarts: the link never names a half-written release, *)
(* as long as no release is ordered that is live or downloading already.      *)
THEOREM LiveTreeStaysWhole ==
  ASSUME \A m \in Worlds : m \intersect {"reinstall", "twice"} = {}
  PROVE  Spec => []LiveTreeWhole
<1>1. IInv => LiveTreeWhole
  BY DEF IInv, TypeInv, TypeOK, Careful, Whole, LiveTreeWhole
<1> QED
  BY <1>1, IInvHolds, PTL

(* The release .previous names survives every pruning, under the same         *)
(* assumption: a second install of the live release would take its own        *)
(* directory for the previous one and leave the real one to be pruned.        *)
THEOREM FallbackIsKept ==
  ASSUME \A m \in Worlds : m \intersect {"reinstall", "twice"} = {}
  PROVE  Spec => []PreviousKept
<1>1. IInv => PreviousKept
  BY DEF IInv, TypeInv, TypeOK, Careful, Whole, PreviousKept
<1> QED
  BY <1>1, IInvHolds, PTL

(* Without mishaps the guard can only roll back to a release that works.     *)
THEOREM FallbackWorks == Spec => []KnownGood
<1>1. IInv => KnownGood
  BY DEF IInv, Careful, Whole, Calm, KnownGood
<1> QED
  BY <1>1, IInvHolds, PTL

(* Without mishaps a release that does not work never escapes the guard.     *)
THEOREM BadReleasesAreMarked == Spec => []BadIsMarked
<1>1. IInv => BadIsMarked
  BY DEF IInv, Careful, Calm, BadIsMarked, Exposed, Swapping
<1> QED
  BY <1>1, IInvHolds, PTL

-----------------------------------------------------------------------------
(* UpdateOffers.  The configuration that is read is one the server offered,   *)
(* now or before.                                                            *)
BodyIsAnOffer == body \in {NoBody} \cup {BodyOf(o) : o \in Offers}
OffersInv == OffersTypeOK /\ BodyIsAnOffer /\ AsksOnce /\ AsksForward

LEMMA OffersStart == OffersInit => OffersInv
<1> SUFFICES ASSUME OffersInit PROVE OffersInv
  OBVIOUS
<1>1. NoBody.read \in BOOLEAN BY DEF NoBody
<1>2. 1 \in 1..Newest /\ 0 \in 0..MaxOffers /\ 0 \in 0..DayLength - 1 BY OffersAssumption
<1>3. body.read \in BOOLEAN /\ line \in BOOLEAN /\ lost \in BOOLEAN
  BY <1>1, Zenon DEF OffersInit
<1>4. /\ changes \in 0..MaxOffers /\ release \in 1..Newest /\ minute \in 0..DayLength - 1
      /\ asked \subseteq 1..Newest /\ askings \in 0..2
  BY <1>2, SMT DEF OffersInit
<1>5. /\ offer \in Offers /\ consent \in BOOLEAN /\ requestedUpdateFor \in {NoVersion} \cup 1..Newest
      /\ order \in {NoVersion} \cup 1..Newest
  BY Zenon DEF OffersInit
<1>6. OffersTypeOK BY <1>3, <1>4, <1>5, Zenon DEF OffersTypeOK
<1> QED BY <1>6 DEF OffersInit, OffersInv, BodyIsAnOffer, AsksOnce, AsksForward

(* What is asked for is newer than what runs, wanted, and not what was asked  *)
(* for last.                                                                 *)
LEMMA ConsiderKeeps ==
  ASSUME OffersInv, Consider
  PROVE  OffersInv'
<1>1. /\ NoVersion \notin 1..Newest /\ NoBody.read \in BOOLEAN
      /\ body' = NoBody
  BY OffersAssumption DEF NoVersion, NoBody, Consider
<1>2. BodyIsAnOffer' BY <1>1 DEF BodyIsAnOffer
<1>3. CASE /\ Wanted(body) /\ Within(body.window, minute) /\ ~AskedBefore(body.version)
           /\ line
  <2>1. AsksFor(body.version) BY <1>3 DEF Consider
  <2>2. /\ body.version \in 1..Newest /\ body.version > release /\ consent
        /\ requestedUpdateFor # body.version
    BY <1>3 DEF Wanted, Newer, AskedBefore
  <2>3. askings' = 1 /\ asked' = asked \cup {body.version} /\ requestedUpdateFor' = body.version
    BY <2>1, <2>2 DEF AsksFor
  <2>4. asked \subseteq 1..Newest /\ 1 \in 0..2 BY DEF OffersInv, OffersTypeOK
  <2>5. /\ asked' \subseteq 1..Newest /\ askings' \in 0..2
        /\ requestedUpdateFor' \in {NoVersion} \cup 1..Newest
    BY <2>2, <2>3, <2>4
  <2>6. body'.read \in BOOLEAN BY <1>1, Zenon
  <2>7. OffersTypeOK' BY <2>5, <2>6, Zenon DEF OffersInv, OffersTypeOK, Consider
  <2>8. AsksForward' BY <2>2, <2>3 DEF OffersInv, AsksForward, Consider
  <2> QED BY <1>2, <2>3, <2>7, <2>8 DEF OffersInv, AsksOnce
<1>4. CASE ~ (/\ Wanted(body) /\ Within(body.window, minute) /\ ~AskedBefore(body.version)
              /\ line)
  <2>1. /\ requestedUpdateFor' \in {requestedUpdateFor, NoVersion}
        /\ asked' = asked /\ askings' = askings
    BY <1>4 DEF Consider
  <2> QED BY <1>1, <1>2, <2>1 DEF OffersInv, OffersTypeOK, AsksOnce, AsksForward, Consider
<1> QED BY <1>3, <1>4

LEMMA OffersStep == OffersInv /\ [OffersNext]_offerVars => OffersInv'
<1> SUFFICES ASSUME OffersInv, [OffersNext]_offerVars PROVE OffersInv'
  OBVIOUS
<1> USE DEF OffersInv, OffersTypeOK, BodyIsAnOffer, AsksOnce, AsksForward
<1>1. CASE ReadOffer
  <2>1. BodyOf(offer).read \in BOOLEAN BY DEF BodyOf
  <2> QED BY <1>1, <2>1 DEF ReadOffer
<1>2. CASE Consider
  BY <1>2, ConsiderKeeps
<1>3. CASE ReadFails
  <2>1. NoBody.read \in BOOLEAN BY DEF NoBody
  <2> QED BY <1>3, <2>1 DEF ReadFails
<1>4. CASE Opens
  BY <1>4 DEF Opens, process
<1>5. CASE Closes
  BY <1>5 DEF Closes
<1>6. CASE MinutePasses
  <2>1. (minute + 1) % DayLength \in 0..DayLength - 1 BY OffersAssumption
  <2> QED BY <1>6, <2>1 DEF MinutePasses, process
<1>7. CASE OrderFails
  BY <1>7 DEF OrderFails, process
<1>8. ASSUME NEW v \in 1..Newest, Answers(v) PROVE OffersInv'
  BY <1>8 DEF Answers, process
<1>9. ASSUME NEW v \in 1..Newest, Restarts(v) PROVE OffersInv'
  <2>1. NoBody.read \in BOOLEAN BY DEF NoBody
  <2>2. v # NoVersion /\ v \in {release, order} BY <1>9 DEF Restarts
  <2>3. body'.read \in BOOLEAN /\ lost' \in BOOLEAN /\ line' \in BOOLEAN
    BY <1>9, <2>1, Zenon DEF Restarts
  <2>4. /\ release' \in 1..Newest /\ asked' = {} /\ asked' \subseteq 1..Newest
        /\ askings' = 0 /\ 0 \in 0..2 /\ askings' \in 0..2
    BY <1>9, <2>2 DEF Restarts
  <2>5. OffersTypeOK' BY <1>9, <2>3, <2>4, Zenon DEF Restarts
  <2>6. BodyIsAnOffer' BY <1>9 DEF Restarts
  <2> QED BY <2>5, <2>6, <2>4
<1>10. ASSUME NEW o \in Offers, Offered(o) PROVE OffersInv'
  BY <1>10, OffersAssumption DEF Offered, process
<1>11. CASE UNCHANGED offerVars
  BY <1>11 DEF offerVars
<1> QED BY <1>1, <1>2, <1>3, <1>4, <1>5, <1>6, <1>7, <1>8, <1>9, <1>10, <1>11 DEF OffersNext

(* However offers come and go while a configuration is read, and however      *)
(* often the channel drops, a process asks once for a release it goes to ask  *)
(* for, and only for one that is newer than its own and wanted: the part of   *)
(* OffersKept that says what may never happen.                               *)
THEOREM OffersAreForward == OffersSpec => [](OffersTypeOK /\ AsksOnce /\ AsksForward)
<1>1. OffersInv => OffersTypeOK /\ AsksOnce /\ AsksForward BY DEF OffersInv
<1> QED BY <1>1, OffersStart, OffersStep, PTL DEF OffersSpec

-----------------------------------------------------------------------------
(* ProcessEnd.  While the process goes on its exit code is that of the last   *)
(* call of exit(); a call that succeeds was asked for or had succeeded, and   *)
(* one that fails has a failure behind it.                                   *)
CallsTyped == calls \in Seq([code : {0, 1}, at : {"closing", "waiting"}])
LastCallDecides ==
  Going => exitCode = IF calls = <<>> THEN 0 ELSE calls[Len(calls)].code
SuccessHasAReason ==
  \A c \in 1..Len(calls) : calls[c].code = 0 => cause \cap {"done", "signal"} # {}
FailureHasAReason ==
  cause \subseteq {"done"} =>
    /\ ~fatalHandled /\ teardown = "none" /\ ~capped
    /\ \A c \in 1..Len(calls) : calls[c].code = 0
KeptUntilAsked == ~loop => calls # <<>>

EndInv ==
  /\ EndTypeOK /\ CodeIsTrue /\ CallsTyped
  /\ LastCallDecides /\ SuccessHasAReason /\ FailureHasAReason /\ KeptUntilAsked

LEMMA EndStart == EndInit => EndInv
<1> SUFFICES ASSUME EndInit PROVE EndInv
  OBVIOUS
<1>1. /\ calls \in Seq([code : {0, 1}, at : {"closing", "waiting"}])
      /\ Len(calls) = 0 /\ DOMAIN calls = {}
  BY DEF EndInit
<1>2. /\ exitCode \in {0, 1} /\ Len(calls) <= MaxExits
      /\ \A c \in DOMAIN calls : calls[c].code \in {0, 1} /\ calls[c].at \in {"closing", "waiting"}
  BY <1>1, EndAssumption DEF EndInit
<1>3. fatalHandled \in BOOLEAN /\ capped \in BOOLEAN /\ loop \in BOOLEAN BY DEF EndInit
<1>4. EndTypeOK BY <1>2, <1>3 DEF EndInit, EndTypeOK
<1>5. CallsTyped /\ SuccessHasAReason /\ FailureHasAReason
  BY <1>1 DEF EndInit, CallsTyped, SuccessHasAReason, FailureHasAReason
<1>6. LastCallDecides /\ CodeIsTrue /\ KeptUntilAsked
  BY DEF EndInit, LastCallDecides, CodeIsTrue, KeptUntilAsked, Going
<1> QED BY <1>4, <1>5, <1>6 DEF EndInv

(* What is known of one call among several.                                   *)
LEMMA CallFacts ==
  ASSUME NEW s \in Seq([code : {0, 1}, at : {"closing", "waiting"}])
  PROVE  /\ DOMAIN s = 1..Len(s) /\ Len(s) \in Nat
         /\ \A c \in 1..Len(s) : /\ s[c] \in [code : {0, 1}, at : {"closing", "waiting"}]
                                 /\ s[c].code \in {0, 1} /\ s[c].at \in {"closing", "waiting"}
<1> DEFINE Calls == [code : {0, 1}, at : {"closing", "waiting"}]
<1>1. \A e \in Calls : e.code \in {0, 1} /\ e.at \in {"closing", "waiting"} OBVIOUS
<1>2. s \in Seq(Calls) OBVIOUS
<1> HIDE DEF Calls
<1>3. DOMAIN s = 1..Len(s) /\ Len(s) \in Nat BY <1>2, LenProperties
<1>4. \A c \in 1..Len(s) : s[c] \in Calls BY <1>2, ElementOfSeq
<1> QED BY <1>1, <1>3, <1>4 DEF Calls

(* What a call of exit() does to the list of the calls.                      *)
LEMMA CallIsLast ==
  ASSUME NEW code \in {0, 1}, CallsTyped, Room, CallsExit(code)
  PROVE  /\ calls' \in Seq([code : {0, 1}, at : {"closing", "waiting"}])
         /\ Len(calls') = Len(calls) + 1 /\ Len(calls') <= MaxExits /\ calls' # <<>>
         /\ \A c \in 1..Len(calls) : calls'[c] = calls[c]
         /\ calls'[Len(calls')].code = code /\ exitCode' = code
         /\ DOMAIN calls' = 1..Len(calls')
<1> DEFINE Calls == [code : {0, 1}, at : {"closing", "waiting"}]
           e == [code |-> code, at |-> "closing"]
<1>1. e \in Calls /\ e.code = code OBVIOUS
<1>2. calls \in Seq(Calls) /\ calls' = Append(calls, e) /\ exitCode' = code
  BY DEF CallsTyped, CallsExit
<1>3. Len(calls) \in Nat /\ Len(calls) < MaxExits BY <1>2 DEF Room
<1> HIDE DEF e, Calls
<1>4. /\ calls' \in Seq(Calls) /\ Len(calls') = Len(calls) + 1
      /\ \A c \in 1..Len(calls) : calls'[c] = calls[c]
      /\ calls'[Len(calls) + 1] = e
  BY <1>1, <1>2
<1>5. DOMAIN calls' = 1..Len(calls') BY <1>4, LenProperties
<1>6. calls' # <<>> /\ Len(calls') <= MaxExits BY <1>3, <1>4, <1>5, EndAssumption
<1> QED BY <1>1, <1>2, <1>4, <1>5, <1>6 DEF Calls

(* A call keeps everything, if the reasons for its code are on record.       *)
LEMMA CallKeeps ==
  ASSUME NEW code \in {0, 1}, EndInv, Room, CallsExit(code), Going, stage' = stage,
         command' = command, cause \subseteq cause',
         cause' \subseteq {"signal", "fatal", "exception", "rejection", "failure", "done"},
         fatalHandled' = fatalHandled, capped' \in {capped, FALSE},
         loop' \in {loop, FALSE}, teardown' \in {"none", "running", "over"},
         code = 0 => cause' \cap {"done", "signal"} # {},
         cause' \subseteq {"done"} => code = 0 /\ teardown' = "none"
  PROVE  EndInv'
<1>1. CallsTyped BY DEF EndInv
<1>2. /\ calls' \in Seq([code : {0, 1}, at : {"closing", "waiting"}])
      /\ Len(calls') = Len(calls) + 1 /\ Len(calls') <= MaxExits /\ calls' # <<>>
      /\ \A c \in 1..Len(calls) : calls'[c] = calls[c]
      /\ calls'[Len(calls')].code = code /\ exitCode' = code
      /\ DOMAIN calls' = 1..Len(calls')
  BY <1>1, CallIsLast
<1>3. Len(calls) \in Nat BY <1>1 DEF CallsTyped
<1>4. \A c \in 1..Len(calls') :
        \/ c = Len(calls') /\ calls'[c].code = code
        \/ c \in 1..Len(calls) /\ calls'[c] = calls[c]
  BY <1>2, <1>3
<1>5. EndTypeOK'
  <2>1. \A c \in DOMAIN calls' : calls'[c].code \in {0, 1} /\ calls'[c].at \in {"closing", "waiting"}
    BY <1>2, CallFacts
  <2> QED BY <1>2, <2>1 DEF EndInv, EndTypeOK
<1>6. SuccessHasAReason' BY <1>4 DEF EndInv, SuccessHasAReason
<1>7. FailureHasAReason' BY <1>4 DEF EndInv, FailureHasAReason, EndTypeOK
<1>8. CodeIsTrue' BY DEF CodeIsTrue, Going
<1>9. LastCallDecides' BY <1>2 DEF LastCallDecides
<1> QED BY <1>2, <1>5, <1>6, <1>7, <1>8, <1>9 DEF EndInv, CallsTyped, KeptUntilAsked

(* A call that has closed what it can is the same call.                      *)
LEMMA ClosingKeeps ==
  ASSUME EndInv, Going, NEW c \in DOMAIN calls,
         calls' = [calls EXCEPT ![c].at = "waiting"], loop' \in {loop, FALSE},
         UNCHANGED <<stage, command, exitCode, fatalHandled, teardown, capped, cause>>
  PROVE  EndInv'
<1> DEFINE Calls == [code : {0, 1}, at : {"closing", "waiting"}]
<1>1. calls \in Seq(Calls) BY DEF EndInv, CallsTyped
<1>2. DOMAIN calls = 1..Len(calls) /\ Len(calls) \in Nat BY <1>1, LenProperties
<1>3. calls[c] \in Calls BY <1>1, <1>2, CallFacts
<1>4. [calls[c] EXCEPT !.at = "waiting"] \in Calls BY <1>3
<1>5. calls' = [calls EXCEPT ![c] = [calls[c] EXCEPT !.at = "waiting"]] OBVIOUS
<1>6. /\ calls' \in Seq(Calls) /\ Len(calls') = Len(calls) /\ DOMAIN calls' = DOMAIN calls
      /\ \A d \in 1..Len(calls) : calls'[d].code = calls[d].code
  <2>1. calls' \in Seq(Calls) /\ Len(calls') = Len(calls) /\ DOMAIN calls' = DOMAIN calls
    BY <1>1, <1>2, <1>4, <1>5, ExceptSeq
  <2>2. \A d \in 1..Len(calls) : calls'[d].code = calls[d].code
    BY <1>2, <1>3, <1>5
  <2> QED BY <2>1, <2>2
<1>7. calls # <<>> /\ calls' # <<>> BY <1>2, <1>6
<1>8. Len(calls) \in 1..Len(calls) BY <1>2
<1>9. EndTypeOK'
  <2>1. \A d \in DOMAIN calls' : calls'[d].code \in {0, 1} /\ calls'[d].at \in {"closing", "waiting"}
    BY <1>6, CallFacts
  <2> QED BY <1>6, <2>1 DEF EndInv, EndTypeOK
<1>10. LastCallDecides' BY <1>6, <1>7, <1>8 DEF EndInv, LastCallDecides, Going
<1>11. SuccessHasAReason' BY <1>6 DEF EndInv, SuccessHasAReason
<1>12. FailureHasAReason' BY <1>6 DEF EndInv, FailureHasAReason
<1>13. CodeIsTrue' BY DEF CodeIsTrue, Going
<1> QED BY <1>6, <1>7, <1>9, <1>10, <1>11, <1>12, <1>13 DEF EndInv, CallsTyped, KeptUntilAsked

LEMMA EndStep == EndInv /\ [EndNext]_endVars => EndInv'
<1> SUFFICES ASSUME EndInv, [EndNext]_endVars PROVE EndInv'
  OBVIOUS
<1>0. /\ stage \in {"starting", "running", "ended"} /\ capped \in BOOLEAN
      /\ teardown \in {"none", "running", "over"}
      /\ cause \subseteq {"signal", "fatal", "exception", "rejection", "failure", "done"}
  BY DEF EndInv, EndTypeOK
<1>1. ASSUME NEW code \in {0, 1}, MainEnds(code) PROVE EndInv'
  <2>1. FailureHasAReason BY DEF EndInv
  <2> QED BY <1>0, <1>1, <2>1, CallKeeps DEF MainEnds, Going, FailureHasAReason
<1>2. CASE MainRuns
  BY <1>2 DEF MainRuns, EndInv, EndTypeOK, CodeIsTrue, CallsTyped, LastCallDecides, Going,
       SuccessHasAReason, FailureHasAReason, KeptUntilAsked
<1>3. CASE Fatal
  <2>1. "fatal" \in cause' BY <1>3 DEF Fatal
  <2>2. /\ Room /\ CallsExit(1) /\ Going /\ stage' = stage /\ command' = command
        /\ cause' = cause \cup {"fatal"} /\ fatalHandled' = fatalHandled
        /\ capped' \in {capped, FALSE} /\ loop' \in {loop, FALSE} /\ teardown' = teardown
    BY <1>0, <1>3 DEF Fatal, Going, LetsGo
  <2>3. ~ (cause' \subseteq {"done"}) /\ cause \subseteq cause' /\ 1 \in {0, 1} /\ 1 # 0
    BY <2>1, <2>2
  <2>4. /\ cause' \subseteq {"signal", "fatal", "exception", "rejection", "failure", "done"}
        /\ teardown' \in {"none", "running", "over"}
    BY <1>0, <2>2
  <2> QED BY <2>2, <2>3, <2>4, CallKeeps
<1>4. CASE Signal
  BY <1>0, <1>4, CallKeeps DEF Signal, Going, LetsGo
<1>5. ASSUME NEW why \in {"signal", "exception", "rejection"}, MainDies(why) PROVE EndInv'
  BY <1>5 DEF MainDies, EndInv, EndTypeOK, CodeIsTrue, CallsTyped, LastCallDecides, Going,
       SuccessHasAReason, FailureHasAReason, KeptUntilAsked
<1>6. CASE FirstException
  BY <1>6 DEF FirstException, EndInv, EndTypeOK, CodeIsTrue, CallsTyped, LastCallDecides, Going,
       SuccessHasAReason, FailureHasAReason, KeptUntilAsked
<1>7. CASE NextException
  <2>1. ~ (cause \subseteq {"done"})
    BY <1>7 DEF NextException, EndInv, FailureHasAReason
  <2>2. /\ Room /\ CallsExit(1) /\ Going /\ stage' = stage /\ command' = command
        /\ cause' = cause /\ fatalHandled' = fatalHandled
        /\ capped' \in {capped, FALSE} /\ loop' \in {loop, FALSE} /\ teardown' = teardown
    BY <1>0, <1>7 DEF NextException, Going
  <2>3. ~ (cause' \subseteq {"done"}) /\ cause \subseteq cause' /\ 1 \in {0, 1} /\ 1 # 0
    BY <2>1, <2>2
  <2>4. /\ cause' \subseteq {"signal", "fatal", "exception", "rejection", "failure", "done"}
        /\ teardown' \in {"none", "running", "over"}
    BY <1>0, <2>2
  <2> QED BY <2>2, <2>3, <2>4, CallKeeps
<1>8. CASE TornDown
  <2>1. ~ (cause \subseteq {"done"})
    BY <1>8 DEF TornDown, EndInv, FailureHasAReason
  <2>2. /\ Room /\ CallsExit(1) /\ Going /\ stage' = stage /\ command' = command
        /\ cause' = cause /\ fatalHandled' = fatalHandled
        /\ capped' \in {capped, FALSE} /\ loop' \in {loop, FALSE} /\ teardown' = "over"
    BY <1>0, <1>8 DEF TornDown, LetsGo
  <2>3. ~ (cause' \subseteq {"done"}) /\ cause \subseteq cause' /\ 1 \in {0, 1} /\ 1 # 0
    BY <2>1, <2>2
  <2>4. /\ cause' \subseteq {"signal", "fatal", "exception", "rejection", "failure", "done"}
        /\ teardown' \in {"none", "running", "over"}
    BY <1>0, <2>2
  <2> QED BY <2>2, <2>3, <2>4, CallKeeps
<1>9. CASE TeardownTimesOut
  <2>1. ~ (cause \subseteq {"done"})
    BY <1>9 DEF TeardownTimesOut, EndInv, FailureHasAReason
  <2>2. /\ Room /\ CallsExit(1) /\ Going /\ stage' = stage /\ command' = command
        /\ cause' = cause /\ fatalHandled' = fatalHandled
        /\ capped' \in {capped, FALSE} /\ loop' \in {loop, FALSE} /\ teardown' = teardown
    BY <1>0, <1>9 DEF TeardownTimesOut
  <2>3. ~ (cause' \subseteq {"done"}) /\ cause \subseteq cause' /\ 1 \in {0, 1} /\ 1 # 0
    BY <2>1, <2>2
  <2>4. /\ cause' \subseteq {"signal", "fatal", "exception", "rejection", "failure", "done"}
        /\ teardown' \in {"none", "running", "over"}
    BY <1>0, <2>2
  <2> QED BY <2>2, <2>3, <2>4, CallKeeps
<1>10. ASSUME NEW c \in DOMAIN calls, Closed(c) \/ CapPasses(c) PROVE EndInv'
  BY <1>10, ClosingKeeps DEF Closed, CapPasses, LetsGo
<1>11. ASSUME NEW c \in DOMAIN calls, Backstop(c) PROVE EndInv'
  <2>1. c \in 1..Len(calls) BY LenProperties DEF EndInv, CallsTyped
  <2> QED BY <1>11, <2>1 DEF Backstop, EndInv, EndTypeOK, CodeIsTrue, CallsTyped,
               LastCallDecides, Going, SuccessHasAReason, FailureHasAReason, KeptUntilAsked
<1>12. CASE Drains
  <2>1. calls # <<>> BY <1>12 DEF Drains, EndInv, KeptUntilAsked
  <2>2. Len(calls) \in 1..Len(calls)
    BY <2>1, LenProperties, EmptySeq DEF EndInv, CallsTyped
  <2>3. exitCode = calls[Len(calls)].code
    BY <1>12, <2>1 DEF Drains, EndInv, LastCallDecides
  <2> QED BY <1>12, <2>2, <2>3 DEF Drains, EndInv, EndTypeOK, CodeIsTrue, CallsTyped,
               LastCallDecides, Going, SuccessHasAReason, FailureHasAReason, KeptUntilAsked
<1>13. CASE UNCHANGED endVars
  BY <1>13 DEF endVars, EndInv, EndTypeOK, CodeIsTrue, CallsTyped,
               LastCallDecides, Going, SuccessHasAReason, FailureHasAReason, KeptUntilAsked
<1> QED BY <1>1, <1>2, <1>3, <1>4, <1>5, <1>6, <1>7, <1>8, <1>9, <1>10, <1>11, <1>12, <1>13
        DEF EndNext

(* Whichever of several calls, a drained loop or a backstop ends the process, *)
(* its exit code says how it came to end, for any number of calls: the part   *)
(* of EndIsKept that says what may never happen.                             *)
THEOREM ExitCodeIsTrue == EndSpec => [](EndTypeOK /\ CodeIsTrue)
<1>1. EndInv => EndTypeOK /\ CodeIsTrue BY DEF EndInv
<1> QED BY <1>1, EndStart, EndStep, PTL DEF EndSpec
=============================================================================
