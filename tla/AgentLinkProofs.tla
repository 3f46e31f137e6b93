--------------------------- MODULE AgentLinkProofs ---------------------------
(* What AgentLink keeps for every set of sockets, every list of URLs and     *)
(* every way the far ends may answer.  The invariant has three parts:        *)
(* Attempts says what the flags of a socket mean in each phase and that only *)
(* the socket dialled last can still be unsettled; Pursuit, that a running   *)
(* client waits for that socket or for the reconnect timer; Watch, which     *)
(* timers run meanwhile.                                                     *)
(*                                                                           *)
(* Besides, for every set of commands, what CommandDispatch keeps of bursts, *)
(* and for every set of connections, that the channel of the Go rewrite      *)
(* (GoLink) is the same live channel to the rest of its agent.               *)
EXTENDS AgentLink, GoLink, CommandDispatch, FiniteSetTheorems, TLAPS

Pending(s) == ~sock[s].settled /\ sock[s].phase # "unused"

Attempts ==
  /\ \A s \in Sockets :
       /\ sock[s].phase = "unused" => ~sock[s].settled
       /\ sock[s].phase = "dialing" => ~sock[s].settled /\ ~sock[s].opened
       /\ sock[s].phase = "open" => ~sock[s].settled /\ sock[s].opened
       /\ sock[s].phase = "leaving" => stopped
       /\ sock[s].phase \in {"rejected", "closed"} => sock[s].settled
       /\ Pending(s) => s = ws
  /\ ws \in Sockets => sock[ws].phase # "unused"
  /\ started <=> ws \in Sockets

Pursuit ==
  /\ Running => (reconnect = "none" <=> Pending(ws))
  /\ ~started => /\ reconnect = "none" /\ ~stopped /\ ~fatal
                /\ ~stale /\ ~heartbeat

Watch == OpenIsWatched /\ HaltedIsQuiet

IInv == TypeOK /\ Attempts /\ Pursuit /\ Watch

LEMMA LinkFits ==
  /\ NumUrls \in Nat \ {0}
  /\ NoSocket \notin Sockets
  /\ Schemes \in [0..(NumUrls - 1) -> {"http", "https"}]
  /\ AuthRetry \in BOOLEAN /\ StaleCheck \in BOOLEAN
  /\ MaxAttempts \in Nat \ {0}
BY LinkAssumption DEF Urls

SockSet == [Sockets -> [phase : Phases, opened : BOOLEAN,
                        settled : BOOLEAN, peer : BOOLEAN]]

(* What a dial, a hang-up and the end of an attempt do to the sockets.       *)
LEMMA ConnectEffect ==
  ASSUME TypeOK, NEW s \in Sockets, Connect(s)
  PROVE  /\ sock' \in SockSet
         /\ ws' = s
         /\ sock'[s].phase = "dialing" /\ ~sock'[s].opened /\ ~sock'[s].settled
         /\ \A x \in Sockets : x # s => sock'[x] = sock[x]
         /\ sock[s].phase \in {"unused", "rejected", "closed"}
BY DEF TypeOK, SockSet, Phases, Connect, Fresh

LEMMA HangupEffect ==
  ASSUME TypeOK, NEW to \in {"closing", "leaving"}, Hangup(to)
  PROVE  /\ sock' \in SockSet
         /\ \A s \in Sockets :
              /\ sock'[s].settled = sock[s].settled
              /\ sock'[s].opened = sock[s].opened
              /\ s # ws => sock'[s].phase = sock[s].phase
              /\ s = ws => sock'[s].phase =
                   IF sock[s].phase = "open" THEN to
                   ELSE IF sock[s].phase \in {"dialing", "rejected"}
                   THEN "closing" ELSE sock[s].phase
<1> USE LinkFits DEF TypeOK, SockSet, Phases
<1>1. CASE ws = NoSocket
  BY <1>1 DEF Hangup
<1>2. CASE ws \in Sockets /\ sock[ws].phase = "open"
  <2>1. sock' = [sock EXCEPT ![ws].phase = to]
    BY <1>2 DEF Hangup
  <2> QED
    BY <1>2, <2>1
<1>3. CASE ws \in Sockets /\ sock[ws].phase \in {"dialing", "rejected"}
  <2>1. sock' = [sock EXCEPT ![ws].phase = "closing"]
    BY <1>3 DEF Hangup
  <2> QED
    BY <1>3, <2>1
<1>4. CASE /\ ws \in Sockets
           /\ sock[ws].phase \notin {"open", "dialing", "rejected"}
  BY <1>4 DEF Hangup
<1> QED
  BY <1>1, <1>2, <1>3, <1>4

LEMMA SettleEffect ==
  ASSUME TypeOK, NEW s \in Sockets, NEW phase \in Phases,
         NEW opened \in BOOLEAN,
         SetSock(s, phase, opened)
  PROVE  sock' \in SockSet
<1> DEFINE r == [phase |-> phase, opened |-> opened, settled |-> TRUE,
                 peer |-> sock[s].peer]
<1>1. sock \in SockSet
  BY DEF TypeOK, SockSet
<1>2. sock' = [sock EXCEPT ![s] = r]
  BY DEF SetSock
<1>3. r \in [phase : Phases, opened : BOOLEAN, settled : BOOLEAN, peer : BOOLEAN]
  BY <1>1 DEF SockSet
<1> HIDE DEF r
<1> QED
  BY <1>1, <1>2, <1>3 DEF SockSet

LEMMA EndedEffect ==
  ASSUME TypeOK, NEW s \in Sockets, NEW opened, NEW again \in {"backoff", "auth", "now"},
         NEW n \in 0..MaxAttempts, Ended(s, opened, again, n)
  PROVE  /\ heartbeat' \in BOOLEAN /\ stale' \in BOOLEAN
         /\ reconnect' \in {"none", "backoff", "auth", "now"}
         /\ attempts' \in 0..MaxAttempts
         /\ urlIndex' \in 0..(NumUrls - 1)
<1> USE LinkFits DEF TypeOK, Urls, timers
<1>1. CASE sock[s].settled
  BY <1>1, Zenon DEF Ended
<1>2. CASE ~sock[s].settled
  <2>1. heartbeat' = FALSE /\ stale' = FALSE
    BY <1>2, Zenon DEF Ended
  <2>2. urlIndex' = urlIndex \/ urlIndex' = Rotated(urlIndex)
    BY <1>2, Zenon DEF Ended
  <2>3. \/ reconnect' = again /\ attempts' = Bump(n)
        \/ reconnect' = reconnect /\ attempts' = n
    BY <1>2, Zenon DEF Ended
  <2>4. Rotated(urlIndex) \in 0..(NumUrls - 1) /\ Bump(n) \in 0..MaxAttempts
    BY DEF Rotated, Bump
  <2> QED
    BY <2>1, <2>2, <2>3, <2>4
<1> QED
  BY <1>1, <1>2

(* The end of an attempt, however it is reported, keeps the types.           *)
LEMMA EndingTypes ==
  ASSUME TypeOK, NEW s \in Sockets, NEW phase \in Phases, NEW opened \in BOOLEAN,
         NEW again \in {"backoff", "auth", "now"}, NEW n \in 0..MaxAttempts,
         SetSock(s, phase, opened), Ended(s, opened, again, n),
         scheme' \in [Urls -> {"http", "https"}], refused' \in BOOLEAN,
         UNCHANGED <<ws, started, stopped, fatal, token>>
  PROVE  TypeOK'
<1>1. sock' \in SockSet
  BY SettleEffect
<1>2. /\ heartbeat' \in BOOLEAN /\ stale' \in BOOLEAN
      /\ reconnect' \in {"none", "backoff", "auth", "now"}
      /\ attempts' \in 0..MaxAttempts
      /\ urlIndex' \in Urls
  BY EndedEffect DEF Urls
<1>3. /\ ws' \in Sockets \cup {NoSocket} /\ token' \in BOOLEAN
      /\ started' \in BOOLEAN /\ stopped' \in BOOLEAN /\ fatal' \in BOOLEAN
  BY DEF TypeOK
<1> QED
  BY <1>1, <1>2, <1>3, Zenon DEF TypeOK, SockSet

LEMMA InitHolds == Init => IInv
<1> SUFFICES ASSUME Init PROVE IInv
  OBVIOUS
<1> USE LinkFits DEF Init, Fresh, Urls
<1>1. TypeOK
  <2>1. sock \in SockSet
    BY DEF SockSet, Phases
  <2>2. urlIndex \in Urls /\ attempts \in 0..MaxAttempts
    OBVIOUS
  <2> QED
    BY <2>1, <2>2 DEF TypeOK, SockSet
<1>2. Attempts /\ Pursuit
  BY DEF Attempts, Pursuit, Pending, Running
<1>3. Watch
  BY DEF Watch, OpenIsWatched, HaltedIsQuiet, Running, Connected
<1> QED
  BY <1>1, <1>2, <1>3 DEF IInv

LEMMA TypeNext ==
  ASSUME TypeOK, Attempts, [Next]_vars PROVE TypeOK'
<1> USE LinkFits DEF TypeOK, SockSet, Attempts, Phases, Urls, timers, life,
     urlVars
<1>1. CASE Start
  BY <1>1, ConnectEffect DEF Start
<1>2. CASE Stop
  BY <1>2, HangupEffect DEF Stop
<1>3. CASE ReconnectFires
  BY <1>3, ConnectEffect DEF ReconnectFires
<1>4. CASE StaleFires
  BY <1>4, HangupEffect DEF StaleFires
<1>5. CASE TokenChanges
  BY <1>5 DEF TokenChanges
<1>6. ASSUME NEW s \in Sockets, SocketOpens(s) PROVE TypeOK'
  BY <1>6 DEF SocketOpens, Answer, MarkAlive
<1>7. ASSUME NEW s \in Sockets, TokenRefused(s) PROVE TypeOK'
  <2>1. CASE Terminal401
    <3>1. SetSock(s, "closing", TRUE) /\ FailFatal
      BY <1>7, <2>1 DEF TokenRefused
    <3>2. sock' \in SockSet
      BY <3>1, SettleEffect
    <3> QED
      BY <1>7, <3>1, <3>2 DEF TokenRefused, FailFatal
  <2>2. CASE ~Terminal401
    <3>1. SetSock(s, "rejected", TRUE) /\ Ended(s, TRUE, "auth", attempts)
      BY <1>7, <2>2 DEF TokenRefused
    <3> QED
      BY <1>7, <2>2, <3>1, EndingTypes DEF TokenRefused
  <2> QED
    BY <2>1, <2>2
<1>8. ASSUME NEW s \in Sockets, AdoptsHttps(s) PROVE TypeOK'
  <2>1. scheme' \in [Urls -> {"http", "https"}] /\ 0 \in 0..MaxAttempts
    BY <1>8 DEF AdoptsHttps
  <2> QED
    BY <1>8, <2>1, EndingTypes DEF AdoptsHttps
<1>9. ASSUME NEW s \in Sockets, OtherStatus(s) PROVE TypeOK'
  BY <1>9, EndingTypes DEF OtherStatus
<1>10. ASSUME NEW s \in Sockets, DialFails(s) PROVE TypeOK'
  BY <1>10, EndingTypes DEF DialFails
<1>11. ASSUME NEW s \in Sockets, Unpinnable(s) PROVE TypeOK'
  BY <1>11 DEF Unpinnable, Answer, SetSock, FailFatal
<1>12. ASSUME NEW s \in Sockets, SocketCloses(s) PROVE TypeOK'
  BY <1>12, EndingTypes DEF SocketCloses
<1>13. ASSUME NEW s \in Sockets, PeerSpeaks(s) PROVE TypeOK'
  BY <1>13 DEF PeerSpeaks, MarkAlive
<1>14. ASSUME NEW s \in Sockets, OpenSocketErrs(s) PROVE TypeOK'
  BY <1>14, EndingTypes DEF OpenSocketErrs
<1>15. ASSUME NEW s \in Sockets, PeerVanishes(s) PROVE TypeOK'
  BY <1>15 DEF PeerVanishes
<1>16. CASE UNCHANGED vars
  BY <1>16 DEF vars
<1> QED
  BY <1>1, <1>2, <1>3, <1>4, <1>5, <1>6, <1>7, <1>8, <1>9, <1>10, <1>11, <1>12,
       <1>13, <1>14, <1>15, <1>16 DEF Next, SocketStep

LEMMA AttemptsNext ==
  ASSUME IInv, TypeOK', [Next]_vars PROVE Attempts'
<1> USE LinkFits DEF IInv, TypeOK, SockSet, Phases, Attempts, Pending, Pursuit,
     Watch, HaltedIsQuiet, Running, timers, life, urlVars
<1>1. CASE Start
  BY <1>1, ConnectEffect DEF Start
<1>2. CASE Stop
  BY <1>2, HangupEffect DEF Stop
<1>3. CASE ReconnectFires
  BY <1>3, ConnectEffect DEF ReconnectFires
<1>4. CASE StaleFires
  BY <1>4, HangupEffect DEF StaleFires
<1>5. CASE TokenChanges
  BY <1>5 DEF TokenChanges
<1>6. ASSUME NEW s \in Sockets, SocketOpens(s) PROVE Attempts'
  BY <1>6 DEF SocketOpens, Answer, MarkAlive
<1>7. ASSUME NEW s \in Sockets, TokenRefused(s) PROVE Attempts'
  BY <1>7 DEF TokenRefused, Answer, SetSock, Terminal401, FailFatal, Ended,
       Rotated, Urls, Bump
<1>8. ASSUME NEW s \in Sockets, AdoptsHttps(s) PROVE Attempts'
  BY <1>8 DEF AdoptsHttps, Answer, SetSock, Ended, Rotated, Urls, Bump
<1>9. ASSUME NEW s \in Sockets, OtherStatus(s) PROVE Attempts'
  BY <1>9 DEF OtherStatus, Answer, SetSock, Ended, Rotated, Urls, Bump
<1>10. ASSUME NEW s \in Sockets, DialFails(s) PROVE Attempts'
  BY <1>10 DEF DialFails, Answer, SetSock, Ended, Rotated, Urls, Bump
<1>11. ASSUME NEW s \in Sockets, Unpinnable(s) PROVE Attempts'
  BY <1>11 DEF Unpinnable, Answer, SetSock, FailFatal
<1>12. ASSUME NEW s \in Sockets, SocketCloses(s) PROVE Attempts'
  BY <1>12 DEF SocketCloses, SetSock, Ended, Rotated, Urls, Bump
<1>13. ASSUME NEW s \in Sockets, PeerSpeaks(s) PROVE Attempts'
  BY <1>13 DEF PeerSpeaks, MarkAlive
<1>14. ASSUME NEW s \in Sockets, OpenSocketErrs(s) PROVE Attempts'
  BY <1>14 DEF OpenSocketErrs, SetSock, Ended, Rotated, Urls, Bump
<1>15. ASSUME NEW s \in Sockets, PeerVanishes(s) PROVE Attempts'
  BY <1>15 DEF PeerVanishes
<1>16. CASE UNCHANGED vars
  BY <1>16 DEF vars
<1> QED
  BY <1>1, <1>2, <1>3, <1>4, <1>5, <1>6, <1>7, <1>8, <1>9, <1>10, <1>11, <1>12,
       <1>13, <1>14, <1>15, <1>16 DEF Next, SocketStep

LEMMA PursuitNext ==
  ASSUME IInv, TypeOK', [Next]_vars PROVE Pursuit'
<1> USE LinkFits DEF IInv, TypeOK, SockSet, Phases, Attempts, Pending, Pursuit,
     Watch, HaltedIsQuiet, OpenIsWatched, Connected, Running, timers, life,
     urlVars
<1>1. CASE Start
  BY <1>1, ConnectEffect DEF Start
<1>2. CASE Stop
  BY <1>2, HangupEffect DEF Stop
<1>3. CASE ReconnectFires
  BY <1>3, ConnectEffect DEF ReconnectFires
<1>4. CASE StaleFires
  BY <1>4, HangupEffect DEF StaleFires
<1>5. CASE TokenChanges
  BY <1>5 DEF TokenChanges
<1>6. ASSUME NEW s \in Sockets, SocketOpens(s) PROVE Pursuit'
  BY <1>6 DEF SocketOpens, Answer, MarkAlive
<1>7. ASSUME NEW s \in Sockets, TokenRefused(s) PROVE Pursuit'
  BY <1>7 DEF TokenRefused, Answer, SetSock, Terminal401, FailFatal, Ended,
       Rotated, Urls, Bump
<1>8. ASSUME NEW s \in Sockets, AdoptsHttps(s) PROVE Pursuit'
  BY <1>8 DEF AdoptsHttps, Answer, SetSock, Ended, Rotated, Urls, Bump
<1>9. ASSUME NEW s \in Sockets, OtherStatus(s) PROVE Pursuit'
  BY <1>9 DEF OtherStatus, Answer, SetSock, Ended, Rotated, Urls, Bump
<1>10. ASSUME NEW s \in Sockets, DialFails(s) PROVE Pursuit'
  BY <1>10 DEF DialFails, Answer, SetSock, Ended, Rotated, Urls, Bump
<1>11. ASSUME NEW s \in Sockets, Unpinnable(s) PROVE Pursuit'
  BY <1>11 DEF Unpinnable, Answer, SetSock, FailFatal
<1>12. ASSUME NEW s \in Sockets, SocketCloses(s) PROVE Pursuit'
  BY <1>12 DEF SocketCloses, SetSock, Ended, Rotated, Urls, Bump
<1>13. ASSUME NEW s \in Sockets, PeerSpeaks(s) PROVE Pursuit'
  BY <1>13 DEF PeerSpeaks, MarkAlive
<1>14. ASSUME NEW s \in Sockets, OpenSocketErrs(s) PROVE Pursuit'
  BY <1>14 DEF OpenSocketErrs, SetSock, Ended, Rotated, Urls, Bump
<1>15. ASSUME NEW s \in Sockets, PeerVanishes(s) PROVE Pursuit'
  BY <1>15 DEF PeerVanishes
<1>16. CASE UNCHANGED vars
  BY <1>16 DEF vars
<1> QED
  BY <1>1, <1>2, <1>3, <1>4, <1>5, <1>6, <1>7, <1>8, <1>9, <1>10, <1>11, <1>12,
       <1>13, <1>14, <1>15, <1>16 DEF Next, SocketStep

LEMMA WatchNext ==
  ASSUME IInv, TypeOK', Attempts', [Next]_vars PROVE Watch'
<1> USE LinkFits DEF IInv, TypeOK, SockSet, Phases, Attempts, Pending, Pursuit,
     Watch, HaltedIsQuiet, OpenIsWatched, Connected, Running, timers, life,
     urlVars
<1>1. CASE Start
  BY <1>1, ConnectEffect DEF Start
<1>2. CASE Stop
  BY <1>2, HangupEffect DEF Stop
<1>3. CASE ReconnectFires
  BY <1>3, ConnectEffect DEF ReconnectFires
<1>4. CASE StaleFires
  BY <1>4, HangupEffect DEF StaleFires
<1>5. CASE TokenChanges
  BY <1>5 DEF TokenChanges
<1>6. ASSUME NEW s \in Sockets, SocketOpens(s) PROVE Watch'
  BY <1>6 DEF SocketOpens, Answer, MarkAlive
<1>7. ASSUME NEW s \in Sockets, TokenRefused(s) PROVE Watch'
  BY <1>7 DEF TokenRefused, Answer, SetSock, Terminal401, FailFatal, Ended,
       Rotated, Urls, Bump
<1>8. ASSUME NEW s \in Sockets, AdoptsHttps(s) PROVE Watch'
  BY <1>8 DEF AdoptsHttps, Answer, SetSock, Ended, Rotated, Urls, Bump
<1>9. ASSUME NEW s \in Sockets, OtherStatus(s) PROVE Watch'
  BY <1>9 DEF OtherStatus, Answer, SetSock, Ended, Rotated, Urls, Bump
<1>10. ASSUME NEW s \in Sockets, DialFails(s) PROVE Watch'
  BY <1>10 DEF DialFails, Answer, SetSock, Ended, Rotated, Urls, Bump
<1>11. ASSUME NEW s \in Sockets, Unpinnable(s) PROVE Watch'
  BY <1>11 DEF Unpinnable, Answer, SetSock, FailFatal
<1>12. ASSUME NEW s \in Sockets, SocketCloses(s) PROVE Watch'
  BY <1>12 DEF SocketCloses, SetSock, Ended, Rotated, Urls, Bump
<1>13. ASSUME NEW s \in Sockets, PeerSpeaks(s) PROVE Watch'
  BY <1>13 DEF PeerSpeaks, MarkAlive
<1>14. ASSUME NEW s \in Sockets, OpenSocketErrs(s) PROVE Watch'
  BY <1>14 DEF OpenSocketErrs, SetSock, Ended, Rotated, Urls, Bump
<1>15. ASSUME NEW s \in Sockets, PeerVanishes(s) PROVE Watch'
  BY <1>15 DEF PeerVanishes
<1>16. CASE UNCHANGED vars
  BY <1>16 DEF vars
<1> QED
  BY <1>1, <1>2, <1>3, <1>4, <1>5, <1>6, <1>7, <1>8, <1>9, <1>10, <1>11, <1>12,
       <1>13, <1>14, <1>15, <1>16 DEF Next, SocketStep

LEMMA IInvNext == IInv /\ [Next]_vars => IInv'
<1> SUFFICES ASSUME IInv, [Next]_vars PROVE IInv'
  OBVIOUS
<1>1. TypeOK'
  BY TypeNext DEF IInv
<1>2. Attempts' /\ Pursuit'
  BY <1>1, AttemptsNext, PursuitNext
<1>3. Watch'
  BY <1>1, <1>2, WatchNext
<1> QED
  BY <1>1, <1>2, <1>3 DEF IInv

LEMMA IInvHolds == Spec => []IInv
BY InitHolds, IInvNext, PTL DEF Spec

(* Every variable keeps its type; in particular the URL in use is always one *)
(* of the configured ones.                                                   *)
THEOREM LinkTypes == Spec => []TypeOK
<1>1. IInv => TypeOK
  BY DEF IInv
<1> QED
  BY <1>1, IInvHolds, PTL

(* However many ends an attempt reports and in whatever order late events of *)
(* earlier sockets arrive, a running client waits for exactly one thing: the *)
(* end of the socket it dialled last, or the reconnect timer.                *)
THEOREM LinkPursuesOne == Spec => []OnePursuit
<1>1. IInv => OnePursuit
  <2> SUFFICES ASSUME IInv, Running PROVE OnePursuit
    BY DEF OnePursuit
  <2>1. ws \in Sockets
    BY DEF IInv, Attempts, Running
  <2>2. Unsettled = {s \in Sockets : Pending(s)}
    BY DEF Unsettled, Pending
  <2>3. \A s \in Sockets : Pending(s) => s = ws
    BY DEF IInv, Attempts
  <2>4. CASE reconnect = "none"
    <3>1. Pending(ws)
      BY <2>4 DEF IInv, Pursuit
    <3> QED
      BY <2>1, <2>2, <2>3, <2>4, <3>1 DEF OnePursuit
  <2>5. CASE reconnect # "none"
    <3>1. ~Pending(ws)
      BY <2>5 DEF IInv, Pursuit
    <3> QED
      BY <2>2, <2>3, <2>5, <3>1 DEF OnePursuit
  <2> QED
    BY <2>4, <2>5
<1> QED
  BY <1>1, IInvHolds, PTL

(* An open connection of a running client is under the stale check, and no   *)
(* timer outlives the connection it watches.                                 *)
THEOREM LinkWatchesOpen == Spec => []OpenIsWatched
<1>1. IInv => OpenIsWatched
  BY DEF IInv, Watch
<1> QED
  BY <1>1, IInvHolds, PTL

(* After stop(), a terminal 401 or an unpinnable socket nothing is dialled,  *)
(* open or scheduled any more, whatever events are still to come.            *)
THEOREM LinkHaltsQuietly == Spec => []HaltedIsQuiet
<1>1. IInv => HaltedIsQuiet
  BY DEF IInv, Watch
<1> QED
  BY <1>1, IInvHolds, PTL

-----------------------------------------------------------------------------
(* The URL in use changes only when an attempt that got no answer ends.      *)
Sticks == urlIndex' # urlIndex => urlIndex' = Rotated(urlIndex) /\ ~sock[ws].opened

LEMMA SticksNext ==
  ASSUME IInv, TypeOK', [Next]_vars PROVE Sticks
<1> USE LinkFits DEF Sticks, IInv, TypeOK, SockSet, Phases, Attempts, Pending,
     Pursuit, Watch, HaltedIsQuiet, Running, timers, life, urlVars
<1>1. CASE Start
  BY <1>1, ConnectEffect DEF Start
<1>2. CASE Stop
  BY <1>2, HangupEffect DEF Stop
<1>3. CASE ReconnectFires
  BY <1>3, ConnectEffect DEF ReconnectFires
<1>4. CASE StaleFires
  BY <1>4, HangupEffect DEF StaleFires
<1>5. CASE TokenChanges
  BY <1>5 DEF TokenChanges
<1>6. ASSUME NEW s \in Sockets, SocketOpens(s) PROVE Sticks
  BY <1>6 DEF SocketOpens, Answer, MarkAlive
<1>7. ASSUME NEW s \in Sockets, TokenRefused(s) PROVE Sticks
  BY <1>7 DEF TokenRefused, Answer, SetSock, Terminal401, FailFatal, Ended,
       Urls, Bump
<1>8. ASSUME NEW s \in Sockets, AdoptsHttps(s) PROVE Sticks
  BY <1>8 DEF AdoptsHttps, Answer, SetSock, Ended, Urls, Bump
<1>9. ASSUME NEW s \in Sockets, OtherStatus(s) PROVE Sticks
  BY <1>9 DEF OtherStatus, Answer, SetSock, Ended, Urls, Bump
<1>10. ASSUME NEW s \in Sockets, DialFails(s) PROVE Sticks
  BY <1>10 DEF DialFails, Answer, SetSock, Ended, Urls, Bump
<1>11. ASSUME NEW s \in Sockets, Unpinnable(s) PROVE Sticks
  BY <1>11 DEF Unpinnable, Answer, SetSock, FailFatal
<1>12. ASSUME NEW s \in Sockets, SocketCloses(s) PROVE Sticks
  BY <1>12 DEF SocketCloses, SetSock, Ended, Urls, Bump
<1>13. ASSUME NEW s \in Sockets, PeerSpeaks(s) PROVE Sticks
  BY <1>13 DEF PeerSpeaks, MarkAlive
<1>14. ASSUME NEW s \in Sockets, OpenSocketErrs(s) PROVE Sticks
  BY <1>14 DEF OpenSocketErrs, SetSock, Ended, Urls, Bump
<1>15. ASSUME NEW s \in Sockets, PeerVanishes(s) PROVE Sticks
  BY <1>15 DEF PeerVanishes
<1>16. CASE UNCHANGED vars
  BY <1>16 DEF vars
<1> QED
  BY <1>1, <1>2, <1>3, <1>4, <1>5, <1>6, <1>7, <1>8, <1>9, <1>10, <1>11, <1>12,
       <1>13, <1>14, <1>15, <1>16 DEF Next, SocketStep

(* "A URL that worked is kept until it stops working."                      *)
THEOREM LinkKeepsUrl == Spec => StickyUrl
<1>1. IInv /\ [Next]_vars => [Sticks]_vars
  BY IInvNext, SticksNext DEF IInv
<1>2. [Sticks]_vars => [urlIndex' # urlIndex =>
                          /\ urlIndex' = Rotated(urlIndex)
                          /\ ~sock[ws].opened]_vars
  BY DEF Sticks
<1> QED
  BY <1>1, <1>2, IInvHolds, PTL DEF Spec, StickyUrl

(* The state of the channel as the rest of the agent sees it.               *)
Seen == IF stopped \/ fatal THEN "halted"
        ELSE IF Connected THEN "open" ELSE "down"

SeenStep == \/ Seen' = Seen /\ refused' = refused
            \/ Seen = "down" /\ Seen' = "open" /\ refused' = FALSE
            \/ Seen = "open" /\ Seen' = "down" /\ refused' = refused
            \/ /\ Seen = "down" /\ refused' = TRUE
               /\ Seen' = IF AuthRetry THEN "down" ELSE "halted"
            \/ Seen # "halted" /\ Seen' = "halted" /\ refused' = refused

LEMMA SeenNext ==
  ASSUME IInv, IInv', [Next]_vars PROVE SeenStep
<1> USE LinkFits DEF SeenStep, Seen, Connected, OpenIsWatched, IInv, TypeOK,
     SockSet, Phases, Attempts, Pending, Pursuit, Watch, HaltedIsQuiet,
     Running, timers, life, urlVars
<1>1. CASE Start
  BY <1>1, ConnectEffect DEF Start
<1>2. CASE Stop
  BY <1>2, HangupEffect DEF Stop
<1>3. CASE ReconnectFires
  BY <1>3, ConnectEffect DEF ReconnectFires
<1>4. CASE StaleFires
  BY <1>4, HangupEffect DEF StaleFires
<1>5. CASE TokenChanges
  BY <1>5 DEF TokenChanges
<1>6. ASSUME NEW s \in Sockets, SocketOpens(s) PROVE SeenStep
  BY <1>6 DEF SocketOpens, Answer, MarkAlive
<1>7. ASSUME NEW s \in Sockets, TokenRefused(s) PROVE SeenStep
  BY <1>7 DEF TokenRefused, Answer, SetSock, Terminal401, FailFatal, Ended,
       Rotated, Urls, Bump
<1>8. ASSUME NEW s \in Sockets, AdoptsHttps(s) PROVE SeenStep
  BY <1>8 DEF AdoptsHttps, Answer, SetSock, Ended, Rotated, Urls, Bump
<1>9. ASSUME NEW s \in Sockets, OtherStatus(s) PROVE SeenStep
  BY <1>9 DEF OtherStatus, Answer, SetSock, Ended, Rotated, Urls, Bump
<1>10. ASSUME NEW s \in Sockets, DialFails(s) PROVE SeenStep
  BY <1>10 DEF DialFails, Answer, SetSock, Ended, Rotated, Urls, Bump
<1>11. ASSUME NEW s \in Sockets, Unpinnable(s) PROVE SeenStep
  BY <1>11 DEF Unpinnable, Answer, SetSock, FailFatal
<1>12. ASSUME NEW s \in Sockets, SocketCloses(s) PROVE SeenStep
  BY <1>12 DEF SocketCloses, SetSock, Ended, Rotated, Urls, Bump
<1>13. ASSUME NEW s \in Sockets, PeerSpeaks(s) PROVE SeenStep
  BY <1>13 DEF PeerSpeaks, MarkAlive
<1>14. ASSUME NEW s \in Sockets, OpenSocketErrs(s) PROVE SeenStep
  BY <1>14 DEF OpenSocketErrs, SetSock, Ended, Rotated, Urls, Bump
<1>15. ASSUME NEW s \in Sockets, PeerVanishes(s) PROVE SeenStep
  BY <1>15 DEF PeerVanishes
<1>16. CASE UNCHANGED vars
  BY <1>16 DEF vars
<1> QED
  BY <1>1, <1>2, <1>3, <1>4, <1>5, <1>6, <1>7, <1>8, <1>9, <1>10, <1>11, <1>12,
       <1>13, <1>14, <1>15, <1>16 DEF Next, SocketStep

(* The client implements the abstract channel: down and open alternate, a   *)
(* refused token follows the policy, and halted is for good.                 *)
THEOREM LinkIsAChannel == Spec => ImplementsChannel
<1>1. Init => Channel!Init
  BY DEF Init, Channel!Init, Connected
<1>2. ASSUME IInv, IInv', [Next]_vars PROVE [Channel!Next]_(Channel!vars)
  BY <1>2, SeenNext DEF SeenStep, Seen, Channel!Next, Channel!vars,
       Channel!Opened,
     Channel!Dropped, Channel!Refused, Channel!Halted
<1> QED
  BY <1>1, <1>2, IInvHolds, PTL DEF Spec, ImplementsChannel, Channel!Spec

-----------------------------------------------------------------------------
(* Commands.                                                               *)

HandlerStages == {"none", "sampling", "pausing", "install", "delete", "leaves", "works",
                  "over"}

(* The runner's flags: one burst at a time, and who is cut short is told so. *)
OneBurst ==
  /\ \A c, d \in Bursting : c = d
  /\ Bursting # {} => running
  /\ \A c \in Bursting : /\ sampled[c] < Total
                         /\ cancelled <=> cutAt[c] # NotCut
                         /\ cutAt[c] # NotCut => sampled[c] = cutAt[c]

(* What a command has to its name before its handler and after it.         *)
BurstsEnd ==
  \A c \in Orders :
    /\ handler[c] # "over" => tries[c] < Retries
    /\ handler[c] \notin {"sampling", "pausing", "over"} =>
         sampled[c] = 0 /\ cutAt[c] = NotCut
    /\ handler[c] = "over" =>
         /\ cutAt[c] # NotCut => sampled[c] <= cutAt[c] + 1
         /\ sampled[c] > 0 /\ cutAt[c] = NotCut => sampled[c] = Total

DispatchInv == DispatchTypeOK /\ OneBurst /\ BurstsEnd

LEMMA DispatchInitHolds ==
  ASSUME DispatchAssumption, DispatchInit
  PROVE  DispatchInv
<1>1. Total \in Nat \ {0} /\ Retries \in Nat \ {0}
  BY DEF DispatchAssumption
<1>2. DispatchTypeOK
  <2>1. /\ tries \in [Orders -> 0..Retries] /\ sampled \in [Orders -> 0..Total]
        /\ cutAt \in [Orders -> 0..NotCut]
    BY <1>1 DEF DispatchInit, NotCut
  <2>2. handler \in [Orders -> {"none", "sampling", "pausing", "install", "delete",
                                "leaves", "works", "over"}]
    BY DEF DispatchInit
  <2> QED
    BY <2>1, <2>2 DEF DispatchInit, DispatchTypeOK
<1>3. Bursting = {}
  BY DEF DispatchInit, Bursting
<1>4. BurstsEnd
  BY <1>1 DEF DispatchInit, BurstsEnd
<1> QED
  BY <1>2, <1>3, <1>4 DEF DispatchInv, OneBurst

(* A step of one command's handler that is no burst's and leaves the runner *)
(* alone.                                                                  *)
LEMMA NoBurstStep ==
  ASSUME DispatchAssumption, DispatchInv, NEW c \in Orders,
         handler[c] \notin {"sampling", "pausing", "over"},
         NEW s \in HandlerStages \ {"sampling", "pausing"},
         handler' = [handler EXCEPT ![c] = s],
         tries' = tries \/ tries' = [tries EXCEPT ![c] = @ + 1],
         tries' # tries => s = "over" \/ tries'[c] < Retries,
         linked' \in BOOLEAN, owed' \subseteq Orders, UNCHANGED burstVars
  PROVE  DispatchInv'
<1>1. /\ handler \in [Orders -> HandlerStages] /\ tries \in [Orders -> 0..Retries]
      /\ sampled \in [Orders -> 0..Total] /\ cutAt \in [Orders -> 0..NotCut]
      /\ Total \in Nat \ {0} /\ Retries \in Nat \ {0}
  BY DEF DispatchInv, DispatchTypeOK, HandlerStages, DispatchAssumption
<1>2. tries[c] < Retries /\ sampled[c] = 0 /\ cutAt[c] = NotCut
  BY DEF DispatchInv, BurstsEnd
<1>3. /\ handler' \in [Orders -> HandlerStages] /\ handler'[c] = s
      /\ \A d \in Orders \ {c} : handler'[d] = handler[d] /\ tries'[d] = tries[d]
      /\ tries' \in [Orders -> 0..Retries]
      /\ s # "over" => tries'[c] < Retries
  BY <1>1, <1>2
<1>4. Bursting' = Bursting
  BY <1>1, <1>3 DEF Bursting
<1>5. DispatchTypeOK'
  BY <1>3 DEF DispatchInv, DispatchTypeOK, HandlerStages, burstVars
<1>6. OneBurst'
  BY <1>4 DEF DispatchInv, OneBurst, burstVars
<1>7. BurstsEnd'
  <2> SUFFICES ASSUME NEW d \in Orders
               PROVE  /\ handler'[d] # "over" => tries'[d] < Retries
                      /\ handler'[d] \notin {"sampling", "pausing", "over"} =>
                           sampled[d] = 0 /\ cutAt[d] = NotCut
                      /\ handler'[d] = "over" =>
                           /\ cutAt[d] # NotCut => sampled[d] <= cutAt[d] + 1
                           /\ sampled[d] > 0 /\ cutAt[d] = NotCut => sampled[d] = Total
    BY DEF BurstsEnd, burstVars, NotCut
  <2>1. CASE d = c
    BY <1>2, <1>3, <2>1
  <2>2. CASE d # c
    BY <1>3, <2>2 DEF DispatchInv, BurstsEnd
  <2> QED
    BY <2>1, <2>2
<1> QED
  BY <1>5, <1>6, <1>7 DEF DispatchInv

LEMMA DispatchStep ==
  ASSUME DispatchAssumption, DispatchInv, [DispatchNext]_dispatchVars
  PROVE  DispatchInv'
<1>0. /\ handler \in [Orders -> HandlerStages] /\ tries \in [Orders -> 0..Retries]
      /\ sampled \in [Orders -> 0..Total] /\ cutAt \in [Orders -> 0..NotCut]
      /\ linked \in BOOLEAN /\ running \in BOOLEAN /\ cancelled \in BOOLEAN
      /\ owed \subseteq Orders
      /\ Total \in Nat \ {0} /\ Retries \in Nat \ {0} /\ NotCut = Total + 1
  BY DEF DispatchInv, DispatchTypeOK, HandlerStages, DispatchAssumption, NotCut
<1>1. ASSUME NEW c \in Orders,
             \/ AnsweredAtOnce(c) \/ Accepted(c) \/ BurstRefused(c)
             \/ Installs(c) \/ Deletes(c) \/ Works(c) \/ Throws(c)
      PROVE  DispatchInv'
  <2>1. handler[c] \notin {"sampling", "pausing", "over"}
    BY <1>1 DEF AnsweredAtOnce, Accepted, BurstRefused, Comes, Installs, Deletes, Works,
                Throws
  <2>2. /\ linked' \in BOOLEAN /\ owed' \subseteq Orders /\ UNCHANGED burstVars
        /\ tries' = tries \/ tries' = [tries EXCEPT ![c] = @ + 1]
    BY <1>0, <1>1 DEF AnsweredAtOnce, Accepted, BurstRefused, Installs, Deletes, Works,
                      Throws, HasAnswered, Caught, Owes
  <2>3. PICK s \in HandlerStages \ {"sampling", "pausing"} :
          /\ handler' = [handler EXCEPT ![c] = s]
          /\ tries' # tries => s = "over" \/ tries'[c] < Retries
    <3>1. CASE AnsweredAtOnce(c) \/ BurstRefused(c) \/ Works(c) \/ Throws(c)
      BY <3>1 DEF AnsweredAtOnce, BurstRefused, Works, Throws, HasAnswered, Caught, To,
                  HandlerStages
    <3>2. CASE Accepted(c)
      <4>1. (IF KindOf[c] \in {"delete", "install"} THEN KindOf[c] ELSE "works")
              \in {"delete", "install", "works"}
        OBVIOUS
      <4> QED
        BY <3>2, <4>1 DEF Accepted, To, HandlerStages
    <3>3. CASE Installs(c) /\ HasAnswered(c)
      BY <3>3 DEF HasAnswered, To, HandlerStages
    <3>4. CASE Installs(c) /\ tries'[c] < Retries /\ UNCHANGED handler
      BY <1>0, <3>4 DEF Installs, HandlerStages
    <3>5. CASE Deletes(c)
      BY <3>5 DEF Deletes, To, HandlerStages
    <3> QED
      BY <1>1, <3>1, <3>2, <3>3, <3>4, <3>5 DEF Installs
  <2> QED
    BY <2>1, <2>2, <2>3, NoBurstStep
<1>2. ASSUME NEW c \in Orders, BurstBegins(c)
      PROVE  DispatchInv'
  <2>1. Bursting = {}
    BY <1>2 DEF BurstBegins, MayBurst, DispatchInv, OneBurst
  <2>2. /\ handler' \in [Orders -> HandlerStages] /\ handler'[c] = "sampling"
        /\ \A d \in Orders \ {c} : handler'[d] = handler[d]
    BY <1>0, <1>2 DEF BurstBegins, To, HandlerStages
  <2>3. /\ UNCHANGED <<linked, tries, sampled, cutAt>> /\ running' = TRUE
        /\ cancelled' = FALSE /\ owed' \subseteq Orders /\ handler[c] = "none"
    BY <1>0, <1>2 DEF BurstBegins, Owes, Comes
  <2>4. Bursting' = {c}
    BY <2>1, <2>2 DEF Bursting
  <2>5. sampled[c] = 0 /\ cutAt[c] = NotCut /\ tries[c] < Retries
    BY <2>3 DEF DispatchInv, BurstsEnd
  <2>6. DispatchTypeOK'
    BY <2>2, <2>3 DEF DispatchInv, DispatchTypeOK, HandlerStages, NotCut
  <2>7. OneBurst'
    BY <1>0, <2>3, <2>4, <2>5 DEF OneBurst, NotCut
  <2>8. BurstsEnd'
    BY <2>2, <2>3, <2>5 DEF DispatchInv, BurstsEnd, NotCut
  <2> QED
    BY <2>6, <2>7, <2>8 DEF DispatchInv
<1>3. ASSUME NEW c \in Orders, StopArrives(c)
      PROVE  DispatchInv'
  <2>1. /\ handler' = [handler EXCEPT ![c] = "over"] /\ handler[c] = "none"
        /\ cutAt' = [b \in Orders |-> IF b \in Bursting THEN sampled[b] ELSE cutAt[b]]
        /\ cancelled' = (cancelled \/ running) /\ owed' \subseteq Orders
        /\ UNCHANGED <<linked, tries, running, sampled>>
    BY <1>0, <1>3 DEF StopArrives, Comes, HasAnswered, To
  <2>2. Bursting' = Bursting
    BY <1>0, <2>1 DEF Bursting
  <2>3. DispatchTypeOK'
    <3>1. cutAt' \in [Orders -> 0..NotCut]
      BY <1>0, <2>1
    <3>2. handler' \in [Orders -> HandlerStages] /\ cancelled' \in BOOLEAN
      BY <1>0, <2>1 DEF HandlerStages
    <3> QED
      BY <2>1, <3>1, <3>2 DEF DispatchInv, DispatchTypeOK, HandlerStages, NotCut
  <2>4. OneBurst'
    <3>1. \A b \in Bursting : /\ sampled[b] < Total /\ cutAt'[b] = sampled[b]
                              /\ b \in Orders /\ running
      BY <2>1 DEF DispatchInv, OneBurst, Bursting
    <3> QED
      BY <1>0, <2>1, <2>2, <3>1 DEF DispatchInv, OneBurst, NotCut
  <2>5. BurstsEnd'
    <3>1. \A b \in Orders : b \notin Bursting => cutAt'[b] = cutAt[b]
      BY <2>1
    <3>2. \A b \in Bursting : handler'[b] \in {"sampling", "pausing"}
      BY <2>2 DEF Bursting
    <3>3. \A b \in Orders \ {c} : handler'[b] = handler[b]
      BY <1>0, <2>1
    <3>4. c \notin Bursting /\ handler'[c] = "over" /\ sampled[c] = 0 /\ cutAt[c] = NotCut
      BY <1>0, <2>1 DEF Bursting, DispatchInv, BurstsEnd
    <3>5. ASSUME NEW d \in Orders
          PROVE  /\ handler'[d] # "over" => tries[d] < Retries
                 /\ handler'[d] \notin {"sampling", "pausing", "over"} =>
                      sampled[d] = 0 /\ cutAt'[d] = NotCut
                 /\ handler'[d] = "over" =>
                      /\ cutAt'[d] # NotCut => sampled[d] <= cutAt'[d] + 1
                      /\ sampled[d] > 0 /\ cutAt'[d] = NotCut => sampled[d] = Total
      <4>1. CASE d = c
        BY <3>1, <3>4, <4>1
      <4>2. CASE d \in Bursting
        BY <3>2, <3>3, <3>4, <4>2 DEF DispatchInv, BurstsEnd
      <4>3. CASE d # c /\ d \notin Bursting
        BY <3>1, <3>3, <4>3 DEF DispatchInv, BurstsEnd
      <4> QED
        BY <4>1, <4>2, <4>3
    <3> QED
      BY <2>1, <3>5 DEF BurstsEnd, NotCut
  <2> QED
    BY <2>3, <2>4, <2>5 DEF DispatchInv
<1>4. ASSUME NEW c \in Orders, Samples(c) \/ NextTick(c)
      PROVE  DispatchInv'
  <2>1. c \in Bursting
    BY <1>4 DEF Samples, NextTick, Bursting
  <2>2. Bursting = {c} /\ running /\ sampled[c] < Total
        /\ (cancelled <=> cutAt[c] # NotCut) /\ (cutAt[c] # NotCut => sampled[c] = cutAt[c])
    BY <2>1 DEF DispatchInv, OneBurst
  <2>3. PICK n \in {0, 1}, s \in {"sampling", "pausing", "over"} :
          /\ sampled' = [sampled EXCEPT ![c] = @ + n]
          /\ handler' = [handler EXCEPT ![c] = s]
          /\ s = "over" => cancelled \/ sampled'[c] = Total
          /\ s # "over" => /\ ~cancelled /\ sampled'[c] # Total
                           /\ UNCHANGED <<running, cancelled>>
          /\ running' \in BOOLEAN /\ cancelled' \in BOOLEAN /\ owed' \subseteq Orders
          /\ UNCHANGED <<linked, tries, cutAt>>
    <3>1. CASE Samples(c)
      <4>1. sampled' = [sampled EXCEPT ![c] = @ + 1]
        BY <3>1 DEF Samples
      <4>2. CASE sampled'[c] = Total \/ cancelled
        BY <1>0, <3>1, <4>1, <4>2 DEF Samples, BurstOver, HasAnswered, To
      <4>3. CASE ~(sampled'[c] = Total \/ cancelled)
        BY <1>0, <3>1, <4>1, <4>3 DEF Samples, To
      <4> QED
        BY <4>2, <4>3
    <3>2. CASE NextTick(c)
      <4>1. sampled' = [sampled EXCEPT ![c] = @ + 0]
        BY <1>0, <3>2 DEF NextTick
      <4>2. CASE cancelled
        BY <1>0, <3>2, <4>1, <4>2 DEF NextTick, BurstOver, HasAnswered, To
      <4>3. CASE ~cancelled
        BY <1>0, <2>2, <3>2, <4>1, <4>3 DEF NextTick, To
      <4> QED
        BY <4>2, <4>3
    <3> QED
      BY <1>4, <3>1, <3>2
  <2>4. /\ handler' \in [Orders -> HandlerStages] /\ handler'[c] = s
        /\ \A d \in Orders \ {c} : handler'[d] = handler[d] /\ sampled'[d] = sampled[d]
        /\ sampled'[c] = sampled[c] + n /\ sampled' \in [Orders -> 0..Total]
    BY <1>0, <2>2, <2>3 DEF HandlerStages
  <2>5. DispatchTypeOK'
    BY <2>3, <2>4 DEF DispatchInv, DispatchTypeOK, HandlerStages, NotCut
  <2>6. Bursting' = IF s = "over" THEN {} ELSE {c}
    BY <2>2, <2>3, <2>4 DEF Bursting
  <2>7. OneBurst'
    <3>1. CASE s = "over"
      BY <2>6, <3>1 DEF OneBurst
    <3>2. CASE s # "over"
      <4>1. ~cancelled' /\ running' /\ cutAt'[c] = NotCut
        BY <2>2, <2>3, <3>2
      <4>2. sampled'[c] < Total
        BY <1>0, <2>3, <2>4, <3>2
      <4> QED
        BY <2>6, <3>2, <4>1, <4>2 DEF OneBurst, NotCut
    <3> QED
      BY <3>1, <3>2
  <2>8. BurstsEnd'
    <3>1. ASSUME NEW d \in Orders
          PROVE  /\ handler'[d] # "over" => tries[d] < Retries
                 /\ handler'[d] \notin {"sampling", "pausing", "over"} =>
                      sampled'[d] = 0 /\ cutAt[d] = NotCut
                 /\ handler'[d] = "over" =>
                      /\ cutAt[d] # NotCut => sampled'[d] <= cutAt[d] + 1
                      /\ sampled'[d] > 0 /\ cutAt[d] = NotCut => sampled'[d] = Total
      <4>1. CASE d = c
        <5>1. handler[c] # "over" => tries[c] < Retries
          BY DEF DispatchInv, BurstsEnd
        <5>2. handler[c] # "over"
          BY <2>1 DEF Bursting
        <5> QED
          BY <1>0, <2>2, <2>3, <2>4, <4>1, <5>1, <5>2
      <4>2. CASE d # c
        BY <2>4, <4>2 DEF DispatchInv, BurstsEnd
      <4> QED
        BY <4>1, <4>2
    <3> QED
      BY <2>3, <3>1 DEF BurstsEnd, NotCut
  <2> QED
    BY <2>5, <2>7, <2>8 DEF DispatchInv
<1>5. CASE LinkDrops \/ LinkBack \/ UNCHANGED dispatchVars
  <2>1. linked' \in BOOLEAN /\ owed' \subseteq Orders /\ UNCHANGED <<handler, tries, burstVars>>
    BY <1>0, <1>5 DEF LinkDrops, LinkBack, dispatchVars
  <2> QED
    BY <2>1 DEF DispatchInv, DispatchTypeOK, OneBurst, BurstsEnd, Bursting, burstVars, NotCut
<1>6. CASE AgentEnds
  <2>1. /\ handler' = [c \in Orders |-> IF handler[c] = "none" THEN "none" ELSE "over"]
        /\ cutAt' = [b \in Orders |-> IF b \in Bursting THEN sampled[b] ELSE cutAt[b]]
        /\ linked' = FALSE /\ owed' = {} /\ running' = FALSE /\ cancelled' = FALSE
        /\ UNCHANGED <<tries, sampled>>
    BY <1>6 DEF AgentEnds
  <2>2. Bursting' = {}
    BY <2>1 DEF Bursting
  <2>3. cutAt' \in [Orders -> 0..NotCut] /\ handler' \in [Orders -> HandlerStages]
    BY <1>0, <2>1 DEF HandlerStages
  <2>4. ASSUME NEW d \in Orders
        PROVE  /\ handler'[d] # "over" => tries[d] < Retries
               /\ handler'[d] \notin {"sampling", "pausing", "over"} =>
                    sampled[d] = 0 /\ cutAt'[d] = NotCut
               /\ handler'[d] = "over" =>
                    /\ cutAt'[d] # NotCut => sampled[d] <= cutAt'[d] + 1
                    /\ sampled[d] > 0 /\ cutAt'[d] = NotCut => sampled[d] = Total
    <3>1. CASE d \in Bursting
      BY <1>0, <2>1, <3>1 DEF DispatchInv, OneBurst, Bursting
    <3>2. CASE d \notin Bursting
      BY <1>0, <2>1, <3>2 DEF DispatchInv, BurstsEnd, Bursting
    <3> QED
      BY <3>1, <3>2
  <2> QED
    BY <2>1, <2>2, <2>3, <2>4
       DEF DispatchInv, DispatchTypeOK, OneBurst, BurstsEnd, HandlerStages, NotCut
<1> QED
  BY <1>1, <1>2, <1>3, <1>4, <1>5, <1>6 DEF DispatchNext, HandlerStep

(* Whatever is asked of it and in whatever order, the agent runs one burst   *)
(* at a time; a stop that met it lets the sample under way be the last; and  *)
(* a burst nobody stopped is complete (src/probes/burst.js, dispatchCommand  *)
(* of src/runtime.js).                                                       *)
THEOREM BurstsStop == DispatchSpec => []StopStops
<1>1. DispatchInit => DispatchInv
  BY DispatchInitHolds, DispatchAssumption
<1>2. DispatchInv /\ [DispatchNext]_dispatchVars => DispatchInv'
  BY DispatchStep, DispatchAssumption
<1>3. DispatchInv => StopStops
  <2> SUFFICES ASSUME DispatchInv
               PROVE  StopStops
    OBVIOUS
  <2>1. Cardinality(Bursting) <= 1
    <3>1. CASE Bursting = {}
      BY <3>1, FS_EmptySet
    <3>2. CASE Bursting # {}
      <4>1. PICK c \in Bursting : Bursting = {c}
        BY <3>2 DEF DispatchInv, OneBurst
      <4> QED
        BY <4>1, FS_Singleton
    <3> QED
      BY <3>1, <3>2
  <2>2. ASSUME NEW c \in Orders
        PROVE  /\ cutAt[c] # NotCut => sampled[c] <= cutAt[c] + 1
               /\ sampled[c] > 0 /\ handler[c] = "over" /\ cutAt[c] = NotCut
                    => sampled[c] = Total
    <3>0. sampled[c] \in 0..Total /\ cutAt[c] \in 0..NotCut
      BY DEF DispatchInv, DispatchTypeOK
    <3>1. CASE c \in Bursting
      BY <3>0, <3>1 DEF DispatchInv, OneBurst, Bursting
    <3>2. CASE c \notin Bursting
      BY <3>0, <3>2 DEF DispatchInv, BurstsEnd, Bursting
    <3> QED
      BY <3>1, <3>2
  <2> QED
    BY <2>1, <2>2 DEF DispatchInv, StopStops
<1> QED
  BY <1>1, <1>2, <1>3, PTL DEF DispatchSpec

-----------------------------------------------------------------------------
(* The live channel of the rewrite.                                          *)

(* A write needs a connection: Run serves one, and only a connection there    *)
(* has been can have greeted.                                                 *)
HasConn ==
  /\ runAt = "serve" => conn \in Conns
  /\ \A c \in Conns : greeting[c] # "none" => conn \in Conns
GoLinkInv == GoLinkTypeOK /\ HasConn

(* What a step makes of the channel the rest of the agent sees.               *)
ChannelMoves == [GoChannel!Next]_(GoChannel!vars)

LEMMA GoLinkInitHolds ==
  ASSUME GoLinkInit
  PROVE  GoLinkInv /\ GoChannel!Init
<1> USE GoLinkAssumption
<1>1. GoLinkTypeOK
  <2>1. unacked \subseteq Conns /\ asked \subseteq Conns
    BY DEF GoLinkInit
  <2>2. wire \in [Conns -> {"none", "open", "gone", "dead"}]
    BY DEF GoLinkInit
  <2>3. beat \in [Conns -> {"none", "on", "cancelled"}]
    BY DEF GoLinkInit
  <2>4. greeting \in [Conns -> {"none", "capabilities", "config", "request"}]
    BY DEF GoLinkInit
  <2>5. attempt \in 0..MaxDelay
    BY DEF GoLinkInit
  <2> QED
    BY <2>1, <2>2, <2>3, <2>4, <2>5 DEF GoLinkInit, GoLinkTypeOK
<1>2. HasConn
  BY DEF GoLinkInit, HasConn
<1>3. GoChannel!Init
  BY DEF GoLinkInit, GoChannel!Init
<1> QED
  BY <1>1, <1>2, <1>3 DEF GoLinkInv

LEMMA GoLinkStep ==
  ASSUME GoLinkInv, [GoLinkNext]_goLinkVars
  PROVE  GoLinkInv' /\ ChannelMoves
<1> USE GoLinkAssumption DEF GoLinkInv, GoLinkTypeOK, HasConn, wireVars
<1> DEFINE Goal == GoLinkInv' /\ ChannelMoves
<1>1. CASE DialOpens
  BY <1>1 DEF DialOpens, Unheld, Lives, ChannelMoves, GoChannel!Next, GoChannel!Opened,
     GoChannel!vars
<1>2. CASE Dial401
  BY <1>2 DEF Dial401, GivesUp, Lives, ChannelMoves, GoChannel!Next, GoChannel!Refused,
     GoChannel!vars
<1>3. CASE DialRefused
  BY <1>3 DEF DialRefused, BacksOff, Lives, ChannelMoves, GoChannel!Next,
     GoChannel!Halted, GoChannel!vars
<1>4. CASE DelayOver
  BY <1>4 DEF DelayOver, Lives, ChannelMoves, GoChannel!Next, GoChannel!Halted,
     GoChannel!vars
<1>5. CASE ReadEnds
  BY <1>5 DEF ReadEnds, BacksOff, Lives, ChannelMoves, GoChannel!Next,
     GoChannel!Halted, GoChannel!Dropped, GoChannel!vars
<1>6. CASE MainReturns
  BY <1>6 DEF MainReturns, ChannelMoves, GoChannel!Next, GoChannel!Halted,
     GoChannel!vars
<1>7. CASE Greeted
  BY <1>7 DEF Greeted, ChannelMoves, GoChannel!vars
<1>8. ASSUME NEW c \in Conns, Heartbeat(c) PROVE Goal
  BY <1>8 DEF Heartbeat, Beats, WrittenTo, ChannelMoves, GoChannel!vars
<1>9. ASSUME NEW c \in Conns, HeartbeatEnds(c) PROVE Goal
  BY <1>9 DEF HeartbeatEnds, ChannelMoves, GoChannel!vars
<1>10. ASSUME NEW c \in Conns, CallOver(c) PROVE Goal
  BY <1>10 DEF CallOver, Onwards, ChannelMoves, GoChannel!vars
<1>11. ASSUME NEW c \in Conns, Requests(c) PROVE Goal
  BY <1>11 DEF Requests, WrittenTo, ChannelMoves, GoChannel!vars
<1>12. ASSUME NEW c \in Conns, PeerCloses(c) \/ PeerGone(c) \/ GivenUp(c) PROVE Goal
  BY <1>12 DEF PeerCloses, PeerGone, GivenUp, ChannelMoves, GoChannel!vars
<1>13. CASE MainRuns \/ Signalled
  BY <1>13 DEF MainRuns, Signalled, ChannelMoves, GoChannel!vars
<1>14. CASE UNCHANGED goLinkVars
  BY <1>14 DEF goLinkVars, ChannelMoves, GoChannel!vars
<1> QED
  BY <1>1, <1>2, <1>3, <1>4, <1>5, <1>6, <1>7, <1>8, <1>9, <1>10, <1>11, <1>12,
     <1>13, <1>14 DEF GoLinkNext

(* The rewrite keeps the promise of the channel it replaces: a 401 halts it,  *)
(* nothing but that and the end of the process does, and nothing revives it   *)
(* (Run of internal/wsclient/wsclient.go, internal/backoff/backoff.go).       *)
THEOREM RewriteIsAChannel == GoLinkSpec => GoImplementsChannel
<1>1. GoLinkInit => GoLinkInv /\ GoChannel!Init
  BY GoLinkInitHolds, GoLinkAssumption
<1>2. GoLinkInv /\ [GoLinkNext]_goLinkVars => GoLinkInv' /\ ChannelMoves
  BY GoLinkStep, GoLinkAssumption
<1>3. GoLinkInv => GoLinkTypeOK
  BY DEF GoLinkInv
<1> QED
  BY <1>1, <1>2, <1>3, PTL DEF GoLinkSpec, GoImplementsChannel, GoChannel!Spec,
     ChannelMoves
=============================================================================
