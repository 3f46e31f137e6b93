----------------------------- MODULE DeviceEvents -----------------------------
(***************************************************************************)
(* Device events: the syslog receiver (src/syslog/receiver.js), the SNMP     *)
(* trap receiver (src/traps/receiver.js) and the flush they share            *)
(* (src/runtime.js, flushDeviceEvents).  Both receivers are one machine:     *)
(* admission, a token bucket per sender, folding into a bounded buffer,      *)
(* drain; TCP streams exist for syslog only.                                 *)
(*                                                                           *)
(* A key is what foldKey keeps of a row beside its sender.  The list of      *)
(* accepted senders may change between any two lines: a sender that some     *)
(* list vouches for is accepted or not, any other never is.                  *)
(*                                                                           *)
(* Not modelled: parsing, masking and decoding (a line that passes admission *)
(* becomes a row or is counted as unusable), fractions of tokens, the pause  *)
(* on a 401 (the flush goes on), stop(), which the process does not survive. *)
(***************************************************************************)
EXTENDS Naturals, FiniteSets, FiniteSetsExt

CONSTANTS
  Syslog, Traps, (* the two receivers                                         *)
  Senders,
  Keys,          (* fold keys                                                 *)
  MaxEvents,     (* maxEvents of a receiver                                   *)
  Burst,         (* burst: tokens of a full bucket                            *)
  MaxBuckets,    (* 1024: senders whose rate is tracked                       *)
  MaxLines       (* bound: lines and connections offered                      *)

Receivers == {Syslog, Traps}
Rows      == Senders \X Keys

ASSUME EventsAssumption ==
  /\ Syslog # Traps
  /\ IsFiniteSet(Senders) /\ IsFiniteSet(Keys)
  /\ MaxEvents \in Nat /\ Burst \in Nat \ {0} /\ MaxBuckets \in Nat
  /\ MaxLines \in Nat

VARIABLES
  enabled,   (* config.syslogEnabled, config.trapsEnabled                     *)
  bound,     (* what start() of each receiver came to                         *)
  timers,    (* flush timers running                                          *)
  fatal,
  vouched,   (* the senders that are on the list at some time                 *)
  bucket,    (* per receiver: the senders tracked and their tokens            *)
  buffer,    (* per receiver: the occurrences of each row, 0 if not held      *)
  count,     (* per receiver: the counters of stats()                         *)
  offered,   (* history: lines ingested and connections refused               *)
  conn,      (* per sender: its TCP connection to the syslog receiver         *)
  pending,   (* per sender: what of its stream is held, see below             *)
  begun, fed,    (* history: lines begun over TCP, lines TCP handed on        *)
  cut,       (* history: lines lost with an oversized data event              *)
  batch,     (* occurrences in the batch being posted; 0 if no flush runs     *)
  gone       (* history: occurrences in batches that were answered            *)

intake    == <<bucket, buffer, count, offered>>
streams   == <<conn, pending, begun, fed, cut>>
shipment  == <<batch, gone>>
setup     == <<enabled, bound, timers, fatal, vouched>>
vars == <<setup, intake, streams, shipment>>

Outcomes == {"received", "dropped", "unusable", "overflowed", "refused"}
NoRows == [x \in Rows |-> 0]

Init ==
  /\ enabled \in (SUBSET Receivers) \ {{}}
  /\ bound = [r \in Receivers |-> "off"]
  /\ timers = 0
  /\ fatal = FALSE
  /\ vouched \in SUBSET Senders
  /\ bucket = [r \in Receivers |-> << >>]
  /\ buffer = [r \in Receivers |-> NoRows]
  /\ count = [r \in Receivers |-> [o \in Outcomes |-> 0]]
  /\ offered = 0
  /\ conn = [s \in Senders |-> "none"]
  /\ pending = [s \in Senders |-> "empty"]
  /\ begun = 0 /\ fed = 0 /\ cut = 0
  /\ batch = 0 /\ gone = 0

Held(r)  == {x \in Rows : buffer[r][x] > 0}
Total(f) == MapThenSumSet(LAMBDA x : f[x], DOMAIN f)
AllBuffered == Total(buffer[Syslog]) + Total(buffer[Traps])

-----------------------------------------------------------------------------
(* ingestLine, ingestDatagram.                                               *)

Tracked(r) == DOMAIN bucket[r]

(* buckets.size < 1024                                                       *)
TracksMore(r) == Cardinality(Tracked(r)) < MaxBuckets

(* allow(): the bucket after a line of sender s, and whether it passes.      *)
HasToken(r, s) == s \in Tracked(r) => bucket[r][s] > 0

TokenTaken(r, s) ==
  LET tokens == bucket[r]
  IN  [bucket EXCEPT ![r] =
         IF s \in Tracked(r) THEN [tokens EXCEPT ![s] = tokens[s] - 1]
         ELSE IF TracksMore(r)
              THEN [t \in Tracked(r) \cup {s} |-> IF t = s THEN Burst - 1 ELSE tokens[t]]
              ELSE tokens]

Counts(r, o) == count' = [count EXCEPT ![r][o] = @ + 1]

(* buffer.size < maxEvents                                                   *)
HasRoom(r) == Cardinality(Held(r)) < MaxEvents

(* A row is folded into the one held, buffered, or over the bound.           *)
Buffers(r, x) ==
  IF x \in Held(r) \/ HasRoom(r)
  THEN buffer' = [buffer EXCEPT ![r][x] = @ + 1] /\ Counts(r, "received")
  ELSE UNCHANGED buffer /\ Counts(r, "overflowed")

(* isAllowedSender and isKnownSender, at this moment.                        *)
Accepts(s) == IF s \in vouched THEN BOOLEAN ELSE {FALSE}

(* The allowlist first, then the bucket, then the row.                       *)
Ingests(r, s) ==
  /\ offered < MaxLines
  /\ offered' = offered + 1
  /\ \E ok \in Accepts(s) :
     IF ~ok THEN Counts(r, "refused") /\ UNCHANGED <<bucket, buffer>>
     ELSE IF ~HasToken(r, s)
     THEN Counts(r, "dropped") /\ UNCHANGED <<bucket, buffer>>
     ELSE /\ bucket' = TokenTaken(r, s)
          /\ \/ Counts(r, "unusable") /\ UNCHANGED buffer
             \/ \E k \in Keys : Buffers(r, <<s, k>>)

Datagram(r, s) ==
  /\ bound[r] = "bound"
  /\ Ingests(r, s)
  /\ UNCHANGED <<setup, streams, shipment>>

(* Time passes: a token for every tracked sender.                            *)
Refill ==
  /\ bucket' = [r \in Receivers |->
       [s \in Tracked(r) |-> IF bucket[r][s] < Burst THEN bucket[r][s] + 1
                                                     ELSE Burst]]
  /\ UNCHANGED <<setup, buffer, count, offered, streams, shipment>>

-----------------------------------------------------------------------------
(* TCP streams.  A data event of a few lines and the start of the next is as  *)
(* many events of one each.  What is held of a stream is nothing, a line that *)
(* has begun ("line"), nothing in the middle of a line whose start was thrown *)
(* away ("torn"), or the rest of such a line ("rest").                       *)

Others == <<setup, shipment>>

TcpConnects(s) ==
  /\ bound[Syslog] = "bound" /\ conn[s] = "none"
  /\ \/ /\ TRUE \in Accepts(s)
        /\ conn' = [conn EXCEPT ![s] = "open"] /\ UNCHANGED <<count, offered>>
     \/ /\ FALSE \in Accepts(s)
        /\ offered < MaxLines /\ offered' = offered + 1
        /\ Counts(Syslog, "refused") /\ UNCHANGED conn
  /\ UNCHANGED <<Others, bucket, buffer, pending, begun, fed, cut>>

Holds(s, what) == pending' = [pending EXCEPT ![s] = what]

TcpLineBegins(s) ==
  /\ conn[s] = "open" /\ pending[s] = "empty"
  /\ begun < MaxLines
  /\ Holds(s, "line") /\ begun' = begun + 1
  /\ UNCHANGED <<Others, intake, conn, fed, cut>>

(* What follows in the middle of a line is taken for a line, unless it is    *)
(* blank.                                                                   *)
TcpRestArrives(s) ==
  /\ conn[s] = "open" /\ pending[s] = "torn"
  /\ Holds(s, "rest") \/ Holds(s, "empty")
  /\ UNCHANGED <<Others, intake, conn, begun, fed, cut>>

(* What is held is handed on; a rest is no line of its sender's.             *)
HandsOn(s) ==
  /\ Ingests(Syslog, s)
  /\ fed' = IF pending[s] = "line" THEN fed + 1 ELSE fed

TcpLineEnds(s) ==
  /\ conn[s] = "open" /\ pending[s] \in {"line", "rest"}
  /\ HandsOn(s) /\ Holds(s, "empty")
  /\ UNCHANGED <<Others, conn, begun, cut>>

(* A data event that brings what is held over MAX_LINE_BYTES * 8, with n more *)
(* lines begun in it.  The length is looked at before the lines are: the     *)
(* first 2048 characters are one line, and the rest is gone, whole lines and *)
(* the start of one that has not ended.                                      *)
TcpOversized(s) ==
  \E n \in 0..(MaxLines - begun) :
    /\ conn[s] = "open" /\ (pending[s] = "empty" => n > 0)
    /\ Ingests(Syslog, s)
    /\ begun' = begun + n
    /\ IF pending[s] \in {"torn", "rest"}
       THEN cut' = cut + n /\ UNCHANGED fed
       ELSE /\ fed' = fed + 1
            /\ cut' = IF pending[s] = "line" THEN cut + n ELSE cut + n - 1
    /\ Holds(s, "empty") \/ Holds(s, "torn")
    /\ UNCHANGED <<Others, conn>>

(* pending = ''                                                              *)
RestCleared(s) == [pending EXCEPT ![s] = "empty"]

(* done(), at 'end' and again at 'close'; an 'error' is followed by a close. *)
Done(s, to) ==
  /\ conn' = [conn EXCEPT ![s] = to]
  /\ IF pending[s] \in {"line", "rest"} THEN HandsOn(s)
                                      ELSE UNCHANGED <<intake, fed>>
  /\ pending' = RestCleared(s)
  /\ UNCHANGED <<Others, begun, cut>>

TcpEnds(s)   == conn[s] = "open" /\ Done(s, "ended")
TcpCloses(s) == conn[s] \in {"open", "ended"} /\ Done(s, "none")

-----------------------------------------------------------------------------
(* The runtime.                                                              *)

(* startDeviceEventFlush                                                     *)
FlushTimers == IF timers > 0 \/ fatal THEN timers ELSE 1

(* Mutant: only the syslog receiver starts the flush.                        *)
StartsWithSyslog(r, b) ==
  /\ bound' = [bound EXCEPT ![r] = b]
  /\ timers' = IF b = "bound" /\ r = Syslog THEN FlushTimers ELSE timers

(* A receiver that binds starts the shared flush.                            *)
Binds(r, b) ==
  /\ bound' = [bound EXCEPT ![r] = b]
  /\ timers' = IF b = "bound" THEN FlushTimers ELSE timers

(* startSyslog, then startTraps.                                             *)
StartReceiver(r) ==
  /\ r \in enabled /\ bound[r] = "off" /\ ~fatal
  /\ r = Traps /\ Syslog \in enabled => bound[Syslog] # "off"
  /\ \E b \in {"bound", "failed"} : Binds(r, b)
  /\ UNCHANGED <<enabled, fatal, vouched, intake, streams, shipment>>

(* Mutant: the buffers are read and not replaced.                            *)
ReadOnly == buffer

(* buffer = new Map()                                                        *)
Emptied == [r \in Receivers |-> NoRows]

(* A tick that finds no flush running drains both receivers into one batch.  *)
Flush ==
  /\ timers > 0 /\ ~fatal /\ batch = 0
  /\ \E r \in Receivers : Held(r) # {}
  /\ batch' = AllBuffered
  /\ buffer' = Emptied
  /\ UNCHANGED <<setup, bucket, count, offered, streams, gone>>

(* The post is answered or times out.  Whatever came of it, the batch is not *)
(* put back; a 401 may be terminal.                                          *)
FlushAnswered ==
  /\ batch > 0 /\ batch' = 0
  /\ gone' = gone + batch
  /\ fatal' \in {fatal, TRUE}
  /\ UNCHANGED <<enabled, bound, timers, vouched, intake, streams>>

(* handleFatal, after a 401 on another call.  The flush timer and the sockets *)
(* are left as they are.                                                     *)
RejectedElsewhere ==
  /\ ~fatal /\ fatal' = TRUE
  /\ UNCHANGED <<enabled, bound, timers, vouched, intake, streams, shipment>>

Next ==
  \/ \E r \in Receivers : \/ StartReceiver(r)
                          \/ \E s \in Senders : Datagram(r, s)
  \/ \E s \in Senders : \/ TcpConnects(s) \/ TcpLineBegins(s) \/ TcpRestArrives(s)
                        \/ TcpLineEnds(s) \/ TcpOversized(s) \/ TcpEnds(s) \/ TcpCloses(s)
  \/ Refill \/ Flush \/ FlushAnswered \/ RejectedElsewhere

(* The flush timer fires and a post is answered or times out.                *)
Fairness == WF_vars(Flush) /\ WF_vars(FlushAnswered)

Spec == Init /\ [][Next]_vars
FairSpec == Spec /\ Fairness

-----------------------------------------------------------------------------
TypeOK ==
  /\ enabled \subseteq Receivers
  /\ bound \in [Receivers -> {"off", "bound", "failed"}]
  /\ timers \in 0..1 /\ fatal \in BOOLEAN
  /\ vouched \subseteq Senders
  /\ \A r \in Receivers : /\ Tracked(r) \subseteq Senders
                          /\ bucket[r] \in [Tracked(r) -> 0..Burst]
  /\ buffer \in [Receivers -> [Rows -> 0..MaxLines]]
  /\ count \in [Receivers -> [Outcomes -> 0..MaxLines]]
  /\ {offered, begun, fed, cut, batch, gone} \subseteq 0..MaxLines
  /\ conn \in [Senders -> {"none", "open", "ended"}]
  /\ pending \in [Senders -> {"empty", "line", "torn", "rest"}]

(* "This process never becomes the outage": neither the rows held nor the    *)
(* senders tracked exceed their bounds, however many shout.                  *)
MemoryBounded ==
  \A r \in Receivers : /\ Cardinality(Held(r)) <= MaxEvents
                       /\ Cardinality(Tracked(r)) <= MaxBuckets

(* "Where do the device events stop?" is answerable of all that is handed on *)
(* as a line, and of every refusal: it is counted, under one heading, once.  *)
EveryLineCounted == offered = Total(count[Syslog]) + Total(count[Traps])

(* An occurrence that was received is shipped at most once: it is in one     *)
(* buffer, in the batch being posted or in one that was answered, however    *)
(* lines, folds and flushes interleave.                                      *)
ShippedOnce ==
  count[Syslog]["received"] + count[Traps]["received"] = AllBuffered + batch + gone

(* A line that began over TCP is handed on once, when its end arrives or     *)
(* with the end of the stream, which is reported twice; or it was cut with   *)
(* an oversized data event, and then no counter knows of it.                 *)
StreamLineOnce ==
  begun = fed + cut + Cardinality({s \in Senders : pending[s] = "line"})

(* From the first byte of a line to the batch that carried it nothing is     *)
(* reported twice, nothing that was handed on disappears unseen, and of a    *)
(* TCP stream nothing is lost but what an oversized data event cuts, in      *)
(* bounded memory.                                                          *)
Accounted == TypeOK /\ MemoryBounded /\ EveryLineCounted /\ ShippedOnce /\ StreamLineOnce

(* "An agent with both syslog and traps runs one timer, not two" and "a      *)
(* trap-only agent" is flushed as well: what is buffered leaves the buffer,  *)
(* unless the agent stops for good.                                          *)
EventsLeave ==
  []~fatal => \A r \in Receivers : (Held(r) # {}) ~> (Held(r) = {})
=============================================================================
