------------------------------- MODULE PathMtu -------------------------------
(***************************************************************************)
(* The path MTU probe (src/probes/pathmtu.js): which size still gets         *)
(* through to the target, and to each hop, and why no larger one does.       *)
(*                                                                         *)
(* The path is a row of links.  The first is this host's own interface; at   *)
(* any other a packet that is too large is dropped by the router before it,  *)
(* which says so or does not, and does or does not name the size it takes.   *)
(* A step is one ping.  Any answer from the path may be lost.  Not modelled: *)
(* the argument lists, the wording of ping's output, the trace that lists    *)
(* the hops, the MSS reading, the limits on what an operator asks for.       *)
(***************************************************************************)
EXTENDS Naturals, Sequences, FiniteSets, FiniteSetsExt, SequencesExt

CONSTANTS
  Links,          (* how many links there are; the target is behind the last *)
  MinSize, MaxSize,
  ProbesPerSize,
  MaxLosses,      (* bound: answers that are lost                            *)
  Paths           (* the paths looked at                                    *)

ASSUME MtuAssumption ==
  /\ Links \in Nat \ {0} /\ MinSize \in Nat \ {0} /\ MaxSize \in Nat /\ MinSize <= MaxSize
  /\ ProbesPerSize \in Nat \ {0} /\ MaxLosses \in Nat

(* Every link carries some size; nothing is said of which tell and answer.   *)
ASSUME PathsAssumption ==
  \A p \in Paths : p.mtu \in [1..Links -> Nat] /\ p.names \in BOOLEAN /\ p.listed \in Nat

Sizes == MinSize..MaxSize
Unnamed == 0
Whole == 0           (* the point measured without a limit on the hops       *)
Unknown == 0         (* max_mtu: null                                        *)

VARIABLES
  path,     (* mtu, and which links tell, and whether they name their size;   *)
            (* which hops answer; how many hops the trace listed             *)
  point,    (* what is measured: the whole path or the hops up to one        *)
  stage,    (* of measure: control, top, bisect; or over, or failed          *)
  size, tries,  (* the size tried, and its earlier tries                     *)
  good, bad,    (* a size that passed, and a larger one that did not         *)
  seen,     (* of this measurement: frag, drop, local, reached               *)
  ceiling, inherited,
  whole,    (* the measurement of the whole path                             *)
  hops,     (* what is reported of each hop                                  *)
  lost      (* bound                                                        *)

searchVars == <<stage, size, tries, good, bad, seen>>
hopVars == <<point, ceiling, inherited, whole, hops>>
mtuVars == <<path, searchVars, hopVars, lost>>

NothingSeen == [frag |-> FALSE, drop |-> FALSE, local |-> FALSE, reached |-> FALSE]
NotMeasured == [silent |-> TRUE, mtu |-> Unknown, frag |-> FALSE, drop |-> FALSE,
                local |-> FALSE, reached |-> FALSE]

MtuInit ==
  /\ path \in Paths
  /\ point = Whole /\ stage = "control" /\ size = MinSize /\ tries = 0
  /\ good = MinSize /\ bad = MaxSize
  /\ seen = NothingSeen
  /\ ceiling = MaxSize /\ inherited = "ok"
  /\ whole = NotMeasured /\ hops = <<>> /\ lost = 0

-----------------------------------------------------------------------------
(* The network: what becomes of a packet of s bytes towards a point.         *)
CrossedTo(p) == 1..(IF p = Whole \/ p > Links THEN Links ELSE p)
TooNarrow(p, s) == {i \in CrossedTo(p) : path.mtu[i] < s}
Reply(o, m) == [outcome |-> o, mtu |-> m]
Silence == Reply("timeout", Unnamed)

Answer(p, s) ==
  IF TooNarrow(p, s) # {}
  THEN LET i == Min(TooNarrow(p, s))
           named == IF path.names THEN path.mtu[i] ELSE Unnamed
       IN  IF i = 1 THEN Reply("local_error", named)
           ELSE IF i \in path.tells THEN Reply("frag_needed", named) ELSE Silence
  ELSE LET h == Max(CrossedTo(p)) IN
       IF h \notin path.answers THEN Silence
       ELSE Reply(IF h = Links THEN "reply" ELSE "ttl_exceeded", Unnamed)

Passes(o) == o \in {"reply", "ttl_exceeded"}

-----------------------------------------------------------------------------
(* measure has an answer for its point.                                      *)
Highest == Max({MinSize, Min({ceiling, MaxSize})})
Found(m, s) == [silent |-> FALSE, mtu |-> m, frag |-> s.frag, drop |-> s.drop,
                local |-> s.local, reached |-> s.reached]

(* Why a hop carries what it carries: the restriction is new, or it has the  *)
(* verdict of the hop before it.                                            *)
Status(m) ==
  IF m.mtu < ceiling THEN (IF m.drop /\ ~m.frag THEN "blackhole" ELSE "reduced")
  ELSE inherited

HopOf(m) ==
  IF m.silent THEN [hop |-> point, mtu |-> Unknown, status |-> "no_response"]
  ELSE [hop |-> point, mtu |-> m.mtu, status |-> Status(m)]

ToStage(p, next) ==
  /\ point' = p /\ stage' = next
  /\ size' = MinSize /\ tries' = 0 /\ seen' = NothingSeen
  /\ good' = MinSize /\ bad' = MaxSize

(* The next hop of the trace is measured, or the budget of time is spent and *)
(* what is left is skipped, or it is over.                                   *)
Skipped(p) == [i \in 1..(path.listed - p + 1) |->
                 [hop |-> p + i - 1, mtu |-> Unknown, status |-> "skipped"]]
GoesOn(p, done) ==
  \/ /\ p <= path.listed
     /\ ToStage(p, "control") /\ hops' = done
  \/ ToStage(point, "over") /\ hops' = done \o (IF p <= path.listed THEN Skipped(p) ELSE <<>>)

Measured(m) ==
  IF point = Whole
  THEN /\ whole' = m
       /\ ceiling' = IF m.local /\ ~m.silent THEN m.mtu ELSE MaxSize
       /\ GoesOn(1, <<>>) /\ UNCHANGED inherited
  ELSE /\ IF m.silent THEN UNCHANGED <<ceiling, inherited>>
                      ELSE ceiling' = m.mtu /\ inherited' = Status(m)
       /\ IF m.reached THEN ToStage(point, "over") /\ hops' = Append(hops, HopOf(m))
                       ELSE GoesOn(point + 1, Append(hops, HopOf(m)))
       /\ UNCHANGED whole

(* The search goes on with a size, or it is over.                            *)
Tries(what, lo, hi, n, s) ==
  /\ stage' = what /\ size' = n /\ tries' = 0 /\ good' = lo /\ bad' = hi /\ seen' = s
  /\ UNCHANGED hopVars
Bisects(lo, hi, s) ==
  IF hi - lo <= 1 THEN Measured(Found(lo, s)) ELSE Tries("bisect", lo, hi, (lo + hi) \div 2, s)

(* The control probe decides whether this point can be measured at all.      *)
ControlDone(a, s) ==
  /\ stage = "control"
  /\ IF ~Passes(a.outcome) THEN Measured([NotMeasured EXCEPT !.frag = s.frag])
     ELSE LET t == [s EXCEPT !.reached = (a.outcome = "reply")] IN
            IF Highest = MinSize THEN Measured(Found(MinSize, t))
            ELSE Tries("top", MinSize, Highest, Highest, t)

(* A router that named its size is believed, within the window searched.     *)
TopDone(a, s) ==
  /\ stage = "top"
  /\ CASE Passes(a.outcome) -> Measured(Found(size, s))
       [] ~Passes(a.outcome) /\ MinSize < a.mtu /\ a.mtu < size -> Measured(Found(a.mtu, s))
       [] OTHER -> Bisects(MinSize, size, s)

BisectDone(a, s) ==
  /\ stage = "bisect"
  /\ IF Passes(a.outcome) THEN Bisects(size, bad, s) ELSE Bisects(good, size, s)

(* What a probe of one size adds to what the measurement has seen; the       *)
(* control probe is not asked for silence or a local refusal.                *)
SeenWith(a) ==
  [seen EXCEPT !.frag = @ \/ a.outcome = "frag_needed",
               !.drop = @ \/ (stage # "control" /\ a.outcome = "timeout"),
               !.local = @ \/ (stage # "control" /\ a.outcome = "local_error")]

(* Mutant: a size that got no answer is not tried again.                     *)
OneTry == 1
Tried == ProbesPerSize

(* One ping.  Only silence is tried again.                                   *)
Pinged(a) ==
  IF a.outcome = "timeout" /\ tries + 1 < Tried
  THEN tries' = tries + 1 /\ UNCHANGED <<stage, size, good, bad, seen, hopVars>>
  ELSE LET s == SeenWith(a) IN ControlDone(a, s) \/ TopDone(a, s) \/ BisectDone(a, s)

Pings ==
  /\ stage \in {"control", "top", "bisect"}
  /\ Pinged(Answer(point, size))
  /\ UNCHANGED <<path, lost>>

AnswerLost ==
  /\ stage \in {"control", "top", "bisect"} /\ lost < MaxLosses
  /\ Answer(point, size).outcome \notin {"local_error", "timeout"}
  /\ Pinged(Silence)
  /\ lost' = lost + 1 /\ UNCHANGED path

(* ping is missing, refuses to run or cannot keep a packet whole: no report  *)
(* of the path is made.                                                     *)
ToolRefuses ==
  /\ stage # "over" /\ point = Whole
  /\ ToStage(point, "failed")
  /\ UNCHANGED <<path, ceiling, inherited, whole, hops, lost>>

MtuNext == Pings \/ AnswerLost \/ ToolRefuses

MtuSpec == MtuInit /\ [][MtuNext]_mtuVars

-----------------------------------------------------------------------------
(* The report.                                                              *)
Carried == {h \in ToSet(hops) : h.mtu # Unknown}
ReportedBlackhole ==
  \/ \E h \in Carried : h.status = "blackhole"
  \/ ~whole.silent /\ whole.mtu < MaxSize /\ ~whole.frag /\ whole.drop /\ ~whole.local

EffectiveMax == IF whole.local /\ whole.mtu # Unknown THEN whole.mtu ELSE MaxSize
Before(h) == {g \in Carried : g.hop < h.hop}
DropAt == {h \in Carried : /\ h.mtu < Min({EffectiveMax} \cup {g.mtu : g \in Before(h)})
                           /\ \A g \in Before(h) : g.mtu >= EffectiveMax}

-----------------------------------------------------------------------------
MtuTypeOK ==
  /\ point \in 0..path.listed /\ stage \in {"control", "top", "bisect", "over", "failed"}
  /\ size \in Sizes /\ good \in Sizes /\ bad \in Sizes /\ tries \in 0..ProbesPerSize
  /\ ceiling \in Sizes /\ inherited \in {"ok", "reduced", "blackhole"}
  /\ lost \in 0..MaxLosses

Steady == stage = "over" /\ lost < ProbesPerSize
Narrowest(p) == Min({path.mtu[i] : i \in CrossedTo(p)} \cup {MaxSize})
Narrows == {i \in 1..Links : path.mtu[i] < Min({path.mtu[j] : j \in 1..(i - 1)} \cup {MaxSize})}
Silent == Narrows \ (path.tells \cup {1})

(* What is found for a hop is what the links up to it carry (and no more     *)
(* than the whole path did, when this host's own interface refused a size):  *)
(* lost answers, hops that do not answer and a spent budget of time change   *)
(* which hops are measured, never what is found; and where every hop was     *)
(* measured, the path is said to narrow where it first does.  Not so where a *)
(* router named a size and a link behind it is narrower still: that size is  *)
(* believed (though it is said to be "the largest packet that survives").    *)
HopsAreRight ==
  Steady /\ (path.names => Cardinality(Narrows) <= 1) =>
    /\ \A h \in Carried : h.mtu = Min({Narrowest(h.hop), EffectiveMax})
    /\ ~whole.local /\ {h.hop : h \in Carried} = 1..Links
         => {h.hop : h \in DropAt} = (IF Narrows = {} THEN {} ELSE {Min(Narrows)})

(* A blackhole is reported only where a link drops large packets silently:   *)
(* loss, silence, a narrow interface of this host and a router that tells    *)
(* are never read as one.  And where there is one it is reported, if every   *)
(* hop was measured and none of the sizes was refused by this host.          *)
BlackholeIsReal ==
  /\ Steady /\ ReportedBlackhole => Silent # {}
  /\ Steady /\ Silent # {} /\ ~whole.local /\ {h.hop : h \in Carried} = 1..Links
       => ReportedBlackhole

(* What the report says of the path, hop by hop and as a whole.              *)
PathVerdicts == MtuTypeOK /\ HopsAreRight /\ BlackholeIsReal
=============================================================================
