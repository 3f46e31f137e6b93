---------------------------- MODULE FlowTemplates ----------------------------
(***************************************************************************)
(* NetFlow v9 and IPFIX (src/netflow/collector.js, parseTemplated.js):      *)
(* exporters announce the layout of their records in templates and then     *)
(* send records without it, both over UDP, which loses and reorders.  The   *)
(* collector remembers one layout per version, source id and template id,   *)
(* whoever sent it, and buffers what it could read until the next drain.    *)
(*                                                                         *)
(* One template id; a record is the layout it was written in and the one it *)
(* was read with.  Not modelled: version 5, which has no templates, and the *)
(* fields of a record.                                                     *)
(***************************************************************************)
EXTENDS Naturals, Sequences, FiniteSets, SequencesExt

CONSTANTS
  Exporters,
  SourceOf,    (* the source id, or observation domain, each one sends       *)
  Layouts, Unknown,
  MaxFlows,    (* maxFlows                                                   *)
  MaxWire      (* bound: datagrams on their way at the same time             *)

ASSUME TemplatesAssumption ==
  /\ DOMAIN SourceOf = Exporters
  /\ Unknown \notin Layouts
  /\ MaxFlows \in Nat /\ MaxWire \in Nat

VARIABLES
  layout,     (* of each exporter's records                                  *)
  wire,       (* datagrams on their way                                      *)
  templates,  (* the cache                                                   *)
  flows       (* buffer                                                      *)

templateVars == <<layout, wire, templates, flows>>

(* Mutant: the template id alone.                                           *)
AnySource(e) == "256"
(* version:sourceId:templateId                                              *)
KeyOf(e) == SourceOf[e]
CacheKeys == {KeyOf(e) : e \in Exporters}

(* What a datagram holds: a FlowSet of templates, of records, or both.       *)
Contents == {<<"template">>, <<"data">>, <<"template", "data">>, <<"data", "template">>}

TemplatesInit ==
  /\ layout \in [Exporters -> Layouts]
  /\ wire = {}
  /\ templates = [k \in CacheKeys |-> Unknown]
  /\ flows = << >>

(* The exporters and the network.                                           *)
Sends(e, sets) ==
  /\ Cardinality(wire) < MaxWire
  /\ wire' = wire \cup {[from |-> e, sets |-> sets, layout |-> layout[e]]}
  /\ UNCHANGED <<layout, templates, flows>>

Redefines(e, l) ==
  /\ l # layout[e]
  /\ layout' = [layout EXCEPT ![e] = l]
  /\ UNCHANGED <<wire, templates, flows>>

Lost(d) ==
  /\ wire' = wire \ {d}
  /\ UNCHANGED <<layout, templates, flows>>

-----------------------------------------------------------------------------
(* parseTemplated: the FlowSets in order, up to the first malformed one.     *)
Learned(cache, d, i) ==
  IF d.sets[i] = "template" THEN [cache EXCEPT ![KeyOf(d.from)] = d.layout] ELSE cache

CacheAfter(d, n) ==
  FoldLeft(LAMBDA c, i : Learned(c, d, i), templates, [i \in 1..n |-> i])

(* The records of set i are read with what is cached by then, or skipped.    *)
ReadWith(d, i) == CacheAfter(d, i)[KeyOf(d.from)]
Decoded(d, n) ==
  LET data == SelectSeq([i \in 1..n |-> i],
                LAMBDA i : d.sets[i] = "data" /\ ReadWith(d, i) # Unknown)
  IN  [k \in DOMAIN data |->
         [from |-> d.from, written |-> d.layout, read |-> ReadWith(d, data[k])]]

(* handlePacket: memory is capped, what is over the cap is not kept.         *)
Buffered(new) ==
  LET free == MaxFlows - Len(flows)
  IN  flows \o SubSeq(new, 1, IF free < Len(new) THEN free ELSE Len(new))

Arrives(d) ==
  /\ wire' = wire \ {d}
  /\ \E n \in 0..Len(d.sets) :
       /\ templates' = CacheAfter(d, n)
       /\ flows' = Buffered(Decoded(d, n))
  /\ UNCHANGED layout

(* drain()                                                                  *)
DrainsFlows ==
  /\ flows' = << >>
  /\ UNCHANGED <<layout, wire, templates>>

TemplatesNext ==
  \/ \E e \in Exporters :
       \/ \E sets \in Contents : Sends(e, sets)
       \/ \E l \in Layouts : Redefines(e, l)
  \/ \E d \in wire : Lost(d) \/ Arrives(d)
  \/ DrainsFlows

(* The reporting timer drains again and again.                              *)
TemplatesFair == WF_templateVars(DrainsFlows)

TemplatesSpec == TemplatesInit /\ [][TemplatesNext]_templateVars /\ TemplatesFair

-----------------------------------------------------------------------------
TemplatesTypeOK ==
  /\ layout \in [Exporters -> Layouts]
  /\ wire \subseteq [from : Exporters, sets : Contents, layout : Layouts]
  /\ templates \in [CacheKeys -> Layouts \cup {Unknown}]
  /\ flows \in Seq([from : Exporters, written : Layouts, read : Layouts])
  /\ Len(flows) <= MaxFlows

(* Two exporters with the same version, source id and template id share one  *)
(* entry of the cache: the address they send from is not part of it.         *)
Alone(e) == \A o \in Exporters \ {e} : SourceOf[o] # SourceOf[e]

(* A template that has reached the collector, as its exporter uses it now.   *)
Announced(e) ==
  \E d \in wire : /\ d.from = e /\ d.layout = layout[e] /\ d.sets = <<"template">>
                  /\ Arrives(d) /\ templates'[KeyOf(e)] = layout[e]

(* Records are misread only for a while: an exporter that no other shares    *)
(* its ids with, that keeps its layout and whose templates keep arriving, is *)
(* in the end read as it writes, whatever was lost, overtaken or announced   *)
(* by others.                                                                *)
ReadsSettle ==
  /\ []TemplatesTypeOK
  /\ \A e \in Exporters : Alone(e) =>
       ((/\ <>[][\A l \in Layouts : ~Redefines(e, l)]_templateVars
         /\ []<><<Announced(e)>>_templateVars)
        => <>[](\A i \in DOMAIN flows :
                  flows[i].from = e => flows[i].read = flows[i].written))
=============================================================================
